---------------------------- MODULE OrderPayment ----------------------------
(***************************************************************************)
(* What regular checkout promises about the payment of an order, with no   *)
(* word on rows, versions and processes.                                   *)
(*                                                                         *)
(* TWINT decides every attempt to pay once.  The shop learns a decision    *)
(* once, owes it to the order from then on, and applies it at most once:   *)
(* to have the transaction paid or cancelled takes a decision that says    *)
(* so.  A decision may be lost, and Shopware may refuse the transition.    *)
(***************************************************************************)
CONSTANT Attempts

VARIABLES
    result,  \* TWINT's decision on each attempt
    due,     \* what the shop has made of it
    tx       \* state of the order's payment transaction

pvars == <<result, due, tx>>

Decisions == {"success", "failure"}

Init ==
    /\ result = [a \in Attempts |-> "none"]
    /\ due = [a \in Attempts |-> "no"]
    /\ tx = "open"

Begin(a) ==
    /\ result[a] = "none"
    /\ result' = [result EXCEPT ![a] = "pending"]
    /\ UNCHANGED <<due, tx>>

Decide(a) ==
    /\ result[a] = "pending"
    /\ \E d \in Decisions : result' = [result EXCEPT ![a] = d]
    /\ UNCHANGED <<due, tx>>

Learn(a) ==
    /\ result[a] \in Decisions
    /\ due[a] = "no"
    /\ due' = [due EXCEPT ![a] = "owed"]
    /\ UNCHANGED <<result, tx>>

Apply(a) ==
    /\ due[a] = "owed"
    /\ due' = [due EXCEPT ![a] = "applied"]
    /\ tx' \in {tx, IF result[a] = "success" THEN "paid" ELSE "cancelled"}
    /\ UNCHANGED result

Lose(a) ==
    /\ due[a] = "owed"
    /\ due' = [due EXCEPT ![a] = "lost"]
    /\ UNCHANGED <<result, tx>>

\* The customer pays, pays again, or a payment breaks off.
Shop ==
    /\ tx' \in {"open", "in_progress", "failed"}
    /\ UNCHANGED <<result, due>>

Next ==
    \/ Shop
    \/ \E a \in Attempts : Begin(a) \/ Decide(a) \/ Learn(a) \/ Apply(a) \/ Lose(a)

Spec == Init /\ [][Next]_pvars
=============================================================================
