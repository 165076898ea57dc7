-------------------------------- MODULE Refund --------------------------------
(***************************************************************************)
(* Refunds of ONE order from the administration.  A request checks the     *)
(* amount against the refunds in twint_reversal_history, asks TWINT to     *)
(* reverse it, writes a row, and answers with the transition that the      *)
(* browser then makes of the order's transaction in a request of its own.  *)
(* Several administrators may be at it; nothing locks the order.           *)
(***************************************************************************)
EXTENDS Integers, FiniteSets

CONSTANTS
    Admins,    \* administrators, each with one request at a time
    Amount,    \* the amount of the pairing
    EmptySum,  \* getTotalReversal for an order without rows: 0, or -1 if
               \* Shopware's sum of nothing is null
    MaxFaults  \* bound on crashes, lost answers and failed writes

ASSUME AmountAssumption == Amount \in Nat \ {0}
ASSUME EmptySumAssumption == EmptySum \in {-1, 0}
ASSUME FaultsAssumption == MaxFaults \in Nat

VARIABLES
    tx,       \* state of the order's last transaction, which TWINT's payment made paid
    retried,  \* the order has an earlier, cancelled transaction
    twint,    \* the reversals TWINT has made
    history,  \* the rows of twint_reversal_history
    refs,     \* the indexes in the references of the reversals made
    doubled,  \* reversals made under an index used before
    pc,       \* what an administrator's request does next
    want,     \* the amount it asks for
    seen,     \* the state of the first transaction when the order was read
    index,    \* the index of its reversal
    action,   \* the transition in its answer
    met,      \* two requests have been at the server at once
    faults

local == <<pc, want, seen, index, action>>
shop == <<tx, retried, history>>
bank == <<twint, refs, doubled>>
vars == <<shop, bank, local, met, faults>>

Nothing == [count |-> 0, sum |-> 0]
Plus(log, a) == [count |-> log.count + 1, sum |-> log.sum + a]

\* PaymentService::getTotalReversal.
Total == IF history.count = 0 THEN EmptySum ELSE history.sum

\* The part of reverseOrder that limits the amount.
Limited(a) == IF a > Amount THEN Amount ELSE a

-----------------------------------------------------------------------------
Init ==
    /\ tx = "paid"
    /\ retried \in BOOLEAN
    /\ twint = Nothing
    /\ history = Nothing
    /\ refs = {}
    /\ doubled = 0
    /\ pc = [a \in Admins |-> "idle"]
    /\ want = [a \in Admins |-> 0]
    /\ seen = [a \in Admins |-> "none"]
    /\ index = [a \in Admins |-> 0]
    /\ action = [a \in Admins |-> "none"]
    /\ met = FALSE
    /\ faults = 0

Goto(a, label) == pc' = [pc EXCEPT ![a] = label] /\ UNCHANGED <<want, seen, index, action>>

Done(a) ==
    /\ pc' = [pc EXCEPT ![a] = "idle"]
    /\ want' = [want EXCEPT ![a] = 0]
    /\ seen' = [seen EXCEPT ![a] = "none"]
    /\ index' = [index EXCEPT ![a] = 0]
    /\ action' = [action EXCEPT ![a] = "none"]

\* TwintController::refund gets an amount and reads the order.  The state it
\* will go by is that of the order's first transaction.
Request(a, amount) ==
    /\ pc[a] = "idle"
    /\ pc' = [pc EXCEPT ![a] = "check"]
    /\ want' = [want EXCEPT ![a] = amount]
    /\ seen' = [seen EXCEPT ![a] = IF retried THEN "cancelled" ELSE tx]
    /\ met' = (met \/ \E b \in Admins : pc[b] \notin {"idle", "browser"})
    /\ UNCHANGED <<shop, bank, index, action, faults>>

\* The check against what can still be refunded.
Refundable_Order == Amount
Refundable == Amount - Total

Check(a) ==
    /\ pc[a] = "check"
    /\ IF want[a] > Refundable THEN Done(a) ELSE Goto(a, "index")
    /\ UNCHANGED <<shop, bank, met, faults>>

\* getReversalIndex: the next number after the rows there are.
ReadIndex(a) ==
    /\ pc[a] = "index"
    /\ index' = [index EXCEPT ![a] = history.count + 1]
    /\ pc' = [pc EXCEPT ![a] = "call"]
    /\ UNCHANGED <<shop, bank, want, seen, action, met, faults>>

\* reverseOrder at TWINT, which gives back no more than it has taken.
Reversed(a) ==
    /\ twint.sum + Limited(want[a]) <= Amount
    /\ twint' = Plus(twint, Limited(want[a]))
    /\ refs' = refs \cup {index[a]}
    /\ doubled' = IF index[a] \in refs THEN doubled + 1 ELSE doubled

AfterSuccess_NoRow == "next"
AfterSuccess == "write"

Call(a) ==
    /\ pc[a] = "call"
    /\ \/ Reversed(a) /\ Goto(a, AfterSuccess)
       \/ Done(a) /\ UNCHANGED bank
    /\ UNCHANGED <<shop, met, faults>>

\* ReversalHistoryDatabaseWriter::write, with the amount TWINT answered.
Recorded(a) == Limited(want[a])

WriteRow(a) ==
    /\ pc[a] = "write"
    /\ history' = Plus(history, Recorded(a))
    /\ Goto(a, "next")
    /\ UNCHANGED <<tx, retried, bank, met, faults>>

\* PaymentService::getNextAction, with the order as it was read first.
NextAction_Own(a) ==
    IF want[a] = Amount /\ seen[a] # "refunded" THEN "refund"
    ELSE IF seen[a] # "refunded_partially" THEN "refund_partially" ELSE "none"
NextAction(a) ==
    IF Total = Amount /\ seen[a] # "refunded" THEN "refund"
    ELSE IF seen[a] # "refunded_partially" THEN "refund_partially" ELSE "none"

Answer(a) ==
    /\ pc[a] = "next"
    /\ action' = [action EXCEPT ![a] = NextAction(a)]
    /\ pc' = [pc EXCEPT ![a] = "browser"]
    /\ UNCHANGED <<shop, bank, want, seen, index, met, faults>>

\* What Shopware's state machine makes of a transition: one to the state the
\* transaction is in changes nothing, one it does not have is an error.
AfterTransition(act) ==
    CASE act = "refund" -> "refunded"
      [] act = "refund_partially" /\ tx = "paid" -> "refunded_partially"
      [] OTHER -> tx

\* updatePaymentStatus in the browser, on the order's last transaction.
Transition(a) ==
    /\ pc[a] = "browser"
    /\ tx' = AfterTransition(action[a])
    /\ Done(a)
    /\ UNCHANGED <<retried, history, bank, met, faults>>

\* The request or the page ends where it is, TWINT's answer is lost after the
\* reversal was made, or the error of a row that could not be written is
\* swallowed by the writer.
Fault(a) ==
    /\ pc[a] # "idle"
    /\ faults < MaxFaults
    /\ faults' = faults + 1
    /\ \/ Done(a) /\ UNCHANGED bank
       \/ pc[a] = "call" /\ Reversed(a) /\ Done(a)
       \/ pc[a] = "write" /\ Goto(a, "next") /\ UNCHANGED bank
    /\ UNCHANGED <<shop, met>>

-----------------------------------------------------------------------------
Next ==
    \E a \in Admins :
        \/ \E amount \in 1..(Amount + 1) : Request(a, amount)
        \/ Check(a) \/ ReadIndex(a) \/ Call(a) \/ WriteRow(a)
        \/ Answer(a) \/ Transition(a) \/ Fault(a)

Spec == Init /\ [][Next]_vars

-----------------------------------------------------------------------------
TxStates == {"paid", "refunded_partially", "refunded"}
Log == [count : Nat, sum : 0..Amount]

TypeOK ==
    /\ tx \in TxStates
    /\ retried \in BOOLEAN
    /\ twint \in Log
    /\ history \in Log
    /\ refs \subseteq Nat \ {0}
    /\ doubled \in Nat
    /\ pc \in [Admins -> {"idle", "check", "index", "call", "write", "next", "browser"}]
    /\ want \in [Admins -> 0..(Amount + 1)]
    /\ seen \in [Admins -> {"none", "cancelled"} \cup TxStates]
    /\ index \in [Admins -> Nat]
    /\ action \in [Admins -> {"none", "refund", "refund_partially"}]
    /\ met \in BOOLEAN
    /\ faults \in 0..MaxFaults

\* The history has a row for every reversal TWINT made, and for nothing else,
\* but for those about to be written; only a fault loses one.
Writing == {a \in Admins : pc[a] = "write"}

HistoryIsComplete ==
    /\ history.count <= twint.count /\ history.sum <= twint.sum
    /\ twint.count <= history.count + Cardinality(Writing) + faults

\* An order that is shown as refunded has been refunded to the last cent.
\* Without faults, whoever was faster, and though each answer goes by the
\* order as it was read before: when all are done, the state of the
\* transaction says how much was given back.
StateTellsRefunds ==
    /\ tx = "refunded" => twint.sum = Amount
    /\ faults = 0 /\ (\A a \in Admins : pc[a] = "idle") =>
          tx = CASE twint.sum = 0 -> "paid"
                 [] twint.sum = Amount -> "refunded"
                 [] OTHER -> "refunded_partially"

\* "The refund amount cannot exceed the order amount" (messages.en-GB.json:52):
\* TWINT is not asked for more than is left of it.
AskedWithinLimit ==
    faults = 0 => \A a \in Admins : pc[a] = "call" => twint.sum + Limited(want[a]) <= Amount

\* It holds as long as one refund is over before the next one begins, be the
\* sum of no rows 0 or null; and then each refund has a reference of its own
\* at TWINT, unless the row of an earlier one was lost.
ReferencesDiffer == doubled <= faults
AskedOneByOne == ~met => AskedWithinLimit /\ ReferencesDiffer
=============================================================================
