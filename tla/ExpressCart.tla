------------------------------ MODULE ExpressCart ------------------------------
(***************************************************************************)
(* The carts of express checkout.                                          *)
(*                                                                         *)
(* A check-in works on a clone of the customer's cart, so that what the    *)
(* customer does to the cart meanwhile has no say in the order.  A process *)
(* that finds the customer's data in a check-in orders the clone in a      *)
(* context made for this customer, and, once TWINT has the money, deletes  *)
(* the cart the clone was made from.  The processes keep the context of a  *)
(* sales channel from one check-in to the next.                            *)
(*                                                                         *)
(* That a check-in is handled by one process only is OrderedOnce of        *)
(* ExpressCheckout, and taken from there.                                  *)
(***************************************************************************)
EXTENDS FiniteSets, Naturals

CONSTANTS
    Customers,  \* sessions of the storefront, each with its cart
    CheckIns,   \* check-ins they begin
    Units,      \* single units of products
    Procs,      \* processes of the worker and poll commands
    MaxFaults   \* bound on exceptions and ends of processes

CONSTANT None

ASSUME NoneAssumption == None \notin Customers \cup CheckIns \cup Units
ASSUME BoundsAssumption == MaxFaults \in Nat

VARIABLES
    shelf,    \* the units in nobody's hands yet
    cart,     \* the customers' own carts
    of,       \* the customer who began a check-in
    product,  \* what it was begun for on the page of a product
    stage,    \* how far it is
    clone,    \* the units of its cart
    pc,       \* what a process does next
    on,       \* with which check-in
    context,  \* ContextFactory::$contexts: whose the cached context is
    order,    \* the order made of a check-in
    paid,     \* the check-ins TWINT has the money of
    faults,
    bought,   \* history: units of orders placed by the regular checkout,
    lost,     \*   deleted with a cart though the check-in had not ordered them,
    late,     \*   put into a cart while a check-in of the customer ran,
    met       \*   customers with two orders under way at the same time

carts == <<shelf, cart>>
checkin == <<of, product, stage, clone>>
process == <<pc, on, context>>
history == <<bought, lost, late, met>>
vars == <<carts, checkin, process, order, paid, faults, history>>

NoOrder == [items |-> {}, by |-> None]

Handled(k) == \E p \in Procs : on[p] = k
Running(k) == stage[k] \in {"open", "agreed"} \/ Handled(k)
RunningOf(c) == {k \in CheckIns : of[k] = c /\ Running(k)}

Init ==
    /\ shelf = Units
    /\ cart = [c \in Customers |-> {}]
    /\ of = [k \in CheckIns |-> None]
    /\ product = [k \in CheckIns |-> None]
    /\ stage = [k \in CheckIns |-> "none"]
    /\ clone = [k \in CheckIns |-> {}]
    /\ pc = [p \in Procs |-> "idle"]
    /\ on = [p \in Procs |-> None]
    /\ context = [p \in Procs |-> None]
    /\ order = [k \in CheckIns |-> NoOrder]
    /\ paid = {}
    /\ faults = 0
    /\ bought = {} /\ lost = {} /\ late = {} /\ met = {}

-----------------------------------------------------------------------------
(***************************************************************************)
(* The customer and the shop's own cart.                                   *)
(***************************************************************************)
Put(c, u) ==
    /\ u \in shelf
    /\ shelf' = shelf \ {u}
    /\ cart' = [cart EXCEPT ![c] = @ \cup {u}]
    /\ late' = IF RunningOf(c) = {} THEN late ELSE late \cup {u}
    /\ UNCHANGED <<checkin, process, order, paid, faults, bought, lost, met>>

Remove(c, u) ==
    /\ u \in cart[c]
    /\ cart' = [cart EXCEPT ![c] = @ \ {u}]
    /\ UNCHANGED <<shelf, checkin, process, order, paid, faults, history>>

\* The regular checkout: Shopware orders the cart and deletes it.
OrderRegularly(c) ==
    /\ cart[c] # {}
    /\ bought' = bought \cup cart[c]
    /\ cart' = [cart EXCEPT ![c] = {}]
    /\ met' = IF RunningOf(c) = {} THEN met ELSE met \cup {c}
    /\ UNCHANGED <<shelf, checkin, process, order, paid, faults, lost, late>>

-----------------------------------------------------------------------------
(***************************************************************************)
(* The express button.  From the page of a product it begins a check-in    *)
(* only if nothing is in the cart; else the product is put into the cart   *)
(* and the customer clicks the button there.                               *)
(***************************************************************************)
ExpressCheckout(c, k, u) ==
    /\ stage[k] = "none"
    /\ u # None => u \in shelf /\ cart[c] = {}
    /\ of' = [of EXCEPT ![k] = c]
    /\ product' = [product EXCEPT ![k] = u]
    /\ shelf' = shelf \ {u}
    /\ stage' = [stage EXCEPT ![k] = "asked"]
    /\ UNCHANGED <<cart, clone, process, order, paid, faults, history>>

\* The units of the clone, for a check-in with the customer's cart or with a
\* product of its own.
Cloned_ProductOnly(k) == IF product[k] = None THEN cart[of[k]] ELSE {product[k]}
Cloned(k) == cart[of[k]] \cup ({product[k]} \ {None})

\* pairing(): the cart is read once more and cloned, the check-in begun.
Pairing(k) ==
    /\ stage[k] = "asked"
    /\ clone' = [clone EXCEPT ![k] = Cloned(k)]
    /\ stage' = [stage EXCEPT ![k] = "open"]
    /\ met' = IF RunningOf(of[k]) = {} THEN met ELSE met \cup {of[k]}
    /\ UNCHANGED <<carts, of, product, process, order, paid, faults, bought, lost, late>>

\* In the TWINT app: the customer's data arrive, or the check-in ends.
Agree(k) ==
    /\ stage[k] = "open"
    /\ stage' = [stage EXCEPT ![k] = "agreed"]
    /\ UNCHANGED <<carts, of, product, clone, process, order, paid, faults, history>>

\* The check-in is cancelled by the customer, who closes the modal, by TWINT or
\* at the timeout, also while a process has begun with the order: it goes on.
End(k) ==
    /\ stage[k] \in {"open", "agreed", "handled"}
    /\ stage' = [stage EXCEPT ![k] = "ended"]
    /\ UNCHANGED <<carts, of, product, clone, process, order, paid, faults, history>>

-----------------------------------------------------------------------------
(***************************************************************************)
(* OnPaidHandler::handle.                                                  *)
(***************************************************************************)
Goto(p, label) == pc' = [pc EXCEPT ![p] = label]
Rest(p) == Goto(p, "idle") /\ on' = [on EXCEPT ![p] = None]

\* createContext replaces the context that getContext gives from then on.
Entered_Cached(p, c) == IF context[p] = None THEN c ELSE context[p]
Entered(p, c) == c

\* The customer of the check-in is registered, and a context made.
Enter(p, k) ==
    /\ pc[p] = "idle"
    /\ stage[k] = "agreed"
    /\ stage' = [stage EXCEPT ![k] = "handled"]
    /\ on' = [on EXCEPT ![p] = k]
    /\ context' = [context EXCEPT ![p] = Entered(p, of[k])]
    /\ Goto(p, "place")
    /\ UNCHANGED <<carts, of, product, clone, order, paid, faults, history>>

\* The clone is ordered; Shopware makes no order of an empty cart.
PlaceOrder(p) ==
    /\ pc[p] = "place"
    /\ LET k == on[p]
       IN  \/ /\ clone[k] # {}
              /\ order' = [order EXCEPT ![k] = [items |-> clone[k], by |-> context[p]]]
              /\ Goto(p, "wait")
              /\ UNCHANGED <<on, stage>>
           \/ /\ clone[k] = {}
              /\ Rest(p)
              /\ stage' = [stage EXCEPT ![k] = "failed"]
              /\ UNCHANGED order
    /\ UNCHANGED <<carts, of, product, clone, context, paid, faults, history>>

\* refreshTwintTransactionStatusUntilDone.
UntilDone(p) ==
    /\ pc[p] = "wait"
    /\ LET k == on[p]
       IN  \/ /\ paid' = paid \cup {k}
              /\ Goto(p, "clean")
              /\ UNCHANGED <<on, stage>>
           \/ /\ Rest(p)
              /\ stage' = [stage EXCEPT ![k] = "failed"]
              /\ UNCHANGED paid
    /\ UNCHANGED <<carts, of, product, clone, context, order, faults, history>>

\* cleanUpCurrentCart deletes the cart the clone was made from.
Kept_Cart(c) == cart[c]
Kept(c) == {}

CleanUp(p) ==
    /\ pc[p] = "clean"
    /\ LET k == on[p]
           c == of[k]
       IN  /\ cart' = [cart EXCEPT ![c] = Kept(c)]
           /\ lost' = lost \cup (cart[c] \ (order[k].items \cup Kept(c)))
           /\ stage' = [stage EXCEPT ![k] = "done"]
    /\ Rest(p)
    /\ UNCHANGED <<shelf, of, product, clone, context, order, paid, faults, bought,
                   late, met>>

\* An exception, after which the check-in has failed, or the end of the process.
Fault(p) ==
    /\ pc[p] # "idle"
    /\ faults < MaxFaults
    /\ faults' = faults + 1
    /\ Rest(p)
    /\ \/ stage' = [stage EXCEPT ![on[p]] = "failed"] /\ UNCHANGED context
       \/ context' = [context EXCEPT ![p] = None] /\ UNCHANGED stage
    /\ UNCHANGED <<carts, of, product, clone, order, paid, history>>

-----------------------------------------------------------------------------
Customer(c) ==
    \/ \E u \in Units : Put(c, u) \/ Remove(c, u)
    \/ OrderRegularly(c)
    \/ \E k \in CheckIns, u \in Units \cup {None} : ExpressCheckout(c, k, u)

CheckIn(k) == Pairing(k) \/ Agree(k) \/ End(k)

Process(p) ==
    \/ \E k \in CheckIns : Enter(p, k)
    \/ PlaceOrder(p) \/ UntilDone(p) \/ CleanUp(p) \/ Fault(p)

Next ==
    \/ \E c \in Customers : Customer(c)
    \/ \E k \in CheckIns : CheckIn(k)
    \/ \E p \in Procs : Process(p)

Spec == Init /\ [][Next]_vars

-----------------------------------------------------------------------------
Stages == {"none", "asked", "open", "agreed", "handled", "done", "failed", "ended"}

TypeOK ==
    /\ shelf \subseteq Units
    /\ cart \in [Customers -> SUBSET Units]
    /\ of \in [CheckIns -> Customers \cup {None}]
    /\ product \in [CheckIns -> Units \cup {None}]
    /\ stage \in [CheckIns -> Stages]
    /\ clone \in [CheckIns -> SUBSET Units]
    /\ pc \in [Procs -> {"idle", "place", "wait", "clean"}]
    /\ on \in [Procs -> CheckIns \cup {None}]
    /\ context \in [Procs -> Customers \cup {None}]
    /\ order \in [CheckIns -> [items : SUBSET Units, by : Customers \cup {None}]]
    /\ paid \subseteq CheckIns
    /\ faults \in 0..MaxFaults
    /\ UNION {bought, lost, late} \subseteq Units
    /\ met \subseteq Customers

\* The cart is deleted with what is in it by then.  A unit that nobody has
\* ordered goes with it only if the customer put it there while a check-in ran.
LostWasLate == lost \subseteq late

\* TWINT has the money, and nobody is left to delete the cart.
Abandoned(k) == k \in paid /\ stage[k] # "done" /\ ~Handled(k)

\* A unit is paid for in two check-ins, or in one and in the regular checkout,
\* only if the one was begun while the other ran, or a fault has come between
\* the payment and the deletion of the cart: else the cart is gone before the
\* customer can begin again.
OrderedTwiceIsMet ==
    \A k \in paid : of[k] \notin met /\ ~Abandoned(k) =>
        /\ clone[k] \cap bought = {}
        /\ \A j \in paid \ {k} : clone[k] \cap clone[j] # {} => Abandoned(j)

\* The order of a check-in is that of its own customer, whosever context the
\* process had before.
OrderIsTheCustomers ==
    \A k \in CheckIns : order[k] # NoOrder => order[k].by = of[k]
=============================================================================
