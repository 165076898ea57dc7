--------------------------- MODULE ExpressCartProofs ---------------------------
(***************************************************************************)
(* Proofs about ExpressCart, for any number of customers, check-ins, units *)
(* and processes.                                                          *)
(*                                                                         *)
(* A unit of a product goes one way: from the shelf into one customer's    *)
(* hands, and from there into clones and orders of this customer only      *)
(* (OneWay).  While a check-in is handled, what its customer's cart has    *)
(* beyond the clone came late (CloneIsCart).  A check-in counts while it   *)
(* runs and when it is done; two that count, of a customer who never had   *)
(* two orders under way, share nothing (CountedOnce).                      *)
(***************************************************************************)
EXTENDS ExpressCart, TLAPS

Begun(k) == stage[k] \notin {"none", "asked"}

\* A process is at work on a check-in of its own, in the context of its
\* customer.
AtWork ==
    /\ \A p \in Procs : pc[p] = "idle" <=> on[p] = None
    /\ \A p \in Procs : pc[p] # "idle" => on[p] \in CheckIns /\ Begun(on[p])
    /\ \A p, q \in Procs : pc[p] # "idle" /\ on[p] = on[q] => p = q
    /\ \A p \in Procs : pc[p] # "idle" => stage[on[p]] \notin {"open", "agreed", "done"}
    /\ \A p \in Procs : pc[p] = "place" => context[p] = of[on[p]]
    /\ \A p \in Procs : pc[p] \in {"wait", "clean"} => order[on[p]].items = clone[on[p]]

\* What is known of a check-in by its stage.
CheckInOK ==
    \A k \in CheckIns :
        /\ stage[k] # "none" => of[k] \in Customers
        /\ stage[k] = "none" => product[k] = None
        /\ ~Begun(k) => clone[k] = {} /\ order[k] = NoOrder /\ k \notin paid
        /\ order[k] # NoOrder => order[k].by = of[k]

\* A unit has one customer, and what was bought is in no cart any more.
OneWay ==
    /\ \A c \in Customers : shelf \cap cart[c] = {} /\ bought \cap cart[c] = {}
    /\ shelf \cap bought = {}
    /\ \A c, d \in Customers : c # d => cart[c] \cap cart[d] = {}
    /\ \A k \in CheckIns : shelf \cap clone[k] = {} /\ product[k] \notin shelf
    /\ \A k \in CheckIns, c \in Customers : of[k] # c => clone[k] \cap cart[c] = {}
    /\ \A k, j \in CheckIns : of[k] # of[j] => clone[k] \cap clone[j] = {}

\* The product of a check-in that has no clone yet is nowhere else.
Reserved ==
    \A k \in CheckIns : stage[k] = "asked" /\ product[k] # None =>
        /\ product[k] \notin bought
        /\ \A c \in Customers : product[k] \notin cart[c]
        /\ \A j \in CheckIns : product[k] \notin clone[j] /\ (product[j] = product[k] => j = k)

CloneIsCart == \A k \in CheckIns : Running(k) => cart[of[k]] \subseteq clone[k] \cup late

\* A check-in that runs, or has come to its end with the cart deleted.
Counts(k) == Running(k) \/ stage[k] = "done"

CountedOnce ==
    /\ \A k \in CheckIns : stage[k] = "done" => clone[k] \cap cart[of[k]] = {}
    /\ \A k \in CheckIns : Counts(k) /\ of[k] \notin met => clone[k] \cap bought = {}
    /\ \A k, j \in CheckIns : Counts(k) /\ Counts(j) /\ k # j /\ of[k] = of[j] /\ of[k] \notin met =>
          clone[k] \cap clone[j] = {}

IInv == TypeOK /\ AtWork /\ CheckInOK /\ OneWay /\ Reserved /\ CloneIsCart /\ CountedOnce
           /\ LostWasLate
-----------------------------------------------------------------------------
LEMMA InitHolds == Init => IInv
  BY NoneAssumption, BoundsAssumption
  DEF Init, IInv, TypeOK, Stages, AtWork, CheckInOK, Begun, OneWay, Reserved, CloneIsCart, Running,
       Handled, CountedOnce, Counts, LostWasLate, NoOrder

LEMMA TypesKeep ==
    ASSUME TypeOK, AtWork, CheckInOK, Next
    PROVE  TypeOK'
<1> USE NoneAssumption, BoundsAssumption
   DEF TypeOK, AtWork, Stages, carts, checkin, process, history
<1>1. ASSUME NEW c \in Customers, NEW u \in Units, Put(c, u) PROVE TypeOK'
  BY <1>1 DEF Put
<1>2. ASSUME NEW c \in Customers, NEW u \in Units, Remove(c, u) PROVE TypeOK'
  BY <1>2 DEF Remove
<1>3. ASSUME NEW c \in Customers, OrderRegularly(c) PROVE TypeOK'
  BY <1>3 DEF OrderRegularly
<1>4. ASSUME NEW c \in Customers, NEW k \in CheckIns, NEW u \in Units \cup {None}, ExpressCheckout(c, k, u)
      PROVE TypeOK'
  BY <1>4 DEF ExpressCheckout
<1>5. ASSUME NEW k \in CheckIns, Pairing(k) PROVE TypeOK'
  <2>1. Cloned(k) \subseteq Units
    BY <1>5, NoneAssumption DEF TypeOK, CheckInOK, Pairing, Cloned
  <2>2. met' \subseteq Customers
    <3>1. RunningOf(of[k]) # {} => of[k] \in Customers
      BY <1>5, NoneAssumption DEF TypeOK, CheckInOK, Pairing
    <3>. QED
      BY <1>5, <3>1 DEF TypeOK, Pairing
  <2>. QED
    BY <1>5, <2>1, <2>2 DEF TypeOK, Stages, carts, checkin, process, history, Pairing
<1>6. ASSUME NEW k \in CheckIns, Agree(k) PROVE TypeOK'
  BY <1>6 DEF Agree
<1>7. ASSUME NEW k \in CheckIns, End(k) PROVE TypeOK'
  BY <1>7 DEF End
<1>8. ASSUME NEW p \in Procs, NEW k \in CheckIns, Enter(p, k) PROVE TypeOK'
  BY <1>8 DEF Enter, Goto, Entered
<1>9. ASSUME NEW p \in Procs, PlaceOrder(p) PROVE TypeOK'
  <2>1. on[p] \in CheckIns /\ clone[on[p]] \subseteq Units /\ context[p] \in Customers \cup {None}
    BY <1>9 DEF TypeOK, AtWork, PlaceOrder
  <2>2. order' \in [CheckIns -> [items : SUBSET Units, by : Customers \cup {None}]]
    BY <1>9, <2>1 DEF TypeOK, PlaceOrder
  <2>3. pc' \in [Procs -> {"idle", "place", "wait", "clean"}]
    BY <1>9 DEF PlaceOrder, Goto, Rest
  <2>4. on' \in [Procs -> CheckIns \cup {None}] /\ stage' \in [CheckIns -> Stages]
    BY <1>9 DEF PlaceOrder, Goto, Rest
  <2>. QED
    BY <1>9, <2>2, <2>3, <2>4 DEF PlaceOrder
<1>10. ASSUME NEW p \in Procs, UntilDone(p) PROVE TypeOK'
  <2>1. on[p] \in CheckIns
    BY <1>10 DEF TypeOK, AtWork, UntilDone
  <2>2. paid' \subseteq CheckIns
    BY <1>10, <2>1 DEF TypeOK, UntilDone
  <2>3. pc' \in [Procs -> {"idle", "place", "wait", "clean"}]
    BY <1>10 DEF UntilDone, Goto, Rest
  <2>4. on' \in [Procs -> CheckIns \cup {None}] /\ stage' \in [CheckIns -> Stages]
    BY <1>10 DEF UntilDone, Goto, Rest
  <2>. QED
    BY <1>10, <2>2, <2>3, <2>4 DEF UntilDone
<1>11. ASSUME NEW p \in Procs, CleanUp(p) PROVE TypeOK'
  <2>1. /\ pc' \in [Procs -> {"idle", "place", "wait", "clean"}]
        /\ on' \in [Procs -> CheckIns \cup {None}]
        /\ stage' \in [CheckIns -> Stages]
        /\ cart' \in [Customers -> SUBSET Units]
    BY <1>11 DEF TypeOK, CleanUp, Goto, Rest, Stages, Kept
  <2>2. on[p] \in CheckIns /\ of[on[p]] \in Customers
    BY <1>11 DEF TypeOK, AtWork, CheckInOK, Begun, CleanUp
  <2>3. lost' \subseteq Units
    BY <1>11, <2>2 DEF TypeOK, CleanUp
  <2>. QED
    BY <1>11, <2>1, <2>3 DEF TypeOK, history, CleanUp
<1>12. ASSUME NEW p \in Procs, Fault(p) PROVE TypeOK'
  <2>1. pc' \in [Procs -> {"idle", "place", "wait", "clean"}] /\ stage' \in [CheckIns -> Stages]
    BY <1>12 DEF Fault, Goto, Rest
  <2>3. on' \in [Procs -> CheckIns \cup {None}] /\ context' \in [Procs -> Customers \cup {None}]
    BY <1>12 DEF Fault, Goto, Rest
  <2>2. faults' \in 0..MaxFaults
    BY <1>12 DEF Fault
  <2>. QED
    BY <1>12, <2>1, <2>2, <2>3 DEF Fault
<1>. QED
  BY <1>1, <1>2, <1>3, <1>4, <1>5, <1>6, <1>7, <1>8, <1>9, <1>10, <1>11, <1>12
     DEF Next, Customer, CheckIn, Process

LEMMA AtWorkKeeps ==
    ASSUME TypeOK, AtWork, CheckInOK, Next
    PROVE  AtWork'
<1> USE NoneAssumption DEF TypeOK, AtWork, CheckInOK, Begun, Stages, carts, checkin, process,
   history
<1>1. ASSUME NEW c \in Customers, NEW u \in Units, Put(c, u) PROVE AtWork'
  BY <1>1 DEF Put
<1>2. ASSUME NEW c \in Customers, NEW u \in Units, Remove(c, u) PROVE AtWork'
  BY <1>2 DEF Remove
<1>3. ASSUME NEW c \in Customers, OrderRegularly(c) PROVE AtWork'
  BY <1>3 DEF OrderRegularly
<1>4. ASSUME NEW c \in Customers, NEW k \in CheckIns, NEW u \in Units \cup {None}, ExpressCheckout(c, k, u)
      PROVE AtWork'
  BY <1>4 DEF ExpressCheckout
<1>5. ASSUME NEW k \in CheckIns, Pairing(k) PROVE AtWork'
  BY <1>5 DEF Pairing, Cloned
<1>6. ASSUME NEW k \in CheckIns, Agree(k) PROVE AtWork'
  BY <1>6 DEF Agree
<1>7. ASSUME NEW k \in CheckIns, End(k) PROVE AtWork'
  BY <1>7 DEF End
<1>8. ASSUME NEW p \in Procs, NEW k \in CheckIns, Enter(p, k) PROVE AtWork'
  BY <1>8 DEF Enter, Goto, Entered
<1>9. ASSUME NEW p \in Procs, PlaceOrder(p) PROVE AtWork'
  <2>1. CASE clone[on[p]] # {} /\ Goto(p, "wait") /\ UNCHANGED <<on, stage>>
             /\ order' = [order EXCEPT ![on[p]] = [items |-> clone[on[p]], by |-> context[p]]]
    BY <1>9, <2>1 DEF TypeOK, AtWork, Begun, checkin, PlaceOrder, Goto
  <2>2. CASE Rest(p) /\ stage' = [stage EXCEPT ![on[p]] = "failed"] /\ UNCHANGED order
    BY <1>9, <2>2, NoneAssumption DEF TypeOK, AtWork, Begun, checkin, PlaceOrder, Goto, Rest
  <2>. QED
    BY <1>9, <2>1, <2>2 DEF PlaceOrder
<1>10. ASSUME NEW p \in Procs, UntilDone(p) PROVE AtWork'
  <2>1. CASE Goto(p, "clean") /\ UNCHANGED <<on, stage>>
    BY <1>10, <2>1 DEF TypeOK, AtWork, Begun, checkin, UntilDone, Goto
  <2>2. CASE Rest(p) /\ stage' = [stage EXCEPT ![on[p]] = "failed"]
    BY <1>10, <2>2, NoneAssumption DEF TypeOK, AtWork, Begun, checkin, UntilDone, Goto, Rest
  <2>. QED
    BY <1>10, <2>1, <2>2 DEF UntilDone
<1>11. ASSUME NEW p \in Procs, CleanUp(p) PROVE AtWork'
  BY <1>11 DEF CleanUp, Goto, Rest, Kept
<1>12. ASSUME NEW p \in Procs, Fault(p) PROVE AtWork'
  BY <1>12 DEF Fault, Goto, Rest
<1>. QED
  BY <1>1, <1>2, <1>3, <1>4, <1>5, <1>6, <1>7, <1>8, <1>9, <1>10, <1>11, <1>12
     DEF Next, Customer, CheckIn, Process

LEMMA CheckInsKeep ==
    ASSUME TypeOK, AtWork, CheckInOK, Next
    PROVE  CheckInOK'
<1> USE NoneAssumption DEF TypeOK, AtWork, CheckInOK, Begun, Stages, NoOrder, carts, checkin,
   process, history
<1>1. ASSUME NEW c \in Customers, NEW u \in Units, Put(c, u) PROVE CheckInOK'
  BY <1>1 DEF Put
<1>2. ASSUME NEW c \in Customers, NEW u \in Units, Remove(c, u) PROVE CheckInOK'
  BY <1>2 DEF Remove
<1>3. ASSUME NEW c \in Customers, OrderRegularly(c) PROVE CheckInOK'
  BY <1>3 DEF OrderRegularly
<1>4. ASSUME NEW c \in Customers, NEW k \in CheckIns, NEW u \in Units \cup {None}, ExpressCheckout(c, k, u)
      PROVE CheckInOK'
  BY <1>4 DEF ExpressCheckout
<1>5. ASSUME NEW k \in CheckIns, Pairing(k) PROVE CheckInOK'
  BY <1>5 DEF Pairing, Cloned
<1>6. ASSUME NEW k \in CheckIns, Agree(k) PROVE CheckInOK'
  BY <1>6 DEF Agree
<1>7. ASSUME NEW k \in CheckIns, End(k) PROVE CheckInOK'
  BY <1>7 DEF End
<1>8. ASSUME NEW p \in Procs, NEW k \in CheckIns, Enter(p, k) PROVE CheckInOK'
  BY <1>8 DEF Enter, Goto, Entered
<1>9. ASSUME NEW p \in Procs, PlaceOrder(p) PROVE CheckInOK'
  <2>1. on[p] \in CheckIns /\ Begun(on[p]) /\ context[p] = of[on[p]]
    BY <1>9 DEF AtWork, PlaceOrder
  <2>2. CASE UNCHANGED <<on, stage>>
             /\ order' = [order EXCEPT ![on[p]] = [items |-> clone[on[p]], by |-> context[p]]]
    BY <1>9, <2>1, <2>2 DEF TypeOK, CheckInOK, Begun, checkin, PlaceOrder
  <2>3. CASE stage' = [stage EXCEPT ![on[p]] = "failed"] /\ UNCHANGED order
    BY <1>9, <2>1, <2>3 DEF TypeOK, CheckInOK, Begun, checkin, PlaceOrder
  <2>. QED
    BY <1>9, <2>2, <2>3 DEF PlaceOrder
<1>10. ASSUME NEW p \in Procs, UntilDone(p) PROVE CheckInOK'
  BY <1>10 DEF UntilDone, Goto, Rest
<1>11. ASSUME NEW p \in Procs, CleanUp(p) PROVE CheckInOK'
  BY <1>11 DEF CleanUp, Goto, Rest, Kept
<1>12. ASSUME NEW p \in Procs, Fault(p) PROVE CheckInOK'
  BY <1>12 DEF Fault, Goto, Rest
<1>. QED
  BY <1>1, <1>2, <1>3, <1>4, <1>5, <1>6, <1>7, <1>8, <1>9, <1>10, <1>11, <1>12
     DEF Next, Customer, CheckIn, Process

LEMMA OneWayKeeps ==
    ASSUME TypeOK, AtWork, CheckInOK, OneWay, Reserved, Next
    PROVE  OneWay'
<1> USE NoneAssumption DEF TypeOK, AtWork, CheckInOK, Begun, Stages, OneWay, Reserved, Cloned,
   carts, checkin, process, history
<1>1. ASSUME NEW c \in Customers, NEW u \in Units, Put(c, u) PROVE OneWay'
  BY <1>1 DEF Put
<1>2. ASSUME NEW c \in Customers, NEW u \in Units, Remove(c, u) PROVE OneWay'
  BY <1>2 DEF Remove
<1>3. ASSUME NEW c \in Customers, OrderRegularly(c) PROVE OneWay'
  BY <1>3 DEF OrderRegularly
<1>4. ASSUME NEW c \in Customers, NEW k \in CheckIns, NEW u \in Units \cup {None}, ExpressCheckout(c, k, u)
      PROVE OneWay'
  BY <1>4 DEF ExpressCheckout
<1>5. ASSUME NEW k \in CheckIns, Pairing(k) PROVE OneWay'
  BY <1>5 DEF Pairing
<1>6. ASSUME NEW k \in CheckIns, Agree(k) PROVE OneWay'
  BY <1>6 DEF Agree
<1>7. ASSUME NEW k \in CheckIns, End(k) PROVE OneWay'
  BY <1>7 DEF End
<1>8. ASSUME NEW p \in Procs, NEW k \in CheckIns, Enter(p, k) PROVE OneWay'
  BY <1>8 DEF Enter, Goto, Entered
<1>9. ASSUME NEW p \in Procs, PlaceOrder(p) PROVE OneWay'
  BY <1>9 DEF PlaceOrder, Goto, Rest
<1>10. ASSUME NEW p \in Procs, UntilDone(p) PROVE OneWay'
  BY <1>10 DEF UntilDone, Goto, Rest
<1>11. ASSUME NEW p \in Procs, CleanUp(p) PROVE OneWay'
  BY <1>11 DEF CleanUp, Goto, Rest, Kept
<1>12. ASSUME NEW p \in Procs, Fault(p) PROVE OneWay'
  BY <1>12 DEF Fault, Goto, Rest
<1>. QED
  BY <1>1, <1>2, <1>3, <1>4, <1>5, <1>6, <1>7, <1>8, <1>9, <1>10, <1>11, <1>12
     DEF Next, Customer, CheckIn, Process

LEMMA ReservedKeeps ==
    ASSUME TypeOK, AtWork, CheckInOK, OneWay, Reserved, Next
    PROVE  Reserved'
<1> USE NoneAssumption DEF TypeOK, AtWork, CheckInOK, Begun, Stages, OneWay, Reserved, Cloned,
   carts, checkin, process, history
<1>1. ASSUME NEW c \in Customers, NEW u \in Units, Put(c, u) PROVE Reserved'
  BY <1>1 DEF Put
<1>2. ASSUME NEW c \in Customers, NEW u \in Units, Remove(c, u) PROVE Reserved'
  BY <1>2 DEF Remove
<1>3. ASSUME NEW c \in Customers, OrderRegularly(c) PROVE Reserved'
  BY <1>3 DEF OrderRegularly
<1>4. ASSUME NEW c \in Customers, NEW k \in CheckIns, NEW u \in Units \cup {None}, ExpressCheckout(c, k, u)
      PROVE Reserved'
  BY <1>4 DEF ExpressCheckout
<1>5. ASSUME NEW k \in CheckIns, Pairing(k) PROVE Reserved'
  BY <1>5 DEF Pairing
<1>6. ASSUME NEW k \in CheckIns, Agree(k) PROVE Reserved'
  BY <1>6 DEF Agree
<1>7. ASSUME NEW k \in CheckIns, End(k) PROVE Reserved'
  BY <1>7 DEF End
<1>8. ASSUME NEW p \in Procs, NEW k \in CheckIns, Enter(p, k) PROVE Reserved'
  BY <1>8 DEF Enter, Goto, Entered
<1>9. ASSUME NEW p \in Procs, PlaceOrder(p) PROVE Reserved'
  BY <1>9 DEF PlaceOrder, Goto, Rest
<1>10. ASSUME NEW p \in Procs, UntilDone(p) PROVE Reserved'
  BY <1>10 DEF UntilDone, Goto, Rest
<1>11. ASSUME NEW p \in Procs, CleanUp(p) PROVE Reserved'
  BY <1>11 DEF CleanUp, Goto, Rest, Kept
<1>12. ASSUME NEW p \in Procs, Fault(p) PROVE Reserved'
  BY <1>12 DEF Fault, Goto, Rest
<1>. QED
  BY <1>1, <1>2, <1>3, <1>4, <1>5, <1>6, <1>7, <1>8, <1>9, <1>10, <1>11, <1>12
     DEF Next, Customer, CheckIn, Process

LEMMA RunningKeeps ==
    ASSUME TypeOK, AtWork, Next, NEW k \in CheckIns
    PROVE  /\ Running(k)' => Running(k) \/ Pairing(k)
           /\ Counts(k)' => Counts(k) \/ Pairing(k)
           /\ Counts(k)' /\ ~Running(k)' => stage'[k] = "done"
<1> USE NoneAssumption DEF TypeOK, AtWork, Begun, Running, Handled, Counts, checkin, process
<1> DEFINE Goal == (Running(k)' => Running(k) \/ Pairing(k)) /\ (Counts(k)' => Counts(k) \/ Pairing(k))
<1>1. ASSUME NEW c \in Customers, NEW u \in Units, Put(c, u) PROVE Goal
  BY <1>1 DEF Put
<1>2. ASSUME NEW c \in Customers, NEW u \in Units, Remove(c, u) PROVE Goal
  BY <1>2 DEF Remove
<1>3. ASSUME NEW c \in Customers, OrderRegularly(c) PROVE Goal
  BY <1>3 DEF OrderRegularly
<1>4. ASSUME NEW c \in Customers, NEW j \in CheckIns, NEW u \in Units \cup {None}, ExpressCheckout(c, j, u)
      PROVE Goal
  BY <1>4 DEF ExpressCheckout
<1>5. ASSUME NEW j \in CheckIns, Pairing(j) PROVE Goal
  BY <1>5 DEF Pairing
<1>6. ASSUME NEW j \in CheckIns, Agree(j) PROVE Goal
  BY <1>6 DEF Agree
<1>7. ASSUME NEW j \in CheckIns, End(j) PROVE Goal
  BY <1>7 DEF End
<1>8. ASSUME NEW p \in Procs, NEW j \in CheckIns, Enter(p, j) PROVE Goal
  BY <1>8 DEF Enter, Goto
<1>9. ASSUME NEW p \in Procs, PlaceOrder(p) PROVE Goal
  BY <1>9 DEF PlaceOrder, Goto, Rest
<1>10. ASSUME NEW p \in Procs, UntilDone(p) PROVE Goal
  BY <1>10 DEF UntilDone, Goto, Rest
<1>11. ASSUME NEW p \in Procs, CleanUp(p) PROVE Goal
  BY <1>11 DEF CleanUp, Goto, Rest
<1>12. ASSUME NEW p \in Procs, Fault(p) PROVE Goal
  BY <1>12 DEF Fault, Goto, Rest
<1>. QED
  BY <1>1, <1>2, <1>3, <1>4, <1>5, <1>6, <1>7, <1>8, <1>9, <1>10, <1>11, <1>12
     DEF Next, Customer, CheckIn, Process

LEMMA CountedStays ==
    ASSUME TypeOK, AtWork, Next, NEW k \in CheckIns, Counts(k)
    PROVE  Begun(k) /\ of'[k] = of[k] /\ clone'[k] = clone[k] /\ ~Pairing(k)
<1> USE NoneAssumption DEF TypeOK, AtWork, Begun, Running, Handled, Counts, checkin, process
<1>0. Begun(k) /\ ~Pairing(k)
  BY DEF Pairing
<1> DEFINE Goal == of'[k] = of[k] /\ clone'[k] = clone[k]
<1>1. ASSUME NEW c \in Customers, NEW u \in Units, Put(c, u) PROVE Goal
  BY <1>0, <1>1 DEF Put
<1>2. ASSUME NEW c \in Customers, NEW u \in Units, Remove(c, u) PROVE Goal
  BY <1>0, <1>2 DEF Remove
<1>3. ASSUME NEW c \in Customers, OrderRegularly(c) PROVE Goal
  BY <1>0, <1>3 DEF OrderRegularly
<1>4. ASSUME NEW c \in Customers, NEW j \in CheckIns, NEW u \in Units \cup {None}, ExpressCheckout(c, j, u)
      PROVE Goal
  BY <1>0, <1>4 DEF ExpressCheckout
<1>5. ASSUME NEW j \in CheckIns, Pairing(j) PROVE Goal
  BY <1>0, <1>5 DEF Pairing
<1>6. ASSUME NEW j \in CheckIns, Agree(j) PROVE Goal
  BY <1>0, <1>6 DEF Agree
<1>7. ASSUME NEW j \in CheckIns, End(j) PROVE Goal
  BY <1>0, <1>7 DEF End
<1>8. ASSUME NEW p \in Procs, NEW j \in CheckIns, Enter(p, j) PROVE Goal
  BY <1>0, <1>8 DEF Enter
<1>9. ASSUME NEW p \in Procs, PlaceOrder(p) PROVE Goal
  BY <1>0, <1>9 DEF PlaceOrder
<1>10. ASSUME NEW p \in Procs, UntilDone(p) PROVE Goal
  BY <1>0, <1>10 DEF UntilDone
<1>11. ASSUME NEW p \in Procs, CleanUp(p) PROVE Goal
  BY <1>0, <1>11 DEF CleanUp
<1>12. ASSUME NEW p \in Procs, Fault(p) PROVE Goal
  BY <1>0, <1>12 DEF Fault
<1>. QED
  BY <1>0, <1>1, <1>2, <1>3, <1>4, <1>5, <1>6, <1>7, <1>8, <1>9, <1>10, <1>11, <1>12
     DEF Next, Customer, CheckIn, Process

\* What a cart gets while a check-in of the customer runs comes late.
LEMMA CartGrows ==
    ASSUME TypeOK, AtWork, CheckInOK, Next, NEW k \in CheckIns, Running(k)
    PROVE  late \subseteq late' /\ cart'[of[k]] \subseteq cart[of[k]] \cup late'
<1> USE NoneAssumption DEF TypeOK, CheckInOK, carts, history
<1>0. of[k] \in Customers
  BY DEF AtWork, Running, Handled, Begun
<1> DEFINE Goal == late \subseteq late' /\ cart'[of[k]] \subseteq cart[of[k]] \cup late'
<1>1. ASSUME NEW c \in Customers, NEW u \in Units, Put(c, u) PROVE Goal
  BY <1>0, <1>1 DEF Put, RunningOf
<1>2. ASSUME NEW c \in Customers, NEW u \in Units, Remove(c, u) PROVE Goal
  BY <1>0, <1>2 DEF Remove
<1>3. ASSUME NEW c \in Customers, OrderRegularly(c) PROVE Goal
  BY <1>0, <1>3 DEF OrderRegularly
<1>4. ASSUME NEW c \in Customers, NEW j \in CheckIns, NEW u \in Units \cup {None}, ExpressCheckout(c, j, u)
      PROVE Goal
  BY <1>0, <1>4 DEF ExpressCheckout
<1>5. ASSUME NEW j \in CheckIns, Pairing(j) PROVE Goal
  BY <1>0, <1>5 DEF Pairing
<1>6. ASSUME NEW j \in CheckIns, Agree(j) PROVE Goal
  BY <1>0, <1>6 DEF Agree
<1>7. ASSUME NEW j \in CheckIns, End(j) PROVE Goal
  BY <1>0, <1>7 DEF End
<1>8. ASSUME NEW p \in Procs, NEW j \in CheckIns, Enter(p, j) PROVE Goal
  BY <1>0, <1>8 DEF Enter
<1>9. ASSUME NEW p \in Procs, PlaceOrder(p) PROVE Goal
  BY <1>0, <1>9 DEF PlaceOrder
<1>10. ASSUME NEW p \in Procs, UntilDone(p) PROVE Goal
  BY <1>0, <1>10 DEF UntilDone
<1>11. ASSUME NEW p \in Procs, CleanUp(p) PROVE Goal
  BY <1>0, <1>11 DEF CleanUp, Kept
<1>12. ASSUME NEW p \in Procs, Fault(p) PROVE Goal
  BY <1>0, <1>12 DEF Fault
<1>. QED
  BY <1>1, <1>2, <1>3, <1>4, <1>5, <1>6, <1>7, <1>8, <1>9, <1>10, <1>11, <1>12
     DEF Next, Customer, CheckIn, Process

LEMMA CloneIsCartKeeps ==
    ASSUME TypeOK, AtWork, CheckInOK, CloneIsCart, Next
    PROVE  CloneIsCart'
<1> SUFFICES ASSUME NEW k \in CheckIns, Running(k)'
      PROVE cart'[of'[k]] \subseteq clone'[k] \cup late'
  BY DEF CloneIsCart
<1>1. CASE Pairing(k)
  BY <1>1 DEF TypeOK, Pairing, Cloned, carts
<1>2. CASE Running(k)
  BY <1>2, CountedStays, CartGrows DEF CloneIsCart, Counts
<1>. QED
  BY <1>1, <1>2, RunningKeeps

LEMMA LostWasLateKeeps ==
    ASSUME TypeOK, AtWork, CheckInOK, CloneIsCart, LostWasLate, Next
    PROVE  LostWasLate'
<1> USE DEF LostWasLate, history
<1>1. ASSUME NEW p \in Procs, CleanUp(p) PROVE lost' \subseteq late'
  <2>1. on[p] \in CheckIns /\ Running(on[p]) /\ order[on[p]].items = clone[on[p]]
    BY <1>1 DEF AtWork, CleanUp, Running, Handled
  <2>2. cart[of[on[p]]] \ order[on[p]].items \subseteq late
    BY <2>1 DEF CloneIsCart
  <2>. QED
    BY <1>1, <2>2 DEF CleanUp, Kept
<1>2. ASSUME \A p \in Procs : ~CleanUp(p) PROVE lost' = lost /\ late \subseteq late'
  BY <1>2 DEF Next, Customer, CheckIn, Process, Put, Remove, OrderRegularly, ExpressCheckout,
     Pairing, Agree, End,
     Enter, PlaceOrder, UntilDone, Fault
<1>. QED
  BY <1>1, <1>2

\* A cart gets its units from the shelf, and only the regular checkout sells.
LEMMA FromShelf ==
    ASSUME TypeOK, Next
    PROVE  /\ met \subseteq met'
           /\ \A c \in Customers : cart'[c] \subseteq cart[c] \cup shelf
           /\ bought' = bought \/ \E c \in Customers : OrderRegularly(c)
<1> USE DEF Next, Customer, CheckIn, Process, carts, history
<1>1. met \subseteq met'
  BY DEF Put, Remove, OrderRegularly, ExpressCheckout, Pairing, Agree, End, Enter, PlaceOrder,
     UntilDone, CleanUp, Fault
<1>2. bought' = bought \/ \E c \in Customers : OrderRegularly(c)
  BY DEF Put, Remove, ExpressCheckout, Pairing, Agree, End, Enter, PlaceOrder, UntilDone,
     CleanUp, Fault
<1>3. ASSUME NEW c \in Customers PROVE cart'[c] \subseteq cart[c] \cup shelf
  <2>1. \/ cart' = cart
        \/ \E d \in Customers, u \in shelf : cart' = [cart EXCEPT ![d] = @ \cup {u}]
        \/ \E d \in Customers, u \in Units : cart' = [cart EXCEPT ![d] = @ \ {u}]
        \/ \E d \in Customers : cart' = [cart EXCEPT ![d] = {}]
        \/ \E p \in Procs : CleanUp(p)
    BY DEF Put, Remove, OrderRegularly, ExpressCheckout, Pairing, Agree, End, Enter,
       PlaceOrder, UntilDone, Fault
  <2>2. ASSUME NEW p \in Procs, CleanUp(p) PROVE cart'[c] \subseteq cart[c] \cup shelf
    BY <2>2 DEF TypeOK, CleanUp, Kept
  <2>. QED
    BY <2>1, <2>2 DEF TypeOK
<1>. QED
  BY <1>1, <1>2, <1>3

LEMMA BecomesDone ==
    ASSUME TypeOK, AtWork, Next, NEW k \in CheckIns, stage'[k] = "done", stage[k] # "done"
    PROVE  \E p \in Procs : CleanUp(p) /\ on[p] = k
BY DEF TypeOK, AtWork, checkin, Next, Customer, CheckIn, Process, Put, Remove, OrderRegularly,
   ExpressCheckout,
   Pairing, Agree, End, Enter, PlaceOrder, UntilDone, CleanUp, Fault

\* The cart of a check-in that is done has nothing of the clone any more.
LEMMA DoneKeeps ==
    ASSUME TypeOK, AtWork, CheckInOK, OneWay, CountedOnce, Next, NEW k \in CheckIns,
       stage'[k] = "done"
    PROVE  clone'[k] \cap cart'[of'[k]] = {}
<1>1. CASE stage[k] = "done"
  <2>1. of'[k] = of[k] /\ clone'[k] = clone[k] /\ of[k] \in Customers
    BY <1>1, CountedStays DEF Counts, CheckInOK
  <2>2. clone[k] \cap cart[of[k]] = {} /\ clone[k] \cap shelf = {}
    BY <1>1 DEF CountedOnce, OneWay
  <2>. QED
    BY <2>1, <2>2, FromShelf
<1>2. CASE stage[k] # "done"
  <2>1. PICK p \in Procs : CleanUp(p) /\ on[p] = k
    BY <1>2, BecomesDone
  <2>2. of[k] \in Customers
    BY <2>1 DEF AtWork, CheckInOK, Begun, CleanUp
  <2>. QED
    BY <2>1, <2>2 DEF TypeOK, CleanUp, Kept
<1>. QED
  BY <1>1, <1>2

LEMMA NotBoughtKeeps ==
    ASSUME TypeOK, AtWork, CheckInOK, OneWay, Reserved, CountedOnce, Next,
           NEW k \in CheckIns, Counts(k)', of'[k] \notin met'
    PROVE  clone'[k] \cap bought' = {}
<1>1. CASE Pairing(k)
  <2>1. /\ of[k] \in Customers /\ bought' = bought
        /\ clone'[k] = cart[of[k]] \cup ({product[k]} \ {None})
    BY <1>1 DEF TypeOK, CheckInOK, Pairing, Cloned
  <2>. QED
    BY <1>1, <2>1 DEF OneWay, Reserved, Pairing
<1>2. CASE Counts(k)
  <2>1. of'[k] = of[k] /\ clone'[k] = clone[k] /\ of[k] \notin met /\ clone[k] \cap bought = {}
    BY <1>2, CountedStays, FromShelf DEF CountedOnce
  <2>2. ASSUME NEW c \in Customers, OrderRegularly(c) PROVE clone[k] \cap bought' = {}
    <3>1. clone[k] \cap cart[c] = {}
      <4>1. CASE of[k] # c
        BY <4>1 DEF OneWay
      <4>2. CASE of[k] = c /\ Running(k)
        BY <2>1, <2>2, <4>2 DEF OrderRegularly, RunningOf
      <4>3. CASE of[k] = c /\ stage[k] = "done"
        BY <4>3 DEF CountedOnce
      <4>. QED
        BY <1>2, <4>1, <4>2, <4>3 DEF Counts
    <3>. QED
      BY <2>1, <2>2, <3>1 DEF OrderRegularly
  <2>. QED
    BY <2>1, <2>2, FromShelf
<1>. QED
  BY <1>1, <1>2, RunningKeeps

\* A check-in begun meets none of the same customer that counts, or it is known
\* as met.
LEMMA BeginsApart ==
    ASSUME TypeOK, AtWork, CheckInOK, Reserved, CountedOnce, Next,
           NEW k \in CheckIns, NEW j \in CheckIns, Pairing(k), Counts(j), of[j] = of[k],
              of[k] \notin met'
    PROVE  clone'[k] \cap clone[j] = {}
<1>1. clone'[k] = cart[of[k]] \cup ({product[k]} \ {None})
  BY DEF TypeOK, CheckInOK, Pairing, Cloned
<1>2. stage[j] = "done"
  BY DEF Counts, Pairing, RunningOf, CheckInOK
<1>. QED
  BY <1>1, <1>2 DEF CountedOnce, Reserved, Pairing

LEMMA CountedOnceKeeps ==
    ASSUME TypeOK, AtWork, CheckInOK, OneWay, Reserved, CountedOnce, Next
    PROVE  CountedOnce'
<1>1. ASSUME NEW k \in CheckIns, NEW j \in CheckIns, Counts(k)', Counts(j)', k # j,
   of'[k] = of'[j], of'[k] \notin met'
      PROVE  clone'[k] \cap clone'[j] = {}
  <2>1. CASE Counts(k) /\ Counts(j)
    BY <1>1, <2>1, CountedStays, FromShelf DEF CountedOnce
  <2>2. CASE Pairing(k)
    <3>1. of' = of /\ clone'[j] = clone[j] /\ ~Pairing(j)
      BY <1>1, <2>2 DEF TypeOK, Pairing
    <3>. QED
      BY <1>1, <2>2, <3>1, BeginsApart, RunningKeeps
  <2>3. CASE Pairing(j)
    <3>1. of' = of /\ clone'[k] = clone[k] /\ ~Pairing(k)
      BY <1>1, <2>3 DEF TypeOK, Pairing
    <3>. QED
      BY <1>1, <2>3, <3>1, BeginsApart, RunningKeeps
  <2>. QED
    BY <1>1, <2>1, <2>2, <2>3, RunningKeeps
<1>. QED
  BY <1>1, DoneKeeps, NotBoughtKeeps DEF CountedOnce

-----------------------------------------------------------------------------
LEMMA NextKeeps == IInv /\ [Next]_vars => IInv'
<1> SUFFICES ASSUME IInv, [Next]_vars PROVE IInv'
  OBVIOUS
<1>1. CASE UNCHANGED vars
  BY <1>1 DEF IInv, TypeOK, AtWork, Begun, CheckInOK, OneWay, Reserved, CloneIsCart, Running,
     Handled, CountedOnce,
     Counts, LostWasLate, vars, carts, checkin, process, history
<1>2. CASE Next
  BY <1>2, TypesKeep, AtWorkKeeps, CheckInsKeep, OneWayKeeps, ReservedKeeps, CloneIsCartKeeps,
     LostWasLateKeeps,
     CountedOnceKeeps
  DEF IInv
<1>. QED
  BY <1>1, <1>2

LEMMA Invariance == Spec => []IInv
  BY InitHolds, NextKeeps, PTL DEF Spec

\* cleanUpCurrentCart deletes whatever is in the cart; of what no order has, only
\* units put there while a check-in of the customer ran.
THEOREM LostWasLateAlways == Spec => []LostWasLate
<1>1. IInv => LostWasLate
  BY DEF IInv
<1>. QED
  BY <1>1, Invariance, PTL

\* Of two check-ins that share a unit, or of one and a regular order, one was
\* begun while the other ran, or a fault has kept the cart from being deleted.
THEOREM OrderedTwiceIsMetAlways == Spec => []OrderedTwiceIsMet
<1>1. ASSUME IInv PROVE OrderedTwiceIsMet
  <2> SUFFICES ASSUME NEW k \in paid, of[k] \notin met, ~Abandoned(k)
               PROVE  /\ clone[k] \cap bought = {}
                      /\ \A j \in paid \ {k} : clone[k] \cap clone[j] # {} => Abandoned(j)
    BY DEF OrderedTwiceIsMet
  <2>1. \A j \in paid : j \in CheckIns /\ (~Abandoned(j) => Counts(j))
    BY <1>1 DEF IInv, TypeOK, Abandoned, Counts, Running
  <2>2. clone[k] \cap bought = {}
    BY <1>1, <2>1 DEF IInv, CountedOnce
  <2>3. ASSUME NEW j \in paid \ {k}, clone[k] \cap clone[j] # {} PROVE Abandoned(j)
    <3>1. of[j] = of[k]
      BY <1>1, <2>1, <2>3 DEF IInv, OneWay
    <3>. QED
      BY <1>1, <2>1, <2>3, <3>1 DEF IInv, CountedOnce
  <2>. QED
    BY <2>2, <2>3
<1>. QED
  BY <1>1, Invariance, PTL

\* createContext replaces the context of the customer before: an order is made for
\* the customer of its own check-in.
THEOREM OrderIsTheCustomersAlways == Spec => []OrderIsTheCustomers
<1>1. IInv => OrderIsTheCustomers
  BY DEF IInv, CheckInOK, OrderIsTheCustomers
<1>. QED
  BY <1>1, Invariance, PTL
=============================================================================
