------------------------ MODULE ExpressCheckoutProofs ------------------------
(***************************************************************************)
(* Proofs about ExpressCheckout, for any number of processes, orders and   *)
(* faults.                                                                 *)
(*                                                                         *)
(* What a check-in at TWINT has, it keeps: its data, and its end.  So a    *)
(* process that has read the data from the row never sees them arrive      *)
(* (DataInv), and of those that have not, the version lets one pass        *)
(* (OneOrder).  The process that placed an order is the only one to touch  *)
(* it (OrdersAreOwned), until the row says "done" of it (PointsThere).     *)
(* What it has been paid is on its way to the row while nothing goes wrong *)
(* (CalmTells), and money is taken only of an order whose process is about *)
(* to hear of it (TakenIsHeard).                                           *)
(***************************************************************************)
EXTENDS ExpressCheckout, FiniteSetTheorems, TLAPS

Labels == {"idle", "load", "ask", "cancel", "mark", "write", "fail"} \cup Handling

-----------------------------------------------------------------------------
(***************************************************************************)
(* Where a process goes, and what the others do not notice.                *)
(***************************************************************************)
LEMMA LeaveEffect ==
    ASSUME TypeOK, NEW p \in Procs, NEW label \in {"idle", "load"}, Leave(p, label)
    PROVE  /\ pc' \in [Procs -> Labels] /\ pc'[p] = label
           /\ mine' \in [Procs -> Orders \cup {0}] /\ mine'[p] = 0
           /\ tans' \in [Procs -> {"none"} \cup Pending \cup Terminal] /\ tans'[p] = "none"
           /\ snap' \in [Procs -> [status : {"none"} \cup Alive \cup {"no_pairing"},
                                   version : Nat, given : BOOLEAN, expired : BOOLEAN]]
           /\ snap'[p] = NoSnap
           /\ ans' \in [Procs -> CheckInType]
           /\ \A q \in Procs \ {p} : /\ pc'[q] = pc[q] /\ snap'[q] = snap[q] /\ ans'[q] = ans[q]
                                     /\ mine'[q] = mine[q] /\ tans'[q] = tans[q]
<1>1. NoSnap \in [status : {"none"} \cup Alive \cup {"no_pairing"},
                  version : Nat, given : BOOLEAN, expired : BOOLEAN]
  BY DEF NoSnap
<1>2. NoCheckIn \in CheckInType
  BY DEF NoCheckIn, CheckInType
<1>. QED
  BY <1>1, <1>2 DEF TypeOK, Leave, Labels

LEMMA GotoEffect ==
    ASSUME TypeOK, NEW p \in Procs, NEW label \in Labels, Goto(p, label)
    PROVE  /\ pc' \in [Procs -> Labels] /\ pc'[p] = label
           /\ \A q \in Procs \ {p} : pc'[q] = pc[q]
           /\ UNCHANGED <<snap, ans, mine, tans>>
BY DEF TypeOK, Goto, Labels

\* What Return, Raise and Quit have in common.
LEMMA AllLeave ==
    ASSUME NEW p \in Procs
    PROVE  /\ Quit(p) => \E label \in {"idle", "load"} : Leave(p, label)
           /\ Return(p) => \E label \in {"idle", "load"} : Leave(p, label)
           /\ Raise(p) => \E label \in {"idle", "load"} : Leave(p, label)
BY DEF Quit, Return, Raise

Locals ==
    /\ pc \in [Procs -> Labels]
    /\ snap \in [Procs -> [status : {"none"} \cup Alive \cup {"no_pairing"},
                           version : Nat, given : BOOLEAN, expired : BOOLEAN]]
    /\ ans \in [Procs -> CheckInType]
    /\ mine \in [Procs -> Orders \cup {0}]
    /\ tans \in [Procs -> {"none"} \cup Pending \cup Terminal]

Rows == [status : Statuses, version : Nat, given : BOOLEAN, order : Orders \cup {0}]
OrderTypes == [Orders -> [tx : {"none", "open", "paid", "cancelled"},
                          twint : {"none"} \cup Pending \cup Terminal,
                          stored : BOOLEAN]]

LEMMA StoredType ==
    ASSUME NEW new \in Rows, row \in Rows
    PROVE  /\ Stored(new) \in Rows
           /\ Stored(new).status = new.status /\ Stored(new).given = new.given
           /\ Stored(new).order = new.order
           /\ Stored(new).version = IF new = row THEN row.version ELSE row.version + 1
BY DEF Stored, Rows

LEMMA LocalsStay ==
    ASSUME TypeOK, NEW p \in Procs
    PROVE  /\ Quit(p) \/ Return(p) \/ Raise(p) => Locals'
           /\ \A label \in Labels : Goto(p, label) => Locals'
<1>1. ASSUME Quit(p) \/ Return(p) \/ Raise(p) PROVE Locals'
  BY <1>1, AllLeave, LeaveEffect DEF Locals
<1>2. ASSUME NEW label \in Labels, Goto(p, label) PROVE Locals'
  BY <1>2, GotoEffect DEF Locals, TypeOK
<1>. QED
  BY <1>1, <1>2

\* TypeOK in these terms, now and after a step; and a process in the midst of
\* handle() has placed an order.
Typed ==
    /\ checkin \in CheckInType /\ row \in Rows
    /\ expired \in BOOLEAN /\ fresh \in BOOLEAN
    /\ orders \in OrderTypes /\ Locals
    /\ kept \in DataKept /\ faults \in 0..MaxFaults

LEMMA TypeIs == (TypeOK <=> Typed) /\ (TypeOK' <=> Typed')
BY DEF TypeOK, Typed, Rows, OrderTypes, Locals, Labels

HasPlaced(p) == pc[p] \in Handling \ {"place"} => mine[p] \in Orders
Types == TypeOK /\ \A p \in Procs : HasPlaced(p)

-----------------------------------------------------------------------------
LEMMA InitTypes == Init => TypeOK
<1> SUFFICES ASSUME Init PROVE TypeOK
  OBVIOUS
<1>1. checkin \in CheckInType /\ row \in Rows
  BY DEF Init, NoCheckIn, CheckInType, NoRow, Rows, Statuses
<1>2. orders \in OrderTypes
  BY DEF Init, NoOrder, OrderTypes
<1>3. Locals
  BY DEF Init, NoSnap, NoCheckIn, CheckInType, Locals, Labels
<1>4. expired \in BOOLEAN /\ fresh \in BOOLEAN /\ kept \in DataKept
  BY DEF Init
<1>5. faults \in 0..MaxFaults
  BY BoundsAssumption DEF Init
<1>. QED
  BY <1>1, <1>2, <1>3, <1>4, <1>5, TypeIs DEF Typed

LEMMA EnvironmentTypes == TypeOK /\ Environment => TypeOK'
<1> SUFFICES ASSUME TypeOK, Environment PROVE TypeOK'
  OBVIOUS
<1> DEFINE others == UNCHANGED <<row, expired, fresh, orders, kept, procs, faults>>
<1>1. RequestCheckIn => checkin' \in CheckInType /\ others
  BY DEF RequestCheckIn, CheckInType, Alive
<1>2. CustomerScans \/ CustomerGivesData => checkin' \in CheckInType /\ others
  BY DEF CustomerScans, CustomerGivesData, TypeOK, CheckInType, Alive
<1>3. CheckInEnds \/ CustomerCancels => checkin' \in CheckInType /\ others
  BY DEF CheckInEnds, CustomerCancels, TypeOK, CheckInType
<1>4. ASSUME checkin' \in CheckInType /\ others PROVE TypeOK'
  BY <1>4, TypeIs DEF Typed, procs, Locals
<1>5. ASSUME CreateRow PROVE TypeOK'
  <2>1. row' \in Rows /\ UNCHANGED <<checkin, expired, fresh, orders, kept, procs, faults>>
    BY <1>5 DEF CreateRow, Rows, Statuses, Alive
  <2>. QED
    BY <2>1, TypeIs DEF Typed, procs, Locals
<1>6. ASSUME NEW n \in Orders, TwintDecides(n) PROVE TypeOK'
  <2>1. orders' \in OrderTypes /\ UNCHANGED <<checkin, row, expired, fresh, kept, procs, faults>>
    BY <1>6 DEF TwintDecides, TypeOK, OrderTypes, Pending, Terminal
  <2>. QED
    BY <2>1, TypeIs DEF Typed, procs, Locals
<1>7. ASSUME Expire \/ GoStale PROVE TypeOK'
  <2>1. /\ expired' \in BOOLEAN /\ fresh' \in BOOLEAN
        /\ UNCHANGED <<checkin, row, orders, kept, procs, faults>>
    BY <1>7 DEF Expire, GoStale, TypeOK
  <2>. QED
    BY <2>1, TypeIs DEF Typed, procs, Locals
<1>. HIDE DEF others
<1>. QED
  BY <1>1, <1>2, <1>3, <1>4, <1>5, <1>6, <1>7 DEF Environment

LEMMA MonitorTypes ==
    ASSUME TypeOK, NEW p \in Procs, MonitorStep(p)
    PROVE  TypeOK'
<1>1. /\ checkin \in CheckInType /\ row \in Rows /\ orders \in OrderTypes /\ Locals
  BY TypeIs DEF Typed
<1>2. ASSUME Ask(p) PROVE TypeOK'
  <2>1. Locals'
    <3>1. CASE IsChanged(p, checkin)
      BY <1>1, <1>2, <3>1 DEF Ask, Locals, Labels
    <3>2. CASE ~IsChanged(p, checkin)
      BY <1>2, <3>2, LocalsStay DEF Ask, Labels
    <3>. QED
      BY <3>1, <3>2
  <2>2. UNCHANGED <<checkin, row, expired, fresh, orders, kept, faults>>
    BY <1>2 DEF Ask
  <2>. QED
    BY <2>1, <2>2, TypeIs DEF Typed
<1>3. ASSUME CancelCheckIn(p) PROVE TypeOK'
  <2>1. Locals'
    BY <1>3, LocalsStay DEF CancelCheckIn, Labels
  <2>2. checkin' \in CheckInType /\ UNCHANGED <<row, expired, fresh, orders, kept, faults>>
    BY <1>1, <1>3 DEF CancelCheckIn, CheckInType
  <2>. QED
    BY <2>1, <2>2, TypeIs DEF Typed
<1>4. ASSUME Mark(p) PROVE TypeOK'
  <2>1. Locals'
    BY <1>4, LocalsStay DEF Mark
  <2>2. [row EXCEPT !.status = "CANCELLED"] \in Rows
    BY <1>1 DEF Rows, Statuses
  <2>3. row' \in Rows /\ UNCHANGED <<checkin, expired, fresh, orders, kept, faults>>
    BY <1>1, <1>4, <2>2, StoredType DEF Mark
  <2>. QED
    BY <2>1, <2>3, TypeIs DEF Typed
<1>5. ASSUME Write(p) PROVE TypeOK'
  <2>1. Locals'
    BY <1>5, LocalsStay DEF Write, Labels, Handling
  <2>2. [row EXCEPT !.status = ans[p].status, !.given = ans[p].given] \in Rows
    BY <1>1 DEF Rows, Statuses, Locals, CheckInType
  <2>3. row' \in Rows /\ UNCHANGED <<checkin, expired, fresh, orders, kept, faults>>
    BY <1>1, <1>5, <2>2, StoredType DEF Write
  <2>. QED
    BY <2>1, <2>3, TypeIs DEF Typed
<1>. QED
  BY <1>2, <1>3, <1>4, <1>5 DEF MonitorStep

LEMMA HandlerTypes ==
    ASSUME TypeOK, NEW p \in Procs, HasPlaced(p), HandlerStep(p)
    PROVE  TypeOK'
<1>1. /\ checkin \in CheckInType /\ row \in Rows /\ orders \in OrderTypes /\ Locals
  BY TypeIs DEF Typed
<1>2. ASSUME Place(p) PROVE TypeOK'
  <2>1. Locals'
    BY <1>1, <1>2 DEF Place, Locals, Labels, Handling
  <2>2. orders' \in OrderTypes /\ UNCHANGED <<checkin, row, expired, fresh, kept, faults>>
    BY <1>1, <1>2 DEF Place, OrderTypes
  <2>. QED
    BY <2>1, <2>2, TypeIs DEF Typed
<1>3. ASSUME Start(p) PROVE TypeOK'
  <2>1. CASE Goto(p, "fail") /\ UNCHANGED orders
    <3>1. Locals'
      BY <2>1, LocalsStay DEF Labels
    <3>. QED
      BY <1>3, <2>1, <3>1, TypeIs DEF Typed, Start
  <2>2. ASSUME NEW s \in Pending \cup Terminal,
               orders' = [orders EXCEPT ![mine[p]].twint = s],
               tans' = [tans EXCEPT ![p] = s],
               pc' = [pc EXCEPT ![p] = "refresh"], UNCHANGED <<snap, ans, mine>>
        PROVE  Locals' /\ orders' \in OrderTypes
    <3>1. Locals'
      BY <1>1, <2>2 DEF Locals, Labels, Handling
    <3>2. orders' \in OrderTypes
      BY <1>1, <2>2 DEF OrderTypes
    <3>. QED
      BY <3>1, <3>2
  <2>. QED
    BY <1>3, <2>1, <2>2, TypeIs DEF Typed, Start
<1>4. ASSUME Refresh(p) PROVE TypeOK'
  <2>1. Locals'
    BY <1>4, LocalsStay DEF Refresh, Labels, Handling
  <2>2. Verdict(tans[p]) \in {"paid", "cancelled"}
    BY DEF Verdict
  <2>3. orders' \in OrderTypes /\ UNCHANGED <<checkin, row, expired, fresh, kept, faults>>
    BY <1>1, <1>4, <2>2 DEF Refresh, OrderTypes
  <2>. QED
    BY <2>1, <2>3, TypeIs DEF Typed
<1>5. ASSUME Confirm(p) PROVE TypeOK'
  <2>1. Locals'
    BY <1>5, LocalsStay DEF Confirm, Labels, Handling
  <2>2. orders' \in OrderTypes /\ UNCHANGED <<checkin, row, expired, fresh, kept, faults>>
    BY <1>1, <1>5 DEF Confirm, OrderTypes, Terminal
  <2>. QED
    BY <2>1, <2>2, TypeIs DEF Typed
<1>6. ASSUME PollOrder(p), mine[p] \in Orders PROVE TypeOK'
  <2>1. Locals'
    BY <1>1, <1>6 DEF PollOrder, Locals, Labels, Handling, OrderTypes
  <2>. QED
    BY <1>6, <2>1, TypeIs DEF Typed, PollOrder
<1>7. ASSUME Store(p) PROVE TypeOK'
  <2>1. Locals'
    BY <1>7, LocalsStay DEF Store, Labels, Handling
  <2>2. orders' \in OrderTypes /\ UNCHANGED <<checkin, row, expired, fresh, kept, faults>>
    BY <1>1, <1>7 DEF Store, OrderTypes
  <2>. QED
    BY <2>1, <2>2, TypeIs DEF Typed
<1>8. ASSUME Link(p) PROVE TypeOK'
  <2>1. Locals'
    BY <1>8, LocalsStay DEF Link, Labels, Handling
  <2>2. [row EXCEPT !.order = mine[p]] \in Rows
    BY <1>1 DEF Rows, Locals
  <2>3. row' \in Rows /\ UNCHANGED <<checkin, expired, fresh, orders, kept, faults>>
    BY <1>1, <1>8, <2>2, StoredType DEF Link
  <2>. QED
    BY <2>1, <2>3, TypeIs DEF Typed
<1>9. ASSUME Finish(p) \/ Fail(p) PROVE TypeOK'
  <2>1. Locals'
    BY <1>9, LocalsStay DEF Finish, Fail
  <2>2. /\ [row EXCEPT !.status = Outcome(tans[p])] \in Rows
        /\ [row EXCEPT !.status = "FAILED"] \in Rows
    BY <1>1 DEF Rows, Statuses, Outcome
  <2>3. row' \in Rows /\ UNCHANGED <<checkin, expired, fresh, orders, kept, faults>>
    BY <1>1, <1>9, <2>2, StoredType DEF Finish, Fail
  <2>. QED
    BY <2>1, <2>3, TypeIs DEF Typed
<1>10. PollOrder(p) => mine[p] \in Orders
  BY DEF PollOrder, HasPlaced, Handling
<1>. QED
  BY <1>2, <1>3, <1>4, <1>5, <1>6, <1>7, <1>8, <1>9, <1>10 DEF HandlerStep

LEMMA OtherTypes ==
    ASSUME TypeOK,
           CronStart \/ (\E p \in PollProcs : Spawn(p) \/ Load(p)) \/ (\E p \in Procs : Fault(p))
    PROVE  TypeOK'
<1>1. /\ checkin \in CheckInType /\ row \in Rows /\ orders \in OrderTypes /\ Locals
      /\ expired \in BOOLEAN /\ kept \in BOOLEAN
  BY TypeIs, DataAssumption DEF Typed
<1>2. ~Finished(row) \/ InProcess =>
        SnapOf \in [status : {"none"} \cup Alive \cup {"no_pairing"},
                   version : Nat, given : BOOLEAN, expired : BOOLEAN]
  BY <1>1 DEF SnapOf, Rows, Statuses, Finished, InProcess, Alive
<1>3. ASSUME CronStart PROVE TypeOK'
  <2>1. Locals'
    BY <1>1, <1>2, <1>3 DEF CronStart, Locals, Labels
  <2>. QED
    BY <1>3, <2>1, TypeIs DEF Typed, CronStart
<1>4. ASSUME NEW p \in PollProcs, Spawn(p) PROVE TypeOK'
  <2>1. Locals'
    BY <1>1, <1>4 DEF Spawn, Locals, Labels
  <2>. QED
    BY <1>4, <2>1, TypeIs DEF Typed, Spawn
<1>5. ASSUME NEW p \in PollProcs, Load(p) PROVE TypeOK'
  <2>0. p \in Procs
    BY DEF Procs
  <2>1. CASE Finished(row) /\ Quit(p) /\ UNCHANGED fresh
    <3>1. Locals'
      BY <2>0, <2>1, LocalsStay
    <3>. QED
      BY <1>5, <2>1, <3>1, TypeIs DEF Typed, Load
  <2>2. CASE ~Finished(row)
    <3>1. /\ snap' = [snap EXCEPT ![p] = SnapOf] /\ pc' = [pc EXCEPT ![p] = "ask"]
          /\ UNCHANGED <<ans, mine, tans>> /\ fresh' = TRUE
      BY <1>5, <2>2 DEF Load
    <3>2. Locals'
      BY <1>1, <1>2, <2>2, <3>1 DEF Locals, Labels
    <3>. QED
      BY <1>5, <3>1, <3>2, TypeIs DEF Typed, Load
  <2>. QED
    BY <1>5, <2>1, <2>2 DEF Load
<1>6. ASSUME NEW p \in Procs, Fault(p) PROVE TypeOK'
  <2>1. Locals'
    BY <1>6, LocalsStay DEF Fault, Labels
  <2>2. faults' \in 0..MaxFaults
    BY <1>6, BoundsAssumption DEF Fault, TypeOK
  <2>. QED
    BY <1>6, <2>1, <2>2, TypeIs DEF Typed, Fault
<1>. QED
  BY <1>3, <1>4, <1>5, <1>6

\* The order placed stays known until handle() is left.
LEMMA PlacedStays ==
    ASSUME Types, [Next]_vars
    PROVE  \A p \in Procs : HasPlaced(p)'
<1> SUFFICES ASSUME NEW q \in Procs PROVE HasPlaced(q)'
  OBVIOUS
<1>1. HasPlaced(q) /\ pc \in [Procs -> Labels] /\ mine \in [Procs -> Orders \cup {0}]
  BY TypeIs DEF Types, Typed, Locals
<1>2. ASSUME NEW p \in Procs, Quit(p) \/ Return(p) \/ Raise(p) PROVE HasPlaced(q)'
  BY <1>1, <1>2, AllLeave, LeaveEffect DEF Types, HasPlaced, Handling
<1>3. ASSUME NEW p \in Procs, NEW label \in Labels, Goto(p, label),
             label \in Handling \ {"place"} => pc[p] \in Handling \ {"place"}
      PROVE  HasPlaced(q)'
  BY <1>1, <1>3, GotoEffect DEF Types, HasPlaced
<1>4. ASSUME UNCHANGED procs PROVE HasPlaced(q)'
  BY <1>1, <1>4 DEF procs, HasPlaced
<1>5. ASSUME Environment PROVE HasPlaced(q)'
  BY <1>4, <1>5 DEF Environment, RequestCheckIn, CreateRow, CustomerScans, CustomerGivesData,
                    CheckInEnds, CustomerCancels, TwintDecides, Expire, GoStale
<1>6. ASSUME NEW p \in PollProcs, Spawn(p) \/ Load(p) PROVE HasPlaced(q)'
  <2>1. p \in Procs
    BY DEF Procs
  <2>. QED
    BY <1>1, <1>2, <1>6, <2>1 DEF Spawn, Load, HasPlaced, Handling
<1>7. ASSUME CronStart PROVE HasPlaced(q)'
  BY <1>1, <1>7 DEF CronStart, HasPlaced, Handling
<1>8. ASSUME NEW p \in Procs, MonitorStep(p) PROVE HasPlaced(q)'
  <2>1. ASSUME Ask(p) PROVE HasPlaced(q)'
    BY <1>1, <1>2, <1>3, <2>1 DEF Ask, HasPlaced, Handling, Labels
  <2>2. ASSUME CancelCheckIn(p) \/ Mark(p) \/ Write(p) PROVE HasPlaced(q)'
    BY <1>2, <1>3, <2>2 DEF CancelCheckIn, Mark, Write, Handling, Labels
  <2>. QED
    BY <1>8, <2>1, <2>2 DEF MonitorStep
<1>9. ASSUME NEW p \in Procs, HandlerStep(p) PROVE HasPlaced(q)'
  <2>1. ASSUME Place(p) PROVE HasPlaced(q)'
    BY <1>1, <2>1 DEF Place, HasPlaced
  <2>2. ASSUME Start(p) \/ PollOrder(p) PROVE HasPlaced(q)'
    BY <1>1, <1>3, <2>2 DEF Start, PollOrder, HasPlaced, Handling, Labels
  <2>3. ASSUME Refresh(p) \/ Confirm(p) \/ Store(p) \/ Link(p) PROVE HasPlaced(q)'
    BY <1>3, <2>3 DEF Refresh, Confirm, Store, Link, Handling, Labels
  <2>4. ASSUME Finish(p) \/ Fail(p) PROVE HasPlaced(q)'
    BY <1>2, <2>4 DEF Finish, Fail
  <2>. QED
    BY <1>9, <2>1, <2>2, <2>3, <2>4 DEF HandlerStep
<1>10. ASSUME NEW p \in Procs, Fault(p) PROVE HasPlaced(q)'
  BY <1>2, <1>3, <1>10 DEF Fault, Handling, Labels
<1>. QED
  BY <1>4, <1>5, <1>6, <1>7, <1>8, <1>9, <1>10 DEF Next, vars

LEMMA TypesNext == Types /\ [Next]_vars => Types'
<1> SUFFICES ASSUME Types, [Next]_vars PROVE Types'
  OBVIOUS
<1>1. CASE UNCHANGED vars
  BY <1>1, TypeIs DEF Types, Typed, vars, procs, Locals, HasPlaced
<1>2. CASE Next
  BY <1>2, PlacedStays, EnvironmentTypes, MonitorTypes, HandlerTypes, OtherTypes DEF Types, Next
<1>. QED
  BY <1>1, <1>2

\* Every variable has its type, in every reachable state.
THEOREM TypeCorrect == Spec => []TypeOK
<1>1. Init => Types
  BY InitTypes DEF Init, Types, HasPlaced, Handling
<1>. QED
  BY <1>1, TypesNext, PTL DEF Spec, Types

-----------------------------------------------------------------------------
(***************************************************************************)
(* The customer's data, on their way from TWINT to the row.                *)
(***************************************************************************)
\* A check-in that has begun has a status; it has data only when it was active.
CheckInTells ==
    /\ checkin.given => checkin.status \in {"active", "no_pairing"}
    /\ row.status # "none" => checkin.status # "none"

RowTells ==
    /\ row = NoRow \/ row.status # "none"
    /\ row.given => checkin.given /\ row.status \notin {"none", "progress"}
    /\ row.status = "no_pairing" => checkin.status = "no_pairing"

\* What a process has read is the row's unless the version is another.
SnapTells(p) ==
    pc[p] \in {"ask", "write"} =>
        /\ row.status # "none"
        /\ snap[p].version <= row.version
        /\ snap[p].version = row.version =>
              snap[p].status = row.status /\ snap[p].given = (kept /\ row.given)
        /\ snap[p].given => checkin.given /\ snap[p].status # "progress" /\ snap[p].status # "none"
        /\ snap[p].status = "no_pairing" => checkin.status = "no_pairing"

\* A process sees the data arrive only if it did not read them.
AnswerTells(p) ==
    pc[p] = "write" =>
        /\ ans[p].status # "none"
        /\ ans[p].given => checkin.given /\ ans[p].status \in {"active", "no_pairing"}
        /\ ans[p].status = "no_pairing" => checkin.status = "no_pairing"
        /\ snap[p].given => ans[p].given
        /\ ans[p].given /\ ans[p].status = "active" => ~snap[p].given

\* No process runs before there is a row.
RowThere == \A p \in Procs : pc[p] # "idle" => row.status # "none"

DataInv ==
    /\ CheckInTells /\ RowTells /\ RowThere
    /\ \A p \in Procs : SnapTells(p) /\ AnswerTells(p)

\* The check-in only goes forward.
GoesOn ==
    /\ checkin.given => checkin'.given
    /\ checkin.status = "no_pairing" => checkin'.status = "no_pairing"
    /\ checkin.status # "none" => checkin'.status # "none"
    /\ checkin'.given => checkin'.status \in {"active", "no_pairing"}

LEMMA CheckInGoesOn ==
    ASSUME TypeOK, CheckInTells, [Next]_vars
    PROVE  GoesOn /\ kept' = kept
<1>0. checkin \in CheckInType
  BY DEF TypeOK
<1>1. CASE UNCHANGED <<checkin, kept>>
  BY <1>0, <1>1 DEF CheckInTells, GoesOn
<1>2. ASSUME RequestCheckIn PROVE GoesOn /\ kept' = kept
  BY <1>0, <1>2 DEF RequestCheckIn, NoCheckIn, CheckInTells, GoesOn
<1>3. ASSUME CustomerScans \/ CustomerGivesData PROVE GoesOn /\ kept' = kept
  BY <1>0, <1>3 DEF CustomerScans, CustomerGivesData, CheckInType, CheckInTells, GoesOn
<1>4. ASSUME CheckInEnds \/ CustomerCancels \/ \E p \in Procs : CancelCheckIn(p)
      PROVE  GoesOn /\ kept' = kept
  <2>1. kept' = kept /\ (checkin' = checkin \/ checkin' = [checkin EXCEPT !.status = "no_pairing"])
    BY <1>4 DEF CheckInEnds, CustomerCancels, CancelCheckIn
  <2>. QED
    BY <1>0, <2>1 DEF CheckInType, CheckInTells, GoesOn
<1>5. CASE Environment
  BY <1>1, <1>2, <1>3, <1>4, <1>5
  DEF Environment, CreateRow, TwintDecides, Expire, GoStale
<1>6. ASSUME NEW p \in Procs, MonitorStep(p) PROVE GoesOn /\ kept' = kept
  BY <1>1, <1>4, <1>6 DEF MonitorStep, Ask, Mark, Write
<1>7. ASSUME NEW p \in Procs, HandlerStep(p) PROVE UNCHANGED <<checkin, kept>>
  BY <1>7 DEF HandlerStep, Place, Start, Refresh, Confirm, PollOrder, Store, Link, Finish, Fail
<1>8. ASSUME CronStart \/ (\E p \in PollProcs : Spawn(p) \/ Load(p))
                       \/ (\E p \in Procs : Fault(p))
      PROVE  UNCHANGED <<checkin, kept>>
  BY <1>8 DEF CronStart, Spawn, Load, Fault
<1>. QED
  BY <1>1, <1>5, <1>6, <1>7, <1>8 DEF Next, vars

\* What becomes of what is told, when the row stays as it is.
LEMMA TellsOn ==
    ASSUME TypeOK, DataInv, GoesOn, kept' = kept, NEW q \in Procs,
           row' = row, pc'[q] = pc[q], snap'[q] = snap[q], ans'[q] = ans[q]
    PROVE  SnapTells(q)' /\ AnswerTells(q)'
BY DEF DataInv, GoesOn, SnapTells, AnswerTells

\* A process elsewhere than at "ask" or "write" has nothing to tell.
LEMMA TellsNothing ==
    ASSUME NEW q \in Procs, pc'[q] \notin {"ask", "write"}
    PROVE  SnapTells(q)' /\ AnswerTells(q)'
BY DEF SnapTells, AnswerTells

\* Nor is anything lost when the row changes with its version and keeps a
\* status.
LEMMA TellsOld ==
    ASSUME TypeOK, DataInv, GoesOn, kept' = kept, NEW q \in Procs,
           row'.status # "none", row'.version \in Nat,
           row'.version > row.version \/ (row'.version = row.version /\ row' = row),
           pc'[q] = pc[q], snap'[q] = snap[q], ans'[q] = ans[q]
    PROVE  SnapTells(q)' /\ AnswerTells(q)'
<1>1. snap[q].version \in Nat /\ row.version \in Nat
  BY TypeIs DEF Typed, Locals, Rows
<1>. QED
  BY <1>1 DEF DataInv, GoesOn, SnapTells, AnswerTells

LEMMA DataInit == Init => DataInv
BY DEF Init, DataInv, RowThere, CheckInTells, RowTells, SnapTells, AnswerTells, NoCheckIn, NoRow

\* The steps that leave the row alone, and take a process to no other place
\* where it has something to tell.
LEMMA DataAlone ==
    ASSUME TypeOK, DataInv, GoesOn, kept' = kept, row' = row,
           \A q \in Procs : \/ pc'[q] \notin {"ask", "write"}
                            \/ pc'[q] = pc[q] /\ snap'[q] = snap[q] /\ ans'[q] = ans[q],
           row.status # "none" \/ pc' = pc
    PROVE  DataInv'
<1>1. CheckInTells' /\ RowTells' /\ RowThere'
  BY DEF DataInv, GoesOn, CheckInTells, RowTells, RowThere
<1>2. ASSUME NEW q \in Procs PROVE SnapTells(q)' /\ AnswerTells(q)'
  BY <1>2, TellsOn, TellsNothing
<1>. QED
  BY <1>1, <1>2 DEF DataInv

\* A step that stores a new row, after which its process has nothing to tell.
LEMMA DataStored ==
    ASSUME TypeOK, DataInv, GoesOn, kept' = kept,
           NEW p \in Procs, pc'[p] \notin {"ask", "write"},
           \A q \in Procs \ {p} : pc'[q] = pc[q] /\ snap'[q] = snap[q] /\ ans'[q] = ans[q],
           NEW new \in Rows, row' = Stored(new), new.status # "none",
           new.given => checkin'.given /\ new.status # "progress",
           new.status = "no_pairing" => checkin'.status = "no_pairing",
           checkin.status # "none"
    PROVE  DataInv'
<1>1. /\ row' \in Rows /\ row'.status = new.status /\ row'.given = new.given
      /\ row'.version = IF new = row THEN row.version ELSE row.version + 1
      /\ row.version \in Nat /\ row \in Rows
  BY StoredType, TypeIs DEF Typed, Rows
<1>2. CheckInTells' /\ RowTells' /\ RowThere'
  BY <1>1 DEF DataInv, GoesOn, CheckInTells, RowTells, RowThere
<1>3. row'.version > row.version \/ (row'.version = row.version /\ row' = row)
  <2>1. CASE new = row
    <3>1. [row EXCEPT !.version = row.version] = row
      BY <1>1 DEF Rows
    <3>. QED
      BY <1>1, <2>1, <3>1 DEF Stored
  <2>2. CASE new # row
    BY <1>1, <2>2
  <2>. QED
    BY <2>1, <2>2
<1>4. row'.version \in Nat /\ row'.status # "none"
  BY <1>1 DEF Rows
<1>5. ASSUME NEW q \in Procs PROVE SnapTells(q)' /\ AnswerTells(q)'
  BY <1>3, <1>4, <1>5, TellsOld, TellsNothing
<1>. QED
  BY <1>2, <1>5 DEF DataInv

LEMMA DataNext == TypeOK /\ DataInv /\ [Next]_vars => DataInv'
<1> SUFFICES ASSUME TypeOK, DataInv, [Next]_vars PROVE DataInv'
  OBVIOUS
<1>0. /\ GoesOn /\ kept' = kept /\ kept \in BOOLEAN
      /\ checkin \in CheckInType /\ row \in Rows /\ Locals
  BY CheckInGoesOn, TypeIs, DataAssumption DEF DataInv, Typed
<1>1. ASSUME NEW p \in Procs, row' = row, row.status # "none", Quit(p) \/ Return(p) \/ Raise(p)
      PROVE  DataInv'
  BY <1>0, <1>1, AllLeave, LeaveEffect, DataAlone
<1>2. ASSUME NEW p \in Procs, row' = row, row.status # "none",
             NEW label \in Labels \ {"ask", "write"}, Goto(p, label)
      PROVE  DataInv'
  <2>1. \A q \in Procs : \/ pc'[q] \notin {"ask", "write"}
                         \/ pc'[q] = pc[q] /\ snap'[q] = snap[q] /\ ans'[q] = ans[q]
    BY <1>2, GotoEffect
  <2>. QED
    BY <1>0, <1>2, <2>1, DataAlone
<1>3. ASSUME row' = row, UNCHANGED procs PROVE DataInv'
  BY <1>0, <1>3, DataAlone DEF procs
<1>t. row # NoRow <=> row.status # "none"
  BY DEF DataInv, RowTells, NoRow
<1>s. ASSUME NEW p \in Procs, row.status # "none",
             \/ Quit(p) \/ Return(p) \/ Raise(p)
             \/ \E label \in Labels \ {"ask", "write"} : Goto(p, label),
             NEW new \in Rows, row' = Stored(new), new.status # "none",
             new.given => checkin'.given /\ new.status # "progress",
             new.status = "no_pairing" => checkin'.status = "no_pairing"
      PROVE  DataInv'
  <2>1. /\ pc'[p] \notin {"ask", "write"}
        /\ \A q \in Procs \ {p} : pc'[q] = pc[q] /\ snap'[q] = snap[q] /\ ans'[q] = ans[q]
    BY <1>s, AllLeave, LeaveEffect, GotoEffect
  <2>2. checkin.status # "none"
    BY <1>s DEF DataInv, CheckInTells
  <2>. QED
    BY <1>0, <1>s, <2>1, <2>2, DataStored
<1>4. CASE Environment
  <2>1. CASE CreateRow
    <3>1. /\ row = NoRow /\ checkin # NoCheckIn /\ UNCHANGED <<checkin, procs>>
          /\ row' = [status |-> "progress", version |-> 1, given |-> FALSE, order |-> 0]
      BY <2>1 DEF CreateRow
    <3>2. checkin.status # "none"
      BY <1>0, <3>1 DEF DataInv, CheckInTells, CheckInType, NoCheckIn
    <3>3. CheckInTells' /\ RowTells' /\ RowThere'
      BY <3>1, <3>2 DEF DataInv, CheckInTells, RowTells, RowThere
    <3>4. \A q \in Procs : pc'[q] \notin {"ask", "write"}
      BY <3>1 DEF DataInv, SnapTells, NoRow, procs
    <3>. QED
      BY <3>3, <3>4, TellsNothing DEF DataInv
  <2>2. CASE ~CreateRow
    BY <1>3, <1>4, <2>2
    DEF Environment, RequestCheckIn, CustomerScans, CustomerGivesData, CheckInEnds,
        CustomerCancels, TwintDecides, Expire, GoStale, procs
  <2>. QED
    BY <2>1, <2>2
<1>5. SnapOf.version = row.version /\ SnapOf.status = row.status /\ SnapOf.given = (kept /\ row.given)
  BY DEF SnapOf
<1>6. ASSUME NEW p \in Procs, row.status # "none", row' = row,
             snap' = [snap EXCEPT ![p] = SnapOf], pc' = [pc EXCEPT ![p] = "ask"], ans' = ans
      PROVE  DataInv'
  <2>1. \A q \in Procs \ {p} : pc'[q] = pc[q] /\ snap'[q] = snap[q] /\ ans'[q] = ans[q]
    BY <1>6
  <2>2. pc'[p] = "ask" /\ snap'[p] = SnapOf
    BY <1>0, <1>6 DEF Locals
  <2>3. row.version \in Nat
    BY <1>0 DEF Rows
  <2>4. SnapTells(p)'
    <3>1. /\ snap'[p].version = row'.version /\ snap'[p].status = row'.status
          /\ snap'[p].given = (kept' /\ row'.given)
      BY <1>0, <1>5, <1>6, <2>2
    <3>2. row'.version <= row'.version /\ row'.status # "none"
      BY <1>6, <2>3
    <3>3. /\ row'.given => checkin'.given /\ row'.status \notin {"none", "progress"}
          /\ row'.status = "no_pairing" => checkin'.status = "no_pairing"
      BY <1>0, <1>6 DEF DataInv, RowTells, GoesOn
    <3>. QED
      BY <3>1, <3>2, <3>3 DEF SnapTells
  <2>5. AnswerTells(p)'
    BY <2>2 DEF AnswerTells
  <2>6. CheckInTells' /\ RowTells' /\ RowThere'
    BY <1>0, <1>6 DEF DataInv, GoesOn, CheckInTells, RowTells, RowThere
  <2>7. \A q \in Procs \ {p} : SnapTells(q)' /\ AnswerTells(q)'
    BY <1>0, <1>6, <2>1, TellsOn
  <2>. QED
    BY <2>4, <2>5, <2>6, <2>7 DEF DataInv
<1>7. ASSUME NEW p \in PollProcs, Spawn(p) \/ Load(p) PROVE DataInv'
  <2>0. p \in Procs
    BY DEF Procs
  <2>1. CASE Spawn(p)
    <3>1. \A q \in Procs : \/ pc'[q] \notin {"ask", "write"}
                           \/ pc'[q] = pc[q] /\ snap'[q] = snap[q] /\ ans'[q] = ans[q]
      BY <1>0, <2>0, <2>1 DEF Spawn, Locals
    <3>. QED
      BY <1>0, <1>t, <2>1, <3>1, DataAlone DEF Spawn
  <2>2. CASE Load(p)
    <3>0. row.status # "none"
      BY <2>0, <2>2 DEF Load, DataInv, RowThere
    <3>1. CASE Finished(row)
      BY <1>1, <2>0, <2>2, <3>0, <3>1 DEF Load
    <3>2. CASE ~Finished(row)
      <4>1. /\ snap' = [snap EXCEPT ![p] = SnapOf] /\ pc' = [pc EXCEPT ![p] = "ask"]
            /\ ans' = ans /\ row' = row
        BY <2>2, <3>2 DEF Load
      <4>. QED
        BY <1>6, <2>0, <3>0, <4>1
    <3>. QED
      BY <3>1, <3>2
  <2>. QED
    BY <1>7, <2>1, <2>2
<1>8. CASE CronStart
  <2>1. /\ snap' = [snap EXCEPT ![Cron] = SnapOf] /\ pc' = [pc EXCEPT ![Cron] = "ask"]
        /\ ans' = ans /\ row' = row /\ row.status # "none"
    BY <1>8 DEF CronStart, InProcess
  <2>. QED
    BY <1>6, <2>1 DEF Procs
<1>9. ASSUME NEW p \in Procs, MonitorStep(p), row.status # "none" PROVE DataInv'
  <2>1. CASE Ask(p) /\ IsChanged(p, checkin)
    <3>1. /\ pc' = [pc EXCEPT ![p] = "write"] /\ ans' = [ans EXCEPT ![p] = checkin]
          /\ UNCHANGED <<snap, row, checkin>> /\ pc[p] = "ask"
      BY <2>1 DEF Ask
    <3>2. pc'[p] = "write" /\ ans'[p] = checkin /\ snap'[p] = snap[p]
      BY <1>0, <3>1 DEF Locals
    <3>3. \A q \in Procs \ {p} : pc'[q] = pc[q] /\ snap'[q] = snap[q] /\ ans'[q] = ans[q]
      BY <3>1
    <3>4. SnapTells(p)'
      BY <1>0, <3>1, <3>2 DEF DataInv, SnapTells
    <3>5. AnswerTells(p)'
      <4>1. /\ checkin.status # "none"
            /\ checkin.given => checkin.status \in {"active", "no_pairing"}
            /\ snap[p].given => checkin.given
        BY <1>9, <3>1 DEF DataInv, CheckInTells, SnapTells
      <4>2. ASSUME checkin.given, checkin.status = "active" PROVE ~snap[p].given
        <5>1. /\ snap[p].given => snap[p].status \notin {"progress", "none", "no_pairing"}
              /\ snap[p].status \in {"none", "progress", "active", "no_pairing"}
              /\ snap[p].given \in BOOLEAN
          BY <1>0, <3>1, <4>2 DEF DataInv, SnapTells, Locals, Alive
        <5>2. snap[p].status # "active" \/ snap[p].given # TRUE
          BY <1>0, <2>1, <4>2 DEF IsChanged, CheckInType
        <5>. QED
          BY <5>1, <5>2
      <4>. QED
        BY <3>1, <3>2, <4>1, <4>2 DEF AnswerTells
    <3>6. \A q \in Procs \ {p} : SnapTells(q)' /\ AnswerTells(q)'
      BY <1>0, <3>1, <3>3, TellsOn
    <3>7. CheckInTells' /\ RowTells' /\ RowThere'
      BY <1>9, <3>1 DEF DataInv, CheckInTells, RowTells, RowThere
    <3>. QED
      BY <3>4, <3>5, <3>6, <3>7 DEF DataInv
  <2>2. CASE Ask(p) /\ ~IsChanged(p, checkin)
    BY <1>1, <1>2, <1>9, <2>2 DEF Ask, Labels
  <2>3. CASE CancelCheckIn(p)
    BY <1>1, <1>2, <1>9, <2>3 DEF CancelCheckIn, Labels
  <2>4. CASE Mark(p)
    <3> DEFINE new == [row EXCEPT !.status = "CANCELLED"]
    <3>1. new \in Rows /\ new.status = "CANCELLED" /\ new.given = row.given
      BY <1>0 DEF Rows, Statuses
    <3>2. row' = Stored(new) /\ Return(p) /\ UNCHANGED checkin
      BY <2>4 DEF Mark
    <3>3. row.given => checkin'.given
      BY <3>2 DEF DataInv, RowTells
    <3> HIDE DEF new
    <3>. QED
      BY <1>s, <1>9, <3>1, <3>2, <3>3
  <2>5. CASE Write(p)
    <3>1. CASE Conflict(p) /\ Return(p) /\ UNCHANGED row
      BY <1>1, <1>9, <3>1
    <3>2. CASE ~(Conflict(p) /\ Return(p) /\ UNCHANGED row)
      <4> DEFINE new == [row EXCEPT !.status = ans[p].status, !.given = ans[p].given]
      <4>1. new \in Rows /\ new.status = ans[p].status /\ new.given = ans[p].given
        BY <1>0 DEF Rows, Statuses, Locals, CheckInType
      <4>2. row' = Stored(new) /\ UNCHANGED checkin /\ pc[p] = "write"
        BY <2>5, <3>2 DEF Write
      <4>3. /\ new.status # "none"
            /\ new.given => checkin'.given /\ new.status # "progress"
            /\ new.status = "no_pairing" => checkin'.status = "no_pairing"
        BY <4>1, <4>2 DEF DataInv, AnswerTells
      <4>4. Goto(p, "place") \/ Goto(p, "mark") \/ Return(p)
        BY <2>5, <3>2 DEF Write
      <4> HIDE DEF new
      <4>. QED
        BY <1>s, <1>9, <4>1, <4>2, <4>3, <4>4 DEF Labels, Handling
    <3>. QED
      BY <3>1, <3>2
  <2>. QED
    BY <1>9, <2>1, <2>2, <2>3, <2>4, <2>5 DEF MonitorStep
<1>10. ASSUME NEW p \in Procs, HandlerStep(p), row.status # "none" PROVE DataInv'
  <2>1. CASE Place(p) \/ Start(p) \/ Refresh(p) \/ Confirm(p) \/ PollOrder(p) \/ Store(p)
    <3>1. /\ row' = row
          /\ \A q \in Procs : \/ pc'[q] \notin {"ask", "write"}
                              \/ pc'[q] = pc[q] /\ snap'[q] = snap[q] /\ ans'[q] = ans[q]
      BY <1>0, <2>1, GotoEffect
      DEF Place, Start, Refresh, Confirm, PollOrder, Store, Locals, Labels, Handling
    <3>. QED
      BY <1>0, <1>10, <3>1, DataAlone
  <2>2. CASE Link(p)
    <3> DEFINE new == [row EXCEPT !.order = mine[p]]
    <3>1. new \in Rows /\ new.status = row.status /\ new.given = row.given
      BY <1>0 DEF Rows, Locals
    <3>2. row' = Stored(new) /\ Goto(p, "finish") /\ UNCHANGED checkin
      BY <2>2 DEF Link
    <3>3. /\ row.given => checkin'.given /\ row.status # "progress"
          /\ row.status = "no_pairing" => checkin'.status = "no_pairing"
      BY <3>2 DEF DataInv, RowTells
    <3>4. "finish" \in Labels \ {"ask", "write"}
      BY DEF Labels, Handling
    <3> HIDE DEF new
    <3>. QED
      BY <1>s, <1>10, <3>1, <3>2, <3>3, <3>4
  <2>3. CASE Finish(p) \/ Fail(p)
    <3>1. PICK status \in {"DONE", "FAILED"} : row' = Stored([row EXCEPT !.status = status])
      BY <2>3 DEF Finish, Fail, Outcome
    <3> DEFINE new == [row EXCEPT !.status = status]
    <3>2. new \in Rows /\ new.status \in {"DONE", "FAILED"} /\ new.given = row.given
      BY <1>0 DEF Rows, Statuses
    <3>3. row' = Stored(new) /\ (Return(p) \/ Raise(p)) /\ UNCHANGED checkin
      BY <2>3, <3>1 DEF Finish, Fail
    <3>4. row.given => checkin'.given
      BY <3>3 DEF DataInv, RowTells
    <3> HIDE DEF new
    <3>. QED
      BY <1>s, <1>10, <3>2, <3>3, <3>4
  <2>. QED
    BY <1>10, <2>1, <2>2, <2>3 DEF HandlerStep
<1>11. ASSUME NEW p \in Procs, Fault(p) PROVE DataInv'
  <2>1. row.status # "none" /\ row' = row
    BY <1>11 DEF Fault, DataInv, RowThere
  <2>. QED
    BY <1>1, <1>2, <1>11, <2>1 DEF Fault, Labels
<1>12. ASSUME NEW p \in Procs, MonitorStep(p) \/ HandlerStep(p) PROVE row.status # "none"
  <2>1. pc[p] # "idle"
    BY <1>12
    DEF MonitorStep, Ask, CancelCheckIn, Mark, Write, HandlerStep, Place, Start, Refresh,
        Confirm, PollOrder, Store, Link, Finish, Fail
  <2>. QED
    BY <2>1 DEF DataInv, RowThere
<1>. QED
  BY <1>3, <1>4, <1>7, <1>8, <1>9, <1>10, <1>11, <1>12 DEF Next, vars

-----------------------------------------------------------------------------
(***************************************************************************)
(* The process that placed an order is the only one to touch it.           *)
(***************************************************************************)
\* What a process knows of the order it has placed.
Knows(p) ==
    LET o == orders[mine[p]]
    IN  /\ o.tx # "none"
        /\ pc[p] \in {"start", "refresh", "confirm", "poll"} => o.tx = "open"
        /\ tans[p] = "success" => o.twint = "success"
        /\ pc[p] \in {"store", "link", "finish"} =>
              tans[p] \in Terminal /\ o.tx = Verdict(tans[p])
        /\ pc[p] \in {"link", "finish"} => o.stored

Own(p) ==
    /\ pc[p] \notin (Handling \ {"place"}) \cup {"fail"} => mine[p] = 0
    /\ mine[p] = 0 => tans[p] = "none"
    /\ mine[p] \in Orders => Knows(p)

Distinct == \A p, q \in Procs : mine[p] # 0 /\ mine[p] = mine[q] => p = q

OrdersAreOwned == (\A p \in Procs : Own(p)) /\ Distinct /\ PaidNeedsSuccess

LEMMA OwnedInit == Init => OrdersAreOwned
BY DEF Init, OrdersAreOwned, Own, Distinct, PaidNeedsSuccess, NoOrder, Orders

\* What a step of p that touches no other's order leaves to the others.
LEMMA OthersOwn ==
    ASSUME Types, OrdersAreOwned, NEW p \in Procs,
           \A q \in Procs \ {p} : pc'[q] = pc[q] /\ mine'[q] = mine[q] /\ tans'[q] = tans[q],
           mine'[p] \in {0, mine[p]},
           \A n \in Orders \ {mine[p]} : orders'[n] = orders[n]
    PROVE  (\A q \in Procs \ {p} : Own(q)') /\ Distinct'
<1>1. Distinct'
  BY DEF OrdersAreOwned, Distinct
<1>2. ASSUME NEW q \in Procs \ {p} PROVE Own(q)'
  <2>1. Own(q) /\ mine'[q] = mine[q] /\ pc'[q] = pc[q] /\ tans'[q] = tans[q]
    BY DEF OrdersAreOwned
  <2>2. mine[q] \in Orders => orders'[mine[q]] = orders[mine[q]]
    BY DEF OrdersAreOwned, Distinct, Orders
  <2>. QED
    BY <2>1, <2>2 DEF Own, Knows
<1>. QED
  BY <1>1, <1>2

\* A process that leaves forgets its order.
LEMMA OwnLeave ==
    ASSUME Types, OrdersAreOwned, NEW p \in Procs, Quit(p) \/ Return(p) \/ Raise(p),
           orders' = orders
    PROVE  OrdersAreOwned'
<1>1. /\ pc'[p] \in {"idle", "load"} /\ mine'[p] = 0 /\ tans'[p] = "none"
      /\ \A q \in Procs \ {p} : pc'[q] = pc[q] /\ mine'[q] = mine[q] /\ tans'[q] = tans[q]
  BY AllLeave, LeaveEffect DEF Types
<1>2. Own(p)'
  BY <1>1 DEF Own, Handling, Orders
<1>3. (\A q \in Procs \ {p} : Own(q)') /\ Distinct'
  BY <1>1, OthersOwn
<1>4. PaidNeedsSuccess'
  BY DEF OrdersAreOwned, PaidNeedsSuccess
<1>. QED
  BY <1>2, <1>3, <1>4 DEF OrdersAreOwned

\* One that has no order goes where it needs none.
LEMMA OwnElsewhere ==
    ASSUME Types, OrdersAreOwned, NEW p \in Procs, orders' = orders, mine' = mine, tans' = tans,
           \A q \in Procs \ {p} : pc'[q] = pc[q],
           mine[p] = 0 \/ pc'[p] = "fail"
    PROVE  OrdersAreOwned'
<1>1. Own(p)'
  BY DEF OrdersAreOwned, Own, Knows, Orders
<1>2. (\A q \in Procs \ {p} : Own(q)') /\ Distinct'
  BY OthersOwn
<1>3. PaidNeedsSuccess'
  BY DEF OrdersAreOwned, PaidNeedsSuccess
<1>. QED
  BY <1>1, <1>2, <1>3 DEF OrdersAreOwned

LEMMA OwnedMonitor ==
    ASSUME Types, OrdersAreOwned, NEW p \in Procs, MonitorStep(p)
    PROVE  OrdersAreOwned'
<1>1. orders' = orders /\ mine[p] = 0
  BY DEF MonitorStep, Ask, CancelCheckIn, Mark, Write, OrdersAreOwned, Own, Handling
<1>2. ASSUME NEW label \in Labels, Goto(p, label) PROVE OrdersAreOwned'
  BY <1>1, <1>2, GotoEffect, OwnElsewhere DEF Types
<1>3. CASE Quit(p) \/ Return(p) \/ Raise(p)
  BY <1>1, <1>3, OwnLeave
<1>4. CASE Ask(p)
  <2>1. CASE IsChanged(p, checkin)
    <3>1. pc' = [pc EXCEPT ![p] = "write"] /\ mine' = mine /\ tans' = tans
      BY <1>4, <2>1 DEF Ask
    <3>2. \A q \in Procs \ {p} : pc'[q] = pc[q]
      BY <3>1, TypeIs DEF Types, Typed, Locals
    <3>. QED
      BY <1>1, <3>1, <3>2, OwnElsewhere
  <2>2. CASE ~IsChanged(p, checkin)
    BY <1>2, <1>3, <1>4, <2>2 DEF Ask, Labels
  <2>. QED
    BY <2>1, <2>2
<1>5. CASE CancelCheckIn(p) \/ Mark(p) \/ Write(p)
  BY <1>2, <1>3, <1>5 DEF CancelCheckIn, Mark, Write, Labels, Handling
<1>. QED
  BY <1>4, <1>5 DEF MonitorStep

LEMMA OwnedHandler ==
    ASSUME Types, OrdersAreOwned, NEW p \in Procs, HandlerStep(p)
    PROVE  OrdersAreOwned'
<1>0. /\ orders \in OrderTypes /\ Locals /\ Own(p) /\ PaidNeedsSuccess
      /\ mine[p] \in Orders \cup {0} /\ tans[p] \in {"none"} \cup Pending \cup Terminal
  BY TypeIs DEF Types, Typed, OrdersAreOwned, Locals
<1>1. ASSUME Place(p) PROVE OrdersAreOwned'
  <2>1. PICK n \in Orders : /\ Placed = 1..(n - 1)
                            /\ orders' = [orders EXCEPT ![n].tx = "open"]
                            /\ mine' = [mine EXCEPT ![p] = n]
    BY <1>1 DEF Place
  <2>2. pc[p] = "place" /\ pc' = [pc EXCEPT ![p] = "start"] /\ tans' = tans
    BY <1>1 DEF Place
  <2>3. orders[n].tx = "none"
    <3>1. n \notin 1..(n - 1)
      BY DEF Orders
    <3>. QED
      BY <2>1, <3>1 DEF Placed
  <2>4. mine[p] = 0 /\ tans[p] = "none"
    BY <1>0, <2>2 DEF Own, Handling
  <2>5. /\ mine'[p] = n /\ pc'[p] = "start" /\ tans'[p] = "none" /\ orders'[n].tx = "open"
        /\ \A k \in Orders \ {n} : orders'[k] = orders[k]
        /\ \A q \in Procs \ {p} : pc'[q] = pc[q] /\ mine'[q] = mine[q] /\ tans'[q] = tans[q]
    BY <1>0, <2>1, <2>2, <2>4 DEF Locals, OrderTypes
  <2>6. \A q \in Procs : mine[q] # n
    BY <2>3 DEF OrdersAreOwned, Own, Knows
  <2>7. n # 0
    BY DEF Orders
  <2>8. Own(p)'
    BY <2>5, <2>7 DEF Own, Knows, Handling, Orders
  <2>9. ASSUME NEW q \in Procs \ {p} PROVE Own(q)'
    <3>1. Own(q) /\ mine[q] # n
      BY <2>6 DEF OrdersAreOwned
    <3>. QED
      BY <2>5, <3>1 DEF Own, Knows
  <2>10. Distinct'
    BY <2>5, <2>6 DEF OrdersAreOwned, Distinct
  <2>11. PaidNeedsSuccess'
    BY <1>0, <2>5 DEF PaidNeedsSuccess
  <2>. QED
    BY <2>8, <2>9, <2>10, <2>11 DEF OrdersAreOwned
<1>2. pc[p] \in Handling \ {"place"} => mine[p] \in Orders /\ Knows(p)
  BY <1>0 DEF Types, HasPlaced, Own
\* A step at the process's own order.
<1>3. ASSUME mine[p] \in Orders,
             \A q \in Procs \ {p} : pc'[q] = pc[q] /\ mine'[q] = mine[q] /\ tans'[q] = tans[q],
             mine'[p] = mine[p], pc'[p] \in (Handling \ {"place"}) \cup {"fail"},
             \A n \in Orders \ {mine[p]} : orders'[n] = orders[n],
             Knows(p)',
             orders'[mine[p]].tx = "paid" => orders'[mine[p]].twint = "success"
      PROVE  OrdersAreOwned'
  <2>1. Own(p)'
    BY <1>3 DEF Own, Orders
  <2>2. (\A q \in Procs \ {p} : Own(q)') /\ Distinct'
    BY <1>3, OthersOwn
  <2>3. PaidNeedsSuccess'
    BY <1>0, <1>3 DEF PaidNeedsSuccess
  <2>. QED
    BY <2>1, <2>2, <2>3 DEF OrdersAreOwned
\* One that changes nothing but the place it is at.
<1>a. ASSUME NEW label \in (Handling \ {"place"}) \cup {"fail"}, Goto(p, label), pc[p] \in Handling \ {"place"}
      PROVE  /\ mine[p] \in Orders /\ Knows(p)
             /\ \A q \in Procs \ {p} : pc'[q] = pc[q] /\ mine'[q] = mine[q] /\ tans'[q] = tans[q]
             /\ mine'[p] = mine[p] /\ tans'[p] = tans[p] /\ pc'[p] = label
  <2>1. label \in Labels
    BY DEF Labels
  <2>. QED
    BY <1>2, <1>a, <2>1, GotoEffect DEF Types
<1>b. ASSUME Goto(p, "fail"), UNCHANGED orders PROVE OrdersAreOwned'
  <2>1. "fail" \in Labels
    BY DEF Labels
  <2>. QED
    BY <1>b, <2>1, GotoEffect, OwnElsewhere DEF Types
<1>4. ASSUME Start(p) PROVE OrdersAreOwned'
  <2>1. CASE Goto(p, "fail") /\ UNCHANGED orders
    BY <1>b, <2>1
  <2>2. ASSUME NEW s \in Pending \cup Terminal,
               orders' = [orders EXCEPT ![mine[p]].twint = s],
               tans' = [tans EXCEPT ![p] = s],
               pc' = [pc EXCEPT ![p] = "refresh"], UNCHANGED <<snap, ans, mine>>
        PROVE  OrdersAreOwned'
    <3>1. pc[p] = "start" /\ mine[p] \in Orders /\ orders[mine[p]].tx = "open"
      BY <1>2, <1>4 DEF Start, Handling, Knows
    <3>2. /\ pc'[p] = "refresh" /\ tans'[p] = s /\ mine'[p] = mine[p]
          /\ orders'[mine[p]].tx = "open" /\ orders'[mine[p]].twint = s
          /\ \A n \in Orders \ {mine[p]} : orders'[n] = orders[n]
          /\ \A q \in Procs \ {p} : pc'[q] = pc[q] /\ mine'[q] = mine[q] /\ tans'[q] = tans[q]
      BY <1>0, <2>2, <3>1 DEF Locals, OrderTypes
    <3>3. Knows(p)'
      BY <3>2 DEF Knows
    <3>. QED
      BY <1>3, <3>1, <3>2, <3>3 DEF Handling
  <2>. QED
    BY <1>4, <2>1, <2>2 DEF Start
<1>5. ASSUME Refresh(p) PROVE OrdersAreOwned'
  <2>1. /\ pc[p] = "refresh" /\ mine[p] \in Orders /\ Knows(p)
        /\ orders[mine[p]].tx = "open"
    BY <1>2, <1>5 DEF Refresh, Handling, Knows
  <2>2. CASE Decided(tans[p])
    <3>1. orders' = [orders EXCEPT ![mine[p]].tx = Verdict(tans[p])] /\ Goto(p, "store")
      BY <1>5, <2>2 DEF Refresh
    <3>2. /\ orders'[mine[p]].tx = Verdict(tans[p])
          /\ orders'[mine[p]].twint = orders[mine[p]].twint
          /\ \A n \in Orders \ {mine[p]} : orders'[n] = orders[n]
      BY <1>0, <2>1, <3>1 DEF OrderTypes
    <3>3. /\ \A q \in Procs \ {p} : pc'[q] = pc[q] /\ mine'[q] = mine[q] /\ tans'[q] = tans[q]
          /\ mine'[p] = mine[p] /\ tans'[p] = tans[p] /\ pc'[p] = "store"
      BY <1>a, <2>1, <3>1 DEF Handling
    <3>4. Knows(p)'
      BY <2>1, <2>2, <3>2, <3>3 DEF Knows, Decided, Verdict
    <3>5. orders'[mine[p]].tx = "paid" => orders'[mine[p]].twint = "success"
      BY <2>1, <3>2 DEF Knows, Verdict
    <3>. QED
      BY <1>3, <2>1, <3>2, <3>3, <3>4, <3>5 DEF Handling
  <2>3. CASE ~Decided(tans[p])
    <3>1. PICK label \in {"confirm", "poll"} : Goto(p, label) /\ UNCHANGED orders
      BY <1>5, <2>3 DEF Refresh
    <3>2. /\ \A q \in Procs \ {p} : pc'[q] = pc[q] /\ mine'[q] = mine[q] /\ tans'[q] = tans[q]
          /\ mine'[p] = mine[p] /\ tans'[p] = tans[p] /\ pc'[p] \in {"confirm", "poll"}
      BY <1>a, <2>1, <3>1 DEF Handling
    <3>3. Knows(p)'
      BY <2>1, <3>1, <3>2 DEF Knows
    <3>. QED
      BY <1>3, <2>1, <3>1, <3>2, <3>3 DEF Handling
  <2>. QED
    BY <2>2, <2>3
<1>6. ASSUME Confirm(p) PROVE OrdersAreOwned'
  <2>1. /\ pc[p] = "confirm" /\ mine[p] \in Orders /\ Knows(p)
        /\ orders[mine[p]].tx = "open"
    BY <1>2, <1>6 DEF Confirm, Handling, Knows
  <2>2. CASE Goto(p, "fail") /\ UNCHANGED orders
    BY <1>b, <2>2
  <2>3. CASE orders' = [orders EXCEPT ![mine[p]].twint = "success"] /\ Goto(p, "poll")
    <3>1. /\ orders'[mine[p]].tx = "open" /\ orders'[mine[p]].twint = "success"
          /\ \A n \in Orders \ {mine[p]} : orders'[n] = orders[n]
      BY <1>0, <2>1, <2>3 DEF OrderTypes
    <3>2. /\ \A q \in Procs \ {p} : pc'[q] = pc[q] /\ mine'[q] = mine[q] /\ tans'[q] = tans[q]
          /\ mine'[p] = mine[p] /\ tans'[p] = tans[p] /\ pc'[p] = "poll"
      BY <1>a, <2>1, <2>3 DEF Handling
    <3>3. Knows(p)'
      BY <3>1, <3>2 DEF Knows
    <3>. QED
      BY <1>3, <2>1, <3>1, <3>2, <3>3 DEF Handling
  <2>. QED
    BY <1>6, <2>2, <2>3 DEF Confirm
<1>7. ASSUME PollOrder(p) PROVE OrdersAreOwned'
  <2>1. /\ pc[p] = "poll" /\ mine[p] \in Orders /\ Knows(p) /\ orders[mine[p]].tx = "open"
        /\ orders' = orders /\ mine' = mine
        /\ tans' = [tans EXCEPT ![p] = orders[mine[p]].twint]
        /\ pc' = [pc EXCEPT ![p] = "refresh"]
    BY <1>2, <1>7 DEF PollOrder, Handling, Knows
  <2>2. /\ pc'[p] = "refresh" /\ tans'[p] = orders[mine[p]].twint
        /\ \A q \in Procs \ {p} : pc'[q] = pc[q] /\ mine'[q] = mine[q] /\ tans'[q] = tans[q]
    BY <1>0, <2>1 DEF Locals
  <2>3. Knows(p)'
    BY <2>1, <2>2 DEF Knows
  <2>. QED
    BY <1>3, <2>1, <2>2, <2>3 DEF Handling
<1>8. ASSUME Store(p) PROVE OrdersAreOwned'
  <2>1. /\ pc[p] = "store" /\ mine[p] \in Orders /\ Knows(p)
        /\ orders' = [orders EXCEPT ![mine[p]].stored = TRUE] /\ Goto(p, "link")
    BY <1>2, <1>8 DEF Store, Handling
  <2>2. /\ orders'[mine[p]].tx = orders[mine[p]].tx
        /\ orders'[mine[p]].twint = orders[mine[p]].twint
        /\ orders'[mine[p]].stored
        /\ \A n \in Orders \ {mine[p]} : orders'[n] = orders[n]
    BY <1>0, <2>1 DEF OrderTypes
  <2>3. /\ \A q \in Procs \ {p} : pc'[q] = pc[q] /\ mine'[q] = mine[q] /\ tans'[q] = tans[q]
        /\ mine'[p] = mine[p] /\ tans'[p] = tans[p] /\ pc'[p] = "link"
    BY <1>a, <2>1 DEF Handling
  <2>4. Knows(p)'
    BY <2>1, <2>2, <2>3 DEF Knows
  <2>5. orders'[mine[p]].tx = "paid" => orders'[mine[p]].twint = "success"
    BY <1>0, <2>1, <2>2 DEF PaidNeedsSuccess
  <2>. QED
    BY <1>3, <2>1, <2>2, <2>3, <2>4, <2>5 DEF Handling
<1>9. ASSUME Link(p) PROVE OrdersAreOwned'
  <2>1. /\ pc[p] = "link" /\ mine[p] \in Orders /\ Knows(p)
        /\ orders' = orders /\ Goto(p, "finish")
    BY <1>2, <1>9 DEF Link, Handling
  <2>2. /\ \A q \in Procs \ {p} : pc'[q] = pc[q] /\ mine'[q] = mine[q] /\ tans'[q] = tans[q]
        /\ mine'[p] = mine[p] /\ tans'[p] = tans[p] /\ pc'[p] = "finish"
    BY <1>a, <2>1 DEF Handling
  <2>3. Knows(p)'
    BY <2>1, <2>2 DEF Knows
  <2>4. orders'[mine[p]].tx = "paid" => orders'[mine[p]].twint = "success"
    BY <1>0, <2>1 DEF PaidNeedsSuccess
  <2>. QED
    BY <1>3, <2>1, <2>2, <2>3, <2>4 DEF Handling
<1>10. ASSUME Finish(p) \/ Fail(p) PROVE OrdersAreOwned'
  BY <1>10, OwnLeave DEF Finish, Fail
<1>. QED
  BY <1>1, <1>4, <1>5, <1>6, <1>7, <1>8, <1>9, <1>10 DEF HandlerStep

LEMMA OwnedNext == Types /\ OrdersAreOwned /\ [Next]_vars => OrdersAreOwned'
<1> SUFFICES ASSUME Types, OrdersAreOwned, [Next]_vars PROVE OrdersAreOwned'
  OBVIOUS
<1>0. orders \in OrderTypes /\ Locals
  BY TypeIs DEF Types, Typed
<1>1. ASSUME UNCHANGED <<orders, procs>> PROVE OrdersAreOwned'
  <2>1. (\A p \in Procs : Own(p)') /\ Distinct' /\ PaidNeedsSuccess'
    BY <1>1 DEF procs, OrdersAreOwned, Own, Knows, Distinct, PaidNeedsSuccess
  <2>. QED
    BY <2>1 DEF OrdersAreOwned
<1>2. ASSUME NEW n \in Orders, TwintDecides(n) PROVE OrdersAreOwned'
  <2>1. PICK s \in {"confirm", "failure"} : orders' = [orders EXCEPT ![n].twint = s]
    BY <1>2 DEF TwintDecides
  <2>2. orders[n].twint # "success" /\ UNCHANGED procs
    BY <1>2 DEF TwintDecides, Pending
  <2>3. \A k \in Orders : /\ orders'[k].tx = orders[k].tx /\ orders'[k].stored = orders[k].stored
                          /\ orders[k].twint = "success" => orders'[k].twint = "success"
    BY <1>0, <2>1, <2>2 DEF OrderTypes
  <2>4. ASSUME NEW p \in Procs PROVE Own(p)'
    BY <2>2, <2>3 DEF procs, OrdersAreOwned, Own, Knows
  <2>5. Distinct' /\ PaidNeedsSuccess'
    BY <2>2, <2>3 DEF procs, OrdersAreOwned, Distinct, PaidNeedsSuccess
  <2>. QED
    BY <2>4, <2>5 DEF OrdersAreOwned
<1>3. CASE Environment
  BY <1>1, <1>2, <1>3
  DEF Environment, RequestCheckIn, CreateRow, CustomerScans, CustomerGivesData, CheckInEnds,
      CustomerCancels, Expire, GoStale
<1>4. ASSUME NEW p \in Procs, pc[p] \in {"idle", "load"}, orders' = orders, mine' = mine,
             tans' = tans, \A q \in Procs \ {p} : pc'[q] = pc[q]
      PROVE  OrdersAreOwned'
  <2>1. mine[p] = 0
    BY <1>4 DEF OrdersAreOwned, Own, Handling
  <2>. QED
    BY <1>4, <2>1, OwnElsewhere
<1>5. ASSUME NEW p \in PollProcs, Spawn(p) \/ Load(p) PROVE OrdersAreOwned'
  <2>0. p \in Procs
    BY DEF Procs
  <2>1. CASE Spawn(p)
    BY <1>4, <2>0, <2>1 DEF Spawn
  <2>2. CASE Load(p) /\ Finished(row)
    BY <2>0, <2>2, OwnLeave DEF Load
  <2>3. CASE Load(p) /\ ~Finished(row)
    <3>1. /\ pc[p] = "load" /\ pc' = [pc EXCEPT ![p] = "ask"]
          /\ orders' = orders /\ mine' = mine /\ tans' = tans
      BY <2>3 DEF Load
    <3>2. \A q \in Procs \ {p} : pc'[q] = pc[q]
      BY <1>0, <3>1 DEF Locals
    <3>. QED
      BY <1>4, <2>0, <3>1, <3>2
  <2>. QED
    BY <1>5, <2>1, <2>2, <2>3
<1>6. CASE CronStart
  BY <1>4, <1>6 DEF CronStart, Procs
<1>7. ASSUME NEW p \in Procs, Fault(p) PROVE OrdersAreOwned'
  <2>1. CASE Quit(p) \/ Raise(p)
    BY <1>7, <2>1, OwnLeave DEF Fault
  <2>2. CASE Goto(p, "fail")
    <3>1. "fail" \in Labels
      BY DEF Labels
    <3>. QED
      BY <1>7, <2>2, <3>1, GotoEffect, OwnElsewhere DEF Fault, Types
  <2>. QED
    BY <1>7, <2>1, <2>2 DEF Fault
<1>. QED
  BY <1>1, <1>3, <1>5, <1>6, <1>7, OwnedMonitor, OwnedHandler DEF Next, vars

\* No transaction is paid without TWINT having taken the money: whatever the
\* processes do, for the one that pays an order has it to itself.
THEOREM PaidNeedsSuccessAlways == Spec => []PaidNeedsSuccess
<1>1. Init => Types /\ OrdersAreOwned
  BY InitTypes, OwnedInit DEF Init, Types, HasPlaced, Handling
<1>2. Types /\ OrdersAreOwned /\ [Next]_vars => (Types /\ OrdersAreOwned)'
  BY TypesNext, OwnedNext
<1>3. OrdersAreOwned => PaidNeedsSuccess
  BY DEF OrdersAreOwned
<1>. QED
  BY <1>1, <1>2, <1>3, PTL DEF Spec

-----------------------------------------------------------------------------
(***************************************************************************)
(* One order, and what the row says of it.                                 *)
(***************************************************************************)
\* If the data are kept: without them in the row no order, with them one
\* process may place one, once.
OneOrder ==
    /\ Placed \subseteq {1}
    /\ ~row.given => Placed = {} /\ \A p \in Procs : pc[p] # "place"
    /\ \A p \in Procs : pc[p] = "place" => Placed = {}
    /\ \A p, q \in Procs : pc[p] = "place" /\ pc[q] = "place" => p = q

\* The row points to the order of the process that will finish it; when it is
\* done, to an order that is paid and that no process works on any more.
PointsThere ==
    /\ \A p \in Procs : pc[p] = "finish" => row.order = mine[p]
    /\ row.status = "DONE" =>
          /\ row.order # 0
          /\ orders[row.order] = [tx |-> "paid", twint |-> "success", stored |-> TRUE]
          /\ \A p \in Procs : mine[p] # row.order

Inv == Types /\ DataInv /\ OrdersAreOwned /\ (kept => OneOrder /\ PointsThere)

LEMMA OneOrderInit == Init => OneOrder /\ PointsThere
BY DEF Init, OneOrder, PointsThere, Placed, NoOrder, NoRow

\* What most steps have in common: they place no order, set no order and no
\* "done" in the row, and touch no order but the process's own or an
\* undecided one.
Quiet ==
    /\ Placed' = Placed
    /\ row.given => row'.given
    /\ row'.order = row.order
    /\ row'.status = "DONE" => row.status = "DONE"
    /\ \A p \in Procs : mine'[p] \in {0, mine[p]}
    /\ \A p \in Procs : pc'[p] = "finish" => pc[p] = "finish" /\ mine'[p] = mine[p]
    /\ \A n \in Orders :
          orders[n].twint = "success" /\ (\A p \in Procs : mine[p] # n) => orders'[n] = orders[n]

LEMMA QuietOneOrder ==
    ASSUME OneOrder, Quiet, \A p \in Procs : pc'[p] = "place" => pc[p] = "place"
    PROVE  OneOrder'
<1>1. /\ Placed' \subseteq {1}
      /\ ~row'.given => Placed' = {} /\ \A p \in Procs : pc'[p] # "place"
  BY DEF OneOrder, Quiet
<1>2. /\ \A p \in Procs : pc'[p] = "place" => Placed' = {}
      /\ \A p, q \in Procs : pc'[p] = "place" /\ pc'[q] = "place" => p = q
  BY DEF OneOrder, Quiet
<1>. QED
  BY <1>1, <1>2 DEF OneOrder

LEMMA QuietPoints ==
    ASSUME TypeOK, PointsThere, Quiet
    PROVE  PointsThere'
<1>1. row.order \in Orders \cup {0}
  BY TypeIs DEF Typed, Rows
<1>2. \A p \in Procs : pc'[p] = "finish" => row'.order = mine'[p]
  BY DEF PointsThere, Quiet
<1>3. ASSUME row'.status = "DONE"
      PROVE  /\ row'.order # 0
             /\ orders'[row'.order] = [tx |-> "paid", twint |-> "success", stored |-> TRUE]
             /\ \A p \in Procs : mine'[p] # row'.order
  <2>1. /\ row.status = "DONE" /\ row'.order = row.order /\ row.order \in Orders
        /\ orders[row.order] = [tx |-> "paid", twint |-> "success", stored |-> TRUE]
        /\ \A p \in Procs : mine[p] # row.order
    BY <1>1, <1>3 DEF PointsThere, Quiet
  <2>2. orders[row.order].twint = "success"
    BY <2>1
  <2>. QED
    BY <2>1, <2>2 DEF Quiet, Orders
<1>. QED
  BY <1>2, <1>3 DEF PointsThere

\* The environment is quiet, ...
LEMMA QuietEnvironment ==
    ASSUME Types, Environment
    PROVE  Quiet /\ UNCHANGED <<pc, kept>>
<1>0. orders \in OrderTypes
  BY TypeIs DEF Types, Typed
<1>1. ASSUME UNCHANGED <<row, orders, procs, kept>> PROVE Quiet /\ UNCHANGED <<pc, kept>>
  BY <1>1 DEF Quiet, procs, Placed
<1>2. ASSUME CreateRow PROVE Quiet /\ UNCHANGED <<pc, kept>>
  <2>1. /\ row.given = FALSE /\ row'.order = row.order /\ row'.status # "DONE"
        /\ UNCHANGED <<orders, procs, kept>>
    BY <1>2 DEF CreateRow, NoRow
  <2>. QED
    BY <2>1 DEF Quiet, procs, Placed
<1>3. ASSUME NEW n \in Orders, TwintDecides(n) PROVE Quiet /\ UNCHANGED <<pc, kept>>
  <2>1. PICK s \in {"confirm", "failure"} : orders' = [orders EXCEPT ![n].twint = s]
    BY <1>3 DEF TwintDecides
  <2>2. orders[n].twint # "success" /\ UNCHANGED <<row, procs, kept>>
    BY <1>3 DEF TwintDecides, Pending
  <2>3. /\ \A k \in Orders : orders'[k].tx = orders[k].tx
        /\ \A k \in Orders : orders[k].twint = "success" => orders'[k] = orders[k]
    BY <1>0, <2>1, <2>2 DEF OrderTypes
  <2>. QED
    BY <2>2, <2>3 DEF Quiet, procs, Placed
<1>. QED
  BY <1>1, <1>2, <1>3
  DEF Environment, RequestCheckIn, CustomerScans, CustomerGivesData, CheckInEnds,
      CustomerCancels, Expire, GoStale

QuietRow ==
    \/ row' = row
    \/ \E new \in Rows :
          /\ row' = Stored(new)
          /\ new.order = row.order
          /\ row.given => new.given
          /\ new.status # "DONE"

\* ... and so is a process that only looks, ...
LEMMA QuietLook ==
    ASSUME Types, NEW p \in Procs, UNCHANGED <<orders, kept>>,
           mine'[p] \in {0, mine[p]}, pc'[p] # "finish",
           \A q \in Procs \ {p} : pc'[q] = pc[q] /\ mine'[q] = mine[q],
           QuietRow
    PROVE  Quiet
<1>0. row \in Rows
  BY TypeIs DEF Types, Typed
<1>1. /\ row'.order = row.order
      /\ row.given => row'.given
      /\ row'.status = "DONE" => row.status = "DONE"
  <2>1. CASE row' = row
    BY <2>1
  <2>2. CASE row' # row
    <3>1. PICK new \in Rows :
             /\ row' = Stored(new)
             /\ new.order = row.order
             /\ row.given => new.given
             /\ new.status # "DONE"
      BY <2>2 DEF QuietRow
    <3>2. row'.order = new.order /\ row'.given = new.given /\ row'.status = new.status
      BY <1>0, <3>1, StoredType
    <3>. QED
      BY <3>1, <3>2
  <2>. QED
    BY <2>1, <2>2
<1>2. Placed' = Placed
  BY DEF Placed
<1>. QED
  BY <1>1, <1>2 DEF Quiet

\* ... one that leaves, ...
LEMMA QuietLeave ==
    ASSUME Types, NEW p \in Procs, Quit(p) \/ Return(p) \/ Raise(p), UNCHANGED <<orders, kept>>,
           QuietRow
    PROVE  Quiet /\ \A q \in Procs : pc'[q] = "place" => pc[q] = "place"
<1>1. /\ pc'[p] \in {"idle", "load"} /\ mine'[p] = 0
      /\ \A q \in Procs \ {p} : pc'[q] = pc[q] /\ mine'[q] = mine[q]
  BY AllLeave, LeaveEffect DEF Types
<1>2. Quiet
  BY <1>1, QuietLook
<1>. QED
  BY <1>1, <1>2

\* ... or one that goes elsewhere.
LEMMA QuietGoto ==
    ASSUME Types, NEW p \in Procs, NEW label \in Labels \ {"finish"}, Goto(p, label),
           UNCHANGED <<orders, kept>>,
           QuietRow
    PROVE  /\ Quiet
           /\ label # "place" => \A q \in Procs : pc'[q] = "place" => pc[q] = "place"
           /\ pc'[p] = label
           /\ \A q \in Procs \ {p} : pc'[q] = pc[q]
<1>1. /\ pc'[p] = label /\ mine'[p] = mine[p]
      /\ \A q \in Procs \ {p} : pc'[q] = pc[q] /\ mine'[q] = mine[q]
  BY GotoEffect DEF Types
<1>2. Quiet
  BY <1>1, QuietLook
<1>. QED
  BY <1>1, <1>2

\* What a process writes that finds the row as it was read: the data stay in
\* it, and if they lead to an order, they are new.
LEMMA WriteEffect ==
    ASSUME Types, DataInv, kept, NEW p \in Procs, pc[p] = "write", ~Conflict(p)
    PROVE  /\ row.given => ans[p].given
           /\ ans[p].status = "active" /\ ans[p].given => ~row.given
<1>1. snap[p].version = row.version
  BY DEF Conflict
<1>2. snap[p].given = row.given /\ row.given \in BOOLEAN /\ snap[p].given \in BOOLEAN
  BY <1>1, TypeIs DEF DataInv, SnapTells, Types, Typed, Rows, Locals
<1>. QED
  BY <1>2 DEF DataInv, AnswerTells

\* A process that monitors is quiet, unless it writes the customer's data,
\* which leads it to "place".
LEMMA QuietMonitor ==
    ASSUME Types, DataInv, kept, NEW p \in Procs, MonitorStep(p), OneOrder
    PROVE  Quiet /\ kept' = kept /\ OneOrder'
<1>0. row \in Rows /\ Locals /\ kept' = kept
  BY TypeIs DEF Types, Typed, MonitorStep, Ask, CancelCheckIn, Mark, Write
<1>1. ASSUME Quiet, \A q \in Procs : pc'[q] = "place" => pc[q] = "place"
      PROVE  Quiet /\ kept' = kept /\ OneOrder'
  BY <1>0, <1>1, QuietOneOrder
<1>2. CASE Ask(p) /\ IsChanged(p, checkin)
  <2>1. pc' = [pc EXCEPT ![p] = "write"] /\ mine' = mine /\ UNCHANGED <<row, orders, kept>>
    BY <1>2 DEF Ask
  <2>2. pc'[p] = "write" /\ \A q \in Procs \ {p} : pc'[q] = pc[q]
    BY <1>0, <2>1 DEF Locals
  <2>3. Quiet
    BY <2>1, <2>2, QuietLook DEF QuietRow
  <2>. QED
    BY <1>1, <2>2, <2>3
<1>3. CASE Ask(p) /\ ~IsChanged(p, checkin)
  <2>1. (Goto(p, "cancel") \/ Return(p)) /\ UNCHANGED <<row, orders, kept>>
    BY <1>3 DEF Ask
  <2>2. "cancel" \in Labels \ {"finish"}
    BY DEF Labels
  <2>. QED
    BY <1>1, <2>1, <2>2, QuietGoto, QuietLeave DEF QuietRow
<1>4. CASE CancelCheckIn(p)
  <2>1. (Goto(p, "mark") \/ Raise(p)) /\ UNCHANGED <<row, orders, kept>>
    BY <1>4 DEF CancelCheckIn
  <2>2. "mark" \in Labels \ {"finish"}
    BY DEF Labels
  <2>. QED
    BY <1>1, <2>1, <2>2, QuietGoto, QuietLeave DEF QuietRow
<1>5. CASE Mark(p)
  <2> DEFINE new == [row EXCEPT !.status = "CANCELLED"]
  <2>1. /\ new \in Rows /\ new.order = row.order /\ new.given = row.given
        /\ new.status = "CANCELLED"
    BY <1>0 DEF Rows, Statuses
  <2>2. Return(p) /\ row' = Stored(new) /\ UNCHANGED <<orders, kept>>
    BY <1>5 DEF Mark
  <2> HIDE DEF new
  <2>. QED
    BY <1>1, <2>1, <2>2, QuietLeave DEF QuietRow
<1>6. CASE Write(p) /\ Conflict(p) /\ Return(p) /\ UNCHANGED row
  <2>1. UNCHANGED <<row, orders, kept>>
    BY <1>6 DEF Write
  <2>. QED
    BY <1>1, <1>6, <2>1, QuietLeave DEF QuietRow
<1>7. CASE Write(p) /\ ~(Conflict(p) /\ Return(p) /\ UNCHANGED row)
  <2> DEFINE new == [row EXCEPT !.status = ans[p].status, !.given = ans[p].given]
  <2>1. /\ new \in Rows /\ new.order = row.order /\ new.given = ans[p].given
        /\ new.status = ans[p].status
        /\ ans[p].status # "DONE"
    BY <1>0 DEF Rows, Statuses, Locals, CheckInType, Alive
  <2>2. /\ row' = Stored(new) /\ pc[p] = "write" /\ ~Conflict(p) /\ UNCHANGED <<orders, kept>>
    BY <1>7 DEF Write
  <2>3. /\ row.given => ans[p].given
        /\ ans[p].status = "active" /\ ans[p].given => ~row.given
    BY <2>2, WriteEffect
  <2>4. \/ Goto(p, "mark") \/ Return(p)
        \/ Goto(p, "place") /\ ans[p].status = "active" /\ ans[p].given
    BY <1>7 DEF Write
  <2>5. "mark" \in Labels \ {"finish"} /\ "place" \in Labels \ {"finish"}
    BY DEF Labels, Handling
  <2>6. row'.given = ans[p].given
    BY <1>0, <2>1, <2>2, StoredType
  <2> HIDE DEF new
  <2>7. CASE Goto(p, "mark") \/ Return(p)
    BY <1>1, <2>1, <2>2, <2>3, <2>5, <2>7, QuietGoto, QuietLeave DEF QuietRow
  <2>8. CASE Goto(p, "place") /\ ans[p].status = "active" /\ ans[p].given
    <3>1. Quiet /\ pc'[p] = "place" /\ \A q \in Procs \ {p} : pc'[q] = pc[q]
      BY <2>1, <2>2, <2>3, <2>5, <2>8, QuietGoto DEF QuietRow
    <3>2. Placed' = {} /\ row'.given /\ \A q \in Procs : pc[q] # "place"
      BY <2>3, <2>6, <2>8, <3>1 DEF OneOrder, Quiet
    <3>. QED
      BY <1>0, <3>1, <3>2 DEF OneOrder
  <2>. QED
    BY <2>4, <2>7, <2>8
<1>. QED
  BY <1>2, <1>3, <1>4, <1>5, <1>6, <1>7 DEF MonitorStep

LEMMA QuietRest ==
    ASSUME Types, CronStart \/ (\E p \in PollProcs : Spawn(p) \/ Load(p)) \/ (\E p \in Procs : Fault(p))
    PROVE  Quiet /\ kept' = kept /\ \A p \in Procs : pc'[p] = "place" => pc[p] = "place"
<1>0. Locals
  BY TypeIs DEF Types, Typed
<1>1. ASSUME NEW p \in Procs, NEW label \in {"load", "ask"}, pc' = [pc EXCEPT ![p] = label],
             mine' = mine, UNCHANGED <<row, orders, kept>>
      PROVE  Quiet /\ kept' = kept /\ \A q \in Procs : pc'[q] = "place" => pc[q] = "place"
  <2>1. pc'[p] = label /\ \A q \in Procs \ {p} : pc'[q] = pc[q]
    BY <1>0, <1>1 DEF Locals
  <2>2. Quiet
    BY <1>1, <2>1, QuietLook DEF QuietRow
  <2>. QED
    BY <1>1, <2>1, <2>2
<1>2. CASE CronStart
  BY <1>1, <1>2 DEF CronStart, Procs
<1>3. ASSUME NEW p \in PollProcs, Spawn(p) \/ Load(p)
      PROVE  Quiet /\ kept' = kept /\ \A q \in Procs : pc'[q] = "place" => pc[q] = "place"
  <2>0. p \in Procs
    BY DEF Procs
  <2>1. CASE Spawn(p)
    BY <1>1, <2>0, <2>1 DEF Spawn
  <2>2. CASE Load(p) /\ Finished(row)
    BY <2>0, <2>2, QuietLeave DEF Load, QuietRow
  <2>3. CASE Load(p) /\ ~Finished(row)
    BY <1>1, <2>0, <2>3 DEF Load
  <2>. QED
    BY <1>3, <2>1, <2>2, <2>3
<1>4. ASSUME NEW p \in Procs, Fault(p)
      PROVE  Quiet /\ kept' = kept /\ \A q \in Procs : pc'[q] = "place" => pc[q] = "place"
  <2>1. UNCHANGED <<row, orders, kept>> /\ (Quit(p) \/ Raise(p) \/ Goto(p, "fail"))
    BY <1>4 DEF Fault
  <2>2. "fail" \in Labels \ {"finish"}
    BY DEF Labels
  <2>. QED
    BY <2>1, <2>2, QuietLeave, QuietGoto DEF QuietRow
<1>. QED
  BY <1>2, <1>3, <1>4

\* A process in the midst of handle() is quiet but for three steps.
LEMMA QuietHandler ==
    ASSUME Types, OrdersAreOwned, NEW p \in Procs, HandlerStep(p),
           ~Place(p), ~Link(p), ~Finish(p)
    PROVE  Quiet /\ kept' = kept /\ \A q \in Procs : pc'[q] = "place" => pc[q] = "place"
<1>0. orders \in OrderTypes /\ Locals /\ row \in Rows
  BY TypeIs DEF Types, Typed
<1>1. pc[p] \in Handling \ {"place"} => mine[p] \in Orders /\ orders[mine[p]].tx # "none"
  BY DEF Types, HasPlaced, OrdersAreOwned, Own, Knows
<1>2. ASSUME mine[p] \in Orders, orders[mine[p]].tx # "none",
             UNCHANGED <<row, kept, mine>>,
             NEW field \in [tx : {"open", "paid", "cancelled"},
                            twint : {"none"} \cup Pending \cup Terminal, stored : BOOLEAN],
             orders' = [orders EXCEPT ![mine[p]] = field],
             \A q \in Procs : pc'[q] \in {"finish", "place"} => pc'[q] = pc[q]
      PROVE  Quiet /\ kept' = kept /\ \A q \in Procs : pc'[q] = "place" => pc[q] = "place"
  <2>1. /\ \A n \in Orders \ {mine[p]} : orders'[n] = orders[n]
        /\ orders'[mine[p]].tx # "none"
    BY <1>0, <1>2 DEF OrderTypes
  <2>2. Placed' = Placed
    BY <1>2, <2>1 DEF Placed
  <2>. QED
    BY <1>2, <2>1, <2>2 DEF Quiet
\* A step that changes nothing but the place it is at, and perhaps its answer.
<1>3. ASSUME UNCHANGED <<row, kept, mine, orders>>,
             \A q \in Procs : pc'[q] \in {"finish", "place"} => pc'[q] = pc[q]
      PROVE  Quiet /\ kept' = kept /\ \A q \in Procs : pc'[q] = "place" => pc[q] = "place"
  BY <1>3 DEF Quiet, Placed
<1>4. ASSUME NEW label \in {"fail", "store", "confirm", "poll", "link"}, Goto(p, label)
      PROVE  /\ mine' = mine
             /\ \A q \in Procs : pc'[q] \in {"finish", "place"} => pc'[q] = pc[q]
  <2>1. label \in Labels
    BY DEF Labels, Handling
  <2>. QED
    BY <1>4, <2>1, GotoEffect DEF Types
<1>5. ASSUME Goto(p, "fail"), UNCHANGED <<row, kept, orders>>
      PROVE  Quiet /\ kept' = kept /\ \A q \in Procs : pc'[q] = "place" => pc[q] = "place"
  BY <1>3, <1>4, <1>5
<1>6. ASSUME pc' = [pc EXCEPT ![p] = "refresh"]
      PROVE  \A q \in Procs : pc'[q] \in {"finish", "place"} => pc'[q] = pc[q]
  BY <1>0, <1>6 DEF Locals
<1>7. CASE Start(p)
  <2>1. ASSUME NEW s \in Pending \cup Terminal,
               orders' = [orders EXCEPT ![mine[p]].twint = s],
               pc' = [pc EXCEPT ![p] = "refresh"], UNCHANGED <<snap, ans, mine>>
        PROVE  Quiet /\ kept' = kept /\ \A q \in Procs : pc'[q] = "place" => pc[q] = "place"
    <3> DEFINE field == [orders[mine[p]] EXCEPT !.twint = s]
    <3>1. mine[p] \in Orders /\ orders[mine[p]].tx # "none" /\ UNCHANGED <<row, kept>>
      BY <1>1, <1>7 DEF Start, Handling
    <3>2. field \in [tx : {"open", "paid", "cancelled"},
                     twint : {"none"} \cup Pending \cup Terminal, stored : BOOLEAN]
      BY <1>0, <3>1 DEF OrderTypes
    <3>3. orders' = [orders EXCEPT ![mine[p]] = field]
      BY <2>1
    <3> HIDE DEF field
    <3>. QED
      BY <1>2, <1>6, <2>1, <3>1, <3>2, <3>3
  <2>. QED
    BY <1>5, <1>7, <2>1 DEF Start
<1>8. CASE Refresh(p)
  <2>1. mine[p] \in Orders /\ orders[mine[p]].tx # "none" /\ UNCHANGED <<row, kept>>
    BY <1>1, <1>8 DEF Refresh, Handling
  <2>2. CASE Decided(tans[p])
    <3> DEFINE field == [orders[mine[p]] EXCEPT !.tx = Verdict(tans[p])]
    <3>1. orders' = [orders EXCEPT ![mine[p]] = field] /\ Goto(p, "store")
      BY <1>8, <2>2 DEF Refresh
    <3>2. Verdict(tans[p]) \in {"open", "paid", "cancelled"}
      BY DEF Verdict
    <3>3. field \in [tx : {"open", "paid", "cancelled"},
                     twint : {"none"} \cup Pending \cup Terminal, stored : BOOLEAN]
      BY <1>0, <2>1, <3>2 DEF OrderTypes
    <3> HIDE DEF field
    <3>. QED
      BY <1>2, <1>4, <2>1, <3>1, <3>3
  <2>3. CASE ~Decided(tans[p])
    <3>1. PICK label \in {"confirm", "poll"} : Goto(p, label) /\ UNCHANGED orders
      BY <1>8, <2>3 DEF Refresh
    <3>. QED
      BY <1>3, <1>4, <2>1, <3>1
  <2>. QED
    BY <2>2, <2>3
<1>9. CASE Confirm(p)
  <2>1. /\ mine[p] \in Orders /\ orders[mine[p]].tx # "none" /\ UNCHANGED <<row, kept>>
    BY <1>1, <1>9 DEF Confirm, Handling
  <2>2. CASE orders' = [orders EXCEPT ![mine[p]].twint = "success"] /\ Goto(p, "poll")
    <3> DEFINE field == [orders[mine[p]] EXCEPT !.twint = "success"]
    <3>1. field \in [tx : {"open", "paid", "cancelled"},
                     twint : {"none"} \cup Pending \cup Terminal, stored : BOOLEAN]
      BY <1>0, <2>1 DEF OrderTypes, Terminal
    <3>2. orders' = [orders EXCEPT ![mine[p]] = field]
      BY <2>2
    <3> HIDE DEF field
    <3>. QED
      BY <1>2, <1>4, <2>1, <2>2, <3>1, <3>2
  <2>. QED
    BY <1>5, <1>9, <2>1, <2>2 DEF Confirm
<1>10. CASE PollOrder(p)
  BY <1>3, <1>6, <1>10 DEF PollOrder
<1>11. CASE Store(p)
  <2>1. /\ mine[p] \in Orders /\ orders[mine[p]].tx # "none" /\ UNCHANGED <<row, kept>>
    BY <1>1, <1>11 DEF Store, Handling
  <2> DEFINE field == [orders[mine[p]] EXCEPT !.stored = TRUE]
  <2>2. field \in [tx : {"open", "paid", "cancelled"},
                   twint : {"none"} \cup Pending \cup Terminal, stored : BOOLEAN]
    BY <1>0, <2>1 DEF OrderTypes
  <2>3. orders' = [orders EXCEPT ![mine[p]] = field] /\ Goto(p, "link")
    BY <1>11 DEF Store
  <2> HIDE DEF field
  <2>. QED
    BY <1>2, <1>4, <2>1, <2>2, <2>3
<1>12. CASE Fail(p)
  <2> DEFINE new == [row EXCEPT !.status = "FAILED"]
  <2>1. new \in Rows /\ new.order = row.order /\ new.given = row.given /\ new.status = "FAILED"
    BY <1>0 DEF Rows, Statuses
  <2>2. row' = Stored(new) /\ Raise(p) /\ UNCHANGED <<orders, kept>>
    BY <1>12 DEF Fail
  <2> HIDE DEF new
  <2>. QED
    BY <2>1, <2>2, QuietLeave DEF QuietRow
<1>. QED
  BY <1>7, <1>8, <1>9, <1>10, <1>11, <1>12 DEF HandlerStep

LEMMA InvPlace ==
    ASSUME Inv, kept, NEW p \in Procs, Place(p)
    PROVE  OneOrder' /\ PointsThere'
<1>0. orders \in OrderTypes /\ Locals /\ row \in Rows /\ OneOrder /\ PointsThere
  BY TypeIs DEF Inv, Types, Typed
<1>1. /\ pc[p] = "place" /\ Placed = {} /\ row.given /\ row' = row
      /\ \A q \in Procs : pc[q] = "place" => q = p
  BY <1>0 DEF Place, OneOrder
<1>2. PICK n \in Orders : /\ Placed = 1..(n - 1)
                          /\ orders' = [orders EXCEPT ![n].tx = "open"]
                          /\ mine' = [mine EXCEPT ![p] = n]
  BY DEF Place
<1>3. pc' = [pc EXCEPT ![p] = "start"]
  BY DEF Place
<1>4. n = 1
  <2>1. n \in Nat \ {0} /\ 1..(n - 1) = {}
    BY <1>1, <1>2 DEF Orders
  <2>2. n > 1 => 1 \in 1..(n - 1)
    BY <2>1
  <2>. QED
    BY <2>1, <2>2
<1>5. Placed' \subseteq {1}
  BY <1>0, <1>1, <1>2, <1>4 DEF Placed, OrderTypes
<1>6. \A q \in Procs : pc'[q] # "place"
  BY <1>0, <1>1, <1>3 DEF Locals
<1>7. OneOrder'
  BY <1>1, <1>5, <1>6 DEF OneOrder
<1>8. row.status # "DONE"
  BY <1>0, <1>1 DEF PointsThere, Placed, Rows
<1>9. \A q \in Procs : pc'[q] = "finish" => row'.order = mine'[q]
  BY <1>0, <1>1, <1>2, <1>3 DEF PointsThere, Locals
<1>. QED
  BY <1>1, <1>7, <1>8, <1>9 DEF PointsThere

\* While the data are kept, all work on the one order, which is one process.
LEMMA OneWorker ==
    ASSUME Inv, kept, NEW p \in Procs, pc[p] \in Handling \ {"place"}
    PROVE  /\ mine[p] = 1 /\ Knows(p) /\ 1 \in Orders
           /\ \A q \in Procs \ {p} : mine[q] # 1 /\ pc[q] # "finish"
           /\ row.status # "DONE" \/ row.order = 0
<1>1. OneOrder /\ PointsThere /\ row.order \in Orders \cup {0}
  BY TypeIs DEF Inv, Types, Typed, Rows
<1>2. ASSUME NEW q \in Procs, mine[q] \in Orders PROVE mine[q] = 1
  <2>1. mine[q] \in Placed
    BY <1>2 DEF Inv, OrdersAreOwned, Own, Knows, Placed
  <2>. QED
    BY <1>1, <2>1 DEF OneOrder
<1>3. mine[p] = 1 /\ Knows(p) /\ 1 \in Orders
  BY <1>2 DEF Inv, Types, HasPlaced, OrdersAreOwned, Own
<1>4. ASSUME NEW q \in Procs \ {p} PROVE mine[q] # 1 /\ pc[q] # "finish"
  <2>1. mine[q] # 1
    BY <1>3 DEF Inv, OrdersAreOwned, Distinct
  <2>2. pc[q] = "finish" => mine[q] \in Orders
    BY DEF Inv, Types, HasPlaced, Handling
  <2>. QED
    BY <1>2, <2>1, <2>2
<1>5. ASSUME row.status = "DONE", row.order # 0 PROVE FALSE
  <2>1. row.order \in Placed /\ row.order # mine[p]
    BY <1>1, <1>5 DEF PointsThere, Placed
  <2>. QED
    BY <1>1, <1>3, <2>1 DEF OneOrder
<1>. QED
  BY <1>3, <1>4, <1>5

LEMMA InvLink ==
    ASSUME Inv, kept, NEW p \in Procs, Link(p)
    PROVE  OneOrder' /\ PointsThere'
<1>0. row \in Rows /\ OneOrder /\ PointsThere /\ Types
  BY TypeIs DEF Inv, Types, Typed
<1>1. pc[p] = "link" /\ Goto(p, "finish") /\ orders' = orders
  BY DEF Link
<1>2. /\ mine[p] = 1 /\ 1 \in Orders
      /\ \A q \in Procs \ {p} : mine[q] # 1 /\ pc[q] # "finish"
      /\ row.status # "DONE" \/ row.order = 0
  BY <1>1, OneWorker DEF Handling
<1>3. row.status # "DONE"
  BY <1>0, <1>2 DEF PointsThere
<1> DEFINE new == [row EXCEPT !.order = mine[p]]
<1>4. /\ new \in Rows /\ new.order = 1 /\ new.given = row.given /\ new.status = row.status
      /\ row' = Stored(new)
  BY <1>0, <1>2 DEF Rows, Link
<1> HIDE DEF new
<1>5. row'.order = 1 /\ row'.given = row.given /\ row'.status = row.status
  BY <1>0, <1>4, StoredType
<1>6. /\ pc'[p] = "finish" /\ mine' = mine
      /\ \A q \in Procs \ {p} : pc'[q] = pc[q]
  <2>1. "finish" \in Labels
    BY DEF Labels, Handling
  <2>. QED
    BY <1>0, <1>1, <2>1, GotoEffect DEF Types
<1>7. Placed' = Placed
  BY <1>1 DEF Placed
<1>8. OneOrder'
  <2>1. \A q \in Procs : pc'[q] = "place" => pc[q] = "place"
    BY <1>6
  <2>. QED
    BY <1>0, <1>5, <1>7, <2>1 DEF OneOrder
<1>9. \A q \in Procs : pc'[q] = "finish" => row'.order = mine'[q]
  BY <1>2, <1>5, <1>6
<1>. QED
  BY <1>3, <1>5, <1>8, <1>9 DEF PointsThere

LEMMA InvFinish ==
    ASSUME Inv, kept, NEW p \in Procs, Finish(p)
    PROVE  OneOrder' /\ PointsThere'
<1>0. row \in Rows /\ orders \in OrderTypes /\ OneOrder /\ PointsThere /\ Types
  BY TypeIs DEF Inv, Types, Typed
<1>1. pc[p] = "finish" /\ Return(p) /\ orders' = orders
  BY DEF Finish
<1>2. /\ mine[p] = 1 /\ Knows(p) /\ 1 \in Orders
      /\ \A q \in Procs \ {p} : mine[q] # 1 /\ pc[q] # "finish"
  BY <1>1, OneWorker DEF Handling
<1>3. row.order = 1
  BY <1>0, <1>1, <1>2 DEF PointsThere
<1> DEFINE new == [row EXCEPT !.status = Outcome(tans[p])]
<1>4. /\ new \in Rows /\ new.order = 1 /\ new.given = row.given /\ new.status = Outcome(tans[p])
      /\ row' = Stored(new)
  BY <1>0, <1>3 DEF Rows, Statuses, Outcome, Finish
<1> HIDE DEF new
<1>5. row'.order = 1 /\ row'.given = row.given /\ row'.status = Outcome(tans[p])
  BY <1>0, <1>4, StoredType
<1>6. /\ pc'[p] \in {"idle", "load"} /\ mine'[p] = 0
      /\ \A q \in Procs \ {p} : pc'[q] = pc[q] /\ mine'[q] = mine[q]
  BY <1>0, <1>1, AllLeave, LeaveEffect DEF Types
<1>7. Placed' = Placed
  BY <1>1 DEF Placed
<1>8. OneOrder'
  <2>1. \A q \in Procs : pc'[q] = "place" => pc[q] = "place"
    BY <1>6
  <2>. QED
    BY <1>0, <1>5, <1>7, <2>1 DEF OneOrder
<1>9. \A q \in Procs : pc'[q] # "finish"
  BY <1>2, <1>6
<1>10. ASSUME row'.status = "DONE"
       PROVE  orders'[1] = [tx |-> "paid", twint |-> "success", stored |-> TRUE]
  <2>1. tans[p] = "success"
    BY <1>5, <1>10 DEF Outcome
  <2>2. orders[1].tx = "paid" /\ orders[1].twint = "success" /\ orders[1].stored = TRUE
    BY <1>0, <1>1, <1>2, <2>1 DEF Knows, Verdict, OrderTypes
  <2>3. orders[1] = [tx |-> orders[1].tx, twint |-> orders[1].twint, stored |-> orders[1].stored]
    BY <1>0, <1>2 DEF OrderTypes
  <2>. QED
    BY <1>1, <2>2, <2>3
<1>11. \A q \in Procs : mine'[q] # 1
  BY <1>2, <1>6
<1>. QED
  BY <1>5, <1>8, <1>9, <1>10, <1>11 DEF PointsThere

LEMMA InvNext == Inv /\ [Next]_vars => Inv'
<1> SUFFICES ASSUME Inv, [Next]_vars PROVE Inv'
  OBVIOUS
<1>1. Types' /\ DataInv' /\ OrdersAreOwned'
  BY TypesNext, DataNext, OwnedNext DEF Inv, Types
<1>2. kept' = kept
  BY CheckInGoesOn DEF Inv, DataInv, Types
<1>3. ASSUME kept PROVE OneOrder' /\ PointsThere'
  <2>0. Types /\ TypeOK /\ DataInv /\ OrdersAreOwned /\ OneOrder /\ PointsThere
    BY <1>3 DEF Inv, Types
  <2>1. ASSUME Quiet, \A p \in Procs : pc'[p] = "place" => pc[p] = "place"
        PROVE  OneOrder' /\ PointsThere'
    BY <2>0, <2>1, QuietOneOrder, QuietPoints
  <2>2. CASE UNCHANGED vars
    BY <2>0, <2>2 DEF vars, procs, OneOrder, PointsThere, Placed
  <2>3. CASE Environment
    BY <2>0, <2>1, <2>3, QuietEnvironment
  <2>4. CASE CronStart \/ (\E p \in PollProcs : Spawn(p) \/ Load(p)) \/ (\E p \in Procs : Fault(p))
    BY <2>0, <2>1, <2>4, QuietRest
  <2>5. ASSUME NEW p \in Procs, MonitorStep(p) PROVE OneOrder' /\ PointsThere'
    BY <1>3, <2>0, <2>5, QuietMonitor, QuietPoints
  <2>6. ASSUME NEW p \in Procs, HandlerStep(p) PROVE OneOrder' /\ PointsThere'
    <3>1. CASE Place(p)
      BY <1>3, <3>1, InvPlace
    <3>2. CASE Link(p)
      BY <1>3, <3>2, InvLink
    <3>3. CASE Finish(p)
      BY <1>3, <3>3, InvFinish
    <3>4. CASE ~Place(p) /\ ~Link(p) /\ ~Finish(p)
      BY <2>0, <2>1, <2>6, <3>4, QuietHandler
    <3>. QED
      BY <3>1, <3>2, <3>3, <3>4
  <2>. QED
    BY <2>2, <2>3, <2>4, <2>5, <2>6 DEF Next
<1>. QED
  BY <1>1, <1>2, <1>3 DEF Inv

LEMMA InvAlways == Spec => []Inv
<1>1. Init => Inv
  BY InitTypes, DataInit, OwnedInit, OneOrderInit DEF Init, Inv, Types, HasPlaced, Handling
<1>. QED
  BY <1>1, InvNext, PTL DEF Spec

\* If the data are kept, one order at most is placed for a check-in, whatever
\* the number of commands that see the data arrive, whatever fails and in
\* whatever order they go on.
THEOREM OrderedOnceAlways == Spec => []OrderedOnce
<1>1. Inv => OrderedOnce
  <2> SUFFICES ASSUME Inv, kept PROVE Cardinality(Placed) <= 1
    BY DEF OrderedOnce
  <2>1. Placed \subseteq {1}
    BY DEF Inv, OneOrder
  <2>2. IsFiniteSet({1}) /\ Cardinality({1}) = 1
    BY FS_Singleton
  <2>3. IsFiniteSet(Placed) /\ Cardinality(Placed) <= Cardinality({1})
    BY <2>1, <2>2, FS_Subset
  <2>. QED
    BY <2>2, <2>3
<1>. QED
  BY <1>1, InvAlways, PTL

-----------------------------------------------------------------------------
(***************************************************************************)
(* While nothing goes wrong a payment ends as "done".                      *)
(***************************************************************************)
Calm == faults = 0 /\ ~expired /\ checkin.status # "no_pairing"

\* Nobody cancels, an order given up is not paid, and one that is paid is
\* either in the row as done or on its way there.
Ends == {"store", "link", "finish"}
CalmTells ==
    /\ \A p \in Procs : pc[p] \notin {"cancel", "mark"} /\ ~snap[p].expired
    /\ \A p \in Procs : pc[p] = "fail" => mine[p] \in Orders /\ orders[mine[p]].tx = "open"
    /\ \A n \in Orders : orders[n].tx = "paid" =>
          row.status = "DONE" \/ \E p \in Procs : mine[p] = n /\ pc[p] \in Ends

LEMMA CalmInit == Init => CalmTells
BY DEF Init, CalmTells, NoSnap, NoOrder

\* Trouble does not go away.
LEMMA CalmBefore ==
    ASSUME TypeOK, CheckInTells, [Next]_vars, Calm'
    PROVE  Calm
<1>1. checkin.status # "no_pairing"
  BY CheckInGoesOn DEF Calm, GoesOn
<1>0. faults \in Nat /\ expired \in BOOLEAN
  BY BoundsAssumption DEF TypeOK
<1>2. (faults' = faults \/ faults' = faults + 1) /\ (expired' = expired \/ expired' = TRUE)
  <2>1. CASE UNCHANGED <<faults, expired>>
    BY <2>1
  <2>2. CASE Environment
    BY <2>2
    DEF Environment, RequestCheckIn, CreateRow, CustomerScans, CustomerGivesData, CheckInEnds,
        CustomerCancels, TwintDecides, Expire, GoStale
  <2>3. ASSUME NEW p \in Procs, MonitorStep(p) PROVE UNCHANGED <<faults, expired>>
    BY <2>3 DEF MonitorStep, Ask, CancelCheckIn, Mark, Write
  <2>4. ASSUME NEW p \in Procs, HandlerStep(p) PROVE UNCHANGED <<faults, expired>>
    BY <2>4 DEF HandlerStep, Place, Start, Refresh, Confirm, PollOrder, Store, Link, Finish, Fail
  <2>5. ASSUME NEW p \in Procs, Fault(p) PROVE faults' = faults + 1 /\ expired' = expired
    BY <2>5 DEF Fault
  <2>6. CASE CronStart \/ \E p \in PollProcs : Spawn(p) \/ Load(p)
    BY <2>6 DEF CronStart, Spawn, Load
  <2>. QED
    BY <2>1, <2>2, <2>3, <2>4, <2>5, <2>6 DEF Next, vars
<1>3. faults' = 0 => faults = 0
  BY <1>0, <1>2
<1>4. ~expired' => ~expired
  BY <1>0, <1>2
<1>. QED
  BY <1>1, <1>3, <1>4 DEF Calm

\* What all steps but one do while it is calm.
CalmStep ==
    /\ \A q \in Procs : pc'[q] \notin {"cancel", "mark"} /\ ~snap'[q].expired
    /\ \A q \in Procs : pc'[q] = "fail" =>
          /\ pc[q] \in {"fail", "start", "confirm"}
          /\ mine'[q] = mine[q]
          /\ orders'[mine[q]].tx = orders[mine[q]].tx
    /\ \A q \in Procs : pc[q] \in Ends => pc'[q] \in Ends /\ mine'[q] = mine[q]
    /\ row.status = "DONE" => row'.status = "DONE"
    /\ \A n \in Orders : orders'[n].tx = "paid" =>
          orders[n].tx = "paid" \/ \E q \in Procs : mine'[q] = n /\ pc'[q] = "store"

LEMMA CalmStepTells ==
    ASSUME Types, OrdersAreOwned, CalmTells, CalmStep
    PROVE  CalmTells'
<1>1. ASSUME NEW q \in Procs, pc'[q] = "fail"
      PROVE  mine'[q] \in Orders /\ orders'[mine'[q]].tx = "open"
  <2>1. pc[q] \in {"fail", "start", "confirm"} /\ mine'[q] = mine[q]
    BY <1>1 DEF CalmStep
  <2>2. mine[q] \in Orders /\ orders[mine[q]].tx = "open"
    BY <2>1 DEF CalmTells, Types, HasPlaced, Handling, OrdersAreOwned, Own, Knows
  <2>. QED
    BY <1>1, <2>1, <2>2 DEF CalmStep
<1>2. ASSUME NEW n \in Orders, orders'[n].tx = "paid"
      PROVE  row'.status = "DONE" \/ \E q \in Procs : mine'[q] = n /\ pc'[q] \in Ends
  BY <1>2 DEF CalmStep, CalmTells, Ends
<1>. QED
  BY <1>1, <1>2 DEF CalmStep, CalmTells

\* A process that goes elsewhere, with the orders' transactions as they were.
LEMMA CalmMove ==
    ASSUME Types, CalmTells, NEW p \in Procs, pc[p] \notin Ends,
           \A q \in Procs \ {p} : pc'[q] = pc[q] /\ mine'[q] = mine[q] /\ snap'[q] = snap[q],
           pc'[p] \notin {"cancel", "mark", "fail"}, ~snap'[p].expired,
           \A n \in Orders : orders'[n].tx = orders[n].tx,
           row.status = "DONE" => row'.status = "DONE"
    PROVE  CalmStep
<1>1. \A q \in Procs : pc'[q] \notin {"cancel", "mark"} /\ ~snap'[q].expired
  BY DEF CalmTells
<1>2. ASSUME NEW q \in Procs, pc'[q] = "fail"
      PROVE  pc[q] = "fail" /\ mine'[q] = mine[q] /\ orders'[mine[q]].tx = orders[mine[q]].tx
  BY <1>2 DEF CalmTells
<1>. QED
  BY <1>1, <1>2 DEF CalmStep

LEMMA CalmNext ==
    ASSUME Inv, kept, Calm, Calm', CalmTells, [Next]_vars
    PROVE  CalmTells'
<1>0. /\ Types /\ DataInv /\ OrdersAreOwned /\ OneOrder /\ PointsThere /\ TypeOK
      /\ orders \in OrderTypes /\ Locals /\ row \in Rows
  BY TypeIs DEF Inv, Types, Typed
<1>1. CASE UNCHANGED vars
  BY <1>0, <1>1 DEF vars, procs, CalmTells
<1>2. CASE Environment
  <2>1. ASSUME UNCHANGED <<orders, procs>>, row.status = "DONE" => row'.status = "DONE"
        PROVE  CalmTells'
    BY <2>1 DEF procs, CalmTells
  <2>2. ASSUME NEW n \in Orders, TwintDecides(n) PROVE CalmTells'
    <3>1. PICK s \in {"confirm", "failure"} : orders' = [orders EXCEPT ![n].twint = s]
      BY <2>2 DEF TwintDecides
    <3>2. \A k \in Orders : orders'[k].tx = orders[k].tx
      BY <1>0, <3>1 DEF OrderTypes
    <3>3. UNCHANGED <<row, procs>>
      BY <2>2 DEF TwintDecides
    <3>. QED
      BY <3>2, <3>3 DEF procs, CalmTells
  <2>3. CASE CreateRow
    BY <2>1, <2>3 DEF CreateRow, NoRow
  <2>. QED
    BY <1>2, <2>1, <2>2, <2>3
    DEF Environment, RequestCheckIn, CustomerScans, CustomerGivesData, CheckInEnds,
        CustomerCancels, Expire, GoStale
<1>a. ASSUME CalmStep PROVE CalmTells'
  BY <1>0, <1>a, CalmStepTells
<1>b. ASSUME NEW p \in Procs, Quit(p) \/ Return(p) \/ Raise(p), pc[p] \notin Ends,
             orders' = orders, row.status = "DONE" => row'.status = "DONE"
      PROVE  CalmTells'
  <2>1. /\ pc'[p] \in {"idle", "load"} /\ snap'[p] = NoSnap
        /\ \A q \in Procs \ {p} : pc'[q] = pc[q] /\ mine'[q] = mine[q] /\ snap'[q] = snap[q]
    BY <1>0, <1>b, AllLeave, LeaveEffect
  <2>2. ~snap'[p].expired
    BY <2>1 DEF NoSnap
  <2>3. CalmStep
    BY <1>0, <1>b, <2>1, <2>2, CalmMove
  <2>. QED
    BY <1>a, <2>3
<1>c. ~SnapOf.expired
  BY DEF SnapOf, Calm
\* A process that takes the row in hand.
<1>d. ASSUME NEW p \in Procs, pc[p] \notin Ends, UNCHANGED <<orders, row, mine>>,
             NEW label \in {"load", "ask", "write"}, pc' = [pc EXCEPT ![p] = label],
             snap' = snap \/ snap' = [snap EXCEPT ![p] = SnapOf]
      PROVE  CalmTells'
  <2>1. /\ pc'[p] = label
        /\ \A q \in Procs \ {p} : pc'[q] = pc[q] /\ mine'[q] = mine[q] /\ snap'[q] = snap[q]
    BY <1>0, <1>d DEF Locals
  <2>2. ~snap'[p].expired
    BY <1>0, <1>c, <1>d DEF CalmTells, Locals
  <2>3. CalmStep
    BY <1>0, <1>d, <2>1, <2>2, CalmMove
  <2>. QED
    BY <1>a, <2>3
<1>3. CASE CronStart
  BY <1>3, <1>d DEF CronStart, Procs, Ends
<1>4. ASSUME NEW p \in PollProcs, Spawn(p) \/ Load(p) PROVE CalmTells'
  <2>0. p \in Procs
    BY DEF Procs
  <2>1. CASE Spawn(p)
    BY <1>d, <2>0, <2>1 DEF Spawn, Ends
  <2>2. CASE Load(p) /\ Finished(row)
    BY <1>b, <2>0, <2>2 DEF Load, Ends
  <2>3. CASE Load(p) /\ ~Finished(row)
    BY <1>d, <2>0, <2>3 DEF Load, Ends
  <2>. QED
    BY <1>4, <2>1, <2>2, <2>3
<1>5. ASSUME NEW p \in Procs, MonitorStep(p) PROVE CalmTells'
  <2>0. pc[p] \notin {"cancel", "mark"} /\ ~snap[p].expired
    BY DEF CalmTells
  <2>1. CASE Ask(p) /\ IsChanged(p, checkin)
    BY <1>d, <2>1 DEF Ask, Ends
  <2>2. CASE Ask(p) /\ ~IsChanged(p, checkin)
    BY <1>b, <2>0, <2>2 DEF Ask, Ends
  <2>3. CASE Write(p) /\ Conflict(p) /\ Return(p) /\ UNCHANGED row
    BY <1>b, <2>3 DEF Write, Ends
  <2>4. CASE Write(p) /\ ~(Conflict(p) /\ Return(p) /\ UNCHANGED row)
    <3>1. pc[p] = "write" /\ ~Conflict(p) /\ orders' = orders
      BY <2>4 DEF Write
    <3>2. ans[p].status # "no_pairing"
      BY <1>0, <3>1 DEF DataInv, AnswerTells, Calm
    <3>3. row.status # "DONE"
      <4>1. snap[p].version = row.version
        BY <3>1 DEF Conflict
      <4>2. snap[p].status = row.status
        BY <1>0, <3>1, <4>1 DEF DataInv, SnapTells
      <4>3. snap[p].status # "DONE"
        BY <1>0 DEF Locals, Alive
      <4>. QED
        BY <4>2, <4>3
    <3>4. Goto(p, "place") \/ Return(p)
      BY <2>4, <3>2 DEF Write
    <3>5. CASE Goto(p, "place")
      <4>1. "place" \in Labels
        BY DEF Labels, Handling
      <4>2. /\ pc'[p] = "place" /\ snap' = snap /\ mine' = mine
            /\ \A q \in Procs \ {p} : pc'[q] = pc[q]
        BY <1>0, <3>5, <4>1, GotoEffect
      <4>3. CalmStep
        BY <1>0, <2>0, <3>1, <3>3, <4>2, CalmMove DEF Ends
      <4>. QED
        BY <1>a, <4>3
    <3>. QED
      BY <1>b, <3>1, <3>3, <3>4, <3>5 DEF Ends
  <2>. QED
    BY <1>5, <2>0, <2>1, <2>2, <2>3, <2>4 DEF MonitorStep, CancelCheckIn, Mark
\* A process in the midst of handle(), ...
<1>e. ASSUME NEW p \in Procs, pc[p] \notin Ends, pc'[p] \in {"refresh", "confirm", "poll"},
             UNCHANGED <<row, snap>>, mine' = mine, \A q \in Procs \ {p} : pc'[q] = pc[q],
             \A n \in Orders : orders'[n].tx = orders[n].tx
      PROVE  CalmTells'
  <2>1. ~snap'[p].expired
    BY <1>e DEF CalmTells
  <2>2. CalmStep
    BY <1>0, <1>e, <2>1, CalmMove
  <2>. QED
    BY <1>a, <2>2
\* ... that gives up, ...
<1>f. ASSUME NEW p \in Procs, pc[p] \in {"start", "confirm"}, Goto(p, "fail"), UNCHANGED <<row, orders>>
      PROVE  CalmTells'
  <2>1. "fail" \in Labels
    BY DEF Labels
  <2>2. /\ pc'[p] = "fail" /\ mine' = mine /\ snap' = snap
        /\ \A q \in Procs \ {p} : pc'[q] = pc[q]
    BY <1>0, <1>f, <2>1, GotoEffect
  <2>3. CalmStep
    BY <1>f, <2>2 DEF CalmStep, CalmTells, Ends
  <2>. QED
    BY <1>a, <2>3
\* ... or has its result.
<1>g. ASSUME NEW p \in Procs, pc[p] \in Ends, NEW label \in {"link", "finish"}, Goto(p, label),
             row'.status = row.status, \A n \in Orders : orders'[n].tx = orders[n].tx
      PROVE  CalmTells'
  <2>1. label \in Labels
    BY DEF Labels, Handling
  <2>2. /\ pc'[p] = label /\ mine' = mine /\ snap' = snap
        /\ \A q \in Procs \ {p} : pc'[q] = pc[q]
    BY <1>0, <1>g, <2>1, GotoEffect
  <2>3. \A q \in Procs : pc'[q] \notin {"cancel", "mark"} /\ ~snap'[q].expired
    BY <2>2 DEF CalmTells
  <2>4. ASSUME NEW q \in Procs, pc'[q] = "fail"
        PROVE  pc[q] = "fail" /\ mine'[q] = mine[q] /\ orders'[mine[q]].tx = orders[mine[q]].tx
    BY <1>g, <2>2, <2>4 DEF CalmTells
  <2>5. CalmStep
    BY <1>g, <2>2, <2>3, <2>4 DEF CalmStep, Ends
  <2>. QED
    BY <1>a, <2>5
<1>h. ASSUME NEW p \in Procs, NEW label \in {"store", "confirm", "poll"}, Goto(p, label)
      PROVE  /\ pc'[p] = label /\ mine' = mine /\ snap' = snap
             /\ \A q \in Procs \ {p} : pc'[q] = pc[q]
  <2>1. label \in Labels
    BY DEF Labels, Handling
  <2>. QED
    BY <1>0, <1>h, <2>1, GotoEffect
<1>i. ASSUME NEW p \in Procs, pc' = [pc EXCEPT ![p] = "refresh"]
      PROVE  pc'[p] = "refresh" /\ \A q \in Procs \ {p} : pc'[q] = pc[q]
  BY <1>0, <1>i DEF Locals
<1>j. \A p \in Procs : mine[p] \in Orders => mine[p] \in Placed
  BY <1>0 DEF OrdersAreOwned, Own, Knows, Placed
<1>6. ASSUME NEW p \in Procs, HandlerStep(p) PROVE CalmTells'
  <2>1. CASE Place(p)
    <3>1. PICK n \in Orders : /\ Placed = 1..(n - 1)
                              /\ orders' = [orders EXCEPT ![n].tx = "open"]
                              /\ mine' = [mine EXCEPT ![p] = n]
      BY <2>1 DEF Place
    <3>2. /\ pc[p] = "place" /\ pc' = [pc EXCEPT ![p] = "start"] /\ UNCHANGED <<row, snap>>
      BY <2>1 DEF Place
    <3>3. /\ pc'[p] = "start"
          /\ \A q \in Procs \ {p} : pc'[q] = pc[q] /\ mine'[q] = mine[q]
          /\ orders'[n].tx = "open" /\ \A k \in Orders \ {n} : orders'[k] = orders[k]
      BY <1>0, <3>1, <3>2 DEF Locals, OrderTypes
    <3>4. n \notin Placed
      BY <3>1 DEF Orders
    <3>5. ASSUME NEW q \in Procs, pc'[q] = "fail"
          PROVE  pc[q] = "fail" /\ mine'[q] = mine[q] /\ orders'[mine[q]].tx = orders[mine[q]].tx
      <4>1. q # p /\ pc[q] = "fail" /\ mine'[q] = mine[q]
        BY <3>3, <3>5
      <4>2. mine[q] \in Orders /\ mine[q] # n
        BY <1>j, <3>4, <4>1 DEF CalmTells
      <4>. QED
        BY <3>3, <4>1, <4>2
    <3>6. CalmStep
      BY <3>2, <3>3, <3>5 DEF CalmStep, CalmTells, Ends
    <3>. QED
      BY <1>a, <3>6
  <2>2. CASE Start(p)
    <3>1. CASE Goto(p, "fail") /\ UNCHANGED orders
      BY <1>f, <2>2, <3>1 DEF Start
    <3>2. ASSUME NEW s \in Pending \cup Terminal,
                 orders' = [orders EXCEPT ![mine[p]].twint = s],
                 pc' = [pc EXCEPT ![p] = "refresh"], UNCHANGED <<snap, ans, mine>>
          PROVE  CalmTells'
      <4>1. \A n \in Orders : orders'[n].tx = orders[n].tx
        BY <1>0, <3>2 DEF OrderTypes
      <4>. QED
        BY <1>e, <1>i, <2>2, <3>2, <4>1 DEF Start, Ends
    <3>. QED
      BY <2>2, <3>1, <3>2 DEF Start
  <2>3. CASE Refresh(p) /\ Decided(tans[p])
    <3>1. /\ orders' = [orders EXCEPT ![mine[p]].tx = Verdict(tans[p])] /\ Goto(p, "store")
          /\ row' = row /\ pc[p] = "refresh" /\ mine[p] \in Orders
      BY <1>0, <2>3 DEF Refresh, Types, HasPlaced, Handling
    <3>2. /\ pc'[p] = "store" /\ mine' = mine /\ snap' = snap
          /\ \A q \in Procs \ {p} : pc'[q] = pc[q]
      BY <1>h, <3>1
    <3>3. \A n \in Orders \ {mine[p]} : orders'[n] = orders[n]
      BY <1>0, <3>1 DEF OrderTypes
    <3>4. ASSUME NEW q \in Procs, pc'[q] = "fail"
          PROVE  pc[q] = "fail" /\ mine'[q] = mine[q] /\ orders'[mine[q]].tx = orders[mine[q]].tx
      <4>1. q # p /\ pc[q] = "fail" /\ mine'[q] = mine[q]
        BY <3>2, <3>4
      <4>2. mine[q] \in Orders /\ mine[q] # mine[p]
        BY <1>0, <4>1 DEF CalmTells, OrdersAreOwned, Distinct, Orders
      <4>. QED
        BY <3>3, <4>1, <4>2
    <3>5. \A q \in Procs : pc'[q] \notin {"cancel", "mark"} /\ ~snap'[q].expired
      BY <3>2 DEF CalmTells
    <3>6. CalmStep
      BY <3>1, <3>2, <3>3, <3>4, <3>5 DEF CalmStep, Ends
    <3>. QED
      BY <1>a, <3>6
  <2>4. CASE Refresh(p) /\ ~Decided(tans[p])
    <3>1. PICK label \in {"confirm", "poll"} : Goto(p, label) /\ UNCHANGED <<row, orders>>
      BY <2>4 DEF Refresh
    <3>2. pc[p] = "refresh"
      BY <2>4 DEF Refresh
    <3>. QED
      BY <1>e, <1>h, <3>1, <3>2 DEF Ends
  <2>5. CASE Confirm(p)
    <3>1. CASE Goto(p, "fail") /\ UNCHANGED orders
      BY <1>f, <2>5, <3>1 DEF Confirm
    <3>2. CASE orders' = [orders EXCEPT ![mine[p]].twint = "success"] /\ Goto(p, "poll")
      <4>1. \A n \in Orders : orders'[n].tx = orders[n].tx
        BY <1>0, <3>2 DEF OrderTypes
      <4>2. pc[p] = "confirm" /\ row' = row
        BY <2>5 DEF Confirm
      <4>. QED
        BY <1>e, <1>h, <3>2, <4>1, <4>2 DEF Ends
    <3>. QED
      BY <2>5, <3>1, <3>2 DEF Confirm
  <2>6. CASE PollOrder(p)
    BY <1>e, <1>i, <2>6 DEF PollOrder, Ends
  <2>7. CASE Store(p)
    <3>1. \A n \in Orders : orders'[n].tx = orders[n].tx
      BY <1>0, <2>7 DEF Store, OrderTypes
    <3>. QED
      BY <1>g, <2>7, <3>1 DEF Store, Ends
  <2>8. CASE Link(p)
    <3> DEFINE new == [row EXCEPT !.order = mine[p]]
    <3>1. new \in Rows /\ new.status = row.status /\ row' = Stored(new)
      BY <1>0, <2>8 DEF Rows, Locals, Link
    <3> HIDE DEF new
    <3>2. row'.status = row.status
      BY <1>0, <3>1, StoredType
    <3>. QED
      BY <1>g, <2>8, <3>2 DEF Link, Ends
  <2>9. CASE Finish(p)
    <3>1. pc[p] = "finish" /\ Return(p) /\ orders' = orders
      BY <2>9 DEF Finish
    <3>2. mine[p] = 1 /\ Knows(p)
      BY <3>1, OneWorker DEF Handling
    <3> DEFINE new == [row EXCEPT !.status = Outcome(tans[p])]
    <3>3. new \in Rows /\ new.status = Outcome(tans[p]) /\ row' = Stored(new)
      BY <1>0, <2>9 DEF Rows, Statuses, Outcome, Finish
    <3> HIDE DEF new
    <3>4. row'.status = Outcome(tans[p])
      BY <1>0, <3>3, StoredType
    <3>5. /\ pc'[p] \in {"idle", "load"} /\ snap'[p] = NoSnap
          /\ \A q \in Procs \ {p} : pc'[q] = pc[q] /\ mine'[q] = mine[q] /\ snap'[q] = snap[q]
      BY <1>0, <3>1, AllLeave, LeaveEffect
    <3>6. \A n \in Orders : orders'[n].tx = "paid" => row'.status = "DONE"
      <4>1. ASSUME NEW n \in Orders, orders[n].tx = "paid" PROVE n = mine[p]
        BY <1>0, <3>2, <4>1 DEF OneOrder, Placed
      <4>. QED
        BY <3>1, <3>2, <3>4, <4>1 DEF Knows, Verdict, Outcome
    <3>7. \A q \in Procs : pc'[q] \notin {"cancel", "mark"} /\ ~snap'[q].expired
      BY <3>5 DEF CalmTells, NoSnap
    <3>8. \A q \in Procs : pc'[q] = "fail" => mine'[q] \in Orders /\ orders'[mine'[q]].tx = "open"
      BY <3>1, <3>5 DEF CalmTells
    <3>. QED
      BY <3>6, <3>7, <3>8 DEF CalmTells
  <2>10. CASE Fail(p)
    <3>1. pc[p] = "fail" /\ Raise(p) /\ orders' = orders
      BY <2>10 DEF Fail
    <3>2. mine[p] = 1
      BY <1>0, <1>j, <3>1 DEF CalmTells, OneOrder
    <3>3. row.status # "DONE"
      BY <1>0, <3>2 DEF PointsThere, OneOrder, Placed, Rows
    <3>. QED
      BY <1>b, <3>1, <3>3 DEF Ends
  <2>. QED
    BY <1>6, <2>1, <2>2, <2>3, <2>4, <2>5, <2>6, <2>7, <2>8, <2>9, <2>10 DEF HandlerStep
<1>7. ASSUME NEW p \in Procs, Fault(p) PROVE FALSE
  BY <1>0, <1>7, BoundsAssumption DEF Fault, Calm, TypeOK
<1>. QED
  BY <1>1, <1>2, <1>3, <1>4, <1>5, <1>6, <1>7 DEF Next

\* The row says "done" only of an order that is paid with TWINT's money and
\* can be refunded; and while nothing goes wrong, an order that is paid is
\* done in the row when the processes are through with it.
THEOREM DoneMeansPaidAlways == Spec => []DoneMeansPaid
<1> DEFINE Quietly == kept /\ Calm => CalmTells
<1>1. Init => Quietly
  BY CalmInit
<1>2. Inv /\ Quietly /\ [Next]_vars => Quietly'
  <2> SUFFICES ASSUME Inv, Quietly, [Next]_vars, kept', Calm' PROVE CalmTells'
    OBVIOUS
  <2>1. TypeOK /\ CheckInTells
    BY DEF Inv, Types, DataInv
  <2>2. kept /\ Calm
    BY <2>1, CheckInGoesOn, CalmBefore
  <2>. QED
    BY <2>2, CalmNext
<1>3. Inv /\ Quietly => DoneMeansPaid
  <2> SUFFICES ASSUME Inv, Quietly PROVE DoneIsPaid /\ PaidIsDone
    BY DEF DoneMeansPaid
  <2>1. DoneIsPaid
    BY DEF Inv, PointsThere, DoneIsPaid
  <2>2. PaidIsDone
    BY DEF PaidIsDone, Calm, CalmTells, Ends
  <2>. QED
    BY <2>1, <2>2
<1>. QED
  BY <1>1, <1>2, <1>3, InvAlways, PTL DEF Spec

-----------------------------------------------------------------------------
(***************************************************************************)
(* What strands.                                                           *)
(***************************************************************************)
\* TWINT takes the money only of an order whose process is about to hear of it.
Hears(p) ==
    LET o == orders[mine[p]]
    IN  /\ pc[p] = "start" => o.twint = "none"
        /\ pc[p] = "confirm" => o.twint # "success"
        /\ pc[p] = "refresh" /\ tans[p] # "success" => o.twint # "success"
        /\ pc[p] \in {"refresh"} \cup Ends /\ tans[p] = "failure" => o.twint = "failure"

TakenIsHeard ==
    /\ \A n \in Orders : orders[n].tx = "none" => orders[n].twint = "none"
    /\ \A p \in Procs : mine[p] \in Orders => Hears(p)

NothingNew == \A n \in Orders : Stranded(n)' => Stranded(n)

LEMMA TakenInit == Init => TakenIsHeard
BY DEF Init, TakenIsHeard, NoOrder, Orders

\* What the others heard, they still hear.
LEMMA OthersHear ==
    ASSUME Types, OrdersAreOwned, TakenIsHeard, NEW p \in Procs,
           \A q \in Procs \ {p} : pc'[q] = pc[q] /\ mine'[q] = mine[q] /\ tans'[q] = tans[q],
           \A n \in Orders \ {mine[p]} : orders'[n] = orders[n]
    PROVE  \A q \in Procs \ {p} : mine'[q] \in Orders => Hears(q)'
<1> SUFFICES ASSUME NEW q \in Procs \ {p}, mine'[q] \in Orders PROVE Hears(q)'
  OBVIOUS
<1>1. mine'[q] = mine[q] /\ pc'[q] = pc[q] /\ tans'[q] = tans[q] /\ Hears(q)
  BY DEF TakenIsHeard
<1>2. orders'[mine[q]] = orders[mine[q]]
  BY <1>1 DEF OrdersAreOwned, Distinct, Orders
<1>. QED
  BY <1>1, <1>2 DEF Hears

\* A process that leaves has no order, or one that is settled, or has given up.
LEMMA LeaveHears ==
    ASSUME Types, OrdersAreOwned, TakenIsHeard, NEW p \in Procs,
           Quit(p) \/ Return(p) \/ Raise(p), orders' = orders
    PROVE  /\ TakenIsHeard'
           /\ \A n \in Orders \ {mine[p]} : Stranded(n)' => Stranded(n)
           /\ pc[p] = "fail" => NothingNew
<1>1. /\ pc'[p] \in {"idle", "load"} /\ mine'[p] = 0
      /\ \A q \in Procs \ {p} : pc'[q] = pc[q] /\ mine'[q] = mine[q] /\ tans'[q] = tans[q]
  BY AllLeave, LeaveEffect DEF Types
<1>2. TakenIsHeard'
  BY <1>1, OthersHear DEF TakenIsHeard, Orders
<1>3. \A n \in Orders \ {mine[p]} : Stranded(n)' => Stranded(n)
  BY <1>1 DEF Stranded
<1>4. pc[p] = "fail" => NothingNew
  BY <1>1 DEF Stranded, NothingNew
<1>. QED
  BY <1>2, <1>3, <1>4

\* One that keeps its order, and has not given it up with the money taken.
LEMMA KeepHears ==
    ASSUME Types, OrdersAreOwned, TakenIsHeard, NEW p \in Procs, mine[p] \in Orders,
           mine'[p] = mine[p], pc'[p] # "fail" \/ orders'[mine[p]].twint # "success",
           \A q \in Procs \ {p} : pc'[q] = pc[q] /\ mine'[q] = mine[q] /\ tans'[q] = tans[q],
           \A n \in Orders \ {mine[p]} : orders'[n] = orders[n],
           orders'[mine[p]].tx # "none", Hears(p)'
    PROVE  TakenIsHeard' /\ NothingNew
<1>1. TakenIsHeard'
  BY OthersHear DEF TakenIsHeard
<1>2. ASSUME NEW n \in Orders, Stranded(n)' PROVE Stranded(n)
  <2>1. n # mine[p]
    BY <1>2 DEF Stranded
  <2>. QED
    BY <1>2, <2>1 DEF Stranded
<1>. QED
  BY <1>1, <1>2 DEF NothingNew

\* One that has none.
LEMMA NoneHears ==
    ASSUME Types, OrdersAreOwned, TakenIsHeard, NEW p \in Procs, mine[p] = 0,
           orders' = orders, mine' = mine, tans' = tans, \A q \in Procs \ {p} : pc'[q] = pc[q]
    PROVE  TakenIsHeard' /\ NothingNew
<1>1. TakenIsHeard'
  BY OthersHear DEF TakenIsHeard, Orders
<1>2. NothingNew
  BY DEF NothingNew, Stranded, Orders
<1>. QED
  BY <1>1, <1>2

LEMMA PlaceHears ==
    ASSUME Types, OrdersAreOwned, TakenIsHeard, NEW p \in Procs, Place(p)
    PROVE  TakenIsHeard' /\ NothingNew
<1>0. orders \in OrderTypes /\ Locals
  BY TypeIs DEF Types, Typed
<1>1. PICK n \in Orders : /\ Placed = 1..(n - 1)
                          /\ orders' = [orders EXCEPT ![n].tx = "open"]
                          /\ mine' = [mine EXCEPT ![p] = n]
  BY DEF Place
<1>2. orders[n].tx = "none" /\ orders[n].twint = "none"
  <2>1. n \notin 1..(n - 1)
    BY DEF Orders
  <2>. QED
    BY <1>1, <2>1 DEF Placed, TakenIsHeard
<1>3. /\ mine'[p] = n /\ pc'[p] = "start" /\ tans' = tans
      /\ orders'[n].tx = "open" /\ orders'[n].twint = "none"
      /\ \A k \in Orders \ {n} : orders'[k] = orders[k]
      /\ \A q \in Procs \ {p} : pc'[q] = pc[q] /\ mine'[q] = mine[q]
  BY <1>0, <1>1, <1>2 DEF Place, Locals, OrderTypes
<1>4. \A q \in Procs : mine[q] # n
  BY <1>2 DEF OrdersAreOwned, Own, Knows
<1>5. Hears(p)'
  BY <1>3 DEF Hears, Ends
<1>6. ASSUME NEW q \in Procs \ {p}, mine'[q] \in Orders PROVE Hears(q)'
  BY <1>3, <1>4, <1>6 DEF TakenIsHeard, Hears
<1>7. TakenIsHeard'
  BY <1>3, <1>5, <1>6 DEF TakenIsHeard
<1>8. ASSUME NEW k \in Orders, Stranded(k)' PROVE Stranded(k)
  <2>1. k # n /\ mine[p] = 0
    BY <1>3, <1>8 DEF Stranded, Place, OrdersAreOwned, Own, Handling
  <2>. QED
    BY <1>3, <1>8, <2>1 DEF Stranded, Orders
<1>. QED
  BY <1>7, <1>8 DEF NothingNew

LEMMA HandlerHears ==
    ASSUME Types, OrdersAreOwned, TakenIsHeard, NEW p \in Procs, HandlerStep(p)
    PROVE  TakenIsHeard' /\ NothingNew
<1>0. orders \in OrderTypes /\ Locals
  BY TypeIs DEF Types, Typed
<1>1. pc[p] \in Handling \ {"place"} =>
        /\ mine[p] \in Orders /\ Knows(p) /\ Hears(p)
        /\ orders[mine[p]].tx # "none"
  BY DEF Types, HasPlaced, OrdersAreOwned, Own, Knows, TakenIsHeard
\* A step that keeps the order, and sets at most one of its fields.
<1>2. ASSUME NEW label \in {"fail", "store", "confirm", "poll", "link", "finish"}, Goto(p, label)
      PROVE  /\ pc'[p] = label /\ mine' = mine /\ tans' = tans
             /\ \A q \in Procs \ {p} : pc'[q] = pc[q]
  <2>1. label \in Labels
    BY DEF Labels, Handling
  <2>. QED
    BY <1>2, <2>1, GotoEffect DEF Types
<1>3. CASE Place(p)
  BY <1>3, PlaceHears
<1>4. CASE Start(p)
  <2>0. pc[p] = "start" /\ mine[p] \in Orders /\ Hears(p) /\ orders[mine[p]].tx # "none"
    BY <1>1, <1>4 DEF Start, Handling
  <2>1. CASE Goto(p, "fail") /\ UNCHANGED orders
    <3>1. orders'[mine[p]].twint # "success"
      BY <2>0, <2>1 DEF Hears
    <3>2. Hears(p)'
      BY <1>2, <2>1 DEF Hears, Ends
    <3>. QED
      BY <1>2, <2>0, <2>1, <3>1, <3>2, KeepHears
  <2>2. ASSUME NEW s \in Pending \cup Terminal,
               orders' = [orders EXCEPT ![mine[p]].twint = s],
               tans' = [tans EXCEPT ![p] = s],
               pc' = [pc EXCEPT ![p] = "refresh"], UNCHANGED <<snap, ans, mine>>
        PROVE  TakenIsHeard' /\ NothingNew
    <3>1. /\ pc'[p] = "refresh" /\ tans'[p] = s /\ mine'[p] = mine[p]
          /\ orders'[mine[p]].twint = s /\ orders'[mine[p]].tx = orders[mine[p]].tx
          /\ \A n \in Orders \ {mine[p]} : orders'[n] = orders[n]
          /\ \A q \in Procs \ {p} : pc'[q] = pc[q] /\ mine'[q] = mine[q] /\ tans'[q] = tans[q]
      BY <1>0, <2>0, <2>2 DEF Locals, OrderTypes
    <3>2. Hears(p)'
      BY <3>1 DEF Hears, Ends
    <3>. QED
      BY <2>0, <3>1, <3>2, KeepHears
  <2>. QED
    BY <1>4, <2>1, <2>2 DEF Start
<1>5. CASE Refresh(p)
  <2>0. pc[p] = "refresh" /\ mine[p] \in Orders /\ Hears(p) /\ orders[mine[p]].tx # "none"
    BY <1>1, <1>5 DEF Refresh, Handling
  <2>1. CASE Decided(tans[p])
    <3>1. orders' = [orders EXCEPT ![mine[p]].tx = Verdict(tans[p])] /\ Goto(p, "store")
      BY <1>5, <2>1 DEF Refresh
    <3>2. /\ orders'[mine[p]].tx = Verdict(tans[p])
          /\ orders'[mine[p]].twint = orders[mine[p]].twint
          /\ \A n \in Orders \ {mine[p]} : orders'[n] = orders[n]
      BY <1>0, <2>0, <3>1 DEF OrderTypes
    <3>3. Hears(p)'
      BY <1>2, <2>0, <3>1, <3>2 DEF Hears, Ends
    <3>4. orders'[mine[p]].tx # "none"
      BY <3>2 DEF Verdict
    <3>. QED
      BY <1>2, <2>0, <3>1, <3>2, <3>3, <3>4, KeepHears
  <2>2. CASE ~Decided(tans[p])
    <3>1. PICK label \in {"confirm", "poll"} :
             /\ Goto(p, label) /\ UNCHANGED orders
             /\ label = "confirm" => tans[p] = "confirm"
      BY <1>5, <2>2 DEF Refresh
    <3>2. Hears(p)'
      BY <1>2, <2>0, <3>1 DEF Hears, Ends
    <3>. QED
      BY <1>2, <2>0, <3>1, <3>2, KeepHears
  <2>. QED
    BY <2>1, <2>2
<1>6. CASE Confirm(p)
  <2>0. pc[p] = "confirm" /\ mine[p] \in Orders /\ Hears(p) /\ orders[mine[p]].tx # "none"
    BY <1>1, <1>6 DEF Confirm, Handling
  <2>1. CASE Goto(p, "fail") /\ UNCHANGED orders
    <3>1. orders'[mine[p]].twint # "success"
      BY <2>0, <2>1 DEF Hears
    <3>2. Hears(p)'
      BY <1>2, <2>1 DEF Hears, Ends
    <3>. QED
      BY <1>2, <2>0, <2>1, <3>1, <3>2, KeepHears
  <2>2. CASE orders' = [orders EXCEPT ![mine[p]].twint = "success"] /\ Goto(p, "poll")
    <3>1. /\ orders'[mine[p]].tx = orders[mine[p]].tx
          /\ \A n \in Orders \ {mine[p]} : orders'[n] = orders[n]
      BY <1>0, <2>0, <2>2 DEF OrderTypes
    <3>2. Hears(p)'
      BY <1>2, <2>2 DEF Hears, Ends
    <3>. QED
      BY <1>2, <2>0, <2>2, <3>1, <3>2, KeepHears
  <2>. QED
    BY <1>6, <2>1, <2>2 DEF Confirm
<1>7. CASE PollOrder(p)
  <2>1. /\ mine[p] \in Orders /\ orders[mine[p]].tx # "none"
        /\ orders' = orders /\ mine' = mine
        /\ tans' = [tans EXCEPT ![p] = orders[mine[p]].twint]
        /\ pc' = [pc EXCEPT ![p] = "refresh"]
    BY <1>1, <1>7 DEF PollOrder, Handling
  <2>2. /\ pc'[p] = "refresh" /\ tans'[p] = orders[mine[p]].twint
        /\ \A q \in Procs \ {p} : pc'[q] = pc[q] /\ tans'[q] = tans[q]
    BY <1>0, <2>1 DEF Locals
  <2>3. Hears(p)'
    BY <2>1, <2>2 DEF Hears, Ends
  <2>. QED
    BY <2>1, <2>2, <2>3, KeepHears
<1>8. CASE Store(p)
  <2>0. /\ pc[p] = "store" /\ mine[p] \in Orders /\ Hears(p) /\ orders[mine[p]].tx # "none"
        /\ orders' = [orders EXCEPT ![mine[p]].stored = TRUE] /\ Goto(p, "link")
    BY <1>1, <1>8 DEF Store, Handling
  <2>1. /\ orders'[mine[p]].tx = orders[mine[p]].tx
        /\ orders'[mine[p]].twint = orders[mine[p]].twint
        /\ \A n \in Orders \ {mine[p]} : orders'[n] = orders[n]
    BY <1>0, <2>0 DEF OrderTypes
  <2>2. Hears(p)'
    BY <1>2, <2>0, <2>1 DEF Hears, Ends
  <2>. QED
    BY <1>2, <2>0, <2>1, <2>2, KeepHears
<1>9. CASE Link(p)
  <2>0. /\ pc[p] = "link" /\ mine[p] \in Orders /\ Hears(p) /\ orders[mine[p]].tx # "none"
        /\ orders' = orders /\ Goto(p, "finish")
    BY <1>1, <1>9 DEF Link, Handling
  <2>1. Hears(p)'
    BY <1>2, <2>0 DEF Hears, Ends
  <2>. QED
    BY <1>2, <2>0, <2>1, KeepHears
<1>10. CASE Finish(p)
  <2>1. pc[p] = "finish" /\ Return(p) /\ orders' = orders
    BY <1>10 DEF Finish
  <2>2. /\ TakenIsHeard'
        /\ \A n \in Orders \ {mine[p]} : Stranded(n)' => Stranded(n)
    BY <2>1, LeaveHears
  <2>3. orders[mine[p]].tx = "paid" \/ orders[mine[p]].twint = "failure"
    <3>1. /\ tans[p] \in Terminal /\ orders[mine[p]].tx = Verdict(tans[p])
          /\ tans[p] = "failure" => orders[mine[p]].twint = "failure"
      BY <1>1, <2>1 DEF Knows, Hears, Ends, Handling
    <3>. QED
      BY <3>1 DEF Terminal, Verdict
  <2>4. \A n \in Orders : n = mine[p] => ~Stranded(n)'
    BY <2>1, <2>3 DEF Stranded
  <2>. QED
    BY <2>2, <2>4 DEF NothingNew
<1>11. CASE Fail(p)
  BY <1>11, LeaveHears DEF Fail
<1>. QED
  BY <1>3, <1>4, <1>5, <1>6, <1>7, <1>8, <1>9, <1>10, <1>11 DEF HandlerStep

\* A fault adds one stranded order at most, another step none.
OneNew ==
    /\ faults' = faults + 1
    /\ \E m \in Orders \cup {0} : \A n \in Orders \ {m} : Stranded(n)' => Stranded(n)

LEMMA TakenNext ==
    ASSUME Types, OrdersAreOwned, TakenIsHeard, [Next]_vars
    PROVE  TakenIsHeard' /\ ((NothingNew /\ faults' = faults) \/ OneNew)
<1>0. orders \in OrderTypes /\ Locals
  BY TypeIs DEF Types, Typed
<1>1. ASSUME UNCHANGED <<orders, procs>> PROVE TakenIsHeard' /\ NothingNew
  BY <1>1 DEF procs, TakenIsHeard, Hears, NothingNew, Stranded
<1>2. ASSUME Environment PROVE TakenIsHeard' /\ NothingNew /\ faults' = faults
  <2>1. ASSUME NEW n \in Orders, TwintDecides(n) PROVE TakenIsHeard' /\ NothingNew
    <3>1. PICK s \in {"confirm", "failure"} : orders' = [orders EXCEPT ![n].twint = s]
      BY <2>1 DEF TwintDecides
    <3>2. orders[n].twint \in Pending /\ UNCHANGED procs
      BY <2>1 DEF TwintDecides
    <3>3. /\ \A k \in Orders : orders'[k].tx = orders[k].tx
          /\ \A k \in Orders \ {n} : orders'[k] = orders[k]
          /\ orders'[n].twint = s
      BY <1>0, <3>1 DEF OrderTypes
    <3>4. ASSUME NEW p \in Procs, mine'[p] \in Orders PROVE Hears(p)'
      <4>1. Hears(p) /\ mine[p] \in Orders /\ UNCHANGED <<pc, mine, tans>>
        BY <3>2, <3>4 DEF TakenIsHeard, procs
      <4>2. CASE mine[p] # n
        BY <3>3, <4>1, <4>2 DEF Hears
      <4>3. CASE mine[p] = n
        BY <3>2, <3>3, <4>1, <4>3 DEF Hears, Pending
      <4>. QED
        BY <4>2, <4>3
    <3>5. orders[n].tx # "none"
      BY <3>2 DEF TakenIsHeard, Pending
    <3>6. TakenIsHeard'
      BY <3>3, <3>4, <3>5 DEF TakenIsHeard
    <3>7. NothingNew
      BY <3>2, <3>3 DEF NothingNew, Stranded, procs
    <3>. QED
      BY <3>6, <3>7
  <2>. QED
    BY <1>1, <1>2, <2>1
    DEF Environment, RequestCheckIn, CreateRow, CustomerScans, CustomerGivesData, CheckInEnds,
        CustomerCancels, TwintDecides, Expire, GoStale
<1>3. ASSUME NEW p \in Procs, pc[p] \notin (Handling \ {"place"}) \cup {"fail"} PROVE mine[p] = 0
  BY <1>3 DEF OrdersAreOwned, Own
<1>4. ASSUME NEW p \in Procs, Quit(p) \/ Return(p) \/ Raise(p), orders' = orders, mine[p] = 0
      PROVE  TakenIsHeard' /\ NothingNew
  BY <1>4, LeaveHears DEF NothingNew, Orders
<1>5. ASSUME NEW p \in Procs, mine[p] = 0, orders' = orders,
             \/ \E label \in Labels : Goto(p, label)
             \/ /\ \E label \in Labels : pc' = [pc EXCEPT ![p] = label]
                /\ mine' = mine /\ tans' = tans
      PROVE  TakenIsHeard' /\ NothingNew
  <2>1. mine' = mine /\ tans' = tans /\ \A q \in Procs \ {p} : pc'[q] = pc[q]
    BY <1>0, <1>5, GotoEffect DEF Types, Locals
  <2>. QED
    BY <1>5, <2>1, NoneHears
<1>6. ASSUME NEW p \in PollProcs, Spawn(p) \/ Load(p)
      PROVE  TakenIsHeard' /\ NothingNew /\ faults' = faults
  <2>0. p \in Procs
    BY DEF Procs
  <2>1. pc[p] \in {"idle", "load"} /\ orders' = orders /\ faults' = faults
    BY <1>6 DEF Spawn, Load
  <2>2. mine[p] = 0
    BY <1>3, <2>0, <2>1 DEF Handling
  <2>3. CASE Spawn(p) \/ (Load(p) /\ ~Finished(row))
    <3>1. /\ \E label \in Labels : pc' = [pc EXCEPT ![p] = label]
          /\ mine' = mine /\ tans' = tans
      BY <2>3 DEF Spawn, Load, Labels
    <3>. QED
      BY <1>5, <2>0, <2>1, <2>2, <3>1
  <2>4. CASE Load(p) /\ Finished(row)
    BY <1>4, <2>0, <2>1, <2>2, <2>4 DEF Load
  <2>. QED
    BY <1>6, <2>3, <2>4
<1>7. ASSUME CronStart PROVE TakenIsHeard' /\ NothingNew /\ faults' = faults
  <2>1. /\ pc[Cron] = "idle" /\ orders' = orders /\ faults' = faults
        /\ pc' = [pc EXCEPT ![Cron] = "ask"] /\ mine' = mine /\ tans' = tans
    BY <1>7 DEF CronStart
  <2>2. Cron \in Procs /\ mine[Cron] = 0
    BY <1>3, <2>1 DEF Procs, Handling
  <2>3. "ask" \in Labels
    BY DEF Labels
  <2>. QED
    BY <1>5, <2>1, <2>2, <2>3
<1>8. ASSUME NEW p \in Procs, MonitorStep(p)
      PROVE  TakenIsHeard' /\ NothingNew /\ faults' = faults
  <2>1. pc[p] \in {"ask", "cancel", "mark", "write"} /\ orders' = orders /\ faults' = faults
    BY <1>8 DEF MonitorStep, Ask, CancelCheckIn, Mark, Write
  <2>2. mine[p] = 0
    BY <1>3, <2>1 DEF Handling
  <2>3. \/ Quit(p) \/ Return(p) \/ Raise(p)
        \/ \E label \in Labels : Goto(p, label)
        \/ /\ \E label \in Labels : pc' = [pc EXCEPT ![p] = label]
           /\ mine' = mine /\ tans' = tans
    <3>1. CASE Ask(p) /\ IsChanged(p, checkin)
      BY <3>1 DEF Ask, Labels
    <3>2. CASE Ask(p) /\ ~IsChanged(p, checkin)
      BY <3>2 DEF Ask, Labels
    <3>3. CASE CancelCheckIn(p) \/ Mark(p) \/ Write(p)
      BY <3>3 DEF CancelCheckIn, Mark, Write, Labels, Handling
    <3>. QED
      BY <1>8, <3>1, <3>2, <3>3 DEF MonitorStep
  <2>. QED
    BY <1>4, <1>5, <2>1, <2>2, <2>3
<1>9. ASSUME NEW p \in Procs, HandlerStep(p)
      PROVE  TakenIsHeard' /\ NothingNew /\ faults' = faults
  <2>1. faults' = faults
    BY <1>9 DEF HandlerStep, Place, Start, Refresh, Confirm, PollOrder, Store, Link, Finish, Fail
  <2>. QED
    BY <1>9, <2>1, HandlerHears
<1>10. ASSUME NEW p \in Procs, Fault(p) PROVE TakenIsHeard' /\ OneNew
  <2>1. faults' = faults + 1 /\ orders' = orders /\ mine[p] \in Orders \cup {0}
    BY <1>0, <1>10 DEF Fault, Locals
  <2>2. CASE Quit(p) \/ Raise(p)
    <3>1. TakenIsHeard' /\ \A n \in Orders \ {mine[p]} : Stranded(n)' => Stranded(n)
      BY <2>1, <2>2, LeaveHears
    <3>. QED
      BY <2>1, <3>1 DEF OneNew
  <2>3. CASE Goto(p, "fail")
    <3>1. "fail" \in Labels
      BY DEF Labels
    <3>2. /\ pc'[p] = "fail" /\ mine' = mine /\ tans' = tans
          /\ \A q \in Procs \ {p} : pc'[q] = pc[q]
      BY <2>3, <3>1, GotoEffect DEF Types
    <3>3. Hears(p)'
      BY <3>2 DEF Hears, Ends
    <3>4. TakenIsHeard'
      BY <2>1, <3>2, <3>3, OthersHear DEF TakenIsHeard
    <3>5. \A n \in Orders \ {mine[p]} : Stranded(n)' => Stranded(n)
      BY <2>1, <3>2 DEF Stranded
    <3>. QED
      BY <2>1, <3>4, <3>5 DEF OneNew
  <2>. QED
    BY <1>10, <2>2, <2>3 DEF Fault
<1>11. CASE UNCHANGED vars
  BY <1>1, <1>11 DEF vars, procs
<1>. QED
  BY <1>2, <1>6, <1>7, <1>8, <1>9, <1>10, <1>11 DEF Next

\* Money that TWINT took for an order nobody will hear of: a fault for each.
THEOREM StrandedAreFaults == Spec => []EachStrandedIsAFault
<1> DEFINE stranded == {n \in Orders : Stranded(n)}
<1> DEFINE Taken == Types /\ OrdersAreOwned /\ TakenIsHeard /\ EachStrandedIsAFault
<1>1. IsFiniteSet(stranded)
  <2>1. IsFiniteSet(Orders)
    BY BoundsAssumption, FS_Interval DEF Orders
  <2>. QED
    BY <2>1, FS_Subset
<1>2. IsFiniteSet(stranded)'
  BY <1>1, PTL
<1>3. Init => Taken
  <2> SUFFICES ASSUME Init PROVE Taken
    OBVIOUS
  <2>1. stranded = {}
    BY DEF Init, Stranded, NoOrder
  <2>2. EachStrandedIsAFault
    BY <2>1, FS_EmptySet DEF Init, EachStrandedIsAFault
  <2>. QED
    BY <2>2, InitTypes, OwnedInit, TakenInit DEF Init, Types, HasPlaced, Handling
<1>4. Taken /\ [Next]_vars => Taken'
  <2> SUFFICES ASSUME Taken, [Next]_vars PROVE EachStrandedIsAFault'
    BY TypesNext, OwnedNext, TakenNext
  <2>0. /\ Cardinality(stranded) <= faults /\ faults \in Nat
        /\ Cardinality(stranded) \in Nat /\ Cardinality(stranded') \in Nat
    BY <1>1, <1>2, FS_CardinalityType, BoundsAssumption DEF EachStrandedIsAFault, Types, TypeOK
  <2>1. CASE NothingNew /\ faults' = faults
    <3>1. stranded' \subseteq stranded
      BY <2>1 DEF NothingNew
    <3>2. Cardinality(stranded') <= Cardinality(stranded)
      BY <1>1, <3>1, FS_Subset
    <3>. HIDE DEF stranded
    <3>3. Cardinality(stranded') <= faults'
      BY <2>0, <2>1, <3>2
    <3>. QED
      BY <3>3 DEF EachStrandedIsAFault, stranded
  <2>2. CASE OneNew
    <3>1. PICK m \in Orders \cup {0} : \A n \in Orders \ {m} : Stranded(n)' => Stranded(n)
      BY <2>2 DEF OneNew
    <3>2. stranded' \subseteq stranded \cup {m}
      BY <3>1
    <3>. HIDE DEF stranded
    <3>3. /\ IsFiniteSet(stranded \cup {m})
          /\ Cardinality(stranded \cup {m}) \in {Cardinality(stranded), Cardinality(stranded) + 1}
      BY <1>1, FS_AddElement
    <3>4. Cardinality(stranded') <= Cardinality(stranded \cup {m})
      BY <3>2, <3>3, FS_Subset
    <3>5. Cardinality(stranded') <= faults'
      BY <2>0, <2>2, <3>3, <3>4 DEF OneNew
    <3>. QED
      BY <3>5 DEF EachStrandedIsAFault, stranded
  <2>. QED
    BY <2>1, <2>2, TakenNext
<1>. QED
  BY <1>3, <1>4, PTL DEF Spec
=============================================================================
