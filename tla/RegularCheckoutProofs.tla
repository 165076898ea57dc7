------------------------ MODULE RegularCheckoutProofs ------------------------
(***************************************************************************)
(* Proofs about RegularCheckout, for every number of processes, attempts   *)
(* and faults.                                                             *)
(*                                                                         *)
(* The optimistic lock works because of what a process knows while it      *)
(* holds a copy of a row: the copy is no newer than the row, and if its    *)
(* version is still the row's, so is its status (SnapOK).  A write that    *)
(* passes the version check hence replaces a status that is pending, and a *)
(* row that is finished is never written again.                            *)
(***************************************************************************)
EXTENDS RegularCheckout, FiniteSetTheorems, WellFoundedInduction, TLAPS

\* What holds of an attempt, its TWINT order and its row.
RowOK(a) ==
    /\ pay[a] \in {"idle", "called"} => twint[a] = "none"
    /\ pay[a] \in {"started", "processed", "inserted", "shown"} => twint[a] # "none"
    /\ pay[a] \in {"idle", "called", "started", "processed"} => row[a] = NoRow
    /\ pay[a] \in {"inserted", "shown"} => row[a].status # "none"
    /\ row[a].status # "none" => twint[a] # "none"
    /\ Finished(row[a]) => twint[a] = row[a].status
    /\ applied[a] # "none" => Finished(row[a])

\* What holds of the copy of a row in the hands of process p.
SnapOK(p, a) ==
    snap[p][a].status \in Pending =>
        /\ row[a].status # "none"
        /\ snap[p][a].version <= row[a].version
        /\ snap[p][a].version = row[a].version => snap[p][a].status = row[a].status

\* What holds of the row a process works on, the answer it got, and, once it
\* is about to change the order, the result it applies.
ProcOK(p) ==
    /\ pc[p] # "idle" => row[at[p]].status # "none"
    /\ pc[p] \in {"ask", "write"} => snap[p][at[p]].status \in Pending
    /\ pc[p] \in {"idle", "load", "ask"} => ans[p] = "none"
    /\ pc[p] = "write" => ans[p] # "none"
    /\ ans[p] \in Terminal => twint[at[p]] = ans[p]
    /\ pc[p] = "settle" => /\ ans[p] \in Terminal
                           /\ row[at[p]].status = ans[p]
                           /\ applied[at[p]] = "none"

\* The scheduled task still holds a copy of every row of its batch.
BatchOK == \A a \in batch : snap[Cron][a].status \in Pending

OneSettler ==
    \A p, q \in Procs :
        pc[p] = "settle" /\ pc[q] = "settle" /\ at[p] = at[q] => p = q

IInv ==
    /\ TypeOK
    /\ \A a \in Attempts : RowOK(a)
    /\ \A p \in Procs, a \in Attempts : SnapOK(p, a)
    /\ \A p \in Procs : ProcOK(p)
    /\ BatchOK
    /\ OneSettler
    /\ PaidNeedsSuccess

-----------------------------------------------------------------------------
(***************************************************************************)
(* The oldest row of a batch exists.                                       *)
(***************************************************************************)
LEMMA FirstInSet ==
    ASSUME NEW S, S \subseteq Nat, S # {}
    PROVE  First(S) \in S
<1>1. PICK x \in S : \A y \in S : ~(<<y, x>> \in OpToRel(<, Nat))
  BY NatLessThanWellFounded, WFMin
<1>2. \A y \in S : x <= y
  <2>1. SUFFICES ASSUME NEW y \in S, y < x PROVE FALSE
    OBVIOUS
  <2>2. <<y, x>> \in Nat \X Nat /\ <<y, x>>[1] < <<y, x>>[2]
    BY <2>1
  <2>3. <<y, x>> \in OpToRel(<, Nat)
    BY <2>2, Zenon DEF OpToRel
  <2>. QED
    BY <1>1, <2>3
<1>. QED
  BY <1>2 DEF First

-----------------------------------------------------------------------------
(***************************************************************************)
(* What a process leaves behind when it is through with a row (Return,     *)
(* Raise) or ends (Quit), whatever else the step changes.                  *)
(***************************************************************************)
ProcTypes ==
    /\ pc \in [Procs -> {"idle", "load", "ask", "write", "confirm",
                         "cancel", "settle"}]
    /\ at \in [Procs -> Attempts]
    /\ snap \in [Procs -> [Attempts -> SnapType]]
    /\ ans \in [Procs -> {"none"} \cup Pending \cup Terminal]
    /\ batch \subseteq Attempts

Others(p) ==
    \A q \in Procs \ {p} : /\ pc'[q] = pc[q]
                            /\ at'[q] = at[q]
                            /\ snap'[q] = snap[q]
                            /\ ans'[q] = ans[q]

Left(p) ==
    /\ ProcTypes'
    /\ Others(p)
    /\ pc'[p] \in {"idle", "load", "ask"}
    /\ pc'[p] = "load" => row[at'[p]].status # "none"
    /\ pc'[p] = "ask" => snap'[p][at'[p]].status \in Pending
    /\ ans'[p] = "none"
    /\ \A a \in Attempts : snap'[p][a] \in {snap[p][a], NoSnap, SnapOf(a)}
    /\ BatchOK'

LEMMA AttemptsAreNaturals == Attempts \subseteq Nat
BY BoundsAssumption DEF Attempts

LEMMA NoSnapType == NoSnap \in SnapType /\ NoSnap.status \notin Pending
BY DEF NoSnap, SnapType, Pending

LEMMA ForgetTypes ==
    ASSUME ProcTypes, NEW p \in Procs, Forget(p)
    PROVE  /\ snap' \in [Procs -> [Attempts -> SnapType]]
           /\ ans' \in [Procs -> {"none"} \cup Pending \cup Terminal]
           /\ ans'[p] = "none"
           /\ snap'[p][at[p]] = NoSnap
           /\ \A a \in Attempts \ {at[p]} : snap'[p][a] = snap[p][a]
           /\ \A q \in Procs \ {p} : snap'[q] = snap[q] /\ ans'[q] = ans[q]
BY NoSnapType DEF ProcTypes, Forget

LEMMA QuitLeaves ==
    ASSUME ProcTypes, BatchOK, NEW p \in Procs, Quit(p)
    PROVE  Left(p)
<1>1. 1 \in Attempts
  BY BoundsAssumption DEF Attempts
<1>2. ProcTypes'
  BY <1>1, NoSnapType DEF ProcTypes, Quit
<1>3. BatchOK'
  BY CronAssumption DEF ProcTypes, Quit, BatchOK, Procs
<1>. QED
  BY <1>2, <1>3 DEF ProcTypes, Quit, Left, Others

LEMMA CronLeaves ==
    ASSUME ProcTypes, BatchOK, Forget(Cron), NextOfBatch
    PROVE  Left(Cron)
<1>. DEFINE rest == batch \ {at[Cron]}
<1>0. Cron \in Procs /\ 1 \in Attempts
  BY BoundsAssumption DEF Procs, Attempts
<1>1. rest # {} => First(rest) \in rest
  <2>1. batch \subseteq Attempts
    BY DEF ProcTypes
  <2>2. rest \subseteq Nat
    BY <2>1, AttemptsAreNaturals
  <2>. HIDE DEF rest
  <2>. QED
    BY <2>2, FirstInSet
<1>2. batch' = rest /\ BatchOK'
  BY <1>0, ForgetTypes DEF NextOfBatch, BatchOK, ProcTypes
<1>3. CASE rest = {}
  <2>1. pc' = [pc EXCEPT ![Cron] = "idle"] /\ at' = [at EXCEPT ![Cron] = 1]
    BY <1>3 DEF NextOfBatch
  <2>2. ProcTypes'
    BY <1>0, <1>2, <2>1, ForgetTypes DEF ProcTypes
  <2>. QED
    BY <1>0, <1>2, <2>1, <2>2, ForgetTypes DEF Left, Others, ProcTypes
<1>4. CASE rest # {}
  <2>1. pc' = [pc EXCEPT ![Cron] = "ask"] /\ at' = [at EXCEPT ![Cron] = First(rest)]
    BY <1>4 DEF NextOfBatch
  <2>2. ProcTypes'
    BY <1>0, <1>1, <1>2, <1>4, <2>1, ForgetTypes DEF ProcTypes
  <2>3. snap'[Cron][at'[Cron]].status \in Pending
    BY <1>0, <1>1, <1>2, <1>4, <2>1 DEF BatchOK, ProcTypes
  <2>. QED
    BY <1>0, <1>2, <2>1, <2>2, <2>3, ForgetTypes DEF Left, Others, ProcTypes
<1>. QED
  BY <1>3, <1>4

LEMMA ReturnLeaves ==
    ASSUME ProcTypes, BatchOK, NEW p \in Procs, Return(p),
           row[at[p]].status # "none"
    PROVE  Left(p)
<1>1. CASE p = Cron
  BY <1>1, CronLeaves DEF Return
<1>2. CASE p # Cron
  <2>1. BatchOK'
    BY <1>2, ForgetTypes DEF Return, BatchOK, Procs, ProcTypes
  <2>2. ProcTypes'
    BY <1>2, ForgetTypes DEF Return, ProcTypes
  <2>. QED
    BY <1>2, <2>1, <2>2, ForgetTypes DEF Return, Left, Others, ProcTypes
<1>. QED
  BY <1>1, <1>2

LEMMA RaiseLeaves ==
    ASSUME ProcTypes, BatchOK, NEW p \in Procs, Raise(p)
    PROVE  Left(p)
BY CronLeaves, QuitLeaves DEF Raise

-----------------------------------------------------------------------------
(***************************************************************************)
(* The invariant is inductive: the steps that leave the processes alone.   *)
(***************************************************************************)
ShopTypes ==
    /\ twint \in [Attempts -> {"none"} \cup Pending \cup Terminal]
    /\ row \in [Attempts -> [status : {"none"} \cup Pending \cup Terminal,
                             version : Nat]]
    /\ expired \in [Attempts -> BOOLEAN]
    /\ fresh \in [Attempts -> BOOLEAN]
    /\ pay \in [Attempts -> {"idle", "called", "started", "processed",
                             "inserted", "shown", "aborted"}]
    /\ tx \in {"open", "in_progress", "paid", "cancelled", "failed"}
    /\ applied \in [Attempts -> {"none", "paid", "cancelled"}]
    /\ faults \in 0..MaxFaults
    /\ overlap \in BOOLEAN

LEMMA TypesSplit == TypeOK <=> ShopTypes /\ ProcTypes
BY DEF TypeOK, ShopTypes, ProcTypes

LEMMA InitIInv == Init => IInv
<1>. SUFFICES ASSUME Init PROVE IInv
  OBVIOUS
<1>1. 1 \in Attempts /\ 0 \in 0..MaxFaults
  BY BoundsAssumption DEF Attempts
<1>2. TypeOK
  BY <1>1 DEF Init, TypeOK, SnapType, NoSnap, NoRow
<1>. QED
  BY <1>2 DEF Init, IInv, RowOK, SnapOK, ProcOK, BatchOK, OneSettler,
              PaidNeedsSuccess, Finished, NoRow, NoSnap, Pending, Terminal

\* The facts about the processes survive a step of the shop or of TWINT that
\* keeps the status of every finished TWINT order and every row with its
\* version, or gives a row to an attempt that had none.
LEMMA ProcsUntouched ==
    ASSUME IInv, UNCHANGED procs, UNCHANGED applied,
           \A a \in Attempts : twint[a] \in Terminal => twint'[a] = twint[a],
           \A a \in Attempts : row[a] # NoRow => row'[a] = row[a],
           NEW p \in Procs
    PROVE  /\ \A a \in Attempts : SnapOK(p, a)'
           /\ ProcOK(p)'
<1>1. TypeOK /\ ProcOK(p) /\ \A a \in Attempts : SnapOK(p, a)
  BY DEF IInv
<1>2. \A a \in Attempts : row[a].status # "none" => row'[a] = row[a]
  BY DEF NoRow
<1>3. at[p] \in Attempts
  BY <1>1 DEF TypeOK
<1>4. UNCHANGED <<pc, at, snap, ans>>
  BY DEF procs
<1>5. ASSUME NEW a \in Attempts PROVE SnapOK(p, a)'
  BY <1>1, <1>2, <1>4, <1>5 DEF SnapOK
<1>6. ProcOK(p)'
  BY <1>1, <1>2, <1>3, <1>4 DEF ProcOK, Terminal
<1>. QED
  BY <1>5, <1>6

LEMMA ShopStep ==
    ASSUME IInv, NEW a \in Attempts, PayStep(a) \/ Environment(a)
    PROVE  IInv'
<1>. USE DEF IInv
<1>0. ShopTypes /\ ProcTypes
  BY TypesSplit
<1>1. UNCHANGED procs /\ UNCHANGED applied
  BY DEF PayStep, Environment, StartOrder, Process, CreateRow, ShowWaiting,
         CustomerConfirms, TwintFails, CustomerCancels, Expire, GoStale, Retry,
         PayAborts, history, shop
<1>2. ShopTypes'
  <2>0. CASE Process(a)
    <3>1. tx' \in {"in_progress", "failed", tx}
      BY <2>0 DEF Process, AfterProcess, AfterFail
    <3>. QED
      BY <1>0, <2>0, <3>1 DEF ShopTypes, Process, history
  <2>1. CASE StartOrder(a) \/ ShowWaiting(a)
    BY <1>0, <2>1 DEF ShopTypes, StartOrder, ShowWaiting, history, Pending
  <2>6. CASE CreateRow(a)
    <3>1. row' \in [Attempts -> [status : {"none"} \cup Pending \cup Terminal,
                                version : Nat]]
      BY <1>0, <2>6 DEF ShopTypes, CreateRow, Pending
    <3>. QED
      BY <1>0, <2>6, <3>1 DEF ShopTypes, CreateRow, history
  <2>2. CASE CustomerConfirms(a) \/ TwintFails(a) \/ CustomerCancels(a)
    BY <1>0, <2>2
       DEF ShopTypes, CustomerConfirms, TwintFails, CustomerCancels, history,
           shop, Pending, Terminal
  <2>3. CASE Expire(a) \/ GoStale(a)
    BY <1>0, <2>3 DEF ShopTypes, Expire, GoStale, history
  <2>4. CASE Retry(a)
    BY <1>0, <2>4 DEF ShopTypes, Retry
  <2>5. CASE PayAborts(a)
    BY <1>0, <2>5, BoundsAssumption DEF ShopTypes, PayAborts, AfterFail
  <2>. QED
    BY <2>0, <2>1, <2>2, <2>3, <2>4, <2>5, <2>6 DEF PayStep, Environment
<1>3. \A b \in Attempts : twint[b] \in Terminal => twint'[b] = twint[b]
  BY <1>0 DEF ShopTypes, PayStep, Environment, StartOrder, Process, CreateRow,
         ShowWaiting, CustomerConfirms, TwintFails, CustomerCancels, Expire,
         GoStale, Retry, PayAborts, history, shop, RowOK, Pending, Terminal
<1>4. \A b \in Attempts : row[b] # NoRow => row'[b] = row[b]
  BY <1>0 DEF ShopTypes, PayStep, Environment, StartOrder, Process, CreateRow,
         ShowWaiting, CustomerConfirms, TwintFails, CustomerCancels, Expire,
         GoStale, Retry, PayAborts, history, shop, RowOK
<1>5. ASSUME NEW b \in Attempts PROVE RowOK(b)'
  <2>1. RowOK(b) /\ RowOK(a)
    OBVIOUS
  <2>2. CASE PayStep(a)
    BY <1>0, <1>1, <2>1, <2>2
       DEF RowOK, ShopTypes, PayStep, StartOrder, Process, CreateRow, ShowWaiting,
           history, Finished, NoRow, Pending, Terminal
  <2>3. CASE Environment(a)
    BY <1>0, <1>1, <2>1, <2>3
       DEF RowOK, ShopTypes, Environment, CustomerConfirms, TwintFails,
           CustomerCancels, Expire, GoStale, Retry, PayAborts, history, shop,
           Finished, NoRow, Pending, Terminal, Attempts
  <2>. QED
    BY <2>2, <2>3
<1>6. PaidNeedsSuccess'
  <2>1. tx' = "paid" => tx = "paid"
    BY DEF PayStep, Environment, StartOrder, Process, CreateRow, ShowWaiting,
         CustomerConfirms, TwintFails, CustomerCancels, Expire, GoStale, Retry,
         PayAborts, AfterProcess, AfterFail, history, shop
  <2>. QED
    BY <2>1, <1>3 DEF PaidNeedsSuccess, Terminal
<1>7. BatchOK' /\ OneSettler' /\ ProcTypes'
  BY <1>0, <1>1 DEF BatchOK, OneSettler, ProcTypes, procs
<1>8. ASSUME NEW p \in Procs
      PROVE  ProcOK(p)' /\ \A b \in Attempts : SnapOK(p, b)'
  BY <1>1, <1>3, <1>4, ProcsUntouched
<1>9. TypeOK'
  BY <1>2, <1>7 DEF TypeOK, ShopTypes, ProcTypes
<1>. QED
  BY <1>5, <1>6, <1>7, <1>8, <1>9

-----------------------------------------------------------------------------
(***************************************************************************)
(* The steps of the processes.  Each either is through with a row (Left)   *)
(* or goes on with it (Goes); what the step does to TWINT's orders, the    *)
(* rows and the results applied is harmless to the other processes (Kept). *)
(***************************************************************************)
ProcsOK ==
    /\ \A q \in Procs, a \in Attempts : SnapOK(q, a)
    /\ \A q \in Procs : ProcOK(q)
    /\ BatchOK
    /\ OneSettler

Kept(p) ==
    /\ \A a \in Attempts : twint[a] \in Terminal => twint'[a] = twint[a]
    /\ \A a \in Attempts :
          \/ row'[a] = row[a]
          \/ /\ row[a].status \in Pending
             /\ row'[a].version = row[a].version + 1
             /\ row'[a].status # "none"
    /\ \A q \in Procs \ {p} :
          pc[q] = "settle" => applied'[at[q]] = applied[at[q]]

Goes(p, label, x) ==
    /\ pc' = [pc EXCEPT ![p] = label]
    /\ ans' = [ans EXCEPT ![p] = x]
    /\ UNCHANGED <<at, snap, batch>>
    /\ pc[p] # "idle"
    /\ label \in {"write", "confirm", "cancel", "settle"}
    /\ x \in {"none"} \cup Pending \cup Terminal
    /\ label = "write" => pc[p] = "ask" /\ x # "none"
    /\ x \in Terminal => twint'[at[p]] = x
    /\ label = "settle" =>
          /\ x \in Terminal
          /\ row'[at[p]].status = x
          /\ applied'[at[p]] = "none"
          /\ \A q \in Procs \ {p} : ~(pc[q] = "settle" /\ at[q] = at[p])

LEMMA OthersKept ==
    ASSUME TypeOK, ProcsOK, NEW p \in Procs, Kept(p), Others(p), NEW q \in Procs \ {p}
    PROVE  ProcOK(q)' /\ \A a \in Attempts : SnapOK(q, a)'
<1>1. ASSUME NEW a \in Attempts PROVE SnapOK(q, a)'
  <2>1. SnapOK(q, a) /\ snap'[q][a] = snap[q][a]
    BY DEF ProcsOK, Others
  <2>2. snap[q][a].version \in Nat /\ row[a].version \in Nat
    BY DEF TypeOK, SnapType
  <2>. QED
    BY <2>1, <2>2 DEF SnapOK, Kept
<1>2. ProcOK(q)'
  <2>1. /\ at[q] \in Attempts
        /\ pc'[q] = pc[q] /\ at'[q] = at[q] /\ snap'[q] = snap[q] /\ ans'[q] = ans[q]
    BY DEF TypeOK, Others
  <2>2. ProcOK(q)
    BY DEF ProcsOK
  <2>3. pc[q] = "settle" => row[at[q]].status \notin Pending
    BY <2>2 DEF ProcOK, Pending, Terminal
  <2>. QED
    BY <2>1, <2>2, <2>3 DEF ProcOK, Kept
<1>. QED
  BY <1>1, <1>2

LEMMA LeaveStep ==
    ASSUME TypeOK, ProcsOK, NEW p \in Procs, Kept(p), Left(p)
    PROVE  ProcsOK'
<1>1. \A q \in Procs \ {p} : ProcOK(q)' /\ \A a \in Attempts : SnapOK(q, a)'
  BY OthersKept DEF Left
<1>2. ASSUME NEW a \in Attempts PROVE SnapOK(p, a)'
  <2>1. SnapOK(p, a) /\ snap'[p][a] \in {snap[p][a], NoSnap, SnapOf(a)}
    BY DEF ProcsOK, Left
  <2>2. snap[p][a].version \in Nat /\ row[a].version \in Nat
    BY DEF TypeOK, SnapType
  <2>. QED
    BY <2>1, <2>2, NoSnapType DEF SnapOK, Kept, SnapOf, Pending
<1>3. ProcOK(p)'
  <2>1. at'[p] \in Attempts
    BY DEF Left, ProcTypes
  <2>2. pc'[p] # "idle" => row'[at'[p]].status # "none"
    BY <1>2, <2>1 DEF Left, Kept, SnapOK
  <2>. QED
    BY <2>2 DEF ProcOK, Left, Terminal
<1>4. OneSettler'
  BY DEF OneSettler, ProcsOK, Left, Others
<1>. QED
  BY <1>1, <1>2, <1>3, <1>4 DEF ProcsOK, Left

LEMMA GoStep ==
    ASSUME TypeOK, ProcsOK, NEW p \in Procs, Kept(p),
           NEW label, NEW x, Goes(p, label, x)
    PROVE  ProcsOK'
<1>0. Others(p) /\ pc'[p] = label /\ ans'[p] = x /\ UNCHANGED <<at, snap, batch>>
  BY DEF TypeOK, Goes, Others
<1>1. \A q \in Procs \ {p} : ProcOK(q)' /\ \A a \in Attempts : SnapOK(q, a)'
  BY <1>0, OthersKept
<1>2. ASSUME NEW a \in Attempts PROVE SnapOK(p, a)'
  <2>1. SnapOK(p, a)
    BY DEF ProcsOK
  <2>2. snap[p][a].version \in Nat /\ row[a].version \in Nat
    BY DEF TypeOK, SnapType
  <2>. QED
    BY <1>0, <2>1, <2>2 DEF SnapOK, Kept
<1>3. ProcOK(p)'
  <2>1. pc[p] = "ask" => snap[p][at[p]].status \in Pending
    BY DEF ProcsOK, ProcOK
  <2>2. at[p] \in Attempts /\ row[at[p]].status # "none"
    BY DEF TypeOK, ProcsOK, ProcOK, Goes
  <2>3. row'[at[p]].status # "none"
    BY <2>2 DEF Kept
  <2>. QED
    BY <1>0, <2>1, <2>3 DEF ProcOK, Goes
<1>4. OneSettler'
  BY <1>0 DEF OneSettler, ProcsOK, Goes, Others
<1>5. BatchOK'
  BY <1>0 DEF ProcsOK, BatchOK
<1>. QED
  BY <1>1, <1>2, <1>3, <1>4, <1>5 DEF ProcsOK

LEMMA SplitIInv ==
    IInv <=> /\ ShopTypes /\ ProcTypes /\ ProcsOK /\ PaidNeedsSuccess
             /\ \A a \in Attempts : RowOK(a)
BY TypesSplit DEF IInv, ProcsOK

\* A step of process p preserves the invariant if it keeps its word.
LEMMA ProcStep ==
    ASSUME IInv, NEW p \in Procs, Kept(p), ShopTypes',
           Left(p) \/ \E label, x : Goes(p, label, x),
           \A a \in Attempts : RowOK(a)',
           PaidNeedsSuccess'
    PROVE  IInv'
<1>1. TypeOK /\ ProcsOK /\ ProcTypes
  BY SplitIInv, TypesSplit
<1>2. ProcsOK' /\ ProcTypes'
  <2>1. CASE Left(p)
    BY <1>1, <2>1, LeaveStep DEF Left
  <2>2. ASSUME NEW label, NEW x, Goes(p, label, x) PROVE ProcsOK' /\ ProcTypes'
    <3>1. ProcTypes'
      BY <1>1, <2>2 DEF Goes, ProcTypes
    <3>. QED
      BY <1>1, <2>2, <3>1, GoStep
  <2>. QED
    BY <2>1, <2>2
<1>3. TypeOK'
  BY <1>2 DEF TypeOK, ShopTypes, ProcTypes
<1>. QED
  BY <1>2, <1>3 DEF IInv, ProcsOK

\* The same for a step that changes nothing but the process, the time of the
\* last check and the number of faults.
LEMMA QuietStep ==
    ASSUME IInv, NEW p \in Procs, UNCHANGED <<twint, row, expired, pay, tx, applied, overlap>>,
           fresh' \in [Attempts -> BOOLEAN], faults' \in 0..MaxFaults,
           Left(p) \/ \E label, x : Goes(p, label, x)
    PROVE  IInv'
<1>1. ShopTypes'
  BY SplitIInv DEF ShopTypes
<1>2. Kept(p)
  <2>. ProcTypes
    BY SplitIInv
  <2>. QED
    BY DEF Kept
<1>3. (\A a \in Attempts : RowOK(a)') /\ PaidNeedsSuccess'
  BY SplitIInv DEF RowOK, PaidNeedsSuccess
<1>. QED
  BY <1>1, <1>2, <1>3, ProcStep

LEMMA SpawnStep ==
    ASSUME IInv, NEW p \in PollProcs, NEW a \in Attempts, Spawn(p, a)
    PROVE  IInv'
<1>1. p \in Procs /\ ProcTypes /\ ShopTypes /\ BatchOK /\ ProcOK(p) /\ RowOK(a)
  BY SplitIInv DEF Procs, IInv
<1>2. Left(p)
  <2>1. ProcTypes'
    BY <1>1 DEF ProcTypes, Spawn
  <2>2. BatchOK'
    BY <1>1 DEF BatchOK, Spawn
  <2>. QED
    BY <1>1, <2>1, <2>2 DEF Left, Others, Spawn, ProcTypes, ProcOK, RowOK, shop
<1>3. fresh' \in [Attempts -> BOOLEAN] /\ faults' \in 0..MaxFaults
  BY <1>1 DEF Spawn, shop, history, ShopTypes
<1>. QED
  BY <1>1, <1>2, <1>3, QuietStep DEF Spawn, shop, history

\* The copy of a row that is neither missing nor finished.
LEMMA SnapOfType ==
    ASSUME ShopTypes, NEW a \in Attempts, row[a].status \in Pending
    PROVE  SnapOf(a) \in SnapType /\ SnapOf(a).status \in Pending
BY DEF ShopTypes, SnapOf, SnapType

LEMMA LoadStep ==
    ASSUME IInv, NEW p \in PollProcs, Load(p)
    PROVE  IInv'
<1>1. /\ p \in Procs /\ p # Cron /\ ProcTypes /\ ShopTypes /\ BatchOK
      /\ ProcOK(p) /\ at[p] \in Attempts
  BY SplitIInv, CronAssumption DEF Procs, IInv, ProcTypes
<1>2. fresh' \in [Attempts -> BOOLEAN]
  BY <1>1 DEF Load, ShopTypes
<1>3. CASE Finished(row[at[p]])
  <2>1. Quit(p)
    BY <1>3 DEF Load
  <2>2. Left(p)
    BY <1>1, <2>1, QuitLeaves
  <2>. QED
    BY <1>1, <1>2, <2>2, QuietStep DEF Load, history, ShopTypes
<1>4. CASE ~Finished(row[at[p]])
  <2>1. row[at[p]].status \in Pending
    BY <1>1, <1>4 DEF ProcOK, Finished, ShopTypes, Load
  <2>2. SnapOf(at[p]) \in SnapType /\ SnapOf(at[p]).status \in Pending
    BY <1>1, <2>1, SnapOfType
  <2>3. /\ snap' = [snap EXCEPT ![p][at[p]] = SnapOf(at[p])]
        /\ pc' = [pc EXCEPT ![p] = "ask"]
        /\ UNCHANGED <<at, ans, batch>>
        /\ pc[p] = "load"
    BY <1>4 DEF Load
  <2>4. ProcTypes'
    BY <1>1, <2>2, <2>3 DEF ProcTypes
  <2>5. BatchOK'
    BY <1>1, <2>3 DEF BatchOK, ProcTypes, Procs
  <2>6. Left(p)
    BY <1>1, <2>2, <2>3, <2>4, <2>5 DEF Left, Others, ProcTypes, ProcOK
  <2>. QED
    BY <1>1, <1>2, <2>6, QuietStep DEF Load, history, ShopTypes
<1>. QED
  BY <1>3, <1>4

LEMMA CronStartStep ==
    ASSUME IInv, CronStart
    PROVE  IInv'
<1>1. Cron \in Procs /\ ProcTypes /\ ShopTypes /\ ProcOK(Cron)
  BY SplitIInv DEF Procs, IInv
<1>2. InProcess \subseteq Attempts /\ First(InProcess) \in InProcess
  <2>1. InProcess \subseteq Attempts /\ InProcess # {}
    BY DEF InProcess, CronStart
  <2>2. InProcess \subseteq Nat
    BY <2>1, AttemptsAreNaturals
  <2>. QED
    BY <2>1, <2>2, FirstInSet
<1>3. \A a \in InProcess : SnapOf(a) \in SnapType /\ SnapOf(a).status \in Pending
  BY <1>1, SnapOfType DEF InProcess
<1>. DEFINE copy == [a \in Attempts |-> IF a \in InProcess THEN SnapOf(a) ELSE NoSnap]
<1>4. copy \in [Attempts -> SnapType]
  BY <1>3, NoSnapType
<1>5. /\ snap' = [snap EXCEPT ![Cron] = copy]
      /\ batch' = InProcess
      /\ pc' = [pc EXCEPT ![Cron] = "ask"]
      /\ at' = [at EXCEPT ![Cron] = First(InProcess)]
      /\ ans' = ans
      /\ pc[Cron] = "idle"
  BY DEF CronStart
<1>6. \A a \in InProcess : copy[a] = SnapOf(a)
  BY <1>2
<1>7. \A a \in Attempts : copy[a] \in {NoSnap, SnapOf(a)}
  OBVIOUS
<1>. HIDE DEF copy
<1>8. ProcTypes'
  BY <1>1, <1>2, <1>4, <1>5 DEF ProcTypes
<1>9. snap'[Cron] = copy /\ BatchOK'
  BY <1>1, <1>3, <1>5, <1>6 DEF BatchOK, ProcTypes
<1>10. Left(Cron)
  BY <1>1, <1>2, <1>3, <1>5, <1>6, <1>7, <1>8, <1>9 DEF Left, Others, ProcTypes, ProcOK
<1>. QED
  BY <1>1, <1>10, QuietStep DEF CronStart, shop, history, ShopTypes

LEMMA PendingGoes ==
    ASSUME ProcTypes, BatchOK, NEW p \in Procs,
           NEW x \in {"none"} \cup Pending \cup Terminal, PendingAnswer(p, x),
           pc[p] # "idle", row[at[p]].status # "none",
           x \in Terminal => twint'[at[p]] = x
    PROVE  Left(p) \/ \E label, y : Goes(p, label, y)
<1>1. CASE x = "confirm"
  <2>1. Goes(p, "confirm", x)
    BY <1>1 DEF PendingAnswer, Goto, Goes
  <2>. QED
    BY <2>1
<1>2. CASE x # "confirm" /\ snap[p][at[p]].expired
  <2>1. Goes(p, "cancel", x)
    BY <1>2 DEF PendingAnswer, Goto, Goes
  <2>. QED
    BY <2>1
<1>3. CASE x # "confirm" /\ ~snap[p][at[p]].expired
  <2>1. Return(p)
    BY <1>3 DEF PendingAnswer
  <2>. QED
    BY <2>1, ReturnLeaves
<1>. QED
  BY <1>1, <1>2, <1>3

LEMMA AskStep ==
    ASSUME IInv, NEW p \in Procs, Ask(p)
    PROVE  IInv'
<1>1. /\ ProcTypes /\ ShopTypes /\ BatchOK /\ ProcOK(p)
      /\ at[p] \in Attempts /\ RowOK(at[p])
  BY SplitIInv DEF IInv, ProcTypes
<1>2. /\ twint[at[p]] \in {"none"} \cup Pending \cup Terminal
      /\ twint[at[p]] # "none" /\ row[at[p]].status # "none" /\ pc[p] = "ask"
      /\ UNCHANGED twint
  BY <1>1 DEF Ask, ProcOK, RowOK, ShopTypes
<1>3. Left(p) \/ \E label, x : Goes(p, label, x)
  <2>1. CASE twint[at[p]] # snap[p][at[p]].status
    <3>1. Goes(p, "write", twint[at[p]])
      BY <1>2, <2>1 DEF Ask, Goto, Goes
    <3>. QED
      BY <3>1
  <2>2. CASE twint[at[p]] = snap[p][at[p]].status
    <3>1. PendingAnswer(p, twint[at[p]])
      BY <2>2 DEF Ask
    <3>. QED
      BY <1>1, <1>2, <3>1, PendingGoes
  <2>. QED
    BY <2>1, <2>2
<1>. QED
  BY <1>1, <1>3, QuietStep DEF Ask, shop, history, ShopTypes

LEMMA WriteStep ==
    ASSUME IInv, NEW p \in Procs, Write(p)
    PROVE  IInv'
<1>. DEFINE a == at[p]
<1>1. /\ ProcTypes /\ ShopTypes /\ ProcsOK /\ BatchOK /\ ProcOK(p) /\ PaidNeedsSuccess
      /\ a \in Attempts /\ RowOK(a) /\ SnapOK(p, a) /\ pc[p] = "write"
  BY SplitIInv DEF IInv, ProcTypes, Write
<1>2. /\ UNCHANGED <<twint, expired, fresh, pay, tx, applied, faults, overlap>>
      /\ row[a].status # "none" /\ snap[p][a].status \in Pending
      /\ ans[p] # "none" /\ (ans[p] \in Terminal => twint'[a] = ans[p])
      /\ ans[p] \in {"none"} \cup Pending \cup Terminal
  BY <1>1 DEF Write, history, ProcOK, ProcTypes
<1>. HIDE DEF a
<1>3. CASE Conflict(p)
  <2>1. Return(p) /\ UNCHANGED row
    BY <1>3 DEF Write
  <2>2. Left(p)
    BY <1>1, <1>2, <2>1, ReturnLeaves DEF a
  <2>. QED
    BY <1>1, <1>2, <2>1, <2>2, QuietStep DEF ShopTypes
<1>4. CASE ~Conflict(p)
  <2>1. row' = [row EXCEPT ![a] = [status |-> ans[p], version |-> row[a].version + 1]]
    BY <1>4 DEF Write, a
  <2>2. row[a].status \in Pending /\ ~Finished(row[a]) /\ applied[a] = "none"
    BY <1>1, <1>2, <1>4 DEF Conflict, SnapOK, RowOK, Finished, Pending, Terminal, a
  <2>3. row' \in [Attempts -> [status : {"none"} \cup Pending \cup Terminal,
                               version : Nat]]
    BY <1>1, <1>2, <2>1 DEF ShopTypes
  <2>4. Kept(p)
    BY <1>1, <1>2, <2>1, <2>2 DEF Kept, ShopTypes
  <2>5. \A b \in Attempts : RowOK(b)'
    <3>1. SUFFICES ASSUME NEW b \in Attempts PROVE RowOK(b)'
      OBVIOUS
    <3>2. RowOK(b)
      BY SplitIInv
    <3>. QED
      BY <1>1, <1>2, <2>1, <2>2, <3>2
         DEF RowOK, ShopTypes, Finished, NoRow, Pending, Terminal
  <2>6. Left(p) \/ \E label, x : Goes(p, label, x)
    <3>1. CASE Final(p, ans[p])
      <4>1. Goto(p, "settle") /\ UNCHANGED ans
        BY <1>4, <3>1 DEF Write
      <4>2. ans' = [ans EXCEPT ![p] = ans[p]]
        BY <1>1, <4>1 DEF ProcTypes
      <4>3. \A q \in Procs \ {p} : ~(pc[q] = "settle" /\ at[q] = a)
        BY <1>1, <2>2 DEF ProcsOK, ProcOK, Pending, Terminal
      <4>4. row'[a].status = ans[p]
        BY <1>1, <2>1 DEF ShopTypes
      <4>5. Goes(p, "settle", ans[p])
        BY <1>1, <1>2, <2>2, <3>1, <4>1, <4>2, <4>3, <4>4 DEF Goto, Goes, Final, a
      <4>. QED
        BY <4>5
    <3>2. CASE ~Final(p, ans[p])
      <4>1. PendingAnswer(p, ans[p])
        BY <1>4, <3>2 DEF Write
      <4>. QED
        BY <1>1, <1>2, <4>1, PendingGoes DEF a
    <3>. QED
      BY <3>1, <3>2
  <2>7. ShopTypes' /\ PaidNeedsSuccess'
    BY <1>1, <1>2, <2>3 DEF ShopTypes, PaidNeedsSuccess
  <2>. QED
    BY <2>4, <2>5, <2>6, <2>7, ProcStep
<1>. QED
  BY <1>3, <1>4

LEMMA CallStep ==
    ASSUME IInv, NEW p \in Procs, Confirm(p) \/ CancelTimedOut(p)
    PROVE  IInv'
<1>. DEFINE a == at[p]
<1>1. /\ ProcTypes /\ ShopTypes /\ ProcsOK /\ BatchOK /\ ProcOK(p) /\ PaidNeedsSuccess
      /\ a \in Attempts /\ RowOK(a) /\ pc[p] \in {"confirm", "cancel"}
      /\ row[a].status # "none"
  BY SplitIInv DEF IInv, ProcTypes, Confirm, CancelTimedOut, ProcOK
<1>2. UNCHANGED <<row, expired, fresh, pay, tx, applied, faults, overlap>>
  BY DEF Confirm, CancelTimedOut, shop, history
<1>3. \/ UNCHANGED twint
      \/ /\ twint[a] = "confirm" /\ twint' = [twint EXCEPT ![a] = "success"]
      \/ /\ twint[a] \in Pending /\ twint' = [twint EXCEPT ![a] = "failure"]
  BY <1>1 DEF Confirm, CancelTimedOut, ShopTypes
<1>4. /\ twint' \in [Attempts -> {"none"} \cup Pending \cup Terminal]
      /\ \A b \in Attempts : twint[b] \in Terminal => twint'[b] = twint[b]
      /\ \A b \in Attempts : \/ twint'[b] = twint[b]
                             \/ twint[b] \in Pending /\ twint'[b] # "none"
  BY <1>1, <1>3 DEF ShopTypes, Pending, Terminal
<1>5. Left(p) \/ \E label, x : Goes(p, label, x)
  <2>1. CASE Return(p) \/ Raise(p)
    BY <1>1, <2>1, ReturnLeaves, RaiseLeaves
  <2>2. CASE Goto(p, "cancel") /\ UNCHANGED ans
    <3>1. ans' = [ans EXCEPT ![p] = ans[p]]
      BY <1>1, <2>2 DEF ProcTypes
    <3>2. Goes(p, "cancel", ans[p])
      BY <1>1, <1>4, <2>2, <3>1 DEF Goto, Goes, ProcTypes, ProcOK
    <3>. QED
      BY <3>2
  <2>. QED
    BY <2>1, <2>2 DEF Confirm, CancelTimedOut
<1>. HIDE DEF a
<1>6. \A b \in Attempts : RowOK(b)'
  <2>1. SUFFICES ASSUME NEW b \in Attempts PROVE RowOK(b)'
    OBVIOUS
  <2>2. RowOK(b)
    BY SplitIInv
  <2>3. Finished(row[b]) => twint[b] \in Terminal
    BY <2>2 DEF RowOK, Finished
  <2>. QED
    BY <1>2, <1>4, <2>2, <2>3 DEF RowOK, Pending, Finished, Terminal
<1>7. Kept(p)
  BY <1>1, <1>2, <1>4 DEF Kept
<1>8. ShopTypes' /\ PaidNeedsSuccess'
  BY <1>1, <1>2, <1>4 DEF ShopTypes, PaidNeedsSuccess, Terminal
<1>. QED
  BY <1>5, <1>6, <1>7, <1>8, ProcStep

LEMMA SettleStep ==
    ASSUME IInv, NEW p \in Procs, Settle(p)
    PROVE  IInv'
<1>. DEFINE a == at[p]
<1>. DEFINE target == Verdict(ans[p])
<1>1. /\ ProcTypes /\ ShopTypes /\ ProcsOK /\ BatchOK /\ ProcOK(p) /\ PaidNeedsSuccess
      /\ OneSettler /\ a \in Attempts /\ RowOK(a) /\ pc[p] = "settle"
      /\ row[a].status # "none"
  BY SplitIInv DEF IInv, ProcTypes, Settle, ProcOK
<1>2. /\ UNCHANGED <<twint, row, expired, fresh, pay, faults, overlap>>
      /\ applied' = [applied EXCEPT ![a] = target]
      /\ Finished(row[a])
      /\ target \in {"paid", "cancelled"}
      /\ target = "paid" => twint[a] = "success"
      /\ tx' \in {target, tx}
  BY <1>1 DEF Settle, ProcOK, Finished, Verdict, AfterPaid, AfterCancel
<1>3. Left(p)
  BY <1>1, ReturnLeaves, RaiseLeaves DEF Settle
<1>. HIDE DEF a, target
<1>4. ShopTypes'
  BY <1>1, <1>2 DEF ShopTypes
<1>5. \A b \in Attempts : RowOK(b)'
  <2>1. SUFFICES ASSUME NEW b \in Attempts PROVE RowOK(b)'
    OBVIOUS
  <2>2. RowOK(b)
    BY SplitIInv
  <2>. QED
    BY <1>1, <1>2, <2>2 DEF RowOK, ShopTypes
<1>6. PaidNeedsSuccess'
  BY <1>1, <1>2 DEF PaidNeedsSuccess
<1>7. Kept(p)
  <2>1. \A q \in Procs \ {p} : pc[q] = "settle" => at[q] # a
    BY <1>1 DEF OneSettler, a
  <2>. QED
    BY <1>1, <1>2, <2>1 DEF Kept, ShopTypes
<1>. QED
  BY <1>3, <1>4, <1>5, <1>6, <1>7, ProcStep

LEMMA FaultStep ==
    ASSUME IInv, NEW p \in Procs, Fault(p)
    PROVE  IInv'
<1>1. ProcTypes /\ ShopTypes /\ BatchOK
  BY SplitIInv DEF IInv
<1>2. Left(p)
  BY <1>1, QuitLeaves, RaiseLeaves DEF Fault
<1>3. fresh' \in [Attempts -> BOOLEAN] /\ faults' \in 0..MaxFaults
  BY <1>1, BoundsAssumption DEF Fault, shop, ShopTypes
<1>. QED
  BY <1>2, <1>3, QuietStep DEF Fault, shop

-----------------------------------------------------------------------------
(***************************************************************************)
(* The invariant holds of every step.                                      *)
(***************************************************************************)
LEMMA Inductive == IInv /\ [Next]_vars => IInv'
<1>1. ASSUME IInv, Next PROVE IInv'
  <2>1. CASE \E a \in Attempts : PayStep(a) \/ Environment(a)
    BY <1>1, <2>1, ShopStep
  <2>2. CASE \E p \in PollProcs : Load(p) \/ (\E a \in Attempts : Spawn(p, a))
    BY <1>1, <2>2, LoadStep, SpawnStep
  <2>3. CASE CronStart
    BY <1>1, <2>3, CronStartStep
  <2>4. CASE \E p \in Procs : MonitorStep(p) \/ Fault(p)
    BY <1>1, <2>4, AskStep, WriteStep, CallStep, SettleStep, FaultStep DEF MonitorStep
  <2>. QED
    BY <1>1, <2>1, <2>2, <2>3, <2>4 DEF Next
<1>2. ASSUME IInv, UNCHANGED vars PROVE IInv'
  BY <1>2 DEF IInv, TypeOK, RowOK, SnapOK, ProcOK, BatchOK, OneSettler,
              PaidNeedsSuccess, Finished, vars, shop, procs, history
<1>. QED
  BY <1>1, <1>2

LEMMA Invariance == Spec => []IInv
BY InitIInv, Inductive, PTL DEF Spec

\* The variables keep their types, whatever the processes do.
THEOREM TypeCorrect == Spec => []TypeOK
<1>1. IInv => TypeOK
  BY DEF IInv
<1>. QED
  BY <1>1, Invariance, PTL

\* A result is applied by one process, once.
THEOREM ResultsAppliedOnce == Spec => []AppliedOnce
<1>1. IInv => AppliedOnce
  BY DEF IInv, AppliedOnce, Settlers, OneSettler, ProcOK
<1>. QED
  BY <1>1, Invariance, PTL

\* No transaction is paid without TWINT having taken the money.
THEOREM NothingPaidForNothing == Spec => []PaidNeedsSuccess
<1>1. IInv => PaidNeedsSuccess
  BY DEF IInv
<1>. QED
  BY <1>1, Invariance, PTL

\* No step writes the row of a finished attempt.
THEOREM ResultsStay == Spec => FinishedForGood
<1>1. ASSUME IInv, [Next]_vars
      PROVE  [\A a \in Attempts : Finished(row[a]) => row'[a] = row[a]]_row
  <2>0. ProcTypes /\ ShopTypes
    BY <1>1, SplitIInv
  <2>1. SUFFICES ASSUME UNCHANGED row \/ Next, NEW a \in Attempts, Finished(row[a])
                 PROVE  row'[a] = row[a]
    BY <1>1 DEF vars, shop
  <2>2. ASSUME NEW b \in Attempts, PayStep(b) \/ Environment(b)
        PROVE  row'[a] = row[a]
    BY <1>1, <2>0, <2>1, <2>2
       DEF IInv, ShopTypes, RowOK, PayStep, Environment, StartOrder, Process, CreateRow,
           ShowWaiting, CustomerConfirms, TwintFails, CustomerCancels, Expire,
           GoStale, Retry, PayAborts, shop, Finished, NoRow, Terminal
  <2>3. ASSUME NEW p \in Procs, Write(p) PROVE row'[a] = row[a]
    <3>1. at[p] \in Attempts /\ ProcOK(p) /\ SnapOK(p, at[p])
      BY <1>1, <2>0 DEF IInv, ProcTypes
    <3>2. Finished(row[at[p]]) => Conflict(p)
      BY <2>3, <3>1 DEF Write, ProcOK, SnapOK, Conflict, Finished, Pending, Terminal
    <3>. QED
      BY <2>0, <2>1, <2>3, <3>1, <3>2 DEF Write, ShopTypes
  <2>4. ASSUME NEW p \in Procs,
               \/ Ask(p) \/ Confirm(p) \/ CancelTimedOut(p) \/ Settle(p) \/ Fault(p)
        PROVE  UNCHANGED row
    BY <2>4 DEF Ask, Confirm, CancelTimedOut, Settle, Fault, shop
  <2>5. ASSUME NEW p \in PollProcs, Load(p) \/ (\E b \in Attempts : Spawn(p, b))
        PROVE  UNCHANGED row
    BY <2>5 DEF Load, Spawn, shop
  <2>6. CronStart => UNCHANGED row
    BY DEF CronStart, shop
  <2>. QED
    BY <2>1, <2>2, <2>3, <2>4, <2>5, <2>6 DEF Next, MonitorStep
<1>. QED
  BY <1>1, Invariance, PTL DEF Spec, FinishedForGood

-----------------------------------------------------------------------------
(***************************************************************************)
(* Results are lost by faults alone, and one by each.                      *)
(***************************************************************************)
Apart(p) == \A q \in Procs \ {p} : pc'[q] = pc[q] /\ at'[q] = at[q]

LEMMA LeavesApart ==
    ASSUME ProcTypes, NEW p \in Procs, Return(p) \/ Raise(p) \/ Quit(p)
    PROVE  Apart(p)
<1>1. CASE Quit(p)
  BY <1>1 DEF ProcTypes, Quit, Apart
<1>2. CASE p = Cron /\ NextOfBatch
  BY <1>2 DEF ProcTypes, NextOfBatch, Apart
<1>3. CASE pc' = [pc EXCEPT ![p] = "load"] /\ UNCHANGED at
  BY <1>3 DEF ProcTypes, Apart
<1>. QED
  BY <1>1, <1>2, <1>3 DEF Return, Raise

LEMMA MonitorApart ==
    ASSUME ProcTypes, NEW p \in Procs, MonitorStep(p) \/ Fault(p)
    PROVE  Apart(p)
<1>1. ASSUME NEW label, Goto(p, label) PROVE Apart(p)
  BY <1>1 DEF ProcTypes, Goto, Apart
<1>2. ASSUME NEW x, PendingAnswer(p, x) PROVE Apart(p)
  <2>1. Return(p) \/ Goto(p, "confirm") \/ Goto(p, "cancel")
    BY <1>2 DEF PendingAnswer
  <2>. QED
    BY <1>1, <2>1, LeavesApart
<1>3. CASE Ask(p)
  BY <1>1, <1>2, <1>3 DEF Ask
<1>4. CASE Write(p)
  BY <1>1, <1>2, <1>4, LeavesApart DEF Write
<1>5. CASE Confirm(p)
  BY <1>1, <1>5, LeavesApart DEF Confirm
<1>6. CASE CancelTimedOut(p) \/ Settle(p) \/ Fault(p)
  BY <1>6, LeavesApart DEF CancelTimedOut, Settle, Fault
<1>. QED
  BY <1>3, <1>4, <1>5, <1>6 DEF MonitorStep

\* An attempt that a process neither writes nor settles is lost only if it
\* was lost before.
LEMMA OldLoss ==
    ASSUME NEW p \in Procs, Apart(p), NEW a \in Attempts, Lost(a)',
           pc[p] = "settle" => at[p] # a,
           row'[a] = row[a], applied'[a] = applied[a]
    PROVE  Lost(a)
<1>1. Settlers(a) \subseteq Settlers(a)'
  BY DEF Settlers, Apart
<1>. QED
  BY <1>1 DEF Lost, Finished

LEMMA NoNewLoss ==
    ASSUME IInv, Next, ~(\E p \in Procs : Fault(p)), NEW a \in Attempts, Lost(a)'
    PROVE  Lost(a)
<1>0. ShopTypes /\ ProcTypes /\ \A b \in Attempts : RowOK(b)
  BY SplitIInv
<1>1. ASSUME NEW b \in Attempts, PayStep(b) \/ Environment(b) PROVE Lost(a)
  <2>1. UNCHANGED <<pc, at, applied>>
    BY <1>1 DEF PayStep, Environment, StartOrder, Process, CreateRow, ShowWaiting,
         CustomerConfirms, TwintFails, CustomerCancels, Expire, GoStale, Retry,
         PayAborts, history, shop, procs
  <2>2. row'[a] = row[a] \/ row'[a].status = "waiting"
    BY <1>0, <1>1
       DEF ShopTypes, PayStep, Environment, StartOrder, Process, CreateRow, ShowWaiting,
         CustomerConfirms, TwintFails, CustomerCancels, Expire, GoStale, Retry,
         PayAborts, history, shop, procs
  <2>. QED
    BY <2>1, <2>2 DEF Lost, Settlers, Finished, Terminal
<1>2. ASSUME NEW p \in Procs, Apart(p), pc[p] # "settle", UNCHANGED <<row, applied>>
      PROVE  Lost(a)
  BY <1>2, OldLoss
<1>3. CASE \E p \in PollProcs : Load(p) \/ (\E b \in Attempts : Spawn(p, b))
  <2>1. PICK p \in PollProcs : Load(p) \/ (\E b \in Attempts : Spawn(p, b))
    BY <1>3
  <2>2. p \in Procs
    BY DEF Procs
  <2>3. Apart(p)
    <3>1. CASE Load(p) /\ Quit(p)
      BY <1>0, <2>2, <3>1, LeavesApart
    <3>2. CASE Load(p) /\ ~Quit(p)
      BY <1>0, <2>2, <3>2 DEF Load, Apart, ProcTypes
    <3>3. CASE \E b \in Attempts : Spawn(p, b)
      BY <1>0, <2>2, <3>3 DEF Spawn, Apart, ProcTypes
    <3>. QED
      BY <2>1, <3>1, <3>2, <3>3
  <2>. QED
    BY <1>2, <2>1, <2>2, <2>3 DEF Load, Spawn, shop, history
<1>4. CASE CronStart
  <2>1. Cron \in Procs /\ Apart(Cron)
    BY <1>0, <1>4 DEF CronStart, Apart, ProcTypes, Procs
  <2>. QED
    BY <1>2, <1>4, <2>1 DEF CronStart, shop, history
<1>5. ASSUME NEW p \in Procs, MonitorStep(p) PROVE Lost(a)
  <2>1. Apart(p) /\ at[p] \in Attempts
    BY <1>0, <1>5, MonitorApart DEF ProcTypes
  <2>2. CASE Ask(p) \/ Confirm(p) \/ CancelTimedOut(p)
    BY <1>2, <2>1, <2>2 DEF Ask, Confirm, CancelTimedOut, shop, history
  <2>3. CASE Write(p)
    <3>1. CASE at[p] # a
      <4>1. row'[a] = row[a] /\ applied'[a] = applied[a] /\ pc[p] # "settle"
        BY <1>0, <2>1, <2>3, <3>1 DEF Write, ShopTypes, history
      <4>. QED
        BY <2>1, <4>1, OldLoss
    <3>2. CASE at[p] = a /\ Conflict(p)
      BY <1>2, <2>1, <2>3, <3>2 DEF Write, history
    <3>3. CASE at[p] = a /\ ~Conflict(p)
      <4>1. row'[a].status = ans[p]
        BY <1>0, <2>1, <2>3, <3>3 DEF Write, ShopTypes
      <4>2. Final(p, ans[p])
        BY <4>1 DEF Lost, Finished, Final
      <4>3. p \in Settlers(a)'
        BY <1>0, <2>3, <3>3, <4>2 DEF Write, Goto, Settlers, ProcTypes
      <4>. QED
        BY <4>3 DEF Lost
    <3>. QED
      BY <3>1, <3>2, <3>3
  <2>4. CASE Settle(p)
    <3>1. UNCHANGED row /\ applied' = [applied EXCEPT ![at[p]] = Verdict(ans[p])]
          /\ Verdict(ans[p]) # "none"
      BY <2>4 DEF Settle, Verdict
    <3>2. at[p] # a
      BY <1>0, <2>1, <3>1 DEF Lost, ShopTypes
    <3>. QED
      BY <1>0, <2>1, <3>1, <3>2, OldLoss DEF ShopTypes
  <2>. QED
    BY <1>5, <2>2, <2>3, <2>4 DEF MonitorStep
<1>. QED
  BY <1>1, <1>3, <1>4, <1>5 DEF Next

\* Only an error or the end of a process between the update of the row and
\* the transition of the order loses a result, and each loses one at most.
THEOREM LossesAreFaults == Spec => []EachLossIsAFault
<1>. DEFINE losses == {a \in Attempts : Lost(a)}
<1>1. IsFiniteSet(Attempts)
  BY BoundsAssumption, FS_Interval DEF Attempts
<1>2. IsFiniteSet(losses) /\ IsFiniteSet(losses)'
  <2>1. losses \subseteq Attempts /\ losses' \subseteq Attempts
    OBVIOUS
  <2>. QED
    BY <1>1, <2>1, FS_Subset
<1>3. Init => EachLossIsAFault
  <2>1. SUFFICES ASSUME Init PROVE Cardinality(losses) <= faults
    BY DEF EachLossIsAFault
  <2>2. losses = {}
    BY <2>1 DEF Init, Lost, Finished, NoRow, Terminal
  <2>. HIDE DEF losses
  <2>. QED
    BY <2>1, <2>2, FS_EmptySet DEF Init
<1>4. ASSUME IInv, EachLossIsAFault, [Next]_vars
      PROVE  EachLossIsAFault'
  <2>0. /\ Cardinality(losses) \in Nat /\ Cardinality(losses') \in Nat
        /\ faults \in Nat /\ Cardinality(losses) <= faults
    BY <1>2, <1>4, FS_CardinalityType, BoundsAssumption
       DEF IInv, TypeOK, EachLossIsAFault
  <2>1. SUFFICES Cardinality(losses') <= faults'
    BY DEF EachLossIsAFault
  <2>2. CASE UNCHANGED vars
    <3>1. losses' = losses /\ faults' = faults
      BY <2>2 DEF Lost, Finished, Settlers, vars, shop, procs, history
    <3>. QED
      BY <2>0, <3>1
  <2>3. CASE Next /\ ~(\E p \in Procs : Fault(p))
    <3>1. losses' \subseteq losses
      BY <1>4, <2>3, NoNewLoss
    <3>2. Cardinality(losses') <= Cardinality(losses)
      BY <1>2, <3>1, FS_Subset
    <3>3. faults <= faults'
      <4>1. ASSUME NEW a \in Attempts, PayStep(a) \/ Environment(a)
            PROVE  faults' \in {faults, faults + 1}
        BY <4>1 DEF PayStep, Environment, StartOrder, Process, CreateRow, ShowWaiting,
           CustomerConfirms, TwintFails, CustomerCancels, Expire, GoStale, Retry,
           PayAborts, history
      <4>2. ASSUME NEW p \in Procs, MonitorStep(p) PROVE faults' = faults
        BY <4>2 DEF MonitorStep, Ask, Write, Confirm, CancelTimedOut, Settle, history
      <4>3. ASSUME NEW p \in PollProcs, Load(p) \/ (\E a \in Attempts : Spawn(p, a))
            PROVE  faults' = faults
        BY <4>3 DEF Load, Spawn, history
      <4>4. CronStart => faults' = faults
        BY DEF CronStart, history
      <4>. QED
        BY <2>0, <2>3, <4>1, <4>2, <4>3, <4>4 DEF Next
    <3>4. faults' \in Nat
      BY <1>4, Inductive, BoundsAssumption DEF IInv, TypeOK
    <3>. HIDE DEF losses
    <3>. QED
      BY <2>0, <3>2, <3>3, <3>4
  <2>4. ASSUME NEW p \in Procs, Fault(p) PROVE Cardinality(losses') <= faults'
    <3>1. Apart(p) /\ UNCHANGED <<row, applied>> /\ faults' = faults + 1
      BY <1>4, <2>4, MonitorApart, SplitIInv DEF Fault, shop
    <3>2. losses' \subseteq losses \cup {at[p]}
      BY <3>1, OldLoss
    <3>. HIDE DEF losses
    <3>3. /\ IsFiniteSet(losses \cup {at[p]})
          /\ Cardinality(losses \cup {at[p]}) \in {Cardinality(losses), Cardinality(losses) + 1}
      BY <1>2, FS_AddElement
    <3>4. Cardinality(losses') <= Cardinality(losses \cup {at[p]})
      BY <3>2, <3>3, FS_Subset
    <3>. QED
      BY <2>0, <3>1, <3>3, <3>4
  <2>. QED
    BY <1>4, <2>2, <2>3, <2>4
<1>. QED
  BY <1>3, <1>4, Invariance, PTL DEF Spec
-----------------------------------------------------------------------------
(***************************************************************************)
(* One attempt after the other: while nothing goes wrong and the customer  *)
(* waits for each result to reach the order, all attempts but the last     *)
(* one are over, and the transaction tells how far that one is.            *)
(***************************************************************************)
Calm == faults = 0 /\ ~overlap

Latest(a) == pay[a] # "idle" /\ \A b \in Attempts : a < b => pay[b] = "idle"

TellsLatest(a) ==
    /\ pay[a] \in {"called", "started"} => tx = "open"
    /\ pay[a] \in {"processed", "inserted", "shown"} =>
          tx = IF applied[a] = "none" THEN "in_progress" ELSE applied[a]

Turns ==
    /\ \A a \in Attempts : pay[a] # "aborted"
    /\ \A a, b \in Attempts :
          a < b /\ pay[b] # "idle" => pay[a] = "shown" /\ applied[a] = "cancelled"
    /\ \A a \in Attempts : Latest(a) => TellsLatest(a)
    /\ \A a \in Attempts : /\ applied[a] = "paid" => twint[a] = "success"
                           /\ applied[a] = "cancelled" => twint[a] = "failure"

LEMMA TurnsInit == Init => Turns
BY AttemptsAreNaturals, BoundsAssumption DEF Init, Turns, Latest, TellsLatest, Attempts

\* What TWINT has decided stays.
LEMMA DecisionsStay ==
    ASSUME IInv, [Next]_vars, NEW a \in Attempts, twint[a] \in Terminal
    PROVE  twint'[a] = twint[a]
<1>0. ShopTypes /\ ProcTypes /\ \A b \in Attempts : RowOK(b)
  BY SplitIInv
<1>1. ASSUME NEW b \in Attempts, PayStep(b) \/ Environment(b) PROVE twint'[a] = twint[a]
  BY <1>0, <1>1 DEF ShopTypes, PayStep, Environment, StartOrder, Process, CreateRow,
       ShowWaiting, CustomerConfirms, TwintFails, CustomerCancels, Expire, GoStale,
       Retry, PayAborts, shop, RowOK, Pending, Terminal
<1>2. ASSUME NEW p \in Procs, MonitorStep(p) \/ Fault(p) PROVE twint'[a] = twint[a]
  BY <1>0, <1>2 DEF ShopTypes, ProcTypes, MonitorStep, Ask, Write, Confirm, CancelTimedOut,
       Settle, Fault, Pending, Terminal
<1>. QED
  BY <1>1, <1>2 DEF Next, Load, Spawn, CronStart, vars

\* A step that changes neither the handlers nor the transaction changes no turn.
LEMMA SameTurns ==
    ASSUME IInv, Turns, [Next]_vars, UNCHANGED <<pay, tx, applied>>
    PROVE  Turns'
<1>1. \A a \in Attempts : twint[a] \in Terminal => twint'[a] = twint[a]
  BY DecisionsStay
<1>. QED
  BY <1>1 DEF Turns, Latest, TellsLatest, Terminal

LEMMA PayTurns ==
    ASSUME IInv, Turns, Calm', NEW a \in Attempts, PayStep(a) \/ Environment(a)
    PROVE  Turns'
<1>0. ShopTypes /\ ProcTypes /\ \A b \in Attempts : RowOK(b)
  BY SplitIInv
<1>1. a \in Nat /\ \A b \in Attempts : b \in Nat
  BY AttemptsAreNaturals
<1>2. Next
  BY DEF Next
<1>3. \A b \in Attempts : twint[b] \in Terminal => twint'[b] = twint[b]
  BY <1>2, DecisionsStay
<1>4. CASE UNCHANGED <<pay, tx, applied>>
  BY <1>2, <1>4, SameTurns
<1>5. ~PayAborts(a)
  BY <1>0, BoundsAssumption DEF ShopTypes, PayAborts, Calm
<1>6. CASE StartOrder(a) \/ Process(a) \/ CreateRow(a) \/ ShowWaiting(a)
  <2>1. pay[a] \in {"called", "started", "processed", "inserted"}
    BY <1>6 DEF StartOrder, Process, CreateRow, ShowWaiting
  <2>2. Latest(a) /\ TellsLatest(a)
    BY <2>1 DEF Turns, Latest
  <2>3. pay[a] # "inserted" => applied[a] = "none"
    BY <1>0, <2>1 DEF RowOK, Finished, NoRow, Terminal
  <2>4. /\ pay' = [pay EXCEPT ![a] = pay'[a]] /\ UNCHANGED applied
        /\ pay'[a] \in {"started", "processed", "inserted", "shown"}
    <3>1. ~(Process(a) /\ pay'[a] = "aborted")
      BY <1>0, <2>2 DEF ShopTypes, TellsLatest, Process, AfterProcess
    <3>. QED
      BY <1>0, <1>6, <3>1
         DEF ShopTypes, StartOrder, Process, CreateRow, ShowWaiting, history
  <2>5. TellsLatest(a)'
    BY <1>0, <1>6, <2>2, <2>3
       DEF ShopTypes, TellsLatest, StartOrder, Process, CreateRow, ShowWaiting, history,
           AfterProcess
  <2>6. \A b \in Attempts : Latest(b)' => b = a
    <3>1. SUFFICES ASSUME NEW b \in Attempts, Latest(b)', b # a PROVE FALSE
      OBVIOUS
    <3>2. pay[b] # "idle" /\ pay'[a] # "idle"
      BY <1>0, <2>4, <3>1 DEF Latest, ShopTypes
    <3>. QED
      BY <1>1, <2>2, <3>1, <3>2 DEF Latest
  <2>7. \A b \in Attempts \ {a} : pay'[b] = pay[b]
    BY <1>0, <2>4 DEF ShopTypes
  <2>. QED
    BY <1>1, <1>3, <2>1, <2>2, <2>4, <2>5, <2>6, <2>7 DEF Turns, Latest, Terminal
<1>7. CASE Retry(a)
  <2>1. /\ a + 1 \in Attempts /\ pay[a + 1] = "idle" /\ pay[a] = "shown" /\ tx # "paid"
        /\ row[a].status = "failure" \/ tx \in {"open", "cancelled", "failed"}
        /\ Finished(row[a]) => applied[a] # "none"
        /\ tx' = "open" /\ UNCHANGED applied
        /\ pay' = [pay EXCEPT ![a + 1] = "called"]
    BY <1>0, <1>7 DEF Turns, Retry, Calm, ShopTypes
  <2>2. Latest(a)
    BY <1>1, <2>1 DEF Turns, Latest
  <2>3. applied[a] = "cancelled"
    BY <1>0, <2>1, <2>2 DEF Turns, TellsLatest, ShopTypes, Finished, Terminal
  <2>4. pay'[a + 1] = "called" /\ \A b \in Attempts \ {a + 1} : pay'[b] = pay[b]
    BY <1>0, <2>1 DEF ShopTypes
  <2>5. \A b \in Attempts : Latest(b)' => b = a + 1
    <3>1. SUFFICES ASSUME NEW b \in Attempts, Latest(b)', b # a + 1 PROVE FALSE
      OBVIOUS
    <3>2. ~(b < a + 1)
      BY <2>1, <2>4, <3>1 DEF Latest
    <3>3. a < b
      BY <1>1, <3>1, <3>2
    <3>. QED
      BY <2>2, <2>4, <3>1, <3>3 DEF Latest
  <2>6. ASSUME NEW b \in Attempts, NEW c \in Attempts, b < c, pay'[c] # "idle"
        PROVE  pay'[b] = "shown" /\ applied'[b] = "cancelled"
    <3>1. c <= a \/ c = a + 1
      BY <1>1, <2>2, <2>4, <2>6 DEF Latest
    <3>2. b <= a
      BY <1>1, <2>6, <3>1
    <3>3. b = a \/ b < a
      BY <1>1, <3>2
    <3>4. pay[b] = "shown" /\ applied[b] = "cancelled"
      BY <2>1, <2>3, <3>3 DEF Turns
    <3>. QED
      BY <1>1, <2>1, <2>4, <3>2, <3>4
  <2>. QED
    BY <1>3, <2>1, <2>4, <2>5, <2>6 DEF Turns, TellsLatest, Terminal
<1>. QED
  BY <1>4, <1>5, <1>6, <1>7 DEF PayStep, Environment, CustomerConfirms, TwintFails,
     CustomerCancels, Expire, GoStale, shop, history

\* The transaction follows the latest attempt: that is the one to settle.
LEMMA SettleTurns ==
    ASSUME IInv, Turns, NEW p \in Procs, Settle(p)
    PROVE  Turns'
<1>0. /\ ShopTypes /\ ProcTypes
      /\ \A b \in Attempts : b \in Nat /\ RowOK(b)
  BY SplitIInv, AttemptsAreNaturals DEF ProcTypes
<1>a. PICK a \in Attempts : a = at[p]
  BY <1>0 DEF ProcTypes
<1>1. /\ ans[p] \in Terminal /\ twint[a] = ans[p]
      /\ row[a].status = ans[p] /\ applied[a] = "none"
  BY <1>a DEF IInv, ProcOK, Settle
<1>2. pay[a] \in {"inserted", "shown"}
  BY <1>0, <1>1 DEF RowOK, Turns, ShopTypes, NoRow, Terminal
<1>3. Latest(a)
  BY <1>0, <1>1, <1>2 DEF Turns, Latest
<1>4. tx = "in_progress"
  BY <1>0, <1>1, <1>2, <1>3 DEF Turns, TellsLatest
<1>5. /\ tx' = Verdict(ans[p]) /\ UNCHANGED <<pay, twint>>
      /\ applied' = [applied EXCEPT ![a] = Verdict(ans[p])]
  BY <1>a, <1>1, <1>4 DEF Settle, Verdict, AfterPaid, AfterCancel
<1>6. applied'[a] = Verdict(ans[p]) /\ \A b \in Attempts \ {a} : applied'[b] = applied[b]
  BY <1>0, <1>5 DEF ShopTypes
<1>7. \A b \in Attempts : Latest(b)' => b = a
  BY <1>0, <1>3, <1>5 DEF Latest
<1>8. TellsLatest(a)'
  BY <1>2, <1>5, <1>6 DEF TellsLatest, Verdict
<1>9. \A b \in Attempts : /\ applied'[b] = "paid" => twint'[b] = "success"
                          /\ applied'[b] = "cancelled" => twint'[b] = "failure"
  BY <1>1, <1>5, <1>6 DEF Turns, Verdict, Terminal
<1>. QED
  BY <1>0, <1>1, <1>3, <1>5, <1>6, <1>7, <1>8, <1>9 DEF Turns, Latest

LEMMA TurnsNext ==
    ASSUME IInv, Calm => Turns, [Next]_vars
    PROVE  (Calm => Turns)'
<1>1. SUFFICES ASSUME Calm' PROVE Turns'
  OBVIOUS
<1>2. faults \in Nat
  BY BoundsAssumption DEF IInv, TypeOK
<1>3. ASSUME NEW a \in Attempts, PayStep(a) \/ Environment(a) PROVE Turns'
  <2>1. CASE Retry(a)
    BY <1>1, <1>3, <2>1, PayTurns DEF Calm, Retry
  <2>2. CASE PayAborts(a)
    BY <1>1, <1>2, <2>2 DEF Calm, PayAborts
  <2>3. CASE UNCHANGED <<faults, overlap>>
    BY <1>1, <1>3, <2>3, PayTurns DEF Calm
  <2>. QED
    BY <1>3, <2>1, <2>2, <2>3 DEF PayStep, Environment, StartOrder, Process, CreateRow,
       ShowWaiting, CustomerConfirms, TwintFails, CustomerCancels, Expire, GoStale, history
<1>4. ASSUME NEW p \in Procs, Settle(p) PROVE Turns'
  BY <1>1, <1>4, SettleTurns DEF Calm, Settle
<1>5. CASE UNCHANGED <<pay, tx, applied, faults, overlap>>
  BY <1>1, <1>5, SameTurns DEF Calm
<1>6. ASSUME NEW p \in Procs, Fault(p) PROVE Turns'
  BY <1>1, <1>2, <1>6 DEF Calm, Fault
<1>7. ASSUME NEW p \in Procs, MonitorStep(p), ~Settle(p)
      PROVE  UNCHANGED <<pay, tx, applied, faults, overlap>>
  BY <1>7 DEF MonitorStep, Ask, Write, Confirm, CancelTimedOut, shop, history
<1>8. ASSUME NEW p \in PollProcs, Load(p) \/ (\E a \in Attempts : Spawn(p, a))
      PROVE  UNCHANGED <<pay, tx, applied, faults, overlap>>
  BY <1>8 DEF Load, Spawn, shop, history
<1>9. CronStart \/ UNCHANGED vars => UNCHANGED <<pay, tx, applied, faults, overlap>>
  BY DEF CronStart, vars, shop, history
<1>. QED
  BY <1>3, <1>4, <1>5, <1>6, <1>7, <1>8, <1>9 DEF Next

LEMMA TurnsAlways == Spec => [](Calm => Turns)
<1>1. Init => (Calm => Turns)
  BY TurnsInit
<1>2. IInv /\ (Calm => Turns) /\ [Next]_vars => (Calm => Turns)'
  BY TurnsNext
<1>. QED
  BY <1>1, <1>2, Invariance, PTL DEF Spec

\* Without a fault, and without paying again before a result has reached the
\* order, a success that was applied is the transaction's for good.
THEOREM SuccessIsPaidAlways == Spec => []SuccessIsPaid
<1>1. IInv /\ (Calm => Turns) => SuccessIsPaid
  <2>1. SUFFICES ASSUME IInv, Turns, NEW a \in Attempts, applied[a] = "paid"
                 PROVE  tx = "paid"
    BY DEF SuccessIsPaid, Calm
  <2>2. RowOK(a) /\ Finished(row[a])
    BY <2>1 DEF IInv, RowOK
  <2>3. pay[a] \in {"inserted", "shown"}
    BY <2>1, <2>2, SplitIInv DEF RowOK, Turns, ShopTypes, Finished, NoRow, Terminal
  <2>4. Latest(a)
    BY <2>1, <2>3 DEF Turns, Latest
  <2>. QED
    BY <2>1, <2>3, <2>4 DEF Turns, TellsLatest
<1>. QED
  BY <1>1, Invariance, TurnsAlways, PTL

\* Then too the customer is charged once at most: an attempt that is followed
\* by another one has failed at TWINT.
THEOREM ChargedOnceAlways == Spec => []ChargedOnce
<1>1. IInv /\ (Calm => Turns) => ChargedOnce
  <2>1. SUFFICES ASSUME IInv, Turns, NEW a \in Attempts, NEW b \in Attempts,
                        twint[a] = "success", twint[b] = "success"
                 PROVE  a = b
    BY DEF ChargedOnce, Calm
  <2>2. pay[a] # "idle" /\ pay[b] # "idle"
    BY <2>1 DEF IInv, RowOK
  <2>3. ~(a < b) /\ ~(b < a)
    BY <2>1, <2>2 DEF Turns
  <2>. QED
    BY <2>3, AttemptsAreNaturals
<1>. QED
  BY <1>1, Invariance, TurnsAlways, PTL

-----------------------------------------------------------------------------
(***************************************************************************)
(* Every step of the checkout is one of OrderPayment, or none.             *)
(***************************************************************************)
Results == [a \in Attempts |-> ResultOf(a)]
Dues == [a \in Attempts |-> DueOf(a)]

\* Neither the end of a row, nor an applied result, nor who is about to
\* apply one changes for attempt a.
Untouched(a) ==
    /\ Finished(row[a])' = Finished(row[a])
    /\ applied'[a] = applied[a]
    /\ Settlers(a)' = Settlers(a)

LEMMA SameDue ==
    ASSUME NEW a \in Attempts, Untouched(a)
    PROVE  DueOf(a)' = DueOf(a)
BY DEF Untouched, DueOf, Lost

LEMMA SameDues ==
    ASSUME \A a \in Attempts : Untouched(a)
    PROVE  UNCHANGED Dues
BY SameDue DEF Dues

\* A process that does not come from Settle, and does not go there.
LEMMA QuietUntouched ==
    ASSUME NEW p \in Procs, Apart(p), pc[p] # "settle", pc'[p] # "settle",
           UNCHANGED applied, NEW a \in Attempts, Finished(row[a])' = Finished(row[a])
    PROVE  Untouched(a)
<1>1. Settlers(a)' = Settlers(a)
  BY DEF Settlers, Apart
<1>. QED
  BY <1>1 DEF Untouched

\* TWINT begins with an attempt, decides on it, or does neither.
LEMMA TwintImplements ==
    ASSUME UNCHANGED <<Dues, tx>>, NEW a \in Attempts,
           twint \in [Attempts -> {"none"} \cup Pending \cup Terminal],
           NEW x, twint' = [twint EXCEPT ![a] = x],
           \/ twint[a] = "none" /\ x = "waiting"
           \/ twint[a] \in Pending /\ x \in Pending \cup Terminal
    PROVE  Promise!Begin(a) \/ Promise!Decide(a) \/ UNCHANGED <<Results, Dues, tx>>
<1>1. Results' = [Results EXCEPT ![a] = IF x \in Pending THEN "pending" ELSE x]
  BY DEF Results, ResultOf
<1>2. Results[a] = IF twint[a] \in Pending THEN "pending" ELSE twint[a]
  BY DEF Results, ResultOf
<1>3. CASE twint[a] = "none" /\ x = "waiting"
  BY <1>1, <1>2, <1>3
     DEF Promise!Begin, Results, Dues, Pending
<1>4. CASE twint[a] \in Pending /\ x \in Terminal
  <2>1. x \in Promise!Decisions /\ x \notin Pending
    BY <1>4 DEF Promise!Decisions, Terminal, Pending
  <2>. QED
    BY <1>1, <1>2, <1>4, <2>1 DEF Promise!Decide, Results, Dues
<1>5. CASE twint[a] \in Pending /\ x \in Pending
  <2>1. Results' = Results
    BY <1>5 DEF Results, ResultOf
  <2>. QED
    BY <2>1
<1>. QED
  BY <1>3, <1>4, <1>5

LEMMA ShopImplements ==
    ASSUME IInv, NEW a \in Attempts, PayStep(a) \/ Environment(a)
    PROVE  Promise!Next \/ UNCHANGED <<Results, Dues, tx>>
<1>0. ShopTypes /\ ProcTypes /\ \A b \in Attempts : RowOK(b)
  BY SplitIInv
<1>1. UNCHANGED <<pc, at, applied>>
  BY DEF PayStep, Environment, StartOrder, Process, CreateRow, ShowWaiting,
         CustomerConfirms, TwintFails, CustomerCancels, Expire, GoStale, Retry,
         PayAborts, history, shop, procs
<1>2. ASSUME NEW b \in Attempts PROVE Finished(row[b])' = Finished(row[b])
  <2>1. row'[b] = row[b] \/ (row[b] = NoRow /\ row'[b].status = "waiting")
    BY <1>0 DEF ShopTypes, RowOK, PayStep, Environment, StartOrder, Process, CreateRow,
         ShowWaiting, CustomerConfirms, TwintFails, CustomerCancels, Expire, GoStale,
         Retry, PayAborts, shop
  <2>. QED
    BY <2>1 DEF Finished, NoRow, Terminal
<1>3. UNCHANGED Dues
  BY <1>1, <1>2, SameDues DEF Untouched, Settlers
<1>4. CASE StartOrder(a) \/ CustomerConfirms(a) \/ TwintFails(a) \/ CustomerCancels(a)
  <2>1. PICK x : /\ twint' = [twint EXCEPT ![a] = x]
                 /\ \/ twint[a] = "none" /\ x = "waiting"
                    \/ twint[a] \in Pending /\ x \in Pending \cup Terminal
    BY <1>0, <1>4 DEF StartOrder, CustomerConfirms, TwintFails, CustomerCancels, RowOK,
                      Pending, Terminal
  <2>2. UNCHANGED tx
    BY <1>4 DEF StartOrder, CustomerConfirms, TwintFails, CustomerCancels, shop
  <2>. QED
    BY <1>0, <1>3, <2>1, <2>2, TwintImplements DEF ShopTypes, Promise!Next
<1>5. ASSUME UNCHANGED twint, tx' \in {"open", "in_progress", "failed", tx}
      PROVE  Promise!Next \/ UNCHANGED <<Results, Dues, tx>>
  <2>1. UNCHANGED Results
    BY <1>5 DEF Results, ResultOf
  <2>. QED
    BY <1>3, <1>5, <2>1 DEF Promise!Next, Promise!Shop, Results, Dues
<1>6. ~(StartOrder(a) \/ CustomerConfirms(a) \/ TwintFails(a) \/ CustomerCancels(a))
      => UNCHANGED twint /\ tx' \in {"open", "in_progress", "failed", tx}
  BY DEF PayStep, Environment, Process, CreateRow, ShowWaiting, Expire, GoStale, Retry,
         PayAborts, AfterFail
<1>. QED
  BY <1>4, <1>5, <1>6

\* A process that is not concerned with a result.
LEMMA QuietImplements ==
    ASSUME NEW p \in Procs, Apart(p), pc[p] # "settle", pc'[p] # "settle",
           UNCHANGED <<twint, tx, applied>>,
           \A a \in Attempts : Finished(row[a])' = Finished(row[a])
    PROVE  UNCHANGED <<Results, Dues, tx>>
<1>1. UNCHANGED Dues
  BY QuietUntouched, SameDues
<1>2. UNCHANGED Results
  BY DEF Results, ResultOf
<1>. QED
  BY <1>1, <1>2

\* Where a process goes that is through with a row, or goes on after a
\* pending answer, is never Settle.
LEMMA AwayFromSettle ==
    ASSUME ProcTypes, BatchOK, NEW p \in Procs,
           \/ Return(p) /\ row[at[p]].status # "none"
           \/ Raise(p)
           \/ Quit(p)
           \/ \E x : PendingAnswer(p, x) /\ row[at[p]].status # "none"
           \/ \E label : Goto(p, label) /\ label # "settle"
    PROVE  pc'[p] # "settle"
<1>1. Left(p) => pc'[p] # "settle"
  BY DEF Left
<1>2. ASSUME NEW label, Goto(p, label), label # "settle" PROVE pc'[p] # "settle"
  BY <1>2 DEF Goto, ProcTypes
<1>3. CASE \E x : PendingAnswer(p, x) /\ row[at[p]].status # "none"
  <2>1. Return(p) \/ Goto(p, "confirm") \/ Goto(p, "cancel")
    BY <1>3 DEF PendingAnswer
  <2>. QED
    BY <1>1, <1>2, <1>3, <2>1, ReturnLeaves
<1>. QED
  BY <1>1, <1>2, <1>3, ReturnLeaves, RaiseLeaves, QuitLeaves

LEMMA WriteImplements ==
    ASSUME IInv, NEW p \in Procs, Write(p)
    PROVE  Promise!Next \/ UNCHANGED <<Results, Dues, tx>>
<1>0. PICK a \in Attempts : a = at[p]
  BY SplitIInv DEF ProcTypes
<1>1. /\ ProcTypes /\ ShopTypes /\ ProcsOK /\ BatchOK /\ ProcOK(p)
      /\ a \in Attempts /\ RowOK(a) /\ SnapOK(p, a) /\ pc[p] = "write"
      /\ row[a].status # "none" /\ Apart(p)
      /\ UNCHANGED <<twint, tx, applied>>
  BY <1>0, SplitIInv, MonitorApart DEF IInv, Write, ProcOK, MonitorStep, history
<1>2. CASE Conflict(p)
  <2>1. pc'[p] # "settle" /\ UNCHANGED row
    BY <1>0, <1>1, <1>2, AwayFromSettle DEF Write
  <2>. QED
    BY <1>1, <2>1, QuietImplements DEF Finished
<1>3. CASE ~Conflict(p)
  <2>1. /\ row[a].status \in Pending /\ ~Finished(row[a]) /\ applied[a] = "none"
        /\ Settlers(a) = {}
    BY <1>0, <1>1, <1>3 DEF Conflict, ProcOK, SnapOK, RowOK, Finished, Pending, Terminal,
                      Settlers, ProcsOK
  <2>2. /\ row'[a].status = ans[p]
        /\ \A b \in Attempts \ {a} : row'[b] = row[b]
    BY <1>0, <1>1, <1>3 DEF Write, ShopTypes
  <2>3. CASE ~Final(p, ans[p])
    <3>1. pc'[p] # "settle"
      BY <1>0, <1>1, <1>3, <2>3, AwayFromSettle DEF Write
    <3>2. \A b \in Attempts : Finished(row[b])' = Finished(row[b])
      BY <2>1, <2>2, <2>3 DEF Finished, Final
    <3>. QED
      BY <1>1, <3>1, <3>2, QuietImplements
  <2>4. CASE Final(p, ans[p])
    <3>1. pc'[p] = "settle" /\ at' = at
      BY <1>1, <1>3, <2>4 DEF Write, Goto, ProcTypes
    <3>2. Settlers(a)' # {} /\ \A b \in Attempts \ {a} : Settlers(b)' = Settlers(b)
      BY <1>0, <1>1, <3>1 DEF Settlers, Apart
    <3>3. DueOf(a) = "no" /\ DueOf(a)' = "owed"
      BY <1>1, <2>1, <3>2 DEF DueOf, Lost
    <3>4. \A b \in Attempts \ {a} : DueOf(b)' = DueOf(b)
      BY <1>1, <2>2, <3>2, SameDue DEF Untouched, Finished
    <3>5. Dues' = [Dues EXCEPT ![a] = "owed"] /\ Dues[a] = "no"
      BY <1>1, <3>3, <3>4 DEF Dues
    <3>6. UNCHANGED Results /\ Results[a] \in Promise!Decisions
      BY <1>0, <1>1, <2>4 DEF Results, ResultOf, ProcOK, Final, Promise!Decisions, Terminal, Pending
    <3>7. Promise!Learn(a)
      BY <1>1, <3>5, <3>6 DEF Promise!Learn, Results, Dues
    <3>. QED
      BY <1>1, <3>7 DEF Promise!Next
  <2>. QED
    BY <2>3, <2>4
<1>. QED
  BY <1>2, <1>3

LEMMA CallImplements ==
    ASSUME IInv, NEW p \in Procs, Confirm(p) \/ CancelTimedOut(p)
    PROVE  Promise!Next \/ UNCHANGED <<Results, Dues, tx>>
<1>. DEFINE a == at[p]
<1>1. /\ ProcTypes /\ ShopTypes /\ BatchOK /\ ProcOK(p) /\ a \in Attempts
      /\ pc[p] \in {"confirm", "cancel"} /\ row[a].status # "none" /\ Apart(p)
      /\ UNCHANGED <<row, tx, applied>>
  BY SplitIInv, MonitorApart
     DEF IInv, ProcTypes, Confirm, CancelTimedOut, ProcOK, MonitorStep, shop, history
<1>2. pc'[p] # "settle"
  BY <1>1, AwayFromSettle DEF Confirm, CancelTimedOut
<1>3. UNCHANGED Dues
  BY <1>1, <1>2, QuietUntouched, SameDues DEF Finished
<1>4. \/ UNCHANGED twint
      \/ /\ twint[a] \in Pending
         /\ \E x \in Terminal : twint' = [twint EXCEPT ![a] = x]
  BY <1>1 DEF Confirm, CancelTimedOut, ShopTypes, Pending, Terminal
<1>5. CASE UNCHANGED twint
  <2>1. UNCHANGED Results
    BY <1>5 DEF Results, ResultOf
  <2>. QED
    BY <1>1, <1>3, <2>1
<1>6. ASSUME twint[a] \in Pending, NEW x \in Terminal, twint' = [twint EXCEPT ![a] = x]
      PROVE  Promise!Next \/ UNCHANGED <<Results, Dues, tx>>
  BY <1>1, <1>3, <1>6, TwintImplements DEF ShopTypes, Promise!Next
<1>. QED
  BY <1>4, <1>5, <1>6

\* A process leaves Settle, with nothing done to other attempts: its attempt
\* was owed, and is on its own.
LEMMA HolderLeaves ==
    ASSUME IInv, NEW p \in Procs, pc[p] = "settle", Apart(p), pc'[p] # "settle",
           UNCHANGED <<twint, row>>, NEW a \in Attempts, a = at[p],
           \A b \in Attempts \ {a} : applied'[b] = applied[b]
    PROVE  /\ Finished(row[a]) /\ applied[a] = "none" /\ ans[p] = twint[a]
           /\ Settlers(a)' = {}
           /\ Dues[a] = "owed"
           /\ Results[a] = ans[p] /\ UNCHANGED Results
           /\ \A b \in Attempts \ {a} : DueOf(b)' = DueOf(b)
<1>1. /\ ProcTypes /\ ShopTypes /\ ProcOK(p) /\ OneSettler
      /\ Finished(row[a]) /\ applied[a] = "none"
      /\ ans[p] = twint[a] /\ ans[p] \in Terminal
  BY SplitIInv DEF IInv, ProcOK, Finished
<1>2. /\ p \in Settlers(a) /\ Settlers(a)' = {}
      /\ \A b \in Attempts \ {a} : Settlers(b)' = Settlers(b)
  BY <1>1 DEF Settlers, Apart, OneSettler
<1>3. \A b \in Attempts \ {a} : DueOf(b)' = DueOf(b)
  BY <1>2, SameDue DEF Untouched, Finished
<1>4. DueOf(a) = "owed"
  BY <1>1, <1>2 DEF DueOf, Lost
<1>5. Results[a] = ans[p] /\ UNCHANGED Results
  BY <1>1 DEF Results, ResultOf, Pending, Terminal
<1>. QED
  BY <1>1, <1>2, <1>3, <1>4, <1>5 DEF Dues

LEMMA SettleImplements ==
    ASSUME IInv, NEW p \in Procs, Settle(p)
    PROVE  Promise!Next
<1>0. PICK a \in Attempts : a = at[p]
  BY SplitIInv DEF ProcTypes
<1>1. /\ ProcTypes /\ ShopTypes /\ BatchOK /\ Apart(p)
      /\ pc[p] = "settle" /\ row[at[p]].status # "none"
  BY SplitIInv, MonitorApart DEF IInv, MonitorStep, Settle, ProcOK
<1>2. pc'[p] # "settle"
  BY <1>1, AwayFromSettle DEF Settle
<1>3. /\ applied' = [applied EXCEPT ![a] = Verdict(ans[p])]
      /\ tx' \in {Verdict(ans[p]), tx}
      /\ UNCHANGED <<twint, row>>
  BY <1>0 DEF Settle, Verdict, AfterPaid, AfterCancel
<1>4. \A b \in Attempts \ {a} : applied'[b] = applied[b]
  BY <1>1, <1>3 DEF ShopTypes
<1>5. /\ Dues[a] = "owed" /\ Results[a] = ans[p] /\ UNCHANGED Results
      /\ \A b \in Attempts \ {a} : DueOf(b)' = DueOf(b)
  BY <1>0, <1>1, <1>2, <1>3, <1>4, HolderLeaves
<1>6. DueOf(a)' = "applied"
  <2>1. applied'[a] \in {"paid", "cancelled"}
    BY <1>1, <1>3 DEF ShopTypes, Verdict
  <2>. QED
    BY <2>1 DEF DueOf, Lost
<1>7. Dues' = [Dues EXCEPT ![a] = "applied"]
  BY <1>5, <1>6 DEF Dues
<1>8. Promise!Apply(a)
  BY <1>3, <1>5, <1>7 DEF Promise!Apply, Dues, Results, Verdict
<1>. QED
  BY <1>8 DEF Promise!Next

LEMMA FaultImplements ==
    ASSUME IInv, NEW p \in Procs, Fault(p), pc[p] = "settle"
    PROVE  Promise!Next
<1>0. PICK a \in Attempts : a = at[p]
  BY SplitIInv DEF ProcTypes
<1>1. ProcTypes /\ BatchOK /\ Apart(p) /\ UNCHANGED <<twint, row, tx, applied>>
  BY SplitIInv, MonitorApart DEF IInv, Fault, shop
<1>2. pc'[p] # "settle"
  BY <1>1, AwayFromSettle DEF Fault
<1>3. /\ Finished(row[a]) /\ applied[a] = "none" /\ Settlers(a)' = {}
      /\ Dues[a] = "owed" /\ UNCHANGED Results
      /\ \A b \in Attempts \ {a} : DueOf(b)' = DueOf(b)
  BY <1>0, <1>1, <1>2, HolderLeaves
<1>4. DueOf(a)' = "lost"
  BY <1>1, <1>3 DEF DueOf, Lost, Finished
<1>5. Dues' = [Dues EXCEPT ![a] = "lost"]
  BY <1>3, <1>4 DEF Dues
<1>6. Promise!Lose(a)
  BY <1>1, <1>3, <1>5 DEF Promise!Lose, Dues, Results
<1>. QED
  BY <1>6 DEF Promise!Next

LEMMA MonitorImplements ==
    ASSUME IInv, NEW p \in Procs, MonitorStep(p) \/ Fault(p)
    PROVE  Promise!Next \/ UNCHANGED <<Results, Dues, tx>>
<1>1. /\ ProcTypes /\ ShopTypes /\ BatchOK /\ ProcOK(p) /\ Apart(p) /\ at[p] \in Attempts
  BY SplitIInv, MonitorApart DEF IInv, ProcTypes
<1>2. CASE Ask(p)
  <2>1. pc[p] = "ask" /\ row[at[p]].status # "none"
    BY <1>1, <1>2 DEF Ask, ProcOK
  <2>2. pc'[p] # "settle"
    <3>1. Goto(p, "write") \/ PendingAnswer(p, twint[at[p]])
      BY <1>2 DEF Ask
    <3>. QED
      BY <1>1, <2>1, <3>1, AwayFromSettle
  <2>. QED
    BY <1>1, <1>2, <2>1, <2>2, QuietImplements DEF Ask, shop, history, Finished
<1>3. CASE Settle(p)
  BY <1>3, SettleImplements
<1>4. CASE Fault(p)
  <2>1. pc'[p] # "settle" /\ UNCHANGED <<twint, row, tx, applied>>
    BY <1>1, <1>4, AwayFromSettle DEF Fault, shop
  <2>. QED
    BY <1>1, <1>4, <2>1, QuietImplements, FaultImplements DEF Finished
<1>. QED
  BY <1>2, <1>3, <1>4, WriteImplements, CallImplements DEF MonitorStep

LEMMA StartImplements ==
    ASSUME IInv,
           \/ CronStart
           \/ \E p \in PollProcs : Load(p) \/ (\E a \in Attempts : Spawn(p, a))
    PROVE  UNCHANGED <<Results, Dues, tx>>
<1>0. ShopTypes /\ ProcTypes /\ BatchOK
  BY SplitIInv DEF IInv
<1>1. PICK p \in Procs :
         \/ p = Cron /\ CronStart
         \/ p \in PollProcs /\ (Load(p) \/ \E a \in Attempts : Spawn(p, a))
  BY DEF Procs
<1>2. UNCHANGED <<twint, row, tx, applied>>
  BY <1>1 DEF CronStart, Load, Spawn, shop, history
<1>3. Apart(p) /\ pc[p] # "settle" /\ pc'[p] # "settle"
  <2>1. CASE Load(p) /\ Quit(p)
    BY <1>0, <2>1, LeavesApart, AwayFromSettle DEF Load
  <2>2. CASE Load(p) /\ ~Quit(p)
    BY <1>0, <2>2 DEF Load, Apart, ProcTypes
  <2>3. CASE CronStart /\ p = Cron
    BY <1>0, <2>3 DEF CronStart, Apart, ProcTypes
  <2>4. CASE \E a \in Attempts : Spawn(p, a)
    BY <1>0, <2>4 DEF Spawn, Apart, ProcTypes
  <2>. QED
    BY <1>1, <2>1, <2>2, <2>3, <2>4
<1>. QED
  BY <1>2, <1>3, QuietImplements DEF Finished

(***************************************************************************)
(* Rows, versions, processes, crashes and all: the checkout does to the    *)
(* payment of the order what OrderPayment promises, and nothing else.      *)
(***************************************************************************)
THEOREM CheckoutImplementsPromise == Spec => ImplementsOrderPayment
<1>1. Init => Promise!Init
  BY DEF Init, Promise!Init, ResultOf, DueOf, Lost, Settlers, Finished, NoRow, Pending,
         Terminal
<1>2. IInv /\ [Next]_vars => [Promise!Next]_Promise!pvars
  <2> SUFFICES ASSUME IInv, [Next]_vars PROVE [Promise!Next]_Promise!pvars
    OBVIOUS
  <2>1. UNCHANGED <<Results, Dues, tx>> => UNCHANGED Promise!pvars
    BY DEF Promise!pvars, Results, Dues
  <2>2. CASE UNCHANGED vars
    <3>1. UNCHANGED <<Results, tx>>
      BY <2>2 DEF vars, shop, Results, ResultOf
    <3>2. UNCHANGED Dues
      BY <2>2, SameDues DEF vars, shop, procs, history, Untouched, Finished, Settlers
    <3>. QED
      BY <2>1, <3>1, <3>2
  <2>3. CASE Next
    BY <2>1, <2>3, ShopImplements, MonitorImplements, StartImplements DEF Next
  <2>. QED
    BY <2>2, <2>3
<1>. QED
  BY <1>1, <1>2, Invariance, PTL DEF Spec, ImplementsOrderPayment, Promise!Spec
=============================================================================
