--------------------------- MODULE RegularCheckout ---------------------------
(***************************************************************************)
(* Regular TWINT checkout of ONE Shopware order.                           *)
(*                                                                         *)
(* The customer pays (the payment handler's pay()), TWINT answers with an  *)
(* order that is stored as a row of twint_pairing, and monitoring          *)
(* processes copy TWINT's verdict to the row and from there to the order's *)
(* payment transaction: `twint:poll` commands, started by the waiting page *)
(* of the browser, and the scheduled task, which goes through every row    *)
(* still in progress.  Several of them work on one row at once; the only   *)
(* thing between them is the row's version, compared by a database         *)
(* trigger.  A payment that fails is paid for again: every attempt is a    *)
(* TWINT order and a row of its own, for the same payment transaction.     *)
(*                                                                         *)
(* A database statement, an API call and a state-machine transition are    *)
(* one step each; a process may stop for good between any two of them.     *)
(***************************************************************************)
EXTENDS Naturals, FiniteSets

CONSTANTS
    PollProcs,    \* `twint:poll` processes that may be alive at once
    Cron,         \* the worker that runs the scheduled task
    MaxAttempts,  \* how often the customer pays for the order
    MaxFaults     \* bound on crashes and on API or database errors

ASSUME CronAssumption == Cron \notin PollProcs
ASSUME BoundsAssumption == MaxAttempts \in Nat \ {0} /\ MaxFaults \in Nat

VARIABLES
    twint,    \* TWINT's order of an attempt, and what TWINT knows of it
    row,      \* its row of twint_pairing
    expired,  \* its created_ago is past the timeout of 180 seconds
    fresh,    \* its checked_at is less than 10 seconds ago
    pay,      \* how far the payment handler is with an attempt
    tx,       \* state of the order's payment transaction
    pc,       \* what a monitoring process does next
    at,       \* the attempt whose row it works on
    snap,     \* the rows as it read them
    ans,      \* the answer of monitorOrder it works with
    batch,    \* attempts the scheduled task has still to go through
    applied,  \* history: what became of an attempt's final result
    faults,   \* crashes and errors so far
    overlap   \* history: the customer paid again before the result of an
              \* earlier attempt had reached the order

shop == <<row, expired, fresh, pay, tx>>
procs == <<pc, at, snap, ans, batch>>
history == <<applied, faults, overlap>>
vars == <<twint, shop, procs, history>>

Attempts == 1..MaxAttempts
Procs == PollProcs \cup {Cron}

Pending == {"waiting", "confirm"}
Terminal == {"success", "failure"}

\* No row, or no copy of it.
NoRow == [status |-> "none", version |-> 0]
NoSnap == [status |-> "none", version |-> 0, expired |-> FALSE]

\* PairingEntity::isFinished for a regular pairing.
Finished(r) == r.status \in Terminal

\* The row as the view twint_pairing_view gives it to a reader.
SnapOf(a) == [status |-> row[a].status, version |-> row[a].version,
              expired |-> expired[a]]

\* PairingRepository::loadInProcessPairings.
InProcess_AllRows == {a \in Attempts : row[a].status # "none"}
InProcess_NotConfirming == {a \in Attempts : row[a].status = "waiting"}
InProcess == {a \in Attempts : row[a].status \in Pending}

First(S) == CHOOSE a \in S : \A b \in S : a <= b

-----------------------------------------------------------------------------
(***************************************************************************)
(* Shopware's order-transaction state machine, as the plugin uses it.  A   *)
(* transition that Shopware may refuse from the present state ends in one  *)
(* of two ways: the new state, or the old one and an exception.            *)
(***************************************************************************)
AfterProcess(s) ==
    IF s \in {"open", "in_progress"} THEN {"in_progress"} ELSE {"in_progress", s}
AfterPaid(s) ==
    IF s \in {"open", "in_progress", "paid"} THEN {"paid"} ELSE {"paid", s}
AfterCancel(s) ==
    IF s \in {"open", "in_progress", "cancelled"} THEN {"cancelled"}
                                                  ELSE {"cancelled", s}
AfterFail(s) ==
    IF s \in {"open", "in_progress"} THEN {"failed"} ELSE {"failed", s}

-----------------------------------------------------------------------------
Init ==
    /\ twint = [a \in Attempts |-> "none"]
    /\ row = [a \in Attempts |-> NoRow]
    /\ expired = [a \in Attempts |-> FALSE]
    /\ fresh = [a \in Attempts |-> FALSE]
    /\ pay = [a \in Attempts |-> IF a = 1 THEN "called" ELSE "idle"]
    /\ tx = "open"
    /\ pc = [p \in Procs |-> "idle"]
    /\ at = [p \in Procs |-> 1]
    /\ snap = [p \in Procs |-> [a \in Attempts |-> NoSnap]]
    /\ ans = [p \in Procs |-> "none"]
    /\ batch = {}
    /\ applied = [a \in Attempts |-> "none"]
    /\ faults = 0
    /\ overlap = FALSE

-----------------------------------------------------------------------------
(***************************************************************************)
(* pay(): startOrder at TWINT, process() on the transaction, insert of the *)
(* row, and, after created_at is set, the redirect to the waiting page.    *)
(***************************************************************************)
StartOrder(a) ==
    /\ pay[a] = "called"
    /\ twint' = [twint EXCEPT ![a] = "waiting"]
    /\ pay' = [pay EXCEPT ![a] = "started"]
    /\ UNCHANGED <<row, expired, fresh, tx, procs, history>>

\* An exception makes pay() throw asyncProcessInterrupted; Shopware then
\* marks the transaction as failed.
Process(a) ==
    /\ pay[a] = "started"
    /\ \/ /\ \E s \in AfterProcess(tx) : s = "in_progress" /\ tx' = s
          /\ pay' = [pay EXCEPT ![a] = "processed"]
       \/ /\ \E s \in AfterProcess(tx) : s # "in_progress"
          /\ tx' \in AfterFail(tx)
          /\ pay' = [pay EXCEPT ![a] = "aborted"]
    /\ UNCHANGED <<twint, row, expired, fresh, procs, history>>

CreateRow(a) ==
    /\ pay[a] = "processed"
    /\ row' = [row EXCEPT ![a] = [status |-> "waiting", version |-> 1]]
    /\ pay' = [pay EXCEPT ![a] = "inserted"]
    /\ UNCHANGED <<twint, expired, fresh, tx, procs, history>>

ShowWaiting(a) ==
    /\ pay[a] = "inserted"
    /\ expired' = [expired EXCEPT ![a] = FALSE]
    /\ pay' = [pay EXCEPT ![a] = "shown"]
    /\ UNCHANGED <<twint, row, fresh, tx, procs, history>>

\* An error inside pay(), or the end of the web worker that runs it.
PayAborts(a) ==
    /\ pay[a] \in {"called", "started", "processed", "inserted"}
    /\ faults < MaxFaults
    /\ faults' = faults + 1
    /\ tx' = tx \/ tx' \in AfterFail(tx)
    /\ pay' = [pay EXCEPT ![a] = "aborted"]
    /\ UNCHANGED <<twint, row, expired, fresh, procs, applied, overlap>>

\* The edit-order page: PaymentController::showWaiting sends the customer
\* there once the row says FAILURE, Shopware once pay() has thrown, and the
\* account offers it for a transaction that is neither paid nor in progress.
\* Paying again reopens the transaction.
Retry(a) ==
    /\ a + 1 \in Attempts
    /\ pay[a + 1] = "idle"
    /\ \/ pay[a] = "aborted"
       \/ /\ pay[a] = "shown"
          /\ row[a].status = "failure" \/ tx \in {"open", "cancelled", "failed"}
    /\ tx # "paid"
    /\ tx' = "open"
    /\ pay' = [pay EXCEPT ![a + 1] = "called"]
    /\ overlap' = (overlap \/ \E b \in Attempts :
                                 Finished(row[b]) /\ applied[b] = "none")
    /\ UNCHANGED <<twint, row, expired, fresh, procs, applied, faults>>

-----------------------------------------------------------------------------
(***************************************************************************)
(* TWINT, the customer and the clock.                                      *)
(***************************************************************************)
CustomerConfirms(a) ==
    /\ pay[a] = "shown"
    /\ twint[a] = "waiting"
    /\ twint' = [twint EXCEPT ![a] = "confirm"]
    /\ UNCHANGED <<shop, procs, history>>

\* Declined in the app, or given up by TWINT itself.
TwintFails(a) ==
    /\ twint[a] \in Pending
    /\ twint' = [twint EXCEPT ![a] = "failure"]
    /\ UNCHANGED <<shop, procs, history>>

\* CheckoutController::cancel (it takes both kinds of pairing, though only the
\* express modal calls it): it ends the order at TWINT and leaves the row to
\* the monitoring processes.
CustomerCancels(a) ==
    /\ pay[a] = "shown"
    /\ twint[a] \in Pending
    /\ twint' = [twint EXCEPT ![a] = "failure"]
    /\ UNCHANGED <<shop, procs, history>>

Expire(a) ==
    /\ row[a] # NoRow
    /\ ~expired[a]
    /\ expired' = [expired EXCEPT ![a] = TRUE]
    /\ UNCHANGED <<twint, row, fresh, pay, tx, procs, history>>

GoStale(a) ==
    /\ fresh[a]
    /\ fresh' = [fresh EXCEPT ![a] = FALSE]
    /\ UNCHANGED <<twint, row, expired, pay, tx, procs, history>>

-----------------------------------------------------------------------------
(***************************************************************************)
(* Where a monitoring process goes after monitor() has returned (Return)   *)
(* or thrown (Raise).  A poll command loads the row again after the one    *)
(* and ends with the other; the scheduled task goes on with the next row   *)
(* of its batch in both cases.                                             *)
(***************************************************************************)
NextOfBatch ==
    LET rest == batch \ {at[Cron]}
    IN  /\ batch' = rest
        /\ IF rest = {}
           THEN pc' = [pc EXCEPT ![Cron] = "idle"] /\ at' = [at EXCEPT ![Cron] = 1]
           ELSE pc' = [pc EXCEPT ![Cron] = "ask"] /\ at' = [at EXCEPT ![Cron] = First(rest)]

Forget(p) ==
    /\ snap' = [snap EXCEPT ![p][at[p]] = NoSnap]
    /\ ans' = [ans EXCEPT ![p] = "none"]

Return(p) ==
    /\ Forget(p)
    /\ IF p = Cron THEN NextOfBatch
                   ELSE pc' = [pc EXCEPT ![p] = "load"] /\ UNCHANGED <<at, batch>>

Quit(p) ==
    /\ pc' = [pc EXCEPT ![p] = "idle"]
    /\ at' = [at EXCEPT ![p] = 1]
    /\ snap' = [snap EXCEPT ![p] = [a \in Attempts |-> NoSnap]]
    /\ ans' = [ans EXCEPT ![p] = "none"]
    /\ batch' = IF p = Cron THEN {} ELSE batch

Raise(p) == IF p = Cron THEN Forget(p) /\ NextOfBatch ELSE Quit(p)

Goto(p, label) == pc' = [pc EXCEPT ![p] = label] /\ UNCHANGED <<at, snap, batch>>

\* monitor() from the test of isPending() on, for an answer that is pending.
PendingAnswer(p, answer) ==
    CASE answer = "confirm" -> Goto(p, "confirm") /\ ans' = [ans EXCEPT ![p] = answer]
      [] answer # "confirm" /\ snap[p][at[p]].expired ->
            Goto(p, "cancel") /\ ans' = [ans EXCEPT ![p] = answer]
      [] OTHER -> Return(p)

\* The trigger before_update_twint_pairing refuses to update a row whose
\* version is not the one the writer has read.
Conflict_Unchecked(p) == FALSE
Conflict(p) == snap[p][at[p]].version # row[at[p]].version

\* The test of isPending() in monitor(), negated.
Final_ConfirmingIsFinal(p, answer) == answer # "waiting"
Final_TimeoutFirst(p, answer) == answer \in Terminal /\ ~snap[p][at[p]].expired
Final(p, answer) == answer \in Terminal

\* The transition that stands for a final answer.
Verdict_AlwaysPaid(answer) == "paid"
Verdict(answer) == IF answer = "success" THEN "paid" ELSE "cancelled"

-----------------------------------------------------------------------------
(***************************************************************************)
(* The monitoring processes.                                               *)
(***************************************************************************)

\* CheckoutController::monitor, asked by the waiting page: start a command
\* unless the row is finished or was checked within the last 10 seconds.
Spawn(p, a) ==
    /\ pc[p] = "idle"
    /\ pay[a] = "shown"
    /\ ~Finished(row[a])
    /\ ~fresh[a]
    /\ pc' = [pc EXCEPT ![p] = "load"]
    /\ at' = [at EXCEPT ![p] = a]
    /\ UNCHANGED <<twint, shop, snap, ans, batch, history>>

\* TwintPollCommand::execute: load the row, and unless it is finished note
\* the check and monitor it.
Load(p) ==
    /\ pc[p] = "load"
    /\ \/ /\ Finished(row[at[p]])
          /\ Quit(p)
          /\ UNCHANGED fresh
       \/ /\ ~Finished(row[at[p]])
          /\ snap' = [snap EXCEPT ![p][at[p]] = SnapOf(at[p])]
          /\ pc' = [pc EXCEPT ![p] = "ask"]
          /\ fresh' = [fresh EXCEPT ![at[p]] = TRUE]
          /\ UNCHANGED <<at, ans, batch>>
    /\ UNCHANGED <<twint, row, expired, pay, tx, history>>

\* MonitoringService::monitor: read every row in progress, oldest first.
CronStart ==
    /\ pc[Cron] = "idle"
    /\ InProcess # {}
    /\ batch' = InProcess
    /\ snap' = [snap EXCEPT ![Cron] =
                   [a \in Attempts |-> IF a \in InProcess THEN SnapOf(a) ELSE NoSnap]]
    /\ pc' = [pc EXCEPT ![Cron] = "ask"]
    /\ at' = [at EXCEPT ![Cron] = First(InProcess)]
    /\ UNCHANGED <<twint, shop, ans, history>>

\* The call monitorOrder, and the comparison of its answer with the row as
\* it was read.
Ask(p) ==
    /\ pc[p] = "ask"
    /\ LET answer == twint[at[p]]
       IN  IF answer # snap[p][at[p]].status
           THEN Goto(p, "write") /\ ans' = [ans EXCEPT ![p] = answer]
           ELSE PendingAnswer(p, answer)
    /\ UNCHANGED <<twint, shop, history>>

\* PairingService::update.  The trigger refuses a version other than the
\* row's (SQLSTATE 45000, which ends monitor()), and counts the version up.
Write(p) ==
    /\ pc[p] = "write"
    /\ LET a == at[p]
       IN  \/ /\ Conflict(p)
              /\ Return(p)
              /\ UNCHANGED row
           \/ /\ ~Conflict(p)
              /\ row' = [row EXCEPT ![a] = [status |-> ans[p],
                                            version |-> row[a].version + 1]]
              /\ IF Final(p, ans[p])
                 THEN Goto(p, "settle") /\ UNCHANGED ans
                 ELSE PendingAnswer(p, ans[p])
    /\ UNCHANGED <<twint, expired, fresh, pay, tx, history>>

\* confirmOrder; TWINT refuses it for an order that has ended meanwhile.
Confirm(p) ==
    /\ pc[p] = "confirm"
    /\ LET a == at[p]
       IN  \/ /\ twint[a] \in {"confirm", "success"}
              /\ twint' = [twint EXCEPT ![a] = "success"]
              /\ IF snap[p][a].expired THEN Goto(p, "cancel") /\ UNCHANGED ans
                                       ELSE Return(p)
           \/ /\ twint[a] # "confirm"
              /\ Raise(p)
              /\ UNCHANGED twint
    /\ UNCHANGED <<shop, history>>

\* cancelOrder for an attempt that was timed out when it was read.
CancelTimedOut(p) ==
    /\ pc[p] = "cancel"
    /\ LET a == at[p]
       IN  \/ /\ twint' = [twint EXCEPT ![a] = IF @ \in Pending THEN "failure" ELSE @]
              /\ Return(p)
           \/ /\ twint[a] \notin Pending
              /\ Raise(p)
              /\ UNCHANGED twint
    /\ UNCHANGED <<shop, history>>

\* paid() or cancel() on the order's TWINT transaction.
Settle(p) ==
    /\ pc[p] = "settle"
    /\ LET a == at[p]
           target == Verdict(ans[p])
           after == IF target = "paid" THEN AfterPaid(tx) ELSE AfterCancel(tx)
       IN  /\ tx' \in after
           /\ applied' = [applied EXCEPT ![a] = target]
           /\ IF tx' = target THEN Return(p) ELSE Raise(p)
    /\ UNCHANGED <<twint, row, expired, fresh, pay, faults, overlap>>

\* An API or database error outside the ones above, or the end of the
\* process (a time limit, a restart, a deployment).
Fault(p) ==
    /\ pc[p] # "idle"
    /\ faults < MaxFaults
    /\ faults' = faults + 1
    /\ Quit(p) \/ (pc[p] # "load" /\ Raise(p))
    /\ UNCHANGED <<twint, shop, applied, overlap>>

-----------------------------------------------------------------------------
PayStep(a) ==
    \/ StartOrder(a) \/ Process(a) \/ CreateRow(a) \/ ShowWaiting(a)

Environment(a) ==
    \/ CustomerConfirms(a) \/ TwintFails(a) \/ CustomerCancels(a)
    \/ Expire(a) \/ GoStale(a) \/ Retry(a) \/ PayAborts(a)

MonitorStep(p) ==
    \/ Ask(p) \/ Write(p) \/ Confirm(p) \/ CancelTimedOut(p) \/ Settle(p)

Next ==
    \/ \E a \in Attempts : PayStep(a) \/ Environment(a)
    \/ \E p \in PollProcs : Load(p) \/ (\E a \in Attempts : Spawn(p, a))
    \/ CronStart
    \/ \E p \in Procs : MonitorStep(p) \/ Fault(p)

Spec == Init /\ [][Next]_vars

(***************************************************************************)
(* The scheduled task runs every 60 seconds, a process that has not        *)
(* stopped goes on, and time passes.  Nothing obliges the customer, the    *)
(* browser or TWINT.                                                       *)
(***************************************************************************)
Fairness ==
    /\ WF_vars(CronStart)
    /\ \A p \in Procs : WF_vars(MonitorStep(p))
    /\ \A p \in PollProcs : WF_vars(Load(p))
    /\ \A a \in Attempts : WF_vars(Expire(a))

FairSpec == Spec /\ Fairness

-----------------------------------------------------------------------------
SnapType == [status : {"none"} \cup Pending, version : Nat, expired : BOOLEAN]

TypeOK ==
    /\ twint \in [Attempts -> {"none"} \cup Pending \cup Terminal]
    /\ row \in [Attempts -> [status : {"none"} \cup Pending \cup Terminal,
                             version : Nat]]
    /\ expired \in [Attempts -> BOOLEAN]
    /\ fresh \in [Attempts -> BOOLEAN]
    /\ pay \in [Attempts -> {"idle", "called", "started", "processed",
                             "inserted", "shown", "aborted"}]
    /\ tx \in {"open", "in_progress", "paid", "cancelled", "failed"}
    /\ pc \in [Procs -> {"idle", "load", "ask", "write", "confirm",
                         "cancel", "settle"}]
    /\ at \in [Procs -> Attempts]
    /\ snap \in [Procs -> [Attempts -> SnapType]]
    /\ ans \in [Procs -> {"none"} \cup Pending \cup Terminal]
    /\ batch \subseteq Attempts
    /\ applied \in [Attempts -> {"none", "paid", "cancelled"}]
    /\ faults \in 0..MaxFaults
    /\ overlap \in BOOLEAN

\* The processes about to apply the result of attempt a to the order.
Settlers(a) == {p \in Procs : pc[p] = "settle" /\ at[p] = a}

\* However many processes work on a row, one of them at most has its final
\* result to apply, and none once it was applied: the promise of the
\* optimistic lock around PairingService::update.
AppliedOnce ==
    \A a \in Attempts :
        /\ \A p, q \in Settlers(a) : p = q
        /\ applied[a] # "none" => Settlers(a) = {}

\* The order's transaction is paid only if TWINT has taken the money for
\* one of the attempts.
PaidNeedsSuccess == tx = "paid" => \E a \in Attempts : twint[a] = "success"

\* A final result that no process will ever apply: its row is finished, so
\* no command and no run of the scheduled task looks at it again.
Lost(a) == Finished(row[a]) /\ applied[a] = "none" /\ Settlers(a) = {}

\* monitor() writes the row first and changes the order afterwards.  Only an
\* error or the end of a process in between loses a result, and each loses
\* one at most.
EachLossIsAFault == Cardinality({a \in Attempts : Lost(a)}) <= faults

\* Without such a fault, and without a customer who pays again before the
\* last result has reached the order, TWINT's success is the order's.
SuccessIsPaid ==
    faults = 0 /\ ~overlap =>
        \A a \in Attempts : applied[a] = "paid" => tx = "paid"

\* ... and the customer is charged at most once, over all attempts.
ChargedOnce ==
    faults = 0 /\ ~overlap =>
        \A a, b \in Attempts : twint[a] = "success" /\ twint[b] = "success" => a = b

\* A finished row keeps its result: no process with an older answer of TWINT
\* takes it back.
FinishedForGood ==
    [][\A a \in Attempts : Finished(row[a]) => row'[a] = row[a]]_row

\* Every row is finished some day, whether the customer, the browser and
\* TWINT do anything or not: the scheduled task finds it, and a row that has
\* timed out is cancelled at TWINT.
RowsFinish == \A a \in Attempts : row[a] # NoRow ~> Finished(row[a])

\* ... and unless there was a fault, its result is applied to the order.
ResultReachesOrder ==
    \A a \in Attempts : row[a] # NoRow ~> applied[a] # "none" \/ faults > 0

-----------------------------------------------------------------------------
(***************************************************************************)
(* The promise of OrderPayment, and how the shop's state stands for its    *)
(* state: a result is owed while a process is about to apply it.           *)
(***************************************************************************)
ResultOf(a) == IF twint[a] \in Pending THEN "pending" ELSE twint[a]

DueOf(a) ==
    CASE applied[a] # "none" -> "applied"
      [] applied[a] = "none" /\ Settlers(a) # {} -> "owed"
      [] Lost(a) -> "lost"
      [] OTHER -> "no"

Promise == INSTANCE OrderPayment
    WITH result <- [a \in Attempts |-> ResultOf(a)],
         due <- [a \in Attempts |-> DueOf(a)]

\* Rows, versions, processes, crashes and all, the checkout keeps what
\* OrderPayment promises.
ImplementsOrderPayment == Promise!Spec
=============================================================================
