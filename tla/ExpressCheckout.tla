--------------------------- MODULE ExpressCheckout ---------------------------
(***************************************************************************)
(* Express checkout: ONE check-in of a customer at TWINT, and the order    *)
(* the shop makes of it.                                                   *)
(*                                                                         *)
(* The check-in is a row of twint_pairing.  `twint:poll` commands and the  *)
(* scheduled task compare it with TWINT's state of the check-in.  The one  *)
(* that stores the customer's data places a Shopware order for the cart,   *)
(* starts the TWINT order, waits for its result inside that one step of    *)
(* the loop, and marks the row as done or failed.                          *)
(*                                                                         *)
(* Updates of the status and the customer's data carry the version that    *)
(* was read and are refused by the trigger if it is outdated; markAsDone,  *)
(* markAsFailed, markAsCancelled and persistOrderId carry none.            *)
(***************************************************************************)
EXTENDS Naturals, FiniteSets

CONSTANTS
    PollProcs,  \* `twint:poll` processes that may be alive at once
    Cron,       \* the worker that runs the scheduled task
    MaxOrders,  \* bound on the Shopware orders placed for the check-in
    MaxFaults,  \* bound on crashes and on API or database errors
    DataKept    \* the cases to consider: whether the customer's data, read back
                \* from the row, is what TWINT sent.  PairingEntity types the
                \* property ?object, what Shopware makes of a JSON column for
                \* it is not in this code

ASSUME CronAssumption == Cron \notin PollProcs
ASSUME BoundsAssumption == MaxOrders \in Nat \ {0} /\ MaxFaults \in Nat
ASSUME DataAssumption == DataKept \subseteq BOOLEAN

VARIABLES
    checkin,  \* the check-in at TWINT: its status, and whether it has the
              \* customer's data (with the shipping method)
    row,      \* its row of twint_pairing
    expired,  \* created_ago is past the timeout of 600 seconds
    fresh,    \* checked_at is less than 10 seconds ago
    orders,   \* the orders placed: the Shopware transaction, the TWINT order,
              \* and whether the TWINT order has a row of its own
    kept,     \* the case of DataKept this installation is in
    pc,       \* what a process does next
    snap,     \* the row as it read it
    ans,      \* TWINT's state of the check-in it works with
    mine,     \* the order it has placed, 0 for none
    tans,     \* TWINT's state of that order it works with
    faults    \* crashes and errors so far

procs == <<pc, snap, ans, mine, tans>>
vars == <<checkin, row, expired, fresh, orders, kept, procs, faults>>

Procs == PollProcs \cup {Cron}
Orders == 1..MaxOrders

Alive == {"progress", "active"}
Pending == {"waiting", "confirm"}
Terminal == {"success", "failure"}

NoRow == [status |-> "none", version |-> 0, given |-> FALSE, order |-> 0]
NoSnap == [status |-> "none", version |-> 0, given |-> FALSE, expired |-> FALSE]
NoCheckIn == [status |-> "none", given |-> FALSE]
NoOrder == [tx |-> "none", twint |-> "none", stored |-> FALSE]

\* PairingEntity::isFinished for an express pairing.
Finished(r) == r.status \in {"DONE", "CANCELLED", "FAILED"}

\* The row as the view twint_pairing_view gives it to a reader.
SnapOf == [status |-> row.status, version |-> row.version,
           given |-> kept /\ row.given, expired |-> expired]

\* PairingRepository::loadInProcessPairings: does it find the row?
InProcess_Never == FALSE
InProcess_AllRows == row.status # "none"
InProcess == row.status = "progress"

\* The trigger before_update_twint_pairing counts the version up when one of
\* the columns changes ...
Stored(new) ==
    [new EXCEPT !.version = IF new = row THEN row.version ELSE row.version + 1]

\* ... and refuses an update with a version that is not the row's.
Conflict_Unchecked(p) == FALSE
Conflict(p) == snap[p].version # row.version

\* MonitoringService::isChanged.
IsChanged(p, state) == snap[p].status # state.status \/ snap[p].given # state.given

Placed == {n \in Orders : orders[n].tx # "none"}

-----------------------------------------------------------------------------
Init ==
    /\ checkin = NoCheckIn
    /\ row = NoRow
    /\ expired = FALSE
    /\ fresh = FALSE
    /\ orders = [n \in Orders |-> NoOrder]
    /\ kept \in DataKept
    /\ pc = [p \in Procs |-> "idle"]
    /\ snap = [p \in Procs |-> NoSnap]
    /\ ans = [p \in Procs |-> NoCheckIn]
    /\ mine = [p \in Procs |-> 0]
    /\ tans = [p \in Procs |-> "none"]
    /\ faults = 0

(***************************************************************************)
(* ExpressPaymentService::requestFastCheckOutCheckIn.                      *)
(***************************************************************************)
RequestCheckIn ==
    /\ checkin = NoCheckIn
    /\ checkin' = [status |-> "progress", given |-> FALSE]
    /\ UNCHANGED <<row, expired, fresh, orders, kept, procs, faults>>

\* The row is stored with the status of TWINT's answer.
CreateRow ==
    /\ checkin # NoCheckIn
    /\ row = NoRow
    /\ row' = [status |-> "progress", version |-> 1, given |-> FALSE, order |-> 0]
    /\ UNCHANGED <<checkin, expired, fresh, orders, kept, procs, faults>>

-----------------------------------------------------------------------------
(***************************************************************************)
(* The customer, TWINT and the clock.                                      *)
(***************************************************************************)
CustomerScans ==
    /\ checkin.status = "progress"
    /\ checkin' = [checkin EXCEPT !.status = "active"]
    /\ UNCHANGED <<row, expired, fresh, orders, kept, procs, faults>>

CustomerGivesData ==
    /\ checkin.status = "active"
    /\ ~checkin.given
    /\ checkin' = [checkin EXCEPT !.given = TRUE]
    /\ UNCHANGED <<row, expired, fresh, orders, kept, procs, faults>>

\* The customer leaves the check-in in the app, or TWINT ends it.
CheckInEnds ==
    /\ checkin.status \in Alive
    /\ checkin' = [checkin EXCEPT !.status = "no_pairing"]
    /\ UNCHANGED <<row, expired, fresh, orders, kept, procs, faults>>

\* CheckoutController::cancel, sent when the modal is closed.
CustomerCancels ==
    /\ row # NoRow
    /\ checkin.status \in Alive
    /\ checkin' = [checkin EXCEPT !.status = "no_pairing"]
    /\ UNCHANGED <<row, expired, fresh, orders, kept, procs, faults>>

\* The customer confirms or declines the payment, or TWINT gives it up.
TwintDecides(n) ==
    /\ orders[n].twint \in Pending
    /\ \E s \in {"confirm", "failure"} \ {orders[n].twint} :
           orders' = [orders EXCEPT ![n].twint = s]
    /\ UNCHANGED <<checkin, row, expired, fresh, kept, procs, faults>>

Expire ==
    /\ row # NoRow
    /\ ~expired
    /\ expired' = TRUE
    /\ UNCHANGED <<checkin, row, fresh, orders, kept, procs, faults>>

GoStale ==
    /\ fresh
    /\ fresh' = FALSE
    /\ UNCHANGED <<checkin, row, expired, orders, kept, procs, faults>>

-----------------------------------------------------------------------------
(***************************************************************************)
(* Where a process goes after monitorExpress has returned (Return) or      *)
(* thrown (Raise): a poll command loads the row again or ends, the         *)
(* scheduled task goes on with the next row, here until its next run.      *)
(***************************************************************************)
Leave(p, label) ==
    /\ pc' = [pc EXCEPT ![p] = label]
    /\ snap' = [snap EXCEPT ![p] = NoSnap]
    /\ ans' = [ans EXCEPT ![p] = NoCheckIn]
    /\ mine' = [mine EXCEPT ![p] = 0]
    /\ tans' = [tans EXCEPT ![p] = "none"]

Quit(p) == Leave(p, "idle")
Return_Once(p) == Quit(p)
Return(p) == Leave(p, IF p = Cron THEN "idle" ELSE "load")
Raise(p) == Quit(p)

Goto(p, label) == pc' = [pc EXCEPT ![p] = label] /\ UNCHANGED <<snap, ans, mine, tans>>

-----------------------------------------------------------------------------
(***************************************************************************)
(* monitorExpress.                                                         *)
(***************************************************************************)

\* CheckoutController::monitor, asked by the modal: start a command unless
\* the row is finished or was checked within the last 10 seconds.
Spawn(p) ==
    /\ pc[p] = "idle"
    /\ row # NoRow
    /\ ~Finished(row)
    /\ ~fresh
    /\ pc' = [pc EXCEPT ![p] = "load"]
    /\ UNCHANGED <<checkin, row, expired, fresh, orders, snap, ans, mine, tans, kept, faults>>

\* TwintPollCommand::execute: load the row, and unless it is finished note
\* the check and monitor it.
Load(p) ==
    /\ pc[p] = "load"
    /\ \/ Finished(row) /\ Quit(p) /\ UNCHANGED fresh
       \/ /\ ~Finished(row)
          /\ snap' = [snap EXCEPT ![p] = SnapOf]
          /\ pc' = [pc EXCEPT ![p] = "ask"]
          /\ fresh' = TRUE
          /\ UNCHANGED <<ans, mine, tans>>
    /\ UNCHANGED <<checkin, row, expired, orders, kept, faults>>

\* MonitoringService::monitor reads the rows in progress.
CronStart ==
    /\ pc[Cron] = "idle"
    /\ InProcess
    /\ snap' = [snap EXCEPT ![Cron] = SnapOf]
    /\ pc' = [pc EXCEPT ![Cron] = "ask"]
    /\ UNCHANGED <<checkin, row, expired, fresh, orders, ans, mine, tans, kept, faults>>

\* The call monitorFastCheckOutCheckIn, and the comparison of its answer
\* with the row as it was read.
Ask(p) ==
    /\ pc[p] = "ask"
    /\ \/ /\ IsChanged(p, checkin)
          /\ pc' = [pc EXCEPT ![p] = "write"]
          /\ ans' = [ans EXCEPT ![p] = checkin]
          /\ UNCHANGED <<snap, mine, tans>>
       \/ ~IsChanged(p, checkin) /\ snap[p].expired /\ Goto(p, "cancel")
       \/ ~IsChanged(p, checkin) /\ ~snap[p].expired /\ Return(p)
    /\ UNCHANGED <<checkin, row, expired, fresh, orders, kept, faults>>

\* cancelFastCheckoutCheckIn; TWINT may refuse it for a check-in that has
\* ended meanwhile.
CancelCheckIn(p) ==
    /\ pc[p] = "cancel"
    /\ \/ checkin' = [checkin EXCEPT !.status = "no_pairing"] /\ Goto(p, "mark")
       \/ checkin.status \notin Alive /\ Raise(p) /\ UNCHANGED checkin
    /\ UNCHANGED <<row, expired, fresh, orders, kept, faults>>

\* markAsCancelled, whatever the row has become since it was read.
Mark(p) ==
    /\ pc[p] = "mark"
    /\ row' = Stored([row EXCEPT !.status = "CANCELLED"])
    /\ Return(p)
    /\ UNCHANGED <<checkin, expired, fresh, orders, kept, faults>>

\* PairingService::update with the version that was read (SQLSTATE 45000
\* ends monitorExpress), and the dispatch on the new status in handle().
Write(p) ==
    /\ pc[p] = "write"
    /\ \/ Conflict(p) /\ Return(p) /\ UNCHANGED row
       \/ /\ ~Conflict(p)
          /\ row' = Stored([row EXCEPT !.status = ans[p].status, !.given = ans[p].given])
          /\ CASE ans[p].status = "active" /\ ans[p].given -> Goto(p, "place")
               [] ans[p].status = "no_pairing" -> Goto(p, "mark")
               [] OTHER -> Return(p)
    /\ UNCHANGED <<checkin, expired, fresh, orders, kept, faults>>

-----------------------------------------------------------------------------
(***************************************************************************)
(* OnPaidHandler::handle.  An exception anywhere in it leads to "fail".    *)
(***************************************************************************)

\* The customer and the address are found or registered, and the cart that
\* was cloned for the check-in becomes an order.  The clone stays.
Place(p) ==
    /\ pc[p] = "place"
    /\ \E n \in Orders :
          /\ Placed = 1..(n - 1)
          /\ orders' = [orders EXCEPT ![n].tx = "open"]
          /\ mine' = [mine EXCEPT ![p] = n]
    /\ pc' = [pc EXCEPT ![p] = "start"]
    /\ UNCHANGED <<checkin, row, expired, fresh, snap, ans, tans, kept, faults>>

\* startFastCheckoutOrder.  TWINT wants a check-in that is still active.
Start(p) ==
    /\ pc[p] = "start"
    /\ \/ /\ checkin.status = "active"
          /\ \E s \in Pending \cup Terminal :
                /\ orders' = [orders EXCEPT ![mine[p]].twint = s]
                /\ tans' = [tans EXCEPT ![p] = s]
          /\ pc' = [pc EXCEPT ![p] = "refresh"]
          /\ UNCHANGED <<snap, ans, mine>>
       \/ Goto(p, "fail") /\ UNCHANGED orders
    /\ UNCHANGED <<checkin, row, expired, fresh, kept, faults>>

\* One round of refreshTwintTransactionStatusUntilDone ends in a result ...
Verdict_AlwaysPaid(answer) == "paid"
Verdict_Swapped(answer) == IF answer = "success" THEN "cancelled" ELSE "paid"
Verdict(answer) == IF answer = "success" THEN "paid" ELSE "cancelled"

\* ... for which the transaction is paid or cancelled, or goes on after a
\* confirmation or a wait.
Decided_Confirming(answer) == answer # "waiting"
Decided(answer) == answer \in Terminal

Refresh(p) ==
    /\ pc[p] = "refresh"
    /\ IF Decided(tans[p])
       THEN /\ orders' = [orders EXCEPT ![mine[p]].tx = Verdict(tans[p])]
            /\ Goto(p, "store")
       ELSE /\ Goto(p, IF tans[p] = "confirm" THEN "confirm" ELSE "poll")
            /\ UNCHANGED orders
    /\ UNCHANGED <<checkin, row, expired, fresh, kept, faults>>

\* confirmOrder; TWINT refuses it for an order that has ended meanwhile.
Confirm(p) ==
    /\ pc[p] = "confirm"
    /\ LET n == mine[p]
       IN  \/ /\ orders[n].twint \in {"confirm", "success"}
              /\ orders' = [orders EXCEPT ![n].twint = "success"]
              /\ Goto(p, "poll")
           \/ orders[n].twint # "confirm" /\ Goto(p, "fail") /\ UNCHANGED orders
    /\ UNCHANGED <<checkin, row, expired, fresh, kept, faults>>

\* monitorOrder, for the next round.
PollOrder(p) ==
    /\ pc[p] = "poll"
    /\ tans' = [tans EXCEPT ![p] = orders[mine[p]].twint]
    /\ pc' = [pc EXCEPT ![p] = "refresh"]
    /\ UNCHANGED <<checkin, row, expired, fresh, orders, snap, ans, mine, kept, faults>>

\* The regular PairingService::create: a row, finished at once, for the
\* TWINT order, which refunds need.
Store(p) ==
    /\ pc[p] = "store"
    /\ orders' = [orders EXCEPT ![mine[p]].stored = TRUE]
    /\ Goto(p, "link")
    /\ UNCHANGED <<checkin, row, expired, fresh, kept, faults>>

\* persistOrderId.
Link(p) ==
    /\ pc[p] = "link"
    /\ row' = Stored([row EXCEPT !.order = mine[p]])
    /\ Goto(p, "finish")
    /\ UNCHANGED <<checkin, expired, fresh, orders, kept, faults>>

\* After a success the customer's cart is deleted, CheckoutOrderPlacedEvent
\* dispatched and the row marked as done; else it is marked as failed.
Outcome_AlwaysDone(answer) == "DONE"
Outcome(answer) == IF answer = "success" THEN "DONE" ELSE "FAILED"

Finish(p) ==
    /\ pc[p] = "finish"
    /\ row' = Stored([row EXCEPT !.status = Outcome(tans[p])])
    /\ Return(p)
    /\ UNCHANGED <<checkin, expired, fresh, orders, kept, faults>>

\* The catch block: markAsFailed, and the exception is thrown on.
Fail(p) ==
    /\ pc[p] = "fail"
    /\ row' = Stored([row EXCEPT !.status = "FAILED"])
    /\ Raise(p)
    /\ UNCHANGED <<checkin, expired, fresh, orders, kept, faults>>

\* The steps inside the try block of handle().
Handling == {"place", "start", "refresh", "confirm", "poll", "store", "link", "finish"}

\* An API or database error outside the ones above, or the end of the process.
Fault(p) ==
    /\ pc[p] # "idle"
    /\ faults < MaxFaults
    /\ faults' = faults + 1
    /\ Quit(p) \/ (pc[p] \in Handling /\ Goto(p, "fail"))
               \/ (pc[p] \notin Handling /\ Raise(p))
    /\ UNCHANGED <<checkin, row, expired, fresh, orders, kept>>

-----------------------------------------------------------------------------
Environment ==
    \/ RequestCheckIn \/ CreateRow
    \/ CustomerScans \/ CustomerGivesData \/ CheckInEnds \/ CustomerCancels
    \/ (\E n \in Orders : TwintDecides(n))
    \/ Expire \/ GoStale

MonitorStep(p) == Ask(p) \/ CancelCheckIn(p) \/ Mark(p) \/ Write(p)

HandlerStep(p) ==
    \/ Place(p) \/ Start(p) \/ Refresh(p) \/ Confirm(p) \/ PollOrder(p)
    \/ Store(p) \/ Link(p) \/ Finish(p) \/ Fail(p)

Next ==
    \/ Environment
    \/ \E p \in PollProcs : Spawn(p) \/ Load(p)
    \/ CronStart
    \/ \E p \in Procs : MonitorStep(p) \/ HandlerStep(p) \/ Fault(p)

Spec == Init /\ [][Next]_vars

(***************************************************************************)
(* The scheduled task runs every 60 seconds, a process that has not        *)
(* stopped goes on, time passes, and TWINT does not leave an order         *)
(* undecided for ever.  Nothing obliges the customer or the browser.       *)
(***************************************************************************)
Fairness ==
    /\ WF_vars(CronStart)
    /\ \A p \in Procs : WF_vars(MonitorStep(p) \/ HandlerStep(p))
    /\ \A p \in PollProcs : WF_vars(Load(p))
    /\ \A n \in Orders : WF_vars(orders[n].twint = "waiting" /\ TwintDecides(n))
    /\ WF_vars(Expire)

FairSpec == Spec /\ Fairness

-----------------------------------------------------------------------------
CheckInType == [status : {"none"} \cup Alive \cup {"no_pairing"}, given : BOOLEAN]
Statuses == {"none"} \cup Alive \cup {"no_pairing", "DONE", "CANCELLED", "FAILED"}

TypeOK ==
    /\ checkin \in CheckInType
    /\ row \in [status : Statuses, version : Nat, given : BOOLEAN, order : Orders \cup {0}]
    /\ expired \in BOOLEAN
    /\ fresh \in BOOLEAN
    /\ orders \in [Orders -> [tx : {"none", "open", "paid", "cancelled"},
                              twint : {"none"} \cup Pending \cup Terminal,
                              stored : BOOLEAN]]
    /\ pc \in [Procs -> {"idle", "load", "ask", "cancel", "mark", "write", "fail"}
                            \cup Handling]
    /\ snap \in [Procs -> [status : {"none"} \cup Alive \cup {"no_pairing"},
                           version : Nat, given : BOOLEAN, expired : BOOLEAN]]
    /\ ans \in [Procs -> CheckInType]
    /\ mine \in [Procs -> Orders \cup {0}]
    /\ tans \in [Procs -> {"none"} \cup Pending \cup Terminal]
    /\ kept \in DataKept
    /\ faults \in 0..MaxFaults

\* However many processes see the customer's data arrive, one of them makes
\* an order of the cart: the promise of the version in PairingService::update,
\* for the clone of the cart is never taken away.  If the data are not kept,
\* every process sees them arrive, and the version stays what it is.
OrderedOnce == kept => Cardinality(Placed) <= 1

\* "Done" is what sends the customer to the thank-you page: the order the row
\* points to is paid, with the money taken by TWINT, and its TWINT order has
\* the row of its own that a refund will look for.
DoneIsPaid ==
    kept /\ row.status = "DONE" =>
        /\ row.order # 0
        /\ orders[row.order] = [tx |-> "paid", twint |-> "success", stored |-> TRUE]

\* No transaction is paid without TWINT having taken the money.
PaidNeedsSuccess == \A n \in Orders : orders[n].tx = "paid" => orders[n].twint = "success"

\* TWINT took the money for an order that is not paid, and no process will
\* ever ask TWINT about it: until the very end the order has no row that the
\* scheduled task could find.
Stranded(n) ==
    /\ orders[n].twint = "success"
    /\ orders[n].tx # "paid"
    /\ \A p \in Procs : mine[p] # n \/ pc[p] = "fail"

\* It takes an error or the end of a process inside handle(), each time.
EachStrandedIsAFault == Cardinality({n \in Orders : Stranded(n)}) <= faults

\* While the check-in lasts, and without faults, the row tells the truth
\* about a payment once all processes are through with it.
PaidIsDone ==
    /\ kept /\ faults = 0 /\ ~expired /\ checkin.status # "no_pairing"
    /\ \A p \in Procs : pc[p] \in {"idle", "load"}
    => \A n \in Orders : orders[n].tx = "paid" => row.status = "DONE"

\* So the row and the order tell the same.
DoneMeansPaid == DoneIsPaid /\ PaidIsDone

\* A row in progress does not stay so, with or without a browser: the
\* scheduled task finds it, and once it has timed out cancels the check-in.
InProgressEnds == row.status = "progress" ~> row.status # "progress"

\* The scheduled task looks at no row that is active.  A command that works
\* on it stays with it to the end, unless there is a fault or the check-in has
\* ended at TWINT: then the cancel after the timeout may be refused, and the
\* exception ends the command with the row still active.
AttendedEnds ==
    row # NoRow /\ (\E p \in PollProcs : pc[p] # "idle")
        ~> Finished(row) \/ faults > 0 \/ checkin.status = "no_pairing"

\* "validate $data to make sure always has version" (PairingRepository.php:111):
\* with a version in every update, a row that is done stays done.
DoneForGood == [][row.status = "DONE" => row'.status = "DONE"]_row
=============================================================================
