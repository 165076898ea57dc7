----------------------------- MODULE PollSchedule -----------------------------
(***************************************************************************)
(* WHEN the `twint:poll` commands of a regular pairing run, second by      *)
(* second: the page that asks for its status, CheckoutController::monitor, *)
(* which starts a command unless the row was checked within a window, and  *)
(* the commands, which note the check, ask TWINT and sleep.                *)
(*                                                                         *)
(* RegularCheckout lets commands start and meet at any moment.  Here the   *)
(* question is what the intervals of the code are good for.                *)
(***************************************************************************)
EXTENDS Naturals

CONSTANTS
    Cmds,       \* commands that may run at once
    Window,     \* CheckoutController::TIME_WINDOW_SECONDS
    Timeout,    \* Settings::PAIRING_TIMEOUT_REGULAR
    Fast, Slow, FastFor,           \* TwintPollCommand::getInterval: Fast seconds
                                   \* for the first FastFor seconds, then Slow
    PageEvery,  \* the page asks that long after an answer (getInterval of
                \* payment-status-refresh.js in its first stage)
    Boot,       \* bound on the seconds a command takes to start
    Latency,    \* bound on the seconds monitorOne takes, with its calls
    MaxBlind    \* bound on the times monitor cannot load the row or start
                \* the command

ASSUME TimesAssumption ==
    {Window, Timeout, Fast, Slow, FastFor, PageEvery, Boot, Latency} \subseteq Nat \ {0}
ASSUME BlindAssumption == MaxBlind \in Nat

VARIABLES
    age,      \* created_ago, up to one more than Timeout
    checked,  \* checked_ago, up to Window; Window if it was never checked
    result,   \* TWINT has a result for the order
    done,     \* the row is finished
    cmd,      \* what each command does, for how much longer, its age, and what
              \* the row said when it was last read
    page,     \* seconds until the page asks again, or Closed
    blind     \* how often monitor has gone by its catch branch

vars == <<age, checked, result, done, cmd, page, blind>>

Closed == PageEvery + 1
Off == [at |-> "off", left |-> 0, age |-> 0, row |-> "open"]
Alive == {c \in Cmds : cmd[c].at # "off"}

\* A round that begins after the timeout asks TWINT to cancel the order, the
\* next one learns the result.
Deadline == Timeout + 3 * (Fast + Latency)

\* PairingRepository::load: isFinished and isTimedOut of the row.
IsTimedOut_Never == FALSE
IsTimedOut == age > Timeout
RowRead(finished) ==
    IF finished THEN "finished" ELSE IF IsTimedOut THEN "late" ELSE "open"

\* CheckoutController::isRunning.
IsRunning == checked < Window

\* TwintPollCommand::getInterval.  Its comment has 5 seconds in the first 3
\* minutes.
Interval_Swapped(elapsed) == IF elapsed < FastFor THEN Slow ELSE Fast
Interval(elapsed) == IF elapsed < FastFor THEN Fast ELSE Slow

-----------------------------------------------------------------------------
Init ==
    /\ age = 0
    /\ checked = Window
    /\ result = FALSE
    /\ done = FALSE
    /\ cmd = [c \in Cmds |-> Off]
    /\ page = 0
    /\ blind = 0

\* The customer pays or declines, or TWINT gives the order up.
TwintDecides ==
    /\ ~result
    /\ result' = TRUE
    /\ UNCHANGED <<age, checked, done, cmd, page, blind>>

\* checkRegularCheckoutStatus: with an answer that is no more than pending the
\* page asks again after a while; for a result it is loaded anew, and shows it;
\* an answer it cannot parse is its last.
PageNext == {Closed} \cup (IF done THEN {} ELSE {PageEvery})

\* A command that is started takes 0 to Boot seconds to load the row.
StartProcess ==
    \E c \in Cmds \ Alive, d \in 0..Boot :
        cmd' = [cmd EXCEPT ![c] = [Off EXCEPT !.at = "boot", !.left = d]]

\* CheckoutController::monitor, and its catch branch: if the row cannot be
\* loaded or the command not be started, one is started without a look at the
\* row.  Without a row the request fails after that, and its answer is the
\* page's last; if the second start fails too, the page is told that all is over
\* and is loaded anew.
Look ==
    /\ page' \in PageNext
    /\ \/ ~done /\ ~IsRunning /\ StartProcess
       \/ (done \/ IsRunning) /\ UNCHANGED cmd
    /\ UNCHANGED blind

Blindly ==
    /\ blind < MaxBlind
    /\ blind' = blind + 1
    /\ \/ page' \in PageNext /\ StartProcess
       \/ page' \in {Closed} \cup 1..PageEvery /\ UNCHANGED cmd

Ask ==
    /\ page = 0
    /\ Look \/ Blindly
    /\ UNCHANGED <<age, checked, result, done>>

ClosePage ==
    /\ page # Closed
    /\ page' = Closed
    /\ UNCHANGED <<age, checked, result, done, cmd, blind>>

\* The waiting page is opened again, by a customer who takes no less time for
\* it than the page itself would have waited; the result page asks nothing.
OpenPage ==
    /\ page = Closed /\ ~done
    /\ page' = PageEvery
    /\ UNCHANGED <<age, checked, result, done, cmd, blind>>

\* The command is up and loads the row.
Load(c) ==
    /\ cmd[c].at = "boot" /\ cmd[c].left = 0
    /\ cmd' = [cmd EXCEPT ![c].at = "sleep", ![c].row = RowRead(done)]
    /\ UNCHANGED <<age, checked, result, done, page, blind>>

\* The head of the loop: the row it has is finished, or the check is noted
\* and monitorOne begins.
Round(c) ==
    /\ cmd[c].at = "sleep" /\ cmd[c].left = 0
    /\ \/ /\ cmd[c].row = "finished"
          /\ cmd' = [cmd EXCEPT ![c] = Off]
          /\ UNCHANGED checked
       \/ /\ cmd[c].row # "finished"
          /\ checked' = 0
          /\ \E d \in 0..Latency :
                cmd' = [cmd EXCEPT ![c].at = "call", ![c].left = d]
    /\ UNCHANGED <<age, result, done, page, blind>>

\* PairingService::monitor finishes the row when TWINT has a result.
Settled == done \/ result

\* monitorOne returns: a result has finished the row, an order still pending
\* has been cancelled if the row that was read was late.  Then the row is
\* loaded again, and the command sleeps.
Reply(c) ==
    /\ cmd[c].at = "call" /\ cmd[c].left = 0
    /\ done' = Settled
    /\ result' = (result \/ cmd[c].row = "late")
    /\ cmd' = [cmd EXCEPT ![c] = [@ EXCEPT !.at = "sleep",
                   !.left = Interval(cmd[c].age), !.row = RowRead(done')]]
    /\ UNCHANGED <<age, checked, page, blind>>

\* The scheduled task monitors the row; it notes no check.
ScheduledTask ==
    /\ ~done
    /\ done' = Settled
    /\ result' = (result \/ IsTimedOut)
    /\ UNCHANGED <<age, checked, cmd, page, blind>>

\* An exception ends the command, or the machine does.
Die(c) ==
    /\ cmd[c].at # "off"
    /\ cmd' = [cmd EXCEPT ![c] = Off]
    /\ UNCHANGED <<age, checked, result, done, page, blind>>

\* A second passes when nothing is due.  The age of a command is counted as
\* far as a property or an interval asks.
Counted == FastFor + Deadline

Tick ==
    /\ page # 0
    /\ \A c \in Alive : cmd[c].left > 0
    /\ age' = IF age > Timeout THEN age ELSE age + 1
    /\ checked' = IF checked = Window THEN Window ELSE checked + 1
    /\ cmd' = [c \in Cmds |->
          IF c \notin Alive THEN Off
          ELSE [cmd[c] EXCEPT !.left = @ - 1,
                    !.age = IF cmd[c].at = "boot" \/ @ = Counted THEN @ ELSE @ + 1]]
    /\ page' = IF page = Closed THEN page ELSE page - 1
    /\ UNCHANGED <<result, done, blind>>

Next ==
    \/ TwintDecides \/ Ask \/ ClosePage \/ OpenPage \/ ScheduledTask \/ Tick
    \/ \E c \in Cmds : Load(c) \/ Round(c) \/ Reply(c) \/ Die(c)

Spec == Init /\ [][Next]_vars

-----------------------------------------------------------------------------
TypeOK ==
    /\ age \in 0..(Timeout + 1)
    /\ checked \in 0..Window
    /\ result \in BOOLEAN
    /\ done \in BOOLEAN
    /\ cmd \in [Cmds -> [at : {"off", "boot", "call", "sleep"}, left : Nat,
                         age : 0..Counted, row : {"open", "late", "finished"}]]
    /\ page \in 0..Closed
    /\ blind \in 0..MaxBlind
    /\ done => result

\* What these two rest on: a command is in its fast stage until the row is
\* finished; it is up before the page asks again, and its next check is within
\* the window of the last.
FastUntilDone == Deadline <= FastFor
ChecksOften == Boot < PageEvery /\ Fast + Latency < Window

\* A command is started beside one that lives only in the catch branch, however
\* TWINT answers, commands die and the page is closed, and however many that
\* branch has started already: the checks of a living command are never as far
\* apart as the window, as long as the row is open.
OneCommand == [][Alive = {} \/ Alive' \subseteq Alive \/ blind' # blind]_vars

\* A command that lives finishes the row, page or no page, a few rounds after
\* the timeout at the latest.
FinishedInTime == \A c \in Alive : cmd[c].age > Deadline => done
=============================================================================
