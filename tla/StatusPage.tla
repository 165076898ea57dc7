------------------------------ MODULE StatusPage ------------------------------
(***************************************************************************)
(* A page of the storefront with the express button.  A click begins a     *)
(* check-in and opens THE modal of the page; an instance of                *)
(* PaymentStatusRefresh is made for every check-in and asks, again and     *)
(* again, how it stands.  The modal and its close handler are static: the  *)
(* instances of earlier check-ins go on living beside the newest one.      *)
(*                                                                         *)
(* The server is reduced to the row of a check-in becoming finished, at    *)
(* any time and with any outcome.                                          *)
(***************************************************************************)
EXTENDS Naturals, FiniteSets

CONSTANTS
    MaxCheckIns,  \* bound on the check-ins begun
    PollLimit,    \* PaymentStatusRefresh.POLL_LIMIT
    MaxErrors     \* bound on answers that are not 200

ASSUME BoundsAssumption ==
    MaxCheckIns \in Nat \ {0} /\ PollLimit \in Nat /\ MaxErrors \in Nat

VARIABLES
    row,       \* status of a check-in's row
    waiting,   \* a button waits for its answer, behind the loading popup:
               \*   ExpressCheckoutButton.checking and LoadingPopup.active
    button,    \* the check-in stored for it
    modal,     \* whether the modal is open, and what it says about which check-in
    owner,     \* the instance whose onModalClosed is the modal's onClosed
    startedAt, \* 0 for null, else the newest check-in when the static was set
    hour,      \* that was an hour ago
    poll,      \* an instance: "none", "timer", "asked"; having stopped, "over",
               \*   or "late" when the interval was 0
    checking,  \* its flag of the same name
    count,     \* how often it has asked
    reply,     \* the answer on its way to it
    errors,
    meant,     \* history: the customer has closed the modal of these check-ins,
    cut,       \*   of these the modal was closed with a request under way,
    sent,      \*   these were cancelled while their rows were not finished,
    informed   \*   and for these a result was shown

shown == <<modal, owner>>
clock == <<startedAt, hour>>
instance == <<poll, checking, count, reply>>
asked == <<waiting, button>>
history == <<meant, cut, sent, informed>>
vars == <<row, asked, shown, clock, instance, errors, history>>

CheckIns == 1..MaxCheckIns
Finals == {"DONE", "CANCELLED", "FAILED"}
Closed == [of |-> 0, says |-> "none"]
Finished(i) == row[i] \in Finals
Asking(i) == poll[i] \in {"timer", "asked"}

-----------------------------------------------------------------------------
Everywhere(x) == [i \in CheckIns |-> x]

Init ==
    /\ row = Everywhere("none")
    /\ waiting = FALSE
    /\ button = 0
    /\ modal = Closed
    /\ owner = 0
    /\ startedAt = 0 /\ hour = FALSE
    /\ poll = Everywhere("none")
    /\ checking = Everywhere(FALSE)
    /\ count = Everywhere(0)
    /\ reply = Everywhere("none")
    /\ errors = 0
    /\ meant = {} /\ cut = {} /\ sent = {} /\ informed = {}

-----------------------------------------------------------------------------
(***************************************************************************)
(* The instance of a check-in: checkExpressCheckoutStatus, with reachLimit *)
(* and the handler of the answer.                                          *)
(***************************************************************************)
\* The page's clock starts unless it runs, and stops.
Begin(newest) == startedAt' = IF startedAt = 0 THEN newest ELSE startedAt
Reset == startedAt' = 0 /\ hour' = FALSE

\* A round of an instance's loop, in which reachLimit decides.
AskOrStop(i, newest) ==
    /\ Begin(newest)
    /\ UNCHANGED hour
    /\ IF checking[i] \/ count[i] > PollLimit
       THEN /\ poll' = [poll EXCEPT ![i] = "over"]
            /\ UNCHANGED <<checking, count>>
       ELSE /\ poll' = [poll EXCEPT ![i] = "asked"]
            /\ checking' = [checking EXCEPT ![i] = TRUE]
            /\ count' = [count EXCEPT ![i] = @ + 1]

\* onModalClosed of instance j, in whose course no other state is read:
\* clearTimeout and cancelPayment.
TimerCleared_Left(j, polls) == polls
TimerCleared(j, polls) == IF polls[j] = "timer" THEN [polls EXCEPT ![j] = "over"] ELSE polls
CutOff(j, polls) == IF polls[j] = "asked" THEN cut \cup {j} ELSE cut
Cancelled(j) == IF Finished(j) THEN {} ELSE {j}

\* LoadingPopup.show and hide.
Show == waiting' = TRUE
Hide == waiting' = FALSE

\* The customer clicks one of the buttons, which nothing covers.
Click ==
    /\ ~waiting /\ modal = Closed
    /\ Show
    /\ UNCHANGED <<row, button, shown, clock, instance, errors, history>>

\* TWINT begins a check-in, its row is stored.
Store ==
    /\ waiting /\ button = 0
    /\ \E i \in CheckIns :
          /\ \A j \in CheckIns : (row[j] = "none") <=> (j >= i)
          /\ row' = [row EXCEPT ![i] = "open"]
          /\ button' = i
    /\ UNCHANGED <<waiting, shown, clock, instance, errors, history>>

\* There are other items in the cart: no check-in, but the product is added to
\* them and the cart opens beside the page.
AddProductToCart ==
    /\ waiting /\ button = 0
    /\ Hide
    /\ UNCHANGED <<row, button, shown, clock, instance, errors, history>>

\* registerEvents, once for each instance.
Registered(i) == owner' = i

\* The init of the instance: the first question.
Started(i) == Registered(i) /\ AskOrStop(i, i)

\* onFinish and onModalLoaded: the modal opens with the new content, and the
\* instance in it begins.
Open ==
    /\ button # 0
    /\ Hide
    /\ modal' = [of |-> button, says |-> "qr"]
    /\ button' = 0
    /\ Started(button)
    /\ UNCHANGED <<row, reply, errors, history>>

\* onError of the button, the row of a check-in stored or not.
OpenFails ==
    /\ waiting
    /\ errors < MaxErrors
    /\ errors' = errors + 1
    /\ Hide
    /\ button' = 0
    /\ UNCHANGED <<row, shown, clock, instance, history>>

Fire(i) ==
    /\ poll[i] = "timer"
    /\ AskOrStop(i, owner)
    /\ UNCHANGED <<row, asked, shown, reply, errors, history>>

\* CheckoutController::monitor reads the row and answers; getFinishedResponse.
Answer(i) ==
    /\ poll[i] = "asked" /\ reply[i] = "none"
    /\ \/ reply' = [reply EXCEPT ![i] = row[i]] /\ UNCHANGED errors
       \/ /\ errors < MaxErrors
          /\ errors' = errors + 1
          /\ reply' = [reply EXCEPT ![i] = "error"]
    /\ UNCHANGED <<row, asked, shown, clock, poll, checking, count, history>>

\* What the loop's handler does with its flag and the answer.
Unchecked_Never(i) == checking
Unchecked(i) == [checking EXCEPT ![i] = FALSE]

Received(i) ==
    /\ poll[i] = "asked"
    /\ checking' = Unchecked(i)
    /\ reply' = [reply EXCEPT ![i] = "none"]
    /\ UNCHANGED <<row, asked, owner, count, errors>>

ReceiveOpen(i) ==
    /\ reply[i] = "open"
    /\ Received(i)
    /\ Begin(owner)
    /\ poll' = [poll EXCEPT ![i] = IF hour THEN "late" ELSE "timer"]
    /\ UNCHANGED <<modal, hour, history>>

\* updateContent: the modal, if it is open, says so, of whichever check-in it
\* is.
Tell(i) ==
    IF modal = Closed
    THEN UNCHANGED <<modal, informed>>
    ELSE /\ modal' = [of |-> i, says |-> reply[i]]
         /\ informed' = informed \cup {i}

\* onExpressPaid and onFailed; onError.
ReceiveResult(i) ==
    /\ reply[i] \in {"DONE", "FAILED"}
    /\ Received(i)
    /\ Reset
    /\ Tell(i)
    /\ poll' = [poll EXCEPT ![i] = "over"]
    /\ UNCHANGED <<meant, cut, sent>>

ReceiveError(i) ==
    /\ reply[i] = "error"
    /\ Received(i)
    /\ Tell(i)
    /\ Reset
    /\ poll' = [poll EXCEPT ![i] = "over"]
    /\ UNCHANGED <<meant, cut, sent>>

\* The modal is closed, if it is open, so that its owner cancels, and the
\* instance cancels as well.
ReceiveCancelled(i) ==
    /\ reply[i] = "CANCELLED"
    /\ Received(i)
    /\ LET polls == [poll EXCEPT ![i] = "over"]
       IN  IF modal = Closed
           THEN /\ poll' = polls
                /\ sent' = sent \cup Cancelled(i)
                /\ UNCHANGED <<cut, informed>>
           ELSE /\ poll' = TimerCleared(owner, polls)
                /\ sent' = sent \cup Cancelled(owner) \cup Cancelled(i)
                /\ cut' = CutOff(owner, polls)
                /\ informed' = informed \cup {i}
    /\ modal' = Closed
    /\ Reset
    /\ UNCHANGED meant

Receive(i) == ReceiveOpen(i) \/ ReceiveResult(i) \/ ReceiveError(i) \/ ReceiveCancelled(i)

-----------------------------------------------------------------------------
\* The customer closes the modal.
Close ==
    /\ modal # Closed
    /\ modal' = Closed
    /\ Reset
    /\ poll' = TimerCleared(owner, poll)
    /\ sent' = sent \cup Cancelled(owner)
    /\ meant' = meant \cup {owner}
    /\ cut' = CutOff(owner, poll)
    /\ UNCHANGED <<row, asked, owner, checking, count, reply, errors, informed>>

\* The page is left or loaded anew, by the customer or by onModalClosed in
\* the cart after a success.
Leave ==
    /\ Hide
    /\ button' = 0
    /\ modal' = Closed
    /\ owner' = 0
    /\ Reset
    /\ poll' = Everywhere("none")
    /\ checking' = Everywhere(FALSE)
    /\ count' = Everywhere(0)
    /\ reply' = Everywhere("none")
    /\ UNCHANGED <<row, errors, history>>

\* The row is finished: ExpressCheckout.
Finish(i) ==
    /\ row[i] = "open"
    /\ \E s \in Finals : row' = [row EXCEPT ![i] = s]
    /\ UNCHANGED <<asked, shown, clock, instance, errors, history>>

\* getInterval: an hour after startedAt there is no next round.
HourPasses ==
    /\ startedAt # 0 /\ ~hour
    /\ hour' = TRUE
    /\ UNCHANGED <<row, asked, shown, startedAt, instance, errors, history>>

-----------------------------------------------------------------------------
Next ==
    \/ Click \/ Store \/ AddProductToCart \/ Open \/ OpenFails \/ Close \/ Leave \/ HourPasses
    \/ \E i \in CheckIns : Fire(i) \/ Answer(i) \/ Receive(i) \/ Finish(i)

Spec == Init /\ [][Next]_vars

\* Timers fire, the server answers, the browser handles an answer.
Fairness == \A i \in CheckIns : WF_vars(Fire(i)) /\ WF_vars(Answer(i)) /\ WF_vars(Receive(i))
FairSpec == Spec /\ Fairness

-----------------------------------------------------------------------------
\* With what the flag stands for: a request is under way.
TypeOK ==
    /\ row \in [CheckIns -> {"none", "open"} \cup Finals]
    /\ waiting \in BOOLEAN
    /\ button \in CheckIns \cup {0}
    /\ button # 0 => waiting
    /\ modal \in {Closed} \cup [of : CheckIns, says : {"qr", "DONE", "FAILED", "error"}]
    /\ owner \in CheckIns \cup {0}
    /\ startedAt \in 0..MaxCheckIns
    /\ hour \in BOOLEAN
    /\ poll \in [CheckIns -> {"none", "timer", "asked", "over", "late"}]
    /\ checking \in [CheckIns -> BOOLEAN]
    /\ count \in [CheckIns -> 0..(PollLimit + 1)]
    /\ reply \in [CheckIns -> {"none", "open", "error"} \cup Finals]
    /\ errors \in 0..MaxErrors
    /\ \A i \in CheckIns : checking[i] <=> poll[i] = "asked"

\* An earlier check-in whose modal was closed while its request was under way
\* still asks.
Disturbed(i) == \E j \in cut : j < i /\ Asking(j)

\* A check-in that still runs is cancelled because the customer has closed its
\* modal, and else only by an earlier one that still asks: the end of that one
\* closes the modal of the later one.
CancelIsMeant ==
    [][\A i \in sent' \ sent : i \in meant' \/ Disturbed(i)]_vars

\* What the open modal says is about the check-in it was opened for, with the
\* same exception.
ModalTellsItsOwn ==
    [][modal' # modal /\ modal' # Closed => modal'.of = owner' \/ Disturbed(owner)]_vars

\* So an earlier check-in leaves a later one alone.
LaterIsLeftAlone == CancelIsMeant /\ ModalTellsItsOwn

\* A finished check-in that is still asked about is shown to the customer, as
\* its result or as an error, unless the modal was closed, the page left, the
\* loop has asked too often or for an hour since the check-in was opened, or an
\* earlier modal was closed with a request under way.
ResultIsShown ==
    \A i \in CheckIns :
        Finished(i) /\ Asking(i) ~>
            \/ i \in informed \cup meant
            \/ poll[i] = "none"
            \/ count[i] > PollLimit
            \/ poll[i] = "late" /\ i <= startedAt
            \/ \E j \in cut : j < i
=============================================================================
