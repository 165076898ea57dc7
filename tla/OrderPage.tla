------------------------------- MODULE OrderPage -------------------------------
(***************************************************************************)
(* The page of an order in the administration, over the server of Refund:  *)
(* the form for a refund with its modal, the sum that can still be         *)
(* refunded, and the list of the transaction log.  What the page shows     *)
(* comes from searches whose answers overtake each other.  The flag that   *)
(* something is loading covers the modal's body with a loader; refund()    *)
(* and its button do not ask it, so that it guards nothing here.           *)
(***************************************************************************)
EXTENDS Refund

CONSTANTS
    Mine,        \* the Admins whose requests this page makes
    Amounts,     \* what others ask for
    OrderTotal,  \* the order's amount, which may have been edited since
    Unknown      \* not a number

ASSUME MineAssumption == Mine \subseteq Admins
ASSUME AmountsAssumption == Amounts \subseteq 1..(Amount + 1)
ASSUME OrderTotalAssumption == OrderTotal \in Nat /\ Unknown \notin Int

VARIABLES
    modal,       \* showRefundModal
    entered,     \* refundAmount; 0 without one, or with an amountError
    refundable,  \* refundableAmount
    total,       \* totalOrderAmount
    paired,      \* getPairing has answered
    at,          \* what a request of this page waits for
    searches,    \* how many searches are under way, by what there was to be
                 \* found when they were begun
    shownLog,    \* how many refunds the list of the log shows
    logged,      \* how many reversals the transaction log has
    told,        \* the refunds the page was told of
    hasty        \* history: searches that were under way when something was
                 \* entered, or under way or to come when it was confirmed

form == <<modal, entered>>
display == <<refundable, total, paired, shownLog>>
history_ == <<told, hasty>>
page == <<form, display, at, searches, logged, history_>>

Lists == {"history", "log"}
Sums == 0..Amount \cup {Unknown}

\* Searches under way, and those yet to come for a request that was made.
Searching == {l \in Lists : \E r \in Sums : searches[l][r] > 0}
Waiting(where) == \E a \in Mine : at[a] \in where
Pending == Searching
       \cup (IF Waiting({"answer"}) THEN Lists ELSE {})
       \cup (IF Waiting({"transition", "status"}) THEN {"log"} ELSE {})

\* What the database has for a search: the sum aggregated over the rows of the
\* history, or the refunds in the log.
Content(l) ==
    IF l = "log" THEN logged
    ELSE IF Total = -1 THEN Unknown ELSE Total

Search(ls) ==
    searches' = [l \in Lists |->
        IF l \in ls THEN [searches[l] EXCEPT ![Content(l)] = @ + 1] ELSE searches[l]]

\* The database is read as soon as a search begins, or not before its answer.
Arrives(l, r) ==
    \E asked \in Sums :
        /\ searches[l][asked] > 0
        /\ r \in {asked, Content(l)}
        /\ searches' = [searches EXCEPT ![l][asked] = @ - 1]

\* What the parts of the page ask for when they are created.
Opened == [l \in Lists |-> [r \in Sums |-> IF r = Content(l) THEN 1 ELSE 0]]

InitPage ==
    /\ Init
    /\ modal = FALSE /\ entered = 0
    /\ refundable = 0 /\ total = OrderTotal /\ paired = FALSE
    /\ at = [a \in Mine |-> "none"]
    /\ shownLog = 0
    /\ logged = 0
    /\ searches = Opened
    /\ told = Nothing
    /\ hasty = {}

-----------------------------------------------------------------------------
\* getReversalHistoryList has its answer: what is left follows from it and
\* from the total known by now.
Left(sum) == IF sum = Unknown THEN Unknown ELSE total - sum

HistoryFound(sum) ==
    /\ Arrives("history", sum)
    /\ refundable' = Left(sum)
    /\ UNCHANGED <<vars, form, total, paired, shownLog, at, logged, told, hasty>>

\* getTransactionLogList has its.
LogFound(n) ==
    /\ Arrives("log", n)
    /\ shownLog' = n
    /\ UNCHANGED <<vars, form, refundable, total, paired, at, logged, history_>>

\* A search fails: the sum stays as it was, the list of the log is emptied.
SearchFails(l) ==
    /\ faults < MaxFaults
    /\ faults' = faults + 1
    /\ \E r \in Sums : Arrives(l, r)
    /\ IF l = "log" THEN shownLog' = 0 ELSE UNCHANGED shownLog
    /\ UNCHANGED <<shop, bank, local, met, form, refundable, total, paired, at, logged,
                   history_>>

\* getPairing has its: the amount to go by is that of the pairing.
PairingFound ==
    /\ ~paired
    /\ paired' = TRUE
    /\ total' = Amount
    /\ UNCHANGED <<vars, form, refundable, shownLog, at, searches, logged, history_>>

-----------------------------------------------------------------------------
\* showModal, of a button that is disabled when nothing is left; the form is
\* reset.
ShowModal ==
    /\ ~modal /\ refundable # 0
    /\ modal' = TRUE
    /\ entered' = 0
    /\ UNCHANGED <<vars, display, at, searches, logged, history_>>

CloseModal ==
    /\ modal
    /\ modal' = FALSE /\ entered' = 0
    /\ UNCHANGED <<vars, display, at, searches, logged, history_>>

\* amountInputChanged.  The remark on a wrong format is always overwritten by
\* the comparison that follows; one with what is not a number is never true.
Exceeds_Order(value) == value > total
Exceeds(value) == refundable # Unknown /\ value > refundable

Enter(value) ==
    /\ modal
    /\ entered' = IF Exceeds(value) THEN 0 ELSE value
    /\ hasty' = hasty \cup Searching
    /\ UNCHANGED <<vars, modal, display, at, searches, logged, told>>

\* refund, of a button that is disabled without an amount.  It does not wait
\* for what was confirmed before.
Confirm(a) ==
    /\ modal /\ entered > 0
    /\ at[a] = "none"
    /\ Request(a, entered)
    /\ at' = [at EXCEPT ![a] = "answer"]
    /\ hasty' = hasty \cup Pending
    /\ UNCHANGED <<form, display, searches, logged, told>>

\* The log is listed again at each refund-finish.
RefundFinish == {"log"}

\* The refund was made: the modal goes, the form is reset, and the sum and the
\* log are asked for.
Refreshed_History == {"history"}
Refreshed == {"history"} \cup RefundFinish

Succeeded(a) ==
    /\ at[a] = "answer" /\ pc[a] = "browser"
    /\ at' = [at EXCEPT ![a] = "transition"]
    /\ modal' = FALSE /\ entered' = 0
    /\ Search(Refreshed)
    /\ told' = Plus(told, Limited(want[a]))
    /\ UNCHANGED <<vars, display, logged, hasty>>

\* It was not, or the page does not know.
Failed(a) ==
    /\ at[a] = "answer" /\ pc[a] = "idle"
    /\ at' = [at EXCEPT ![a] = "none"]
    /\ modal' = FALSE /\ entered' = 0
    /\ UNCHANGED <<vars, display, searches, logged, history_>>

\* updatePaymentStatus: without an action there is nothing to do; a transition
\* may be refused; otherwise the status of the order is asked for.
Moved(a) ==
    /\ at[a] = "transition"
    /\ Transition(a)
    /\ \E next \in {"none", "status"} :
          /\ action[a] = "none" => next = "none"
          /\ at' = [at EXCEPT ![a] = next]
    /\ UNCHANGED <<form, display, searches, logged, history_>>

NotMoved(a) ==
    /\ at[a] = "transition" /\ pc[a] = "idle"
    /\ at' = [at EXCEPT ![a] = "none"]
    /\ UNCHANGED <<vars, form, display, searches, logged, history_>>

\* TwintController::status has answered; if TWINT knows the order, refund-finish
\* is told once more.
StatusKnown(a) ==
    /\ at[a] = "status"
    /\ at' = [at EXCEPT ![a] = "none"]
    /\ Search(RefundFinish) \/ UNCHANGED searches
    /\ UNCHANGED <<vars, form, display, logged, history_>>

-----------------------------------------------------------------------------
\* reverseOrder writes the log whatever came of it, unless the process ends;
\* what counts is a reversal.
Logged_Failed(a) == IF pc[a] = "call" THEN logged + 1 ELSE logged
Logged(a) == IF twint' = twint THEN logged ELSE logged + 1

\* A step of the server.
Serve(a) ==
    /\ Check(a) \/ ReadIndex(a) \/ Call(a) \/ WriteRow(a) \/ Answer(a)
    /\ logged' = Logged(a)
    /\ UNCHANGED <<form, display, at, searches, history_>>

Trouble(a) ==
    /\ Fault(a)
    /\ logged' \in {logged, Logged(a)}
    /\ UNCHANGED <<form, display, at, searches, history_>>

\* Somebody else, on a page of their own.
Others(a) ==
    /\ (\E amount \in Amounts : Request(a, amount)) \/ Transition(a)
    /\ UNCHANGED page

Answered(a) == Succeeded(a) \/ Failed(a) \/ Moved(a) \/ NotMoved(a) \/ StatusKnown(a)

NextPage ==
    \/ \E a \in Mine : Confirm(a) \/ Answered(a)
    \/ \E a \in Admins : Serve(a) \/ Trouble(a)
    \/ \E a \in Admins \ Mine : Others(a)
    \/ \E l \in Lists : SearchFails(l)
    \/ \E sum \in Sums : HistoryFound(sum) \/ LogFound(sum)
    \/ PairingFound \/ ShowModal \/ CloseModal
    \/ \E value \in 0..(Amount + 1) : Enter(value)

SpecPage == InitPage /\ [][NextPage]_<<vars, page>>

-----------------------------------------------------------------------------
PageTypeOK ==
    /\ TypeOK
    /\ modal \in BOOLEAN /\ paired \in BOOLEAN
    /\ entered \in 0..(Amount + 1)
    /\ refundable \in Int \cup {Unknown}
    /\ total \in {OrderTotal, Amount}
    /\ at \in [Mine -> {"none", "answer", "transition", "status"}]
    /\ searches \in [Lists -> [Sums -> Nat]]
    /\ shownLog \in Sums
    /\ logged \in 0..twint.count
    /\ told \in Log
    /\ hasty \subseteq Lists

\* A refund of this page is refused for its amount only when the page shows an
\* old sum, did when the amount was entered, or had another refund under way
\* when this one was confirmed.
RefusedOnlyBehind ==
    \A a \in Mine : pc[a] = "check" /\ want[a] > Refundable =>
        refundable # Amount - history.sum \/ "history" \in hasty

\* When all answers are there, the page shows as refundable no more than its
\* own refunds left, and no less than all of them did, of the amount of the
\* pairing or, when that came last, of the order.
Resting == Pending = {} /\ \A a \in Mine : at[a] = "none"

RefundableIsCurrent ==
    faults = 0 /\ Resting /\ "history" \notin hasty /\ refundable # Unknown =>
        \E of \in {Amount, OrderTotal} :
            refundable \in (of - history.sum)..(of - told.sum)

\* Then too the list of the log has each refund the page was told of, though
\* two searches are under way for each.
LogIsCurrent == faults = 0 /\ Resting /\ hasty = {} => shownLog >= told.count

\* At rest the page tells what its own refunds did.
ListsAreCurrent == RefundableIsCurrent /\ LogIsCurrent
=============================================================================
