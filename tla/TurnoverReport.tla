---------------------------- MODULE TurnoverReport ----------------------------
(***************************************************************************)
(* The turnover reported to Shopware: a row for every transaction that is  *)
(* paid and for every refund, and the daily task that sends the sums of    *)
(* the rows, one request for each kind and currency, and deletes what it   *)
(* has sent.                                                               *)
(*                                                                         *)
(* Rows are written only for a build released to the store, in live mode,  *)
(* and when the payment method has one of the two handler identifiers the  *)
(* service knows; the migration UpdateHandlers renames both.               *)
(***************************************************************************)
EXTENDS Naturals, FiniteSets

CONSTANTS
    Txs,          \* transactions paid with TWINT
    Currencies,
    CurrencyOf,   \* the currency of a transaction's order
    Store,        \* Settings::INSTALL_SOURCE is STORE: set by bin/release.sh
    MaxPaid,      \* bound on how often a transaction is paid (it may be reopened)
    MaxRefunds,   \* bound on the refunds tried for a transaction
    MaxRejected,  \* bound on the requests that are rejected
    MaxCrashes    \* bound on the crashes of the task

ASSUME CurrencyAssumption == CurrencyOf \in [Txs -> Currencies]
ASSUME StoreAssumption == Store \in BOOLEAN
ASSUME BoundsAssumption ==
    /\ MaxPaid \in Nat \ {0} /\ MaxRefunds \in Nat
    /\ MaxRejected \in Nat /\ MaxCrashes \in Nat

VARIABLES
    handler,   \* the payment method's handler identifier, before and after UpdateHandlers
    testMode,  \* the setting
    paid,      \* how often a transaction was paid
    refunds,   \* how many refunds were tried
    rows,      \* table twint_transaction_report
    pc,        \* what the task does next
    ids,       \* the rows it has read, of each kind
    answer,    \* what became of its requests
    taken,     \* the rows whose sums the API has accepted, and how often
    lost,      \* the rows that were deleted without that
    rejected,  \* requests rejected so far
    crashes

task == <<pc, ids, answer>>
ledger == <<taken, lost, rejected, crashes>>
vars == <<handler, testMode, paid, refunds, rows, task, ledger>>

Kinds == {"paid", "refund"}
Row == [tx : Txs, kind : Kinds, no : 1..(MaxPaid + MaxRefunds)]

\* taken is counted up to one more than ReportedOnce allows.
TakenCap == 2 + MaxRejected + MaxCrashes

\* What a transaction has in the table: getPaidTransactionReportId.
PaidRows_Never(t) == {}
PaidRows(t) == {r \in rows : r.tx = t /\ r.kind = "paid"}

\* The rows of one request.
Group(kind, c) == {r \in ids[kind] : CurrencyOf[r.tx] = c}

\* processTransactionReport: the conditions of its early return.
Known == handler = "old"
Reporting == Store /\ ~testMode /\ Known

-----------------------------------------------------------------------------
Init ==
    /\ handler = "old"
    /\ testMode = FALSE
    /\ paid = [t \in Txs |-> 0]
    /\ refunds = [t \in Txs |-> 0]
    /\ rows = {}
    /\ pc = "idle"
    /\ ids = [k \in Kinds |-> {}]
    /\ answer = [k \in Kinds |-> [c \in Currencies |-> "none"]]
    /\ taken = [r \in Row |-> 0]
    /\ lost = {}
    /\ rejected = 0
    /\ crashes = 0

\* The shop updates to the version with Migration1757387138UpdateHandlers.
UpdateHandlers ==
    /\ handler = "old"
    /\ handler' = "new"
    /\ UNCHANGED <<testMode, paid, refunds, rows, task, ledger>>

SwitchMode ==
    /\ testMode' = ~testMode
    /\ UNCHANGED <<handler, paid, refunds, rows, task, ledger>>

\* A transaction enters the state paid.  The row it has is written again with
\* the same amount, a new one only if it has none.
Pay(t) ==
    /\ paid[t] < MaxPaid
    /\ paid' = [paid EXCEPT ![t] = @ + 1]
    /\ rows' = IF Reporting /\ PaidRows(t) = {}
               THEN rows \cup {[tx |-> t, kind |-> "paid", no |-> paid[t] + 1]}
               ELSE rows
    /\ UNCHANGED <<handler, testMode, refunds, task, ledger>>

\* PaymentService::reverseOrder.  Its finally block writes a new row, also
\* when TWINT refused the refund.
Refund(t) ==
    /\ paid[t] > 0
    /\ refunds[t] < MaxRefunds
    /\ refunds' = [refunds EXCEPT ![t] = @ + 1]
    /\ rows' = IF Reporting
               THEN rows \cup {[tx |-> t, kind |-> "refund", no |-> refunds[t] + 1]}
               ELSE rows
    /\ UNCHANGED <<handler, testMode, paid, task, ledger>>

-----------------------------------------------------------------------------
(***************************************************************************)
(* TurnoverReportingTaskHandler::run.                                      *)
(***************************************************************************)
\* getPaidTransactionReportIds.
StartRun ==
    /\ pc = "idle"
    /\ ids' = [ids EXCEPT !["paid"] = {r \in rows : r.kind = "paid"}]
    /\ pc' = "refunds"
    /\ UNCHANGED <<handler, testMode, paid, refunds, rows, answer, ledger>>

\* getRefundTransactionReportIds, the sums and the requests, one for every
\* currency a kind has rows of.
Post ==
    /\ pc = "refunds"
    /\ ids' = [ids EXCEPT !["refund"] = {r \in rows : r.kind = "refund"}]
    /\ answer' = [k \in Kinds |-> [c \in Currencies |->
                     IF Group(k, c)' # {} THEN "pending" ELSE "none"]]
    /\ pc' = "settle"
    /\ UNCHANGED <<handler, testMode, paid, refunds, rows, ledger>>

\* The API takes the sum of a request, or the request is rejected.
Accept(k, c) ==
    /\ pc = "settle"
    /\ answer[k][c] = "pending"
    /\ answer' = [answer EXCEPT ![k][c] = "fulfilled"]
    /\ taken' = [r \in Row |->
                    IF r \in Group(k, c) /\ taken[r] < TakenCap THEN taken[r] + 1 ELSE taken[r]]
    /\ UNCHANGED <<handler, testMode, paid, refunds, rows, pc, ids, lost, rejected, crashes>>

Reject(k, c) ==
    /\ pc = "settle"
    /\ answer[k][c] = "pending"
    /\ rejected < MaxRejected
    /\ answer' = [answer EXCEPT ![k][c] = "rejected"]
    /\ rejected' = rejected + 1
    /\ UNCHANGED <<handler, testMode, paid, refunds, rows, pc, ids, taken, lost, crashes>>

\* The currencies whose rows of a kind are kept.  The lists are mixed up:
\* the rejected refunds keep the paid rows, and the other way round.
Kept_Unanswered(kind) ==
    LET asked == IF kind = "paid" THEN "refund" ELSE "paid"
    IN  {c \in Currencies : answer[asked][c] # "fulfilled"}
Kept(kind) ==
    LET asked == IF kind = "paid" THEN "refund" ELSE "paid"
    IN  {c \in Currencies : answer[asked][c] = "rejected"}

\* TransactionReportService::deleteReports.
ToDelete(kind) == {r \in rows \cap ids[kind] : CurrencyOf[r.tx] \notin Kept(kind)}

Delete(kind, next) ==
    /\ rows' = rows \ ToDelete(kind)
    /\ lost' = lost \cup {r \in ToDelete(kind) : taken[r] = 0}
    /\ pc' = next
    /\ UNCHANGED <<handler, testMode, paid, refunds, taken, rejected, crashes>>

DeletePaid ==
    /\ pc = "settle"
    /\ \A k \in Kinds, c \in Currencies : answer[k][c] # "pending"
    /\ Delete("paid", "delete")
    /\ UNCHANGED <<ids, answer>>

Forget ==
    /\ ids' = [k \in Kinds |-> {}]
    /\ answer' = [k \in Kinds |-> [c \in Currencies |-> "none"]]

DeleteRefunds ==
    /\ pc = "delete"
    /\ Delete("refund", "idle")
    /\ Forget

\* The worker ends, or the database fails; the next run starts anew.
Crash ==
    /\ pc # "idle"
    /\ crashes < MaxCrashes
    /\ crashes' = crashes + 1
    /\ pc' = "idle"
    /\ Forget
    /\ UNCHANGED <<handler, testMode, paid, refunds, rows, taken, lost, rejected>>

-----------------------------------------------------------------------------
Run == StartRun \/ Post \/ DeletePaid \/ DeleteRefunds
           \/ (\E k \in Kinds, c \in Currencies : Accept(k, c))

Next ==
    \/ UpdateHandlers \/ SwitchMode
    \/ \E t \in Txs : Pay(t) \/ Refund(t)
    \/ Run
    \/ \E k \in Kinds, c \in Currencies : Reject(k, c)
    \/ Crash

Spec == Init /\ [][Next]_vars

\* The task runs every day, and a request that is not rejected is accepted.
FairSpec == Spec /\ WF_vars(Run)

-----------------------------------------------------------------------------
\* With the one row for the payment that a transaction may have.
TypeOK ==
    /\ handler \in {"old", "new"}
    /\ testMode \in BOOLEAN
    /\ paid \in [Txs -> 0..MaxPaid]
    /\ refunds \in [Txs -> 0..MaxRefunds]
    /\ rows \subseteq Row
    /\ \A t \in Txs : Cardinality({r \in rows : r.tx = t /\ r.kind = "paid"}) <= 1
    /\ pc \in {"idle", "refunds", "settle", "delete"}
    /\ ids \in [Kinds -> SUBSET Row]
    /\ answer \in [Kinds -> [Currencies -> {"none", "pending", "fulfilled", "rejected"}]]
    /\ taken \in [Row -> 0..TakenCap]
    /\ lost \subseteq Row
    /\ rejected \in 0..MaxRejected
    /\ crashes \in 0..MaxCrashes

\* Rows that are written while the task computes its sums and waits for the
\* answers are in none of them: only with a rejected request can a row be
\* deleted that was not reported.  A row is reported again only after a
\* rejected request or a crash between the answers and the deletion, and no
\* more often.
ReportedOnce ==
    /\ lost # {} => rejected > 0
    /\ \A r \in Row : taken[r] <= 1 + rejected + crashes

\* "Failed to report turnover for ..." (TurnoverReportingTaskHandler.php:101),
\* and the rows of the rejected currencies are kept: nothing is deleted that
\* was not reported.
NothingLost == lost = {}

\* The daily task gets every row out of the table once requests are not
\* rejected any more.
RowsLeave == \A r \in Row : r \in rows ~> r \notin rows

\* "old handler => new handler" (Migration1757387138UpdateHandlers.php:24): the
\* payment methods go on as before, and in a shop of the store in live mode a
\* payment leaves a row.
PaymentsLeaveRows ==
    [][\A t \in Txs : Store /\ ~testMode /\ paid'[t] > paid[t] =>
                    \E r \in rows' : r.tx = t /\ r.kind = "paid"]_vars
=============================================================================
