# TLA+ models of the TWINT plugin for Shopware 6

Specifications of the parts of the plugin in which processes, requests, timers
and failures meet: regular checkout, express checkout, the commands that poll
TWINT, the storefront page that waits for them, the carts of express checkout, refunds on the server and on the
page of the order, the turnover report, and the credentials on the server and on
their page. They are checked with TLC on small instances. Every safety property of theirs is
also proved with TLAPS, for every number of processes, orders, requests, customers and faults; liveness
is checked only.

Paths are relative to `src/src/` of the repository.

- [The system](#the-system)
- [Modules](#modules)
- [Runs](#runs)
- [Fairness](#fairness)
- [Proofs](#proofs)
- [Where code and text disagree](#where-code-and-text-disagree)
- [Not modelled](#not-modelled)
- [Plan](#plan)

## The system

The plugin has no server of its own. PHP requests, `twint:poll` commands started
by requests, a scheduled-task worker and JavaScript in the browser share the shop's
database and talk to TWINT. Nothing locks: the one concurrency control is
`version` of `twint_pairing`, which the trigger of
`Migration1724213001addColumnsToPairingTable` compares on an update that carries
a version and counts up when one of certain columns changes.

| Component | State | Operations | What is hard about it |
|---|---|---|---|
| Regular checkout: `V67/AbstractPaymentMethodHandler`, `PairingService`, `PairingRepository`, `PairingEntity`, `MonitoringService`, `TwintPollCommand` | TWINT order, row of `twint_pairing`, the order's payment transaction | `pay`, `create`, `monitor`, `cancel`, `update`, load, the batch of the scheduled task | several processes on one row; row written before the order; stale copies; timeout against late confirmation; paying again |
| Express checkout: `ExpressPaymentService`, `OnPaidHandler`, `MonitoringService` | check-in at TWINT, its row, the orders placed for it with their TWINT orders and rows | `monitor`, `handle` with its sequence of steps, `markAs*`, cancel | a long sequence without a transaction; some updates carry a version and some do not; a crash in the middle strands an order |
| Poll commands and waiting requests: `CheckoutController::monitor`, `TwintPollCommand` | `created_ago`, `checked_at`, processes | start unless checked lately, rounds, sleep | intervals of three parties have to fit: window, rounds, latency |
| Storefront: `payment-status-refresh.js`, `express-checkout-button.js`, `modal.js`, `loading-popup.js` | one static modal with one close handler, one static clock, a loading popup, an instance with timer, flag and counter for each check-in | click, store, open, ask, answer, close, leave | callbacks of an old instance act on what now belongs to a new one |
| Refunds: `TwintController`, `PaymentService::reverseOrder`, `ReversalHistoryDatabaseWriter`, `twint-payment-actions`, `sw-order-detail-twint` | reversals at TWINT, `twint_reversal_history`, transaction state; the page's form, loader, sum and list | check, index, call, row, answer, transition by the browser; enter, confirm, searches | check and call are far apart; several administrators; partial failure; answers that overtake each other; a form that does not wait for them |
| Turnover report: `OrderTransactionSubscriber`, `TransactionReportService`, `TurnoverReportingTaskHandler` | `twint_transaction_report`, test mode, payment handler identifiers | row on payment, row on refund, daily task | rows written while the task runs; rejected and accepted requests in one run; deletion after sending |
| Settings: `SettingService`, `SystemConfigSubscriber`, `CredentialValidator` | system configuration of all sales channels and of single ones, `validated` beside it | keep the verdict, store, read again, ask TWINT, store the verdict | the verdict is about values that another request may change meanwhile; inheritance |
| Settings page: `twint-settings`, `twint-certificate`, `twint-mode`, `twint-store-uuid`, `sw-file-input` | fields, file and password, uploads under way, the lock of the button | choose, type, upload, test, save | what is tested, what is saved and what is shown come about at different times |
| TWINT client: `ClientBuilder` | a static cache | build | statics in long-lived workers |
| Express cart and customer: `ExpressCheckoutService`, `ContextFactory`, `CustomerRegisterService` | cloned cart, guest customer, cached contexts | clone, register, order, delete | the customer goes on with the cart that is deleted later; a cache across the rows of a batch |
| API calls and their log, encryption, installation, administration UI | log rows, files, configuration | | mostly input/output |

How they interact: the browser's page calls `CheckoutController::monitor`, which
loads the row and may start a `twint:poll` command; commands and the scheduled task
call `monitor()` of the payment service for the kind of row; that asks TWINT,
updates the row and drives Shopware's order-transaction state machine. A
transaction that becomes paid, and a refund, write a row for the report.

What makes each part correct:

- *Regular checkout.* A decision of TWINT reaches the order exactly once; the order is
  paid only if TWINT took the money; a row does not stay in progress for ever; the customer
  is not charged twice.
- *Express checkout.* One check-in gives one order; "done" means paid, and refundable;
  money taken is not forgotten without a fault; a row in progress ends.
- *Express cart.* The order is that of the check-in's customer; nothing is lost or paid for twice behind the customer's back.
- *Polling.* No second command beside one that works, unless a look at the window was impossible; a command ends soon after the timeout.
- *Storefront.* A result is shown to the customer who waits for it; a check-in is
  cancelled only if the customer closed its modal.
- *Refunds.* Never more than the order; history and transaction state tell the truth; the page shows what is left.
- *Report.* Each payment and refund is reported once, and leaves the table.
- *Settings.* TWINT is offered only with credentials that TWINT accepts; the certificate saved is that of the file shown.

Every hazard, at its line, is in `PROJECT.json` with the properties that watch it.

## Modules

| Module | Models | Used by |
|---|---|---|
| `OrderPayment` | abstract promise of regular checkout | refined by `RegularCheckout` |
| `RegularCheckout` | regular checkout of one order, all attempts to pay | `MCRegularCheckout`, `RegularCheckoutProofs` |
| `ExpressCheckout` | one check-in and the orders made of it | `MCExpressCheckout`, `ExpressCheckoutProofs` |
| `ExpressCart` | the carts of customers and check-ins, and the contexts of the processes | `MCExpressCart`, `ExpressCartProofs` |
| `PollSchedule` | the timing of the commands of one regular row, in seconds | `MCPollSchedule`, `PollScheduleProofs` |
| `StatusPage` | the express page in the browser | `MCStatusPage`, `StatusPageProofs` |
| `Refund` | refunds of one order | `MCRefund`, `OrderPage` |
| `OrderPage` | the page of an order in the administration, over the server of `Refund` | `MCOrderPage`, `OrderPageProofs` (proofs about `Refund`, too) |
| `TurnoverReport` | report rows and the daily task | `MCTurnoverReport`, `TurnoverReportProofs` |
| `Settings` | the credentials on the server and the verdict on them | `SettingsPage` |
| `SettingsPage` | the page of the credentials, over the server of `Settings` | `MCSettingsPage`, `SettingsPageProofs` (proofs about `Settings`, too) |
| `…Proofs` | theorems and proofs about the module of that name and the server it is over | |

The `MC` modules only add symmetry sets and values a configuration file cannot write.
`PROJECT.json` maps every definition to its lines.

### RegularCheckout and OrderPayment

One Shopware order. `twint[a]`, `row[a]`, `pay[a]` belong to the attempt `a` of the
customer to pay; `tx` is the state of the order's transaction, shared by all attempts.
A process is a control point `pc[p]`, the attempt it works on, its copies of rows
(`snap`), and the answer of `monitorOrder` (`ans`). A database statement, an API
call and a transition are one step each:

| Action | Code |
|---|---|
| `StartOrder`, `Process`, `CreateRow`, `ShowWaiting`, `PayAborts` | `pay()`: `startOrder`, `process()` on the transaction, insert, `created_at`, redirect; the exception that makes Shopware mark the payment as failed |
| `Retry`, `CustomerCancels` | `PaymentController::showWaiting` for a failed row; `CheckoutController::cancel` |
| `Spawn`, `Load` | the request starts a command; the command reads the row at every round |
| `CronStart`, `NextOfBatch` | `MonitoringService::monitor`: all rows read at once, then one after the other, so that later copies are old |
| `Ask`, `Write`, `Confirm`, `CancelTimedOut`, `Settle` | `PairingService::monitor`: `checked_at` and `monitorOrder`; the update with its version; confirmation; cancellation from the copy taken before; transition of the order |
| `Fault` | the end of a process, or an exception of the API or the database, between any two of these |
| `Expire`, `GoStale` | time: `created_ago` passes 180 s, `checked_at` passes 10 s |
| `CustomerConfirms`, `TwintFails` | TWINT (external) |

A refused transition of Shopware's state machine is a choice between the new state and
the old one with an exception, as the rules are Shopware's. `Spawn` also stands for the
catch branch of `CheckoutController::monitor` (109-112), which starts a command without a look at the
window: `GoStale` may come at any moment, so commands meet as they please.

`OrderPayment` knows three things: TWINT's decision on an attempt, whether the shop owes it
to the order, and the transaction. `RegularCheckout` implements it with the mapping at the
end of the module: a decision is *owed* while a process is at `Settle`, and *lost* if the row is
finished, nothing was applied, and nobody is about to.

### ExpressCheckout

One check-in, its row, and `orders`: every Shopware order placed for it, with the state of its
transaction, its TWINT order, and whether the TWINT order has a row of its own. `monitor()`
of the express service is asked, written and branches as in the code; `handle()` is the
sequence of its calls: order placed, id stored, TWINT order started, waited for and confirmed in
`refreshTwintTransactionStatusUntilDone`, transition, row of the payment, `markAsDone` or
`markAsFailed`.

*DataKept.* Whether the update with the customer's data counts the version up depends on how
Shopware returns a JSON column for the property `?object` of `PairingEntity`: that is outside
this repository, so both cases are checked. If what is read back differs from what
TWINT sent, a second process sees "changed" data again, its update passes the version
check, and a second order is placed for the same cart. `OrderedOnce` and `DoneMeansPaid`
are claimed for the case in which the data are kept; the other invariants for both.

### ExpressCart

Customers with their carts, check-ins with the clones, processes with the context they keep. `cart[c]` and `clone[k]` are sets of
single units; a unit is in one cart at first and then in the clones made of it. That a check-in is handled by one process is
`OrderedOnce` of `ExpressCheckout`, and assumed here: `Enter` takes it from `agreed` to `handled`.

| Action | Code |
|---|---|
| `ExpressCheckout`, `Pairing` | the button: a product from its page only if the cart is empty; then `cloneCart`, which reads the cart once more, and `add` |
| `Enter`, `PlaceOrder`, `UntilDone`, `CleanUp`, `Fault` | `OnPaidHandler::handle`: customer and context, the order of the clone, TWINT's decision, `cleanUpCurrentCart` |
| `End` | cancelled by the customer, by TWINT or at the timeout; a handler that has begun goes on |
| `Put`, `Remove`, `OrderRegularly`, `Agree` | the customer in the shop and in the app (external) |

`cleanUpCurrentCart` deletes whatever is in the cart by then. `late` is history, of what was put there while a check-in of the customer
ran, and `LostWasLate` says that only this can be lost. `met` has the customers with two orders under way at once, by
two check-ins or beside the regular checkout: they may pay for the same cart twice. `OrderedTwiceIsMet` says that nobody else does,
unless a fault has left the cart of a paid check-in where it was. `OrderIsTheCustomers` is about `ContextFactory`: the context of the
customer before is still cached when the next check-in is handled.

### PollSchedule

The same commands seen with a clock that ticks in seconds: page, window of 10 seconds,
command rounds of 2 and, after 300 seconds, 10 seconds, timeout of 180 seconds. `Ask` is
`CheckoutController::monitor`. Its `Look` starts a command if the row is open and was not checked within the window. `Blindly` is its
catch branch (109-122): when the row cannot be loaded or the command not be started, one is started without a look at the row, beside
whatever runs; if that fails too the page is told that all is over. `blind` counts how often that happened. `OneCommand` is about steps: a command
is started beside one that lives only in such a step. What `Blindly` has started stays and checks the row, too, and the property goes on to
hold of every other step.

One page is open, which may be closed and opened again, though not faster than it asks by
itself: a customer who reloads it while a command starts can make it start a second one; a command starts in `Boot` and a round takes at most `Latency` seconds. There is
one waiting page for the row; what two of them start is in `RegularCheckout`. What the properties need of these numbers
has a name: `FastUntilDone`, `180 + 3 * (2 + Latency) <= 300`, so that a command asks every 2 seconds till its row is finished, and
`ChecksOften`, `Boot < 2` and `2 + Latency < 10`. `MCPollSchedule` has both checked for the times of the code, with `Boot` 1 and `Latency` 3
(`TimesOfTheCode`), and for those of the instance (`TimesOfTheInstance`), whose timeout and fast stage are shorter; without any one of these
three inequalities a second command can start, and `RegularCheckout`, where commands meet at any moment, says what that does. Express
rounds wait for the customer without a limit and have no such timing.

### StatusPage

Button, loading popup, modal and close handler are static; an instance of `PaymentStatusRefresh`
belongs to a check-in: `poll` (timer, request under way, stopped), the flag `checking`, `count`, the
answer on its way. `startedAt` is static too; it is kept as the newest check-in of the time it was
set, and `hour` says that this was an hour ago, when `getInterval` returns 0. The server is reduced
to rows that finish at any time.

| Action | Code |
|---|---|
| `Click`, `Store`, `AddProductToCart` | the button behind the loading popup; the row of the check-in; a product that goes into a cart in use instead |
| `Open`, `OpenFails` | the answer that opens the modal with a new instance, or does not |
| `Fire`, `Answer`, `Receive…` | the timer, with `reachLimit` and `checkExpressCheckoutStatus`; the row as it was read; what the instance makes of it, with the modal's content |
| `Close`, `Leave`, `HourPasses`, `Finish` | the customer, the clock, the server |

`onModalClosed` clears the timer, but not a request under way: when its answer comes, the old
instance sets a timer again. From then on it shares the modal with the next
check-in, and both properties name this exception (`cut`); without it they fail.
When the old row has become CANCELLED, as the customer wanted, the old instance closes
the modal, of the next check-in by then, and that one is cancelled too. It may be in the middle of a request itself,
and so be one that goes on for the check-in after it: `CutOff` is the same for both ways to close a modal.

`LaterIsLeftAlone` says that a check-in is cancelled only if the customer closed its modal, and that
the modal tells of a result only of the instance that owns it.

### Refund

Up to three administrators, one request each at a time. A request goes through the check of the
total (`Check`), the index for the reference (`ReadIndex`), the call, the row, the answer with the
action, and the transition the browser makes of it. `retried` tells orders with an earlier,
cancelled transaction, of which the controller takes the first. `EmptySum` is what
`getTotalReversal` yields without rows: 0, or -1 if the sum is null. `met` is history: two requests
were at the server at once. Then both may pass the check before either has a row, and TWINT is asked
for more than the order, or twice with one reference; `AskedOneByOne` says that this is the only way.
`changePaymentStatus` of `PaymentService` is called by nothing and left out.

### OrderPage

What `twint-payment-actions` and `sw-order-detail-twint` show of an order, over the server of
`Refund`: its actions are steps of this module too. `at[a]` is what a request of
the page waits for, `searches[l][n]` how many searches of a list are under way which found `n` when they
were begun. Answers may overtake each other, and an answer is what the database had at the
beginning of its search or has at its end (`Arrives`).

| Action | Code |
|---|---|
| `InitPage` | the searches and the pairing that the created components ask for |
| `HistoryFound`, `LogFound`, `PairingFound`, `SearchFails` | `getReversalHistoryList`, `getTransactionLogList`, `getPairing`, and a search that fails |
| `ShowModal`, `CloseModal`, `Enter`, `Confirm` | the modal, `amountInputChanged`, `refund` |
| `Succeeded`, `Failed`, `Moved`, `NotMoved`, `StatusKnown` | the answer of the refund; `updatePaymentStatus`; the status that tells `refund-finish` once more |
| `Serve`, `Trouble`, `Others` | the server, a fault, an administrator on another page |

The flag `isLoading` is not in the model. It puts a loader over the body of the modal, but neither `refund` nor the disabling of its button,
which is in the footer, asks it: a refund may be confirmed again while TWINT is asked for the first. `Confirm` may therefore come at
any time, and what two requests at once may do is for the properties of the server, `HistoryIsComplete` and `StateTellsRefunds`.
The page has no property that says it asks once, because nothing in it sees to that.

`hasty` remembers the lists that were on their way when something was entered, and those on their way or still to be asked for by an
earlier refund when one was confirmed. The properties except them: they say that there is no other way to be refused for the
amount, or to be left with an old sum.

### TurnoverReport

Rows are a set; a row is reported or not, sums and taxes are left out. `UpdateHandlers` is the
migration that renames the payment handlers, after which `processTransactionReport` no longer
recognizes them. `Store` is `INSTALL_SOURCE`, which `bin/release.sh` sets to the store.
The task computes the sums of both kinds, posts, settles each answer, and deletes the rows
it has read, except those it keeps because of a rejected request.

### Settings

The values of a scope, `own`, are those for all sales channels or those of one, which inherits what
it does not have; `verdict` is the `validated` beside them. A request of Shopware's that saves
is `rq[w]`, and goes through the plugin's listeners:

| Action | Code |
|---|---|
| `Save` | the request with its keys; `validated` may be one of them, with a value or with null (`flag`) |
| `Before` | `onBeforeMultipleSystemConfigChanged`: a value sent for `validated` gives way to the one in force; `isset` does not find a null |
| `Store` | `SystemConfigService::setMultiple`; null removes what the scope had, so that a channel inherits again |
| `Read` | `onMultipleSystemConfigChanged`, `validateCredentials`: the values are read anew, and may not do |
| `Set` | TWINT's answer becomes the verdict of the scope |
| `Fault` | the request ends between any two of these |

Two requests at once can leave a verdict about values that are no longer there. `doubtful`
is history, of the scopes to which something of that kind happened since they were last judged. A request for the same values at the
same time: a request uses the values of its scope and those for all, so that one on another channel does no harm. A request that ended
before its verdict. A null that removed the verdict of a channel with values of its own, which then goes by the verdict for all. New values for all sales
channels under one that has a verdict of its own, which nobody renews. `VerdictTells` says that TWINT accepts what the shop uses for
every scope that has none of this behind it, and neither has the one whose verdict it goes by, and about which no verdict is under way.

### SettingsPage

The page for all sales channels, over the server of `Settings`. The three inputs are components of their own:
`file`, `typed`, `cert`, `uploads` and `loads` belong to `twint-certificate`, `shown` to `sw-file-input`, `switch` to
`twint-mode`, and `fields` is what the page would save. An upload that is under way is known by its file only,
as the answers carry a certificate and come in any order.

| Action | Code |
|---|---|
| `ChooseFile`, `RemoveFile`, `TypePassword` | `onFileChange`, the event of a removed file, `updatePassword` |
| `Uploaded`, `CertificateLoaded` | the answer of `extractPem`; the component's own `loadSettings` |
| `EditMode`, `EditUuid` | the other two inputs |
| `Test`, `Tested`, `Saved` | `onTest` with `checkRequiredFields`, `onSave`, the answer |
| `OthersSave` | a request through the API, for any scope |

`crossed` and `late` are history: a file was chosen or sent while another was under way; the stored certificate
was learned when the button was locked already. `CertificateIsOfFile` and `LockedForPassword` name them, because the
code has nothing against either: the certificate of a file chosen first may arrive last.

## Runs

All runs allow the system to stop (`CHECK_DEADLOCK FALSE`): the customer may do nothing more, and the
bounds on attempts and faults may be reached.

| Run | Instance | Shows |
|---|---|---|
| `regular` | 1 command + scheduled task, 2 attempts, 1 fault, fair | a result is applied once; paid needs TWINT's success; only a fault loses a result, one each; a finished row keeps its status; without faults and overlap TWINT's success is the order's and the customer is charged once; implements `OrderPayment`; every row finishes, and without a fault its result reaches the order |
| `express` | 1 command + scheduled task, 2 orders, 2 faults, data kept or not, fair | one order per check-in; done is paid and refundable, and what is paid becomes done; only faults strand money; a row in progress ends, and so does one a command attends to |
| `express_done` (violation) | 2 commands, no fault | a row that is done becomes cancelled |
| `express_cart` | 2 customers, 3 check-ins, 2 units, worker and command, 1 fault | the customer's cart is deleted only with what came late; paid for twice only if two orders were under way at once; each order in its customer's context |
| `poll_schedule` | the code's window and intervals, timeout of 20 and fast stage of 36 seconds, room for 3 commands, 1 start without a look | a second command only by the catch branch; a command ends its row in time |
| `status_page` | 2 check-ins, questions up to the limit of 2 and past it, 1 error, fair | a check-in is cancelled and told of only by its own instance and customer; a result is shown to who waits for it |
| `refund_safety` | 3 administrators, 3 units, 1 fault | history and state follow TWINT; limit and references hold one by one |
| `order_page` | 2 requests of the page, somebody who refunds one unit, an order of 2 units edited to 3, 1 fault | refused only behind the times; at rest, sum and log tell what the page did |
| `settings` | the page and another writer, 1 channel, 2 files, 3 edits, 1 fault | what TWINT is offered with, it accepts; the page saves the certificate of its file, completely, and does not lock without a way out |
| `turnover` | 1 transaction paid twice, 2 refunds, 2 rejections, 1 crash, fair | nothing is lost but by a rejection, nothing repeated but by trouble, all rows leave |
| `turnover_lost` (violation) | 2 currencies, 1 rejection | rejected for one kind, kept for the other |
| `turnover_handlers` (violation) | as above | no row after the migration |

Why the bounds are enough:

- *Processes.* What is between processes is a comparison of a version. A command that may end and be started again, and the task
  with its batch of older copies, give every order of two writers. With a second command the safety of regular checkout
  passes too, but takes far longer; the theorems hold for any number.
- *Attempts.* Two give "paid again while the first is open"; a third adds nothing new, as attempts
  interact only through `tx`.
- *Check-ins and carts.* Three check-ins: two of one customer and one of the other, or one that comes too late. Two units: one that is in
  the clone and one that is not.
- *Faults.* One fault falls between any two steps; the invariants count them (`<= faults`), so that a
  second one would have to do more harm than the first.
- *Versions* are bounded by themselves: a row changes at most as often as its status can.
- *Questions.* `POLL_LIMIT` is 500; with 2 there are a first, a middle and a last question, and one past the limit.
- *Times.* The window, the two intervals, `Boot` and `Latency` are the code's or our bounds. Timeout and fast stage only have to be in the
  relation of `FastUntilDone`, which holds for the code's as for these. One start without a look puts two commands beside each other; the third place shows that none is started then.
- *Amounts.* Three units: a part, the rest, all, and one more than all. On the page two are enough, as the other
  administrator takes one of them.
- *Order page.* `Careful` leaves out what follows a state in which the history is in `hasty`, which only grows: every property of the
  page excepts it, so that nothing is said of these states. The proofs do not leave them out.
- *Settings.* Three edits are a file, its password and one thing more, by the page or by another writer. Certificates for tests only
  and for both environments make a change of the test mode matter.
- *Currencies.* TWINT takes CHF only; the second currency in `turnover_lost` exercises the
  code that groups by currency.

## Fairness

Assumed, and why:

- The scheduled task runs (`CronStart`, `Run`): Shopware's worker; 60 seconds and a day are the intervals the tasks declare.
- A process that has not stopped goes on: operating system. `Fault` may end it at any step, and nothing restarts it but the task.
- Time passes: `Expire` of the timeout.
- TWINT decides an order it has been asked to start, in `ExpressCheckout` only, where `handle()` waits for it without a limit.
- In the browser timers fire, requests are answered, and answers handled; `HourPasses`, closing and leaving are free.
- None in `ExpressCart`, `PollSchedule`, `Refund`, `OrderPage` and `SettingsPage`, of which only safety is claimed.

The customer, the page and, in `RegularCheckout`, TWINT are under no obligation.

## Proofs

For any number of everything; assumed are only the assumptions the modules name. All of them say what kind of thing a constant is
(the worker is not a command; bounds are natural numbers; a scope for all is not a channel), but for `AcceptedAssumption`:
TWINT accepts no credentials without a certificate or a store UUID. The theorems on `PollSchedule` are implications: they hold for all times
that satisfy `FastUntilDone`, one of them also `ChecksOften`, as those of the code do.

| Module | Theorem | Property |
|---|---|---|
| `RegularCheckoutProofs` | `TypeCorrect` | `TypeOK` |
| | `ResultsAppliedOnce` | `AppliedOnce` |
| | `NothingPaidForNothing` | `PaidNeedsSuccess` |
| | `ResultsStay` | `FinishedForGood` |
| | `LossesAreFaults` | `EachLossIsAFault` |
| | `SuccessIsPaidAlways`, `ChargedOnceAlways` | `SuccessIsPaid`, `ChargedOnce` |
| | `CheckoutImplementsPromise` | `ImplementsOrderPayment` |
| `ExpressCheckoutProofs` | `TypeCorrect` | `TypeOK` |
| | `OrderedOnceAlways` | `OrderedOnce` |
| | `DoneMeansPaidAlways` | `DoneMeansPaid` |
| | `PaidNeedsSuccessAlways` | `PaidNeedsSuccess` |
| | `StrandedAreFaults` | `EachStrandedIsAFault` |
| `ExpressCartProofs` | `LostWasLateAlways` | `LostWasLate` |
| | `OrderedTwiceIsMetAlways` | `OrderedTwiceIsMet` |
| | `OrderIsTheCustomersAlways` | `OrderIsTheCustomers` |
| `PollScheduleProofs` | `TypeCorrect`, `FinishedInTimeAlways` | `TypeOK`, `FinishedInTime` if `FastUntilDone` |
| | `OneCommandAlways` | `OneCommand`, a property of steps, if `FastUntilDone` and `ChecksOften` |
| `StatusPageProofs` | `TypeCorrect`, `LaterIsLeftAloneAlways` | `TypeOK`, `LaterIsLeftAlone` |
| `OrderPageProofs` | `TypeCorrect`, `AskedOneByOneAlways` | `TypeOK`, `AskedOneByOne` of `Refund` |
| | `HistoryIsCompleteAlways` | `HistoryIsComplete` of `Refund` |
| | `StateTellsRefundsAlways` | `StateTellsRefunds` of `Refund` |
| | `ServerUnderPage` | the two before, for the server under the page |
| | `PageTypeCorrect` | `PageTypeOK` |
| | `RefusedOnlyBehindAlways`, `ListsAreCurrentAlways` | `RefusedOnlyBehind`, `ListsAreCurrent` |
| `TurnoverReportProofs` | `TypeCorrect`, `ReportedOnceAlways` | `TypeOK`, `ReportedOnce` |
| `SettingsPageProofs` | `TypeCorrect`, `VerdictTellsAlways` | `TypeOK`, `VerdictTells` of `Settings` |
| | `PageTypeCorrect` | `PageTypeOK` |
| | `CertificateIsOfFileAlways` | `CertificateIsOfFile` |
| | `PageIsJudgedAlways` | `PageIsJudged` |
| | `LockedForPasswordAlways` | `LockedForPassword` |
| | `PageImplementsSettings` | `SpecPage => Spec` of `Settings` |

Every inductive invariant was an invariant of a run of TLC first. Two of them did not hold as the properties had them, for
bounds had hidden a case. With three check-ins on a page, an instance that was cut off by the end of the one before is in
the way of the third; `StatusPage` knew only those that the customer had cut off. And `LogIsCurrent` of `OrderPage` claimed more than the page keeps: once
something was entered while the history was on its way, a second refund may be under way, whose searches of the log answer in any order.

### Regular checkout

None of the safety properties is inductive: a process at `Write` holds an answer and a copy about which they say
nothing. `IInv` adds what the optimistic lock rests on:

- `RowOK`: how the TWINT order, the row, the handler and the applied result of an attempt go together; a finished row has TWINT's final status.
- `SnapOK`: a copy of a pending row is no newer than the row, and if the versions agree, so do the statuses. A write that passes the version check therefore replaces a pending status.
- `ProcOK`: a process works on a row that exists, has an answer exactly when it has asked, and at `Settle` holds the row's own final result, not yet applied.
- `BatchOK`: the task still holds a copy of each row of its batch.
- `OneSettler`: two processes at `Settle` are on different attempts.
- `PaidNeedsSuccess`.

There is a lemma for each group of actions (`ShopStep`, `QuietStep`, `SpawnStep`, `LoadStep`, `CronStartStep`, `AskStep`,
`WriteStep`, `CallStep`, `SettleStep`, `FaultStep`), combined in `Inductive`. `WriteStep` is where `SnapOK` is used: of two
writers with the same copy the second meets a higher version. `LossesAreFaults` needs, beyond
`IInv`, that a step which is not a fault adds no lost result and that a fault adds one at most
(`OldLoss`, `NoNewLoss`), with facts on cardinalities.

`SuccessIsPaid` and `ChargedOnce` rest on `Turns`. While there is no fault and no payment was started before the last result had
reached the order, every attempt but the latest is over with a cancelled result, and the transaction tells how far the latest is.

`CheckoutImplementsPromise` maps an attempt to `owed` while a process is at `Settle` for it. `Untouched` is the frame: most steps change
neither the end of a row, nor the results applied, nor who is at `Settle`. The other steps are `WriteImplements` (the shop learns the
decision), `SettleImplements` (applies it), `FaultImplements` (loses it) and `TwintImplements` (TWINT begins or decides).

### Express checkout

The invariants build on each other, each inductive with the ones before:

- `DataInv`: a check-in keeps its data and its end. What a process has read of the row is no newer than the row, and if the versions
  agree, it is the row's. So a process whose copy has the data never sees them arrive.
- `OrdersAreOwned`: an order belongs to the process that placed it, and to no other; what this process knows of it is true (`Knows`). Hence
  `PaidNeedsSuccess`.
- `OneOrder`, if the data are kept: without data in the row there is no order; with them one process may place one, once. That is `OrderedOnce`,
  and it is the version check of the update (`InvPlace`, `OneWorker`).
- `PointsThere`: the row points to the order of the process that will finish it; done, to one that is paid and at rest.
- `CalmTells`: while there is no fault, no timeout and no end of the check-in, nobody cancels, and what is paid is done or on its way.
  With `PointsThere` that is `DoneMeansPaid`.
- `TakenIsHeard`: TWINT takes the money of an order only while its process is about to hear of it. So no step but a fault
  strands an order, and a fault one at most.

Most steps change nothing that an invariant speaks of; `GoesOn`, `Quiet`, `NothingNew` and `OneNew` are frames that say so once, and the proofs
go through the handler's steps only where they do.

### Settings and their page

A request is `alone` while no other is active on the values it uses. `AloneOK` makes its copies good: the verdict it puts back is the one in force (`KeptOK`),
what TWINT judges is what is stored when the answer comes (`ReadOK`). A scope is `Settled` when no verdict on it is under way or in doubt. Then, if it is
valid by a verdict of its own, TWINT accepts what it uses (`JudgedOK`), and a channel without a verdict has no values of its own either (`InheritsOK`).
`VerdictTells` follows from the two.

`PageImplementsSettings` says that the page does with the server what any client may, so `VerdictTells` holds there too. For the page itself
`UploadsOK` ties the uploads to the file shown, and `RequestOK` the page's request to a full set of keys.

### Express cart

`IInv` follows the units. `OneWay`: a unit is on the shelf, in the cart of one customer and the clones of this customer's
check-ins, or bought and in no cart. `Reserved` is for the product of a check-in whose clone is not made yet, which is nowhere else.
`CloneIsCart` says that while a check-in runs, its customer's cart is in the clone but for what is `late`; that is `LostWasLate`, as
`cleanUpCurrentCart` deletes what is in the cart and the order has what is in the clone. `CountedOnce` says the same of what two check-ins share.

### Poll schedule

`InTime` has an end for what a command does: before it has read the row as too old, that is soon after the timeout, afterwards one cycle of
`Fast + Latency` later, and one more when TWINT has a result. `Covers` is about one living command: while the row is open, the page waits longer than a command
that boots needs, or the next check is within the window of the last. So a page that asks while a command lives finds the window still open, and
starts nothing, unless it cannot look. It does not matter how many commands live.

### Status page

`AskersOpen` and `AskersClosed`: who still asks is in the modal or was cut off before. They rest on the loading popup, which covers the buttons
(`OneModal`), on the order of check-ins (`Newest`), and on answers that a final row cannot belie (`Replies`).

### Refunds

`AskedOneByOne` is about requests one at a time, which is `Alone`. Then the rows have what TWINT has given back, but for the row that
is about to be written (`RowsTell`, without faults), and the next index is free unless a fault took the row of its last use (`References`,
which counts such faults).

`Whole` is about any number of requests at once. `Rows`: what the rows lack of TWINT's sum is what is about to be written, and faults. To
say so takes the sum of the amounts over the requests that write. `IsSum(T, w, n)` says that `n` is that sum, as there is a function on the subsets of `T`
that starts with 0 and adds up one member after the other; that it gains and loses a member
(`SumAdd`, `SumRemove`) needs no induction over sets. `Told`: what a request has seen and will do about the state of the transaction is
true of the rows. `Shown`, without faults: while the state is behind the rows, somebody is about to set it.

### Order page

`PageInv` has `Whole`, which `ServerSteps` and `ServerUnderPage` carry over: the page does with the server what the module `Refund` allows, and a search that fails
is a fault that changes nothing. For the page itself:

- `Owes`: what the page was told of, and what its own requests will tell it, TWINT has made.
- `InForm`: as long as nothing was entered or confirmed with a sum on its way or to come, the page has one refund at the server at most, no search beside it, and what was entered was compared with the sum shown.
- `SumShown`, `LogShown`, without faults: what is shown, and any answer on its way, has at least what the page was told of.
- `LogAlone`: a refund that waits for its answer has no search of the log beside it.

### Turnover report

`IInv` has the numbers of rows (`Numbered`), what a run holds of them at each point (`RowsRead`) and which answers it has (`Answered`). `Ledger` counts how often a row was
taken by TWINT: at most once more than there were rejections and crashes. Of a row that is still in the table it says more, as it may be taken again: each time it was taken
a rejection or a crash has kept it, but for the last time if that was in the run that goes on; and a rejection in this run has not kept anything yet.

### Only model-checked

Liveness, as fairness and `ENABLED` are out of the prover's reach: `RowsFinish`, `ResultReachesOrder`, `InProgressEnds`, `AttendedEnds`, `ResultIsShown` and `RowsLeave`.
Their fairness is that of the section above. The three violations are TLC's as well. No module declares a RECURSIVE operator.

## Where code and text disagree

- `DoneForGood`: "validate $data to make sure always has version" (`PairingRepository.php:111`), but `markAsDone`, `markAsFailed`,
  `markAsCancelled` carry none, and a slower process cancels a done row.
- `NothingLost`: the task logs the currencies whose report failed and keeps the rows of these currencies, but of the
  other kind: rejected refunds keep payments, rejected payments keep refunds.
- `PaymentsLeaveRows`: the migration of the handlers says old is new; the report knows only the old identifiers.

Without a run of their own:

- "The refund amount cannot exceed the order amount", says the message (`messages.en-GB.json:52`), and the check is there; two requests at once both pass
  it (`AskedWithinLimit` of `Refund`, which `AskedOneByOne` claims for one at a time).
- "This value should not be updated via API call", says `SystemConfigSubscriber.php:91` of `validated`; line 101 asks with `isset`, which
  does not find a null: the verdict of a channel can be removed that way, and the channel goes by that of all sales channels with credentials of its own (`Doubts` of `Settings`).
- The remark on an amount of the wrong format is always overwritten by the comparison that follows it in `amountInputChanged`.
- The comment in `TwintPollCommand.php:67` has 5 seconds for the first 3 minutes, the code 2 seconds for 5 minutes.

## Not modelled

- `finalize()`: the plugin never hands out the URL that leads there.
- Log rows, API wrapper, encryption, conversion of certificates: they record, rethrow or compute; a failing call is a fault of its caller.
- The wait of `CheckoutController` for `is_ordering`, which only delays an answer; the shipping options and prices of a cloned cart.
- Installation and migrations, except the trigger, the view of `created_ago`, and the renamed handlers.
- The cache of `ClientBuilder`: it never reads again, so that a statement about it would only repeat that a worker keeps what it has.
- The settings page for a single channel, the page of the express buttons, rounding of amounts, and where the express button is shown.
- The data of the guest customer whom `CustomerRegisterService` registers: a function of TWINT's answer.
- The listeners to single keys for older versions of Shopware (`SystemConfigSubscriber.php:48-71`).
- A null transaction id in `PairingService::monitor` (`PairingService.php:131-140`): the row is finished and nothing is applied. It takes an order whose
  transactions with TWINT are gone; that of `RegularCheckout` keeps the one it was placed with.
- The guard of `TransactionReportService.php:44` against versions of an order that are not the live one.
- A second waiting page of the same row in `PollSchedule`.
- Depth of the recursion in `refreshTwintTransactionStatusUntilDone`: the models have TWINT decide some day.
- The regular page's own loop in JavaScript beyond its timing in `PollSchedule`.

## Plan

Done, in this order: `RegularCheckout` with `OrderPayment` and its proofs, as the money depends on it; `ExpressCheckout`; `TurnoverReport`; `Refund`;
`PollSchedule`; `StatusPage`; `Settings` and `SettingsPage` with their proofs; `OrderPage`; `ExpressCart`; the proofs on refunds, express checkout
and the refinement of `OrderPayment`; the proofs on the turnover report, refunds at once, carts, the schedule and both pages.

Next, in this order:

1. An abstract specification for express checkout (one check-in, one order, one outcome), refined by `ExpressCheckout`.
2. `Refund` composed with `TurnoverReport`: refund rows written by `reverseOrder` also for a refused refund, and the payment row of an
   order's first transaction when the second is the one paid.
3. `PluginLifecycle`: install, activate, deactivate, update, uninstall with the installers and the order of migrations.
   Property: the handlers and rules a shop has do not depend on the path by which it got there.

A proof that `ExpressCheckout` implements the first of these would rest on `OneOrder` and `PointsThere`.
