# A specification of the invoice backend

This directory holds TLA+ models of the Express/Prisma invoice backend in `src/`, the
configurations that check them with TLC, and proofs checked by TLAPS. Every definition
that models code is listed in `PROJECT.json` under `map`, with the lines it stands for.

The program is an HTTP API on PostgreSQL (Prisma 7, default isolation READ COMMITTED),
with a webhook for Stripe and a set of scheduled jobs. It has no tests. Each request is
an async function; every `await` on the database or on an outside service is a point
where other requests run. Most handlers read a row, check what they have read, and
update the row by its id; some wrap several statements into an interactive transaction.
Nothing takes an explicit lock.

## Inventory

### Components, their state and operations

| Component | State | Operations | Code |
|---|---|---|---|
| Invoice numbering | `Business.invoicePrefix`, `nextNumber`; the numbers of stored invoices under UNIQUE (userId, number) | allocate a number in the transaction that creates an invoice (create, duplicate, recurring run); edit prefix and counter | `modules/invoice/invoice.helpers.ts`, `modules/business/business.service.ts` |
| Invoice lifecycle | `Invoice.status`, `total`, `paidAmount`, `balanceDue`, `deletedAt` | create, send, remind, edit, change status, duplicate, delete; view in the portal; fall overdue | `modules/invoice`, `modules/portal/portal.helpers.ts`, `services/notification` |
| Payments | `Payment.status`, `amount`, `method` | record, change status, cancel; recompute the invoice | `modules/payment` |
| Stripe checkout | `Payment` rows with method STRIPE; sessions at Stripe | open a session (owner or portal); session completed, session expired | `services/billing/stripeCheckout.service.ts`, `modules/portal` |
| Invoice totals | items, tax rate and discount of an invoice | `calculateTotals`; what creations, edits and copies let through and store | `modules/invoice/invoice.helpers.ts`, `invoice.validation.ts` |
| Recurring schedules | `RecurringSchedule.isActive`, `frequency`, `nextRunAt`, `lastRunAt` | create, edit, (de)activate, delete, run by hand, run when due | `modules/recurring` |
| Scheduled jobs | `running` flag; BullMQ queue | interval tick, trigger by an administrator, worker with retries; jobs overdue, subscription_expiry, recurring in that order | `services/jobs`, `infrastructure` |
| Plans and subscriptions | `Subscription.plan`, `status`, Stripe ids, period; requests in the activity log | plan checkout, four kinds of Stripe events, offline request, change by an administrator; limit checks before creations | `services/billing/*`, `modules/admin` |
| Clients and portal | `Client.email`, `isActive`, `deletedAt`, `portalEnabled`, `portalToken` | create (or restore), edit, (de)activate, restore, delete, new token; resolve a token | `modules/client`, `modules/portal` |
| Accounts, administration | `User.role`, `isActive`, `deletedAt`; `Session` | register, sign in, revoke, delete account; status, role, plan and deletion by staff; bootstrap of profile and subscription | `modules/auth`, `modules/admin`, `services/user` |
| Notifications, audit log | `Notification` rows (reminders are looked up before they are sent again), `ActivityLog` rows (an offline request is pending by them) | append, list, mark read, delete | `modules/notification`, `services/notification`, `services/audit` |
| Email, PDF, storage, marketing, configuration, HTTP layer | none that the rules above depend on | - | the rest |

### How they interact

- Creations (by the owner, by duplication, by a recurring run) all go through
  `allocateInvoiceNumber`; the counter is the one row all creations of an owner share.
- Payments change an invoice only through `syncInvoiceFromPayments`, inside the
  transaction that changes the payment. The owner's manual changes of status write
  `paidAmount` and `balanceDue` too, without looking at payments.
- Stripe calls back: `checkout.session.completed` and `.expired` carry the id of a payment
  row; they come late, more than once and in any order.
- The overdue job and the portal view write a status they decided on from an earlier read.
- Recurring runs are started by hand, by the interval, by a BullMQ worker and by an
  administrator, with no mutual exclusion among them.
- Subscription events, administrators and offline requests write one `Subscription` row.

### What is hard, and what makes each component correct

- *Numbering*: concurrent creations, rollbacks, an edit under way. Numbers unique per
  owner; the counter is ahead of all of them; no gaps; contention never stops everybody.
- *Ledger*: many writers of the same three columns, late webhooks, manual entries.
  Balance, paid amount and status agree; payments in never exceed the total; deleted and
  cancelled invoices stay so; a recomputation does not lose a payment.
- *Recurring and jobs*: one invoice per due period; every due schedule eventually runs;
  one bad schedule or job does not stop the others; a retry does not repeat.
- *Subscriptions*: the row reflects Stripe's latest state; limits hold; one request pends.
- *Clients*: one live client per email and within the plan; a token gives access exactly
  while its client is live and enabled; no active schedule of a deleted client.
- *Accounts*: there is always an active super admin; a deactivated or deleted user has no
  session; every user has a profile and a subscription.

`PROJECT.json` lists the hazards with their lines and the properties that watch them.

## Modules

| Module | What it is |
|---|---|
| `InvoiceSeries` | abstract: a counter and a set of numbers, one atomic step per issued invoice |
| `InvoiceNumbering` | the transactions that create invoices and the edit of the profile, statement by statement; implements `InvoiceSeries` |
| `InvoiceNumbering_proofs` | theorems about it |
| `LedgerRules` | operators shared by the two ledgers: status tables, rounding, checks, recomputation |
| `InvoiceLedger` | one invoice, its payments and its Stripe sessions; one action per handler |
| `InvoiceLedger_proofs` | theorems about it |
| `InvoiceViews`, `InvoiceViews_proofs` | what owner, client and staff are shown of the ledger's rows; pages of a list |
| `InvoiceTotals`, `InvoiceTotals_proofs` | `calculateTotals`, validation and defaults; what is stored |
| `LedgerConcurrency` | the same handlers cut into SQL statements, several requests at once, crashes; with one request at a time it implements `InvoiceLedger` |
| `LedgerConcurrency_proofs` | theorems about it, and that refinement |
| `RecurringSchedules` | schedules, their clients and templates, the workers that run due ones, manual runs |
| `RecurringSchedules_proofs` | theorems about it |
| `Accounts`, `Accounts_proofs` | users, their sessions, what staff do to them, the bootstrap of profile and subscription |
| `Subscriptions` | the Subscription row: Stripe's events, checkouts, staff, offline requests, reminders |
| `Clients` | clients, their limit and portal links; composed with `Subscriptions`, which changes the plan meanwhile |
| `Clients_proofs` | theorems about both |
| `MCInvoiceLedger`, `MCLedgerConcurrency`, `MCAccounts`, `MCWorkspace` | symmetry, budgets and state constraints for the runs |

Definitions named `...` after a comment that begins with *Faulty* are variants of the
definition that follows, with a bug that could plausibly be written there. No
specification uses them; replacing the definition by its variant shows that the property
in question depends on the code (`PROJECT.json`, `mutants`).

### InvoiceNumbering

A request is `idle`, or between two statements: `allocated` (it has read the profile and
formed a number), `locked` (it has incremented, and holds the row's lock), `inserted`
(its invoice passed the UNIQUE key); or `editing` (it has read the profile and checked
the input). `nextNumber` and `prefix` are the *committed* row: an uncommitted increment is
visible to nobody, which `Commit` reflects by incrementing only then, from the value
committed by then, as PostgreSQL re-reads a row it had to wait for. A number is the pair
(prefix, n). A collision at the key, a time limit and a lost connection all undo the
transaction (`RejectDuplicate`, `Abort`).

Handlers before and after the transaction (plan limits, dates, audit log) do not touch the
counter and are left out.

### InvoiceLedger and LedgerRules

Money is an integer number of cents. The program uses doubles; every stored amount went
through `roundMoney`, and in the range validation admits (at most 99,999,999.00) such
doubles compare like their cents. Where the program compares before it rounds
(the part paid of a manual PARTIALLY_PAID) the model keeps tenths of a cent (mills) and
rounds as the code does. `recordPayment` also rounds only when it stores, but there the
checks bound the unrounded amount by a balance in whole cents and validation asks for at
least 0.01, so the outcomes are those of whole cents.

`ABSENT` and `REMOVED` stand for rows that do not exist yet or any more. `sessions` is what
Stripe knows: a session opened for a payment can be paid or expire, once and for all, and
its event can be delivered any number of times from then on. `byHand` is a history
variable: the latest writer of the money columns was the owner's change of status and not
a recomputation, in which case the payments need not explain them.

A handler is one action, with all it writes: `UpdatePaymentStatus` includes the
recomputation, `StripeCheckout` fails earlier pending payments even when the rest is
refused or the process dies (which may leave the new row PENDING without a session),
`CheckoutCompleted` refuses what does not fit. Handlers that end in an error
before their first write are no steps.

### LedgerConcurrency

The same handlers, from the same operators, one SQL statement per step. A request keeps in
`local` what it will write: the row of a payment (`For`) or columns of the invoice
(`Writing`), with their new values; which columns a statement may have at hand is in
`WorkAt`. Reads see committed rows, and the
transaction's own row (`Visible`); an update of a payment row takes its lock until the end
of the transaction; the update of the invoice and the commit that follows it are one step,
since nothing comes between them but a failure, which `Crash` covers. The two reads of a
recomputation that run in one `Promise.all` are one step, and so are the reads of invoice
and payments in `assertCanCompletePayment`. Updates name rows by id and write
the columns they name whatever these are by now.

History variables: `stale` holds the transactions whose sum of the payments was overtaken by
another change of a completed payment before they committed. `marks` says what may have
put the invoice out of step with its payments: money entered by hand (`byHand`), a
cancellation or expiry that hit a payment completed since it was read (`raced`), a
recomputation that committed a stale sum (`overlapped`); a recomputation that nothing
overtook clears these. `edited` stays once an edit has changed the total.

### RecurringSchedules

A *worker* is a caller of `runScheduledJobs`: the interval (`Ticker`; its `running` flag is
why a worker starts only when it is idle), an administrator's inline trigger, which is not
kept from overlapping with it, or a queue worker, whose retries are new starts. `started`
covers the jobs before the recurring one, whose failure ends the run; `listed` is the loop
over the schedules found due, in `batch`. `checked[a]` is the schedule whose checks a worker
or a manual request has passed and whose transaction is still to come. The checks are
several reads in a row, taken here as one; between them and the transaction anything may
happen. A schedule deactivated in that gap is invoiced all the same but keeps its dates
(`Marked`); one deleted in it makes the transaction fail on the foreign key.

Time counts in units far longer than a transaction's limit of 5 seconds. The loop goes
through the batch in any order (the code follows the dates as listed): no property depends
on it. Each schedule has a client and an owner of its own; `room` is the only thing kept of
the owner's plan, and changes freely. How many schedules a plan allows is not modelled: an
owner may always create or activate one more. `lastRunAt` is never read, and left out.
`billed` is a history variable.

### InvoiceTotals

Pure operators. Results are in cents; quantities, rates, percentages and fixed discounts
have up to three decimals and are in thousandths. `Rounded(n, d)` is `roundMoney` of the
fraction n/d of a cent, a half going up. The program computes with doubles and adds
`Number.EPSILON` to get the same; how far doubles depart from exact numbers is outside the
model. `ValidCreation` and `ValidUpdate` are the two schemas, `Create`, `Update` and `Copy`
what the handlers merge and store. The ledger's `Totals` are values of `Total` for concrete
invoices (`MCTotals`).

### InvoiceViews

The filters over the ledger's rows of `listInvoices`, `getInvoiceDetail`, `getInvoiceStats`,
`remindInvoice`, `listPayments`, `getPaymentDetail`, `getPaymentStats`, `getClientDetail`,
the portal's list, detail and download, and the staff's `getUserDetail` and
`getPlatformStats`, each spelled as its handler spells it. There is one invoice, so that a
list has at most one row. The statistics of `getClientDetail` are those of the invoice's
client; its `outstandingBalance` is *not* that of `getInvoiceStats`, and
`ClientDetailAgrees` says how the two differ: by the balances of drafts, cancelled and
refunded invoices, which take no payment. Not among the readers are charts and sums by
month, the invoices of a schedule (`listScheduleInvoices` and its count), and the totals of
the marketing pages, whose filters are those of `getPlatformStats`. `ViewsAgree` is an
invariant of `InvoiceLedger`'s specification and speaks of the readers above only.
`PageRows` and `BuildPaginationMeta` are the paging every list uses.

### Accounts

A request of a signed-in user is `asked` once it has passed authentication, the check of
activity and the bootstrap (`Gate`, `Bootstrap`), `allowed` after the role was checked,
`checked` after its handler has read the target, and `revoking` when the user's row is
written and the sessions are still to be removed. Any two requests interleave between
these, and `CutOff` ends one anywhere. `live` are session rows, `cookies` what browsers
hold, `cached` what Better Auth's cookie cache accepts for a while without a row.
Registration, passwords and mail links are Better Auth's and modelled as far as this code
observes them: hooks, sessions, links that can be used once.

History variables: `handed` and `staffed` (what `loginUser` returned, and to whom),
`raced` (a write came after its checks had ceased to hold), `interrupted` (a request was
cut off before it removed the sessions). The properties say what holds *but for* those.

### Subscriptions and Clients

`row` is the user's `Subscription`; `stripe`, `customers` and `events` are Stripe's. An
event carries a snapshot of the subscription at the version that caused it, is never taken
back and can be delivered at any time, several at once. `task[r].step` names the next query
of a request. The history variables:

- `applied`, `seen`: which events reached the row, and their newest versions; `late`: an
  older snapshot was written over a newer one; `byStaff`: the staff wrote last;
- `owed`: how many ends of the subscription the user has still to be told of: one more when
  the row comes to its end (cancelled, or set to end with its period), one less with each
  announcement;
- `raced`: kinds of write whose check had ceased to hold (`customer`, `deletion`, `notice`,
  `request`, `reminder`; `customer` also when a request was cut off before it stored the
  one it made), an announcement that a cut-off lost (`untold`), the announcement of an end
  that had come before (`again`).

`Image` is the row that `syncSubscriptionFromStripe` writes if the price is one of the two
that are configured. For any other price the code takes the plan of the subscription's
metadata, or leaves the row's plan; such prices are not modelled.

What the properties allow is part of what they say:

- `PlanLostWithSubscription`: the subscription that the row named *when the handler looked
  it up* is cancelled. The reset is by the row's id, so that a checkout of another
  subscription in between loses its plan.
- `CancellationAnnounced`: nothing is said once a handler's read was overtaken (`notice`) or
  it was cut off between write and announcement (`untold`): delivered again, the event finds
  the row as it was written and stays silent. Once an end was announced `again`, only that
  none is missed.
- `PendingIsOne`: the staff do not see the request if it is `CrowdedOut`.

`log` holds the entries of the activity log that `hasPendingOfflineUpgrade` and
`listPendingOfflineUpgradeRequests` read back, the requests of other users (`other`) among
them; with the audit log on, a request is stored twice, by the service and by
`writeAuditLog` under the same action. The staff's list looks at the newest `Take` (100)
requests of all users before it drops those that were answered, `hasPendingOfflineUpgrade`
at all of the user's own. `reminders` are the notifications the job looks for before it sends
another, which the user may delete.

`Clients` extends `Subscriptions`: `Next` is a step of either, and the limit a creation
counts against is that of `row.plan` at the time. Soft-deleted rows keep their email under
the UNIQUE key (`Write` fails on it). Portal tokens are numbered in the order they are made:
they are 32 random bytes, so that a new one is one nobody has had. `peak`, `mixed` and the
`stale` mark of a request are history.

### Assumptions on constants

Amounts are positive, totals natural, payments finitely many; `WholeCents` (proofs only)
says that part payments are entered in whole cents. The code guarantees the first through
validation (`PAYMENT_POLICY.amount.min`); it does not guarantee `WholeCents`. The limits of
`INVOICE_POLICY` are natural numbers, the least quantity and the number of items positive.
Users are finitely many (an admin who counts them gets a number); so are clients and the
requests in flight, of which there may be one at least. `Limit` gives each plan at least
one client, and the staff's list takes at least one request (`Take`). Stripe's statuses in `LiveStatuses` are apart from `canceled` and from the two
that stand for no subscription and an open checkout.

## Runs

| Run | Checks | Instance |
|---|---|---|
| `numbering` | types, `CountMatches`, `AheadOfIssued`, `Gapless`, `ImplementsSeries`, `CreationProgress` | three requests, two prefixes, counter up to 3, one cut-off transaction |
| `numbering_backwards` | finds `NeverBackwards` violated | two kinds of request compete, nextNumber may be set |
| `ledger` | types, agreement of money and status, deletion and issue rules, `OnePending`, `ViewsAgree` (readers, `getClientDetail` among them), `NeverOverpays`, `OnlyOwnerRevives`, `DeletedIsFinal`; three assumptions on `InvoiceTotals` over bounded inputs | one invoice, three payments of 1 or 2 cents, totals 0, 2, 3 as computed from items, tax and discount |
| `ledger_refund` | finds `RefundIsFinal` violated | as above, smaller |
| `ledger_subcent` | finds `PartIsAPart` violated | part payments of 4 mills |
| `concurrency` | types, `MoneyIsConsistent`, `BackedUnlessDisturbed` | two requests, two payments, all twelve operations |
| `concurrency_overpay` | finds `WithinTotal` violated | two recordings |
| `concurrency_lost` | finds `BackedAtRest` violated | two recordings |
| `recurring` | types, `ActiveHasClient`, `OncePerPeriod`, `ServedUnlessCrowdedOut` | two schedules, the interval and a second worker, a manual run, frequencies 1 and 2, list limit 1, two events (of owners or failures) |
| `recurring_starved` | finds `EveryDueIsRun` violated | the same |
| `accounts` | types, `AdminRemains`, `DeletedIsInactive`, `LostRightsEndSessions`, `WorkspaceWhole` | three users of whom one registers, three sessions, two requests at a time, three that arrive, any of them cut off |
| `workspace` | types, `SettlesOnStripe`, `OneCustomer`, `PendingIsOne`, `RemindersSpaced`, `OverrunBounded`, `NoCollision`, `EnabledHasLink`, `CancellationAnnounced`, `PlanLostWithSubscription`, `RevokedLinksStayDead` | two subscriptions, two customers, three clients, three emails, two requests at a time, any of them cut off, the staff's list of two requests; eleven budgets |

**Bounds.** Three requests let a creation collide with one that has committed while a
third holds the lock; two numbers show a retry after the counter moved. A second prefix
matters since numbers collide within one prefix only. Three payments allow a completed
one, a refunded or failed one and a pending one at the same time; amounts 1 and 2 against
totals 2 and 3 give exact, partial and excessive sums; a total of 0 is the invoice that
cannot be sent. Two requests are what it takes to interleave reads with a write; the
constraint `Bounded` leaves out states after an edit of the total under concurrency (no
property speaks about it) and combines entries by hand with a single payment.

For schedules, a limit of 1 with two schedules is the smallest list that can be full of a
schedule that fails; a clock of 0 and 1 with frequency 1 lets a schedule fall due again
while it is being run (`BilledOncePerPeriod` has no such bound); two events let an owner
delete a client and activate its schedule, move a date and remove a template, or let a job
fail after an edit.

For accounts, three arrivals are a sign-in, a change of rights and a request that
overlaps with both; two registered users are the two super admins that remove each other, or
an actor and a target; the third is new, so that its first requests race for the rows.

For subscriptions and clients everything at once is out of reach, so `MCBudgets` lists what
is combined: four requests of clients, two together with a change of plan; three deliveries
of what two changes at Stripe cause; a checkout, one change at Stripe and two deliveries, or,
for a user who has a subscription, two changes; the staff with an event; requests and
reminders over three days with the staff and among themselves; a request with two of other
users, which fill the staff's list of two, and the staff. Beside clients only the staff's
change of the plan is followed up (`PlanOnly`). Each names an overlap a property is about; the two requests in flight are what a race needs.
With a window of 2 days and the end on day 3 a reminder is due on each day, so that
only the look-up keeps them apart. The two statuses of Stripe's are one that is listed in
`mapStripeSubscriptionStatus` and one that is not.

The inputs of `InvoiceTotals` lie at and around half a cent, 0 and 100 percent, with one or
two lines.

**Deadlock.** `numbering` checks for deadlock only implicitly: its bound stops new creations, but an
owner may always edit. In the ledgers a deleted invoice with all payments ended
has no next step, which is as it should be; in `accounts` and `workspace` the requests come
to an end with their bounds. These runs say `CHECK_DEADLOCK FALSE`.

**Fairness.** `FairSpec` of `InvoiceNumbering` assumes weak fairness of the statements of a
transaction that has begun: the server executes a statement it is able to execute, and
Prisma sends the next. It assumes nothing of clients (a request may never come) nor of
edits. `CreationProgress` allows for the bounded number of cut-offs.
`FairSpec` of `RecurringSchedules` assumes that time goes on, that the interval starts the
jobs again whenever it is idle (`setInterval`), and that a process goes on with what it has
begun. Owners and manual runs owe nothing. That failures end is the bound `MaxEvents`: a job
that fails at every tick does stop the recurring one for good (`scheduledJobs.service.ts:84`).

## What is proved

`InvoiceNumbering_proofs`, for any requests, prefixes and bounds:

- `TypeCorrect`; `CounterCountsInvoices` (`CountMatches` and `AheadOfIssued`),
  `ImplementsTheSeries`, `NumbersAreGapless`, assuming that nobody sets `nextNumber`;
  `NeverBackwardsAlone`: with one request at a time the counter never decreases.
  The invariant says that the lock's holder is exactly the request in `locked` or
  `inserted`, that a request in `inserted` holds a number that is not stored yet,
  and that what has been read is never ahead of the counter. Without the first a commit
  could add two invoices for one increment.

`InvoiceLedger_proofs`, for any payments, amounts, totals and inputs:

- `TypeCorrect`; `LifecycleSafe` (`DeletedIsUnpaid`, `IssuedHasTotal`, `PaidIsBacked`);
  `MoneyAgrees` (`BalanceMatches`, `StatusMatchesMoney`; with `WholeCents`);
  `DeletedStays`, `OwnerRevives`, `NeverOverpaid`, `OnePendingPayment`.
  `StepKinds` sorts the handlers into a few kinds of step (manual change, edit,
  recomputation, change of payment rows alone); the invariants are then proved once per
  kind. Sums over payments are cardinalities of sets of cents, so that what is needed of
  them (adding a payment, monotonicity) follows from the library's facts about finite
  sets, without induction.

`LedgerConcurrency_proofs`, for any requests, payments, amounts, totals and inputs, with
crashes anywhere:

- `TypeCorrect`, with what each request has at hand before each statement (`WorkAt`): a
  statement writes no column that is not its own, and a lock is held by a request at work on
  that row.
- `MoneyAgrees` (`MoneyIsConsistent`; with `WholeCents`): the invariant says of the columns
  that are about to be written what the property says of the row, and that every status
  that a request writes alone is one that says nothing of money.
- `PaymentsAreLocked`: no two transactions are at work on one payment; `RowsInv` adds that
  no two requests meet on a row before it exists.
- `PaidIsBackedUnlessDisturbed` (`BackedUnlessDisturbed`): `SumInv` says that what a
  transaction is about to commit is the sum as it sees it, unless it is `stale`. That a
  stale one takes two payments follows from the locks.
- `OneAtATimeImplementsLedger`: if there is at most one request (`Alone`), the specification
  implements `InvoiceLedger`. A handler takes effect at the statement that ends it, a webhook's
  arrival says how its session has ended, and `FailPending` is a checkout that went no
  further. In between, a checkout that has stored its PENDING row and waits for Stripe is
  not shown as having stored it (`Shown`): row and session appear in one step, by the
  session, by the row's failure, or by the request's death. `PlanInv` says that what a lone
  request has checked is still true when it writes. This is what justifies checking the
  long sequences of handlers on `InvoiceLedger` alone, and it carries theorems over:
  `OneAtATimeIsBacked`, `OneAtATimeNeverOverpays`, `OneAtATimeOnePending` say that
  what `concurrency_lost` and `concurrency_overpay` find violated, and a second pending
  payment, take two requests that overlap, and never a crash alone.
- `OverpaymentIsBounded`: with n requests that may overlap the completed payments stay within
  n times the total, for as long as no edit changes it, which says how far what
  `concurrency_overpay` finds can go. It is not about two completions but about any sequence
  of them, so the invariant (`PromisedInv`) counts the cents that are paid *or* will be by a
  request that has passed its check (`Promised`): a commit or a crash never adds to them,
  and a check that succeeds adds an amount that fits what is paid, while each of the n - 1
  others has at most the total outstanding. `AmountsInv` is needed beside it: a row's amount
  never changes, so that a payment completed twice is counted once. It assumes that the
  number of requests that may overlap is finite.

`RecurringSchedules_proofs`, for any schedules, workers, requests, frequencies and limit:

- `TypeCorrect`; `ClientsOfActive` (`ActiveHasClient`); `BilledOncePerPeriod`
  (`OncePerPeriod`). Its invariant, `Spacing`, says that an active schedule a worker has
  billed is due a period after that at the earliest (later runs by anyone only push it
  further), and that what a worker has in its list it has not billed within a period. The
  second is needed since neither the checks nor the transaction look at `nextRunAt` again.
  The property is about each worker: two workers that overlap, or a worker and a manual run,
  can both bill one period, and nothing in the code prevents it.

`InvoiceTotals_proofs`, for any items, rates and discounts (exact arithmetic):

- `TotalsInOrder`: unless refused, the discount is at most the subtotal and the total lies
  between what is left and what is left taxed in full; `PercentageFits`: at most 100
  percent is never refused; `TaxWithinACent`: the tax, rounded twice, is within a cent of the
  exact tax on the taxable lines' share.

`InvoiceViews_proofs`, for any payments, amounts and inputs:

- `ReadersAgree` (`ViewsAgree`; with `WholeCents`), from the ledger's invariants: what the
  readers listed above agree on, and by what `getClientDetail` departs from that;
  `PagesAreDisjoint`, `PagesCover`, `NextPageHasRows` for any number of rows and page size.

`Accounts_proofs`, for any users, sessions and requests, without a bound on those in flight:

- `TypeCorrect`; `AdminAlwaysRemains`, `DeletedStayInactive`, `SessionsEndWithRights`,
  `RowsComeInPairs`; `FiguresAgree`: the platform's figures add up to the users there are.
  The invariant ties each request to what its gate has established: who acts exists and
  has a subscription (rows are never removed), what is being revoked is the target's, and a session
  that `loginUser` handed out was handed to someone who could work then. `SessionsEndWithRights` needs
  that the row is written *before* sessions are removed: a sign-in that overlaps either reads
  the new row or has its session removed.

`Clients_proofs`, for any subscriptions, customers, clients, emails, limits, days and requests,
without a bound on those in flight:

- `TypeCorrect`; every property of the run `workspace`. Each action is sorted by what it
  does once (`OneTask`, `OwnSteps`, `RowWriters`, `StripeMoves`, `ClientSteps`), and the
  invariants are proved from that:
  - `EventsSettle` (`SettlesOnStripe`): the row is, unless exempt, untouched, short of a
    checkout that is still to be handled, reset after a subscription that is cancelled at
    Stripe, or the image of the newest version handled of one subscription (`RowIsTrue`).
    `Versions` says that no snapshot is ahead of Stripe and that one of a subscription's
    present version is that subscription; that each was sent makes "all handled" mean
    "the newest handled".
  - `CustomerIsOne`: what Stripe holds for the user, and what any request has of it, is of
    the row's customer (`OfCustomer`); without this an event could bring in another one.
  - `PlansEndWithSubscriptions`: a deletion in `events`, or in a handler, is of a subscription
    that is cancelled, for good (`DeletionsTrue`), and what the handler holds is the row as it
    was looked up, which named that subscription.
  - `EndsAreAnnounced` (`CancellationAnnounced`): each step changes `owed` and the number of
    handlers at their announcement by the same amount, or leaves a mark (`Telling`,
    `Counted`, `Tells`); cardinalities of the finite set of requests do the counting.
  - `RemindersStayApart`: a run's day is not after today, nor is a reminder's (`Dated`).
  - `OneRequestPends`: unanswered requests and those about to be stored once more are at
    most two together (`FewPending`). That both ways of looking agree is proved of any log:
    the latest request decides both (`Newest`), and it is in the list if and only if fewer
    than `Take` of others are newer (`BothLook`).
  - `OverrunStaysBounded`: clients in use and requests past the limit's check together are
    at most the limit plus the requests but one (`Room`).
  - `RevokedStayDead`, `LinksOpenPortals`, `CreationsMeetNoKey`: no token is ahead of
    `issued` and no two clients share one; an enabled client has one unless it is `mixed`; a request
    about to insert has seen no client with its email unless it is `stale`.

`WholeCents` is needed, in both ledgers: without it `ledger_subcent` shows a
PARTIALLY_PAID invoice with nothing paid.

Only model-checked: liveness (`CreationProgress`, `ServedUnlessCrowdedOut`), since the
provers do not handle fairness; every other property of a passing run is proved. What
holds for one request at a time is proved only, no run repeats it.

## What the violations show

1. **The counter can go backwards** (`numbering_backwards`). The check that forbids it
   compares with a row read earlier (`business.service.ts:133`); creations that commit in
   between are overtaken, and the next creation collides.
2. **A refund can be undone by a repeated webhook** (`ledger_refund`).
   `completeStripePayment` returns early for COMPLETED only (`stripeCheckout.service.ts:199`).
3. **A part payment may be nothing** (`ledger_subcent`). The part is compared before it is
   rounded (`invoice.service.ts:136-143`).
4. **Overlapping completions overpay** (`concurrency_overpay`), since the guard reads
   without a lock (`payment.helpers.ts:121`); `OverpaymentIsBounded` proves how far.
5. **Overlapping payments are lost from the invoice** (`concurrency_lost`), since the sum is
   read and written in separate statements (`payment.helpers.ts:66-103`).
6. **A due schedule may never run** (`recurring_starved`). A schedule that cannot run (no
   template, plan limit reached) keeps its date, and `limit` of them fill the list at every
   tick (`recurring.service.ts:332-341`). `ServedUnlessCrowdedOut` says that this is the
   only way to starve.

## What else was noticed

Read off the code while modelling, or off the exemptions the properties need; no run
is about them.

- Two super admins who demote or leave at the same time can be the last two: the count and
  the write are separate queries (`admin.service.ts:308`, `auth.service.ts:579`), although the comment
  promises that one remains. `AdminRemains` exempts it (`raced`).
- A status change that is cut off before it removes the sessions is not repeated: the second
  attempt is refused with STATUS_UNCHANGED (`admin.service.ts`, `updateUserStatus`).
- `registerUser` hands out its cookie without reading `isActive`.
- Statuses of Stripe that are not listed (incomplete, unpaid, incomplete_expired) count
  as ACTIVE (`stripeSubscription.service.ts:111`), and an older snapshot
  overwrites a newer one (`late`).
- With the audit log on each offline request is listed twice.
- The staff's list of offline requests takes the newest 100 of all users, answered ones
  included (`offlineUpgrade.service.ts:201-204`): once that many are newer, a user is told
  that a request is pending, and refused another, while the staff see none (`CrowdedOut`).
- The staff's change of plan is logged under the staff (`admin.service.ts:411`) and never
  answers a request: when the plan is FREE again later, the old request is pending again.
- A cancellation whose handler dies between the write and the announcement
  (`stripeSubscription.service.ts:295-316`, `367-389`) is never announced.
- `handleSubscriptionDeleted` looks up the row that names the subscription and resets it by
  its id (`stripeSubscription.service.ts:359-378`): a checkout handled in between loses the
  plan of the new subscription.
- `getClientDetail` and `getInvoiceStats` both return an `outstandingBalance`; the former
  adds drafts, cancelled and refunded invoices (`client.service.ts:328-331`), the latter does
  not (`invoice.service.ts:325-332`).
- The overdue job, `sendInvoice` and a portal view may overwrite a PAID or CANCELLED status
  decided since they read it; `MoneyIsConsistent` asks only that a PAID invoice is paid.
- `updateClient` to the email of a soft-deleted client passes its check and meets the UNIQUE
  key; `createClient` restores that client instead.
- An update that gives a discount without its type is not held to 100 percent
  (`updateInvoiceSchema`); where rounding hides the excess (2 cents at 100.001 percent) it is stored.
- Lists are sorted without a tie-breaker, so that rows with equal keys may be repeated or
  skipped between two requests for pages; the paging theorems are about one order.
- A payment row whose process dies before it has a session stays PENDING until the next
  checkout of the invoice fails it; nothing else clears it.

## What is not modelled

- *Email, PDF and file storage, marketing, configuration*: input and output, static
  content and settings that do not change while the program runs. That the email of
  `sendInvoice` goes out between a read and a write is in `LedgerConcurrency`.
- *HTTP layer*: routing, rate limits, timeouts on responses. Its gates are in `Accounts`; the
  validation of requests bounds the inputs, that of an invoice is in `InvoiceTotals`.
- *Scheduled jobs*: BullMQ's own bookkeeping. A queue worker and its retries are workers like
  any other.
- *Administration*: the list of the activity log and charts by month, which are only read.
- *Business profile*: all but the prefix and the counter is data without a rule over time.
- *Notifications*: rows nobody reads back but their owner, and marking them read.
- Names, addresses, notes, colours and other text everywhere; the timestamps `sentAt`,
  `viewedAt`, `reminderSentAt`, `lastRunAt`, which are shown and never decide anything.

## Plan

Done: every component that keeps rules over its state is modelled and checked, every
safety property of the models is proved, and the two ledgers are tied by a refinement.

1. What overlapping requests can do at worst to a payment's status: which changes beyond
   `PaymentTransitions` two handlers that both act on what they have read can bring about.
2. That a single worker makes `RecurringSchedules` bill each period once across workers and
   manual runs.
