# Multiservicios: a TLA+ model of the orders, the money and what they rest on

Multiservicios is a marketplace backend (FastAPI, SQLAlchemy, PostgreSQL) in which a client requests a home
service, a verified technician takes it, and the platform holds, collects, splits and, if need be, returns the
client's money through a payment provider. This directory models the parts of it where an interleaving nobody
tested can cost somebody money or trust: requests and a background worker that lock rows in different orders,
a provider whose answers get lost, webhooks that arrive late or twice, a verification that is withdrawn while
an order is being accepted, files in a storage that takes no part in the transaction.

All paths below are relative to `src/`.

## 1. Inventory

| Part | State it keeps | Operations | Made hard by |
|---|---|---|---|
| Service orders (`app/orders`) | status, technician, price, departed, confirmation times | accept, schedule, depart, start, finish, approve, dispute, resolve, cancel, withdraw, release, expire, auto-approve | the same order touched by client, technician, admin and worker |
| Payments core (`app/payments/service.py`) | status, provider id, card, captured amount, breakdowns | quote, choose card, authorize, refresh, capture, partial capture, void, replace | lost answers, stale reads, lock order |
| Webhooks, retried voids (`app/payments/webhooks.py`) | event inbox, void queue with attempts | receive, process, retry voids, requeue | late, repeated and reordered events |
| Reconciliation (`app/payments/reconciliation.py`) | – | compare with the provider and repair | races with requests |
| Worker (`worker/jobs.py`) | one advisory lock | twenty-odd jobs in a cycle | crashes between provider and commit |
| Cancellation policy (`app/payments/cancellations.py`) | policy versions | scenario, fee, visit-fee capture, late fee | a fee captured and its answer lost |
| Commission engine (`app/payments/commission.py`) | rules with validity | resolve, compute, create, close, price for a charge | integer rounding, overlapping validity |
| Refunds, chargebacks, ledger | refunds, disputes, double entries | request, approve, execute, events | retries, events before the capture, sums |
| Idempotency keys | key, request hash, answer | run, purge | two requests at once |
| KYC lifecycle (`app/kyc/service.py`, `decisions.py`) | case, address, claim, document decisions | start, submit, claim, decide, request a correction, suspend, reinstate, expire, release stale claims | reviewer, worker and technician at once; an accept that read the approval before it was withdrawn |
| Payment accounts (`app/payments/accounts.py`) | status, block, name review | create, sync, deauthorize, review the name, block, unblock | provider reports out of order with suspensions |
| KYC documents (`app/kyc/documents.py`) | documents, files, stored objects | upload, replace, delete, scan | storage outside the transaction; the scanner does not lock the document |
| Reviews (`app/reviews`) | review, reports, reputation | write, edit, answer, report, resolve, moderate, hide for a refund | moderation against a refund in flight |
| Sessions (`app/api/routes/auth.py`) | refresh tokens, token_version, failed logins | login, refresh, logout, logout-all, deactivate | rotation against revocation |
| Audit chain, view tickets (`app/audit/writer.py`, `app/kyc/view_tickets.py`) | hash chain, one-use tickets | append, append detached, issue, redeem, verify | gaps left by rollbacks, two redemptions at once |
| Encryption, reports, panel | wrapped keys, counters | – | – |

How they interact: every handler runs in one PostgreSQL transaction (READ COMMITTED, `app/db/session.py`) and
calls the other services inside it: an order handler calls the payment service, which calls the provider and
then calls back into the order (`on_payment_captured`, `on_payment_failed`). The worker runs the same services
from its jobs. What makes them correct:

- an order has one live payment, and what it charges is what was agreed;
- what is booked as collected was collected, and what was collected becomes known;
- money is taken only for approved or disputed work or a visit fee, and once;
- work starts only with the money secured; only paid work is rated;
- approved work is eventually collected and holds on dead payments are released;
- refunds and chargebacks together never return more than was collected, nobody gives back more than they got,
  and a refund that left is eventually in the books;
- the parts of a charge add up to it, and at every time one commission rule of a scope is in force;
- an operation with an idempotency key, and a provider event, take effect at most once, and every event is
  settled;
- only a technician whose approval and account still stand holds an order, and an approval rests on the
  current address;
- a document reaches the reviewer only with every file scanned clean, and no file waits for ever;
- a flagged review is public only after moderation, a refunded one never becomes public again;
- a family of refresh tokens in which a revoked token was used is dead, whoever was refreshing;
- the audit chain verifies, and every view of a document is in it.

`PROJECT.json` lists every part with its status, and under `hazards` every place, by line, where the code
could get one of these wrong in a way a test would hardly reach.

## 2. Modules

| Module | What it models |
|---|---|
| `StateMachines` | the two transition tables (`app/payments/state_machine.py`, `app/orders/state_machine.py`) as data |
| `OrderPayment` | one order, its SERVICE payments, the provider's record of each charge, the requests, the worker's jobs |
| `MCOrderPayment` | the instance TLC runs |
| `OrderPaymentProofs` | the theorems about `OrderPayment` |
| `MoneyBack` | one collected payment, its refunds and chargebacks, the ledger, the end of its order |
| `MCMoneyBack` | the instances TLC runs, with the symmetry of the refunds |
| `MoneyBackProofs` | the theorems about `MoneyBack` |
| `Kyc` | one technician: case, address, documents, payment account, and an order being accepted or held |
| `MCKyc` | the instance TLC runs |
| `KycProofs` | the theorems about `Kyc` |
| `KycDocuments` | the files of one two-sided document, in the rows and in storage |
| `Reviews` | the review of one order |
| `Sessions` | the refresh tokens of one account |
| `SessionsProofs` | the theorems about it |
| `AtMostOnce` | abstract: what an idempotency key promises |
| `Idempotency` | `idempotency.run` and `purge_expired` for one key, an implementation of `AtMostOnce` |
| `IdempotencyProofs` | the proof of that |
| `WebhookInbox` | the stored events of the provider and the worker's batches over them |
| `Commission` | the split of a charge in integer cents |
| `CommissionRules` | the rules over time (extends `Commission`) |
| `CommissionProofs` | the theorems about the split of a charge and about the rules |
| `AuditChain` | the audit log as a hash chain, and the one-use view tickets |
| `AuditProofs` | the theorems about it |
| `MCServices` | composes the eight components from `KycDocuments` to `AuditChain` for one run: they share no state, so a behaviour of the run is of one of them (`part`) |
| `ServicesProofs` | the theorems about `Reviews`, `KycDocuments`, `WebhookInbox` and the composition |

### OrderPayment

State. `db` is what is committed: the order's status, the departed and reviewed marks, how many times it was
accepted (`deals`), and for each payment row its status, whether the provider id is known (`pid`), the card,
the deal it was quoted for, the amount booked as captured, the open void request, and the two alerts finance
gets (`alert`: collected on a dead payment; `mismatch`: collected another amount). `intent` is the provider's
own record. `otx` is the request in flight, `wk` the worker's job in flight.

Handlers that in the code call one another inside a transaction are operators from rows to rows with the
code's names (`mark_captured`, `mark_failed`, `apply_provider_state`, `cancel_for_order`, ...); actions are
the handlers and jobs themselves.

Concurrency is modelled at the row locks.

- Every request locks the order row first and the live payment second (`get_for_user(lock=True)` or
  `lock_order`, then `active_payment(lock=True)`), so two requests on an order never overlap and one slot,
  `otx`, is exact. `Begin` takes the order row and starts the payment query; the second step has the payment
  row and commits. A `SELECT ... FOR UPDATE` that had to wait re-checks the row it had found and never sees a
  row inserted meanwhile: `still_live`.
- The worker is one process (advisory lock, `worker/jobs.py`). Its jobs lock the payment first and need the
  order row to write it and to insert a replacement, whose foreign key takes `FOR KEY SHARE` on the row a
  request holds `FOR UPDATE` (`touches_order`). They decide from an order status read without a lock
  (`wk.os`), because `mark_failed` and `_cancelled_by_provider` use `db.get` and `lock_order` does not refresh
  an instance the session already has.
- A request that waits for the payment of a worker that waits for the order is a deadlock: PostgreSQL aborts
  one of the two (`rollback`, `job_fails`). So a replacement is never inserted behind the back of a request
  that waits, and what a request voids is all there is to void.
- Requests that read the payment without locking it (`start`, `approve`, `review`) take one step.
- A webhook may be pending for any charge at any time: this covers late, repeated and reordered events. The
  provider's state is fetched before the payment is locked (`webhook_fetch`, then `webhook_lock`), so it may
  be stale.
- A provider call and the commit after it are one step; the cases in which the call happened and the commit
  did not are actions of their own (`depart_lost`, `resolve_lost`, `capture_lost`, `capture_partial_lost`), as
  is a provider that does not answer a void.
- `rollback` and `job_fails` are refusals, crashes, statement timeouts and deadlock aborts at any moment.

Abstractions. Amounts are the quote (`Full`), amounts some price charges (`Parts`) and amounts no price
charges because VAT is rounded per price (`Odd`): those are the three cases `_breakdown_for_real_capture`
tells apart. Time limits are left out, so any job may find its order due. Identity, KYC and account checks
only refuse, and refusals are `rollback`. The code processes a batch of events in one transaction with a
savepoint each; the model commits each event. The provider's "requires payment method without an error" is
ignored by `apply_provider_state` and left out. The alerts of `reconcile` other than the repair are left out.
The unique index `uq_payments_active_service` is left out on purpose: `OneLivePayment` shows it never has to
fire. The triggers of migrations 0005 and 0010 repeat the transition tables. What happens after the capture is
in `MoneyBack`, so here an order that is `REFUNDED` and a payment that is `DISPUTED` do not occur.

### MoneyBack

State. `db` holds the payment's status and `refunded_cents`, the order's status and whether it has a public
review, each refund row (status, amount, policy of its reason, who asked, who signed), each chargeback row and
the balance of each ledger account; it starts right after `post_capture`. `prov` and `bank` are the provider's
and the bank's own records (external). A refund id is used once.

Operators from rows to rows are the functions of `app/payments/refunds.py`, `disputes.py` and `ledger.py`
(`_succeed`, `_fail`, `apply_provider_refund`, `allocate`, `charge_back`, `mark_dispute_closed`, ...).

Concurrency. Whoever moves money locks the payment row first (`_lock_payment`), so those transactions exclude
one another; the one that is waiting for the provider is `tx`. `execute` sends the refund and picks the
answer, `commit` writes what the answer means, `abort` is a crash or a deadlock after the provider has acted.
`reject` and `submit_evidence` lock only their own row, rating and disputing the order only the order's. The
worker fetches the provider's state of a refund, then finds (and locks) the refund row, then locks the
payment: three steps, each of which may find the world changed. A refund row inserted by a transaction in
flight is not visible to it, which is how a refund of our own can reach `_record_outside_app`, where the
unique indexes stop it.

Abstractions. Reasons are their policy: the technician's fault (both parts recovered) or the platform's;
`REASONS` has no third combination. `canceled` and `requires_action` are handled as `failed` and `pending`.
Permissions are sets of staff (`High` may sign above the threshold), time windows only refuse. The reversal of
a transfer succeeds or not, as the provider likes. Events about a payment that is not captured yet are outside
this module.

### Kyc

State. `kyc` is what is committed: the case's status and who has claimed it, its data, the address (and
whether it is locked), one document for each category (its status, whether its proof is bound to and still
proves the address), the payment account (status, block, name review), the technician's availability, one
order, and three facts time brings about (a claim that is old, an approval that is due, a document that
lapsed). `acc` is an accept in flight, `job` what a worker's scan found before it locked the row.

Every handler locks the case or the account first and reads after that, so it is one step. Two do not.
`accept` reads the account, then takes the case and the account `FOR SHARE` in the trigger
`order_technician_guard` when it writes the order, then commits: three steps, between which a suspension may
have committed or may have to wait. The jobs scan for rows and lock them one by one (`job`), checking again
under the lock. The guards the triggers of migrations 0002, 0005, 0007 and 0008 add (transitions, assignment,
account, availability) are operators with the triggers' names.

A document has one side here; `OPEN` stands for UPLOADING and INVALID, which these handlers treat alike.
`expected_version` is optional in both routes that take it and is left out, as are risk flags that need a
second reviewer, the limit of claims and regions, revoked consents, and duplicate identities: they only
refuse.

### KycDocuments

`docs` are the rows, `obj` the objects in storage, which every put and delete changes at once and no rollback
restores. The worker (`scan`) locks the file rows, not the document: it works on the copy its session has and
writes the document's status back only if that copy changed. A delete (`gone`) holds the document, removes the
objects and then needs the rows; the two can wait for each other, and PostgreSQL aborts one
(`deadlock_broken`). Every transaction may fall (`upload_falls`, `delete_falls`, `scan_falls`) after it
touched the storage. What the sanitizers do to an image or a PDF is a verdict (`ScanVerdict`).

### Reviews

`rv` holds the order's status, the review, its reports and whether it counts for the reputation; `counted` is
the weight with which the averages include it, if they do. Every handler but one locks the review. A full
refund locks the order and reads the review without a lock (`refund_reads`, `refund_commits`); its session
writes only the columns whose value differs from what it read. `Overlap` says whether anything may run in
between.

### Sessions

`refresh` locks the token and then the user, in two steps; `logout`, `logout_all` and `deactivate_user` read
without a lock and write later (`ending`), so each can pass a refresh half-way. A presented token that is
revoked kills its family (`reused` records it). Access tokens are the version they carry.

### AtMostOnce and Idempotency

`AtMostOnce` says what the header promises: the operation takes effect at most once until the key is
forgotten, those who ask again get the first answer, those who ask for something else are refused.
`Idempotency` is the code: a request inserts the key row and waits for any other that did, runs, stores the
answer and commits; one that meets a committed row selects it in a later statement, and may find it purged.
`Once == INSTANCE AtMostOnce WITH done <- keyrow.body` is the mapping, `RunsAtMostOnce` the refinement.

### WebhookInbox

`deliver` inserts or ignores (unique event id). `batch_opens` locks the due rows, oldest first, up to `Limit`;
`_handle` works each off in a savepoint and is told whether the event took effect, was not needed, or raised;
`batch_commits` writes it all. `batch_falls` loses the batch. What an event does is in `OrderPayment`,
`MoneyBack` and `Kyc`.

### Commission and CommissionRules

`Commission` has the functions of `app/payments/commission.py` with their names, in integers: rounding half
up, the bounds of a rule, withholdings, the discount at the platform's cost, the price of a charge.
`CommissionRules` has `create_rule` (which ends the rule it replaces), `close_rule` and `resolve_rule` for one
category, technician and promotion. Several managers may create at once, each in two steps: the query for the
rules of the scope, which locks what it finds, and, once every wait is over, the insertion (`insert_rule`) or
its refusal (`create_fails`). A rule inserted in between is not among the locked ones, and with no rule in the
scope nothing is locked at all, so the code relies on the exclusion constraint
(`ex_commission_rules_no_overlap`), as `resolve_rule` says. A rule may start up to a minute in the past
(`Grace`).

### AuditChain

A writer takes the advisory lock of the chain with its first entry and holds it to the end of its transaction;
ids come from a sequence, so a rollback leaves a gap. A denial is recorded by a transaction of its own
(detached). A ticket is redeemed by one conditional UPDATE, committed before the case is looked at again. A
hash is the id of the row it was computed from: hashes are taken to be unique.

## 3. Runs

| Run | Instance | Shows |
|---|---|---|
| `order_races` | 2 payments, 1 partial and 1 odd amount, 2 deals, 2 void attempts, 1 panel capture; 1.5 M states | `TypeOK`, `OneLivePayment`, `BookedIsCollected`, `ReviewableIsPaid`, `NoMissedCapture`, `ChargedOnce`, `NoOrphanPayment`, `QuoteIsCurrent`, `CaptureIsDue` under every interleaving |
| `order_serial` | 3 payments, 2 deals, `Serial`; 2.0 M states | `StartedIsSecured` when request and worker transactions do not overlap |
| `order_live` | 2 payments, 1 deal; 43 k states | `EventuallyCollected`, `CollectedIsKnown`, `HoldReleased` |
| `order_started` | 2 payments, 2 deals | violated: `StartedIsSecured` without `Serial` |
| `order_expiry` | 2 payments, 1 deal, fair | violated: `ExpiryNoticed` |
| `money_back` | 2 refunds, 1 chargeback of 5, a charge of 7 split 4/1/1/1, threshold 4, two signers; 4.3 M states (up to symmetry) | `TypeOK`, `NeverOverReturned`, `RefundedIsSum`, `PartiesNeverOwe`, `BookedIsReturned`, `BigRefundsSigned`, `FullReturnClosesOrder`, `LostIsChargedBack` |
| `money_live` | 1 refund, 1 refund made outside, 1 chargeback, a charge of 1; 131 k states | `ApprovedIsSent`, `PendingIsSettled` |
| `money_failed` | 1 refund, 1 chargeback | violated: `FailedIsUnpaid` |
| `kyc` | 1 reviewer, 1 supervisor, identity and address documents, names that match or not, accounts reported complete or only started; 699 k states | `KycTypeOK`, `HeldIsEligible`, `SuspendedIsBlocked`, `ApprovedIsProven`, `JobsCatchUp` |
| `services` | see below; 188 k states | documents: `ReviewableIsClean`, `FileSettles`; reviews: `FlaggedIsCleared`, `NeverRepublished`; sessions: `ReusedFamilyIsDead`; keys: `RunsAtMostOnce`; inbox: `EventTakesEffectOnce`, `EventSettles`; charges: `SplitIsExact`; rules: `RuleInForce`; audit: `ChainHoldsEveryView`; all: `ServicesTypeOK` |
| `reviews_refund` | 2 reporters, 1 edit | violated: `RefundedIsHidden` |

Bounds: `Pay` bounds how often a payment is replaced (two rows give a live one and a dead one, three a
replacement of a replacement), `MaxDeals` how often the order is accepted (two: a payment can outlive its
technician), `MaxVoidAttempts` is `WEBHOOK_MAX_ATTEMPTS`, `MaxPanel` bounds captures made by hand. A decline
or an expiry happens only while a row is left for the replacement, so a bound never blocks a handler half-way.

In `money_back` the amounts asked for are 3 and all that is left: two refunds of 3 leave 1, every part of 3/7
is rounded, two small refunds cross the threshold of 4 while one does not, and a chargeback of 5 is more than
what is left after one refund and less than the whole. Partial refunds need two refunds to add up; three would
add no new case of the cap or the signature. `money_live` needs no amounts, so the charge is indivisible.

In `kyc` a reviewer and a supervisor are the two kinds of staff `can_read_case` and the transition table tell
apart (a supervisor decides a case the reviewer claimed); identity and address are the two kinds of category
(one has an expiry date, one is bound to the address), and a selfie only adds a consent of its own.

`services`: a document of 2 sides, 2 scan attempts, 1 crash; 2 credible reporters with a threshold of 2, 2
edits; 1 family of 4 tokens, 2 refreshes at once, 2 versions; 3 callers of one key, one with another body; 2
events in batches of 1, 2 attempts, 1 requeue, 1 stop; prices of 0 to 60 cents under 5 sets of terms, 2 of
rates and 6 discounts, so every rounding case of the rates occurs; 3 rules over 3 times in 2 scopes, 2
managers at once; 2 writers, 1 ticket, 4 entries. The sessions were also run alone with 2 families (1.3 M
states), the inbox with 3 events in batches of 2 (249 k states) and the rules over 4 times (1.1 M states),
with the same result. Deadlock is not checked there: a removed
review, a used ticket or an exhausted bound really is the end of that part.

What the four violations are:

- `order_started`. The worker reads the order (SCHEDULED) and is about to cancel and replace an expired
  authorization; the technician's `start`, which reads the still AUTHORIZED payment without locking it,
  commits; the worker then inserts a PENDING replacement. The work is under way and nothing is held.
- `order_expiry`. PROCESSING is among the states that can be voided, but the table has no PROCESSING to
  CANCELLED: each delivery of the provider's cancellation raises, until the event is DEAD.
- `money_failed`. The provider pays a refund and the answer is lost, so the row stays APPROVED for a retry.
  The bank opens a chargeback before the retry; `execute` then marks the refund FAILED without asking the
  provider, and the confirmation that arrives later is ignored because the row is FAILED. The client has the
  money, the books do not say so, and a lost chargeback is booked in full.

- `reviews_refund`. A full refund reads a HIDDEN review without a lock; before it commits, a moderator, for
  whom the order is still REVIEWED, publishes the review. The refund assigns HIDDEN to what its session
  believes is HIDDEN, so nothing is written: the review of a refunded order is public and counts. With
  `Overlap = FALSE` the property holds.

`order_serial` shows that the first needs two transactions to overlap: with the same events one after the
other the property holds.

Fairness (`order_live`, `order_expiry`). The worker runs its jobs in an endless cycle, so for each payment a
capture that stays due, a webhook that would change something and a void below its cap are tried (strong
fairness: other jobs run in between), and a job that is not killed ends. A request ends (statement timeout, 15
s). Crashes, aborts of the worker, rows skipped because they are locked and lost answers happen any number of
times but not for ever (`<>[][~Killed]_vars`). Nothing is assumed about clients, technicians or the bank.

`money_live` assumes the same of the same worker: `retry_refunds` comes round for each APPROVED refund, the
events of a refund are delivered (the provider repeats them) and an event that was taken up is finished;
transactions end; aborted transactions, killed events and a silent provider do not last for ever. Nothing is
assumed about finance, the client, the bank or when the provider decides.

`kyc` assumes that the worker's jobs come round (strong fairness: requests may hold the row in between, and
PostgreSQL serves those who wait for a row in turn) and that an accept, once begun, ends (statement timeout).
`services` assumes the scanner's and the inbox's batches come round, a delete that has begun ends, and a
back-off passes. Nothing is assumed about technicians, staff, clients or the provider.

Behaviours of the model that no property speaks about yet, because the code does not say what should happen: a
dispute resolved as FULL_REFUND while the payment is in a chargeback cancels the order, and a chargeback won
later keeps the money; the loss of a second chargeback, after the first was won and the payment reopened, is
not booked; a refund still PENDING when the payment is charged back can never be confirmed.

Others met while modelling, each listed where it bites under `hazards` or left as it is:

- of two managers who create a rule of one scope at once the second is refused by the constraint, as a generic
  CONFLICT and not as COMMISSION_RULE_OVERLAP;
- a GLOBAL rule created with an end leaves a time without any rule once it is over, although `close_rule`
  refuses to (`commission.py:366`); `RuleInForce` states the condition;
- `uncovered_price` looks at the prices where the terms change slope; because of rounding, terms it accepts
  can lose a cent or two at a price in between;
- a logout that read before a refresh rotated the token does not revoke the successor; two increments of
  `token_version` at once can count as one;
- a detached audit record waits for the chain lock, so when the request that was denied holds that lock itself
  the record is given up (timeout);
- an approved proof of address that became too old cannot be replaced until the case expires;
- a deactivation locks neither the case nor the account, so an accept that has already passed the trigger
  leaves an order with a deactivated technician;
- reputation is recomputed from the reviews each transaction sees, so of two at once the last wins.

## 4. Proofs

Every invariant and every action property the passing runs check is also a theorem, for every value of the
constants that the named `ASSUME`s of the modules allow. The liveness properties are not: see the end of this
section. An invariant is proved from a stronger one that every step keeps, and TLC finds each of those to hold
on the instances of section 3 too. There is one lemma for each operator from rows to rows, one for each action
or group of like actions, and the theorems follow.

| Module | Theorem | States |
|---|---|---|
| `OrderPaymentProofs` | `TypeCorrect`, `NeverTwoLive`, `BookedCollected`, `ReviewablePaid`, `CaptureNotMissed`, `NeverChargedTwice`, `NoOrphanLeft`, `QuoteStaysCurrent`, `CollectedWhenDue` | all of `order_races` |
| | `StartedSecuredWhenSerial` | `order_serial`, under its `Serial` |
| `MoneyBackProofs` | `TypeCorrect`, `ReturnsAreBounded`, `RefundedSumsUp`, `PartiesAreSafe`, `BookedWasReturned`, `BigReturnsSigned`, `FullReturnCloses`, `LostIsBooked` | all of `money_back` |
| `KycProofs` | `KycTypeCorrect`, `HeldWasEligible`, `SuspendedStaysBlocked`, `ApprovedWasProven` | the invariants of `kyc` |
| `ServicesProofs` | `ReviewableWasScanned`, `FlaggedWasCleared`, `RefundedStaysHidden`, `EventsTakeEffectOnce`, `ServicesTyped`, `ServicesImplementParts`, `ServicesKeepPromises` | `services`, but for its liveness |
| | `RefundHides` | the property `reviews_refund` shows violated, under its missing hypothesis |
| `SessionsProofs`, `AuditProofs` | `ReuseKillsFamily`; `ChainAlwaysHolds` | one invariant of `services` each |
| `IdempotencyProofs` | `ImplementsAtMostOnce`, `KeyedOperationOnce` | the refinement of `services` |
| `CommissionProofs` | `ChargesAddUp`, `ChargesAreExact`, `OneRuleInForce` | two invariants of `services` |

### OrderPayment

`IInv` is inductive. `RowInv` speaks of the committed rows and the provider's records: types, one live
payment, a collected payment has a booked amount, a booked amount was collected, an approved order has no
collected live payment, a reviewable order has a collected one. `BookedIsCollected` alone is not inductive:
the worker applies a view it fetched earlier, so `ViewIsTrue` adds that a view that says PAID is still what
the provider says (a collected charge never changes), and `Collected` that such a charge has an amount.

`ChargeInv`, on top of it, follows what each transaction relies on from the lock it takes to its commit: the
order keeps the status that let the request in flight begin (`OpHolds`), the payment the capture job selected
is still due if it is still authorized (`JobHolds`), a payment seen authorized has been authorized
(`AuthKnown`), the worker never believes scheduled the order of a collected charge (`StaleHolds`), and once
the app collected one no other payment of the order is live (`PaidIsLate`). They exclude a second charge
collected from a selection, a view or a status read before the first. `ChargedOnce` is a conjunct;
`CaptureIsDue`, an action property, follows step by step.

`AgreeInv` says that payments agree with their order: one in the pool, just accepted or cancelled has no
payment that could still be charged (`NoOrphan`), and a live one has the quote of the deal in force
(`Current`). It rests on the lock a replacement takes (`Reads`): while a request holds the order no payment of
it appears, so the row the request found is the live one and voiding it leaves nothing behind.
`QuoteStaysCurrent` leaves out a payment finance captured from the provider's panel, since an order back in
the pool may keep it with its quote. That work under way is secured (`Secured`) needs the hypothesis `Serial`,
with which what a job read of the order is still so when it writes (`Fresh`); without it `order_started` is a
counterexample.

### MoneyBack

`Balanced` is an invariant of the ledger: for each party, what it gave back, times the charge, is at most its
part times what the client got. `PartiesNeverOwe` alone is not inductive, because every share is rounded on
its own; with the product every sequence of rounded shares stays below the part. `RowInv` adds that payment
and ledger agree (`Books`), that at most one refund is open, for no more than what is left (`OneOpen`), and
how an order ends; `IInv` adds what a transaction waiting for the provider and an event in flight rely on, so
that a stale event books nothing the provider did not do. The parts of the charge, the amounts, the staff and
the numbers of refunds and chargebacks are arbitrary.

`SumsInv` is about sums over sets of refunds, which the model writes as a fold. Their lemmas (`SumAdds`,
`SumWith`, `SumSame`) are proved from a set that is smallest among the counterexamples (the order by strict
inclusion of finite sets is well founded), as the induction theorems cannot be applied. The invariant adds to
the two properties that a refund on its way to the provider without a high signature still fits under the
threshold together with what was returned (`Small`): no other can overtake it, as only one is open.

`LostIsBooked` has a hypothesis: the payment has one chargeback (`\A b, c \in Disputes : b = c`). With two it
is false, as TLC shows: the loss of the second, after the first was won, is not booked
(`app/payments/disputes.py:82`). `ChargebackInv` says that a closed chargeback is what the bank says of it,
and that an open one keeps the payment from being anything but DISPUTED, REFUNDED or CHARGED_BACK.

### Kyc

`CaseInv` has one part per promise: an approval rests on what was decided (`DecidedOn`), the address stays
locked from the submission on (`Locked`), a bound proof proves the address it points to, which is then not
edited in place (`BoundProves`), a suspended or expired case has no account or a blocked one (`Blocked`), and
an order or the availability rests on the approval (`Eligible`). `ApprovedIsProven` is not inductive without
`BoundProves` and `Locked`, since an edit of the address or a correction could undo an approved proof without
touching it. `KycInv` adds that what the trigger checked for an accept stays true until it commits: it holds
both rows `FOR SHARE`. The names of actors are told apart by assumption (`KycAssumption`), as the code's are
rows of different kinds.

### The services

`Reviews`: the reputation counts exactly the public review (`CountsPublished`), and a flagged public one was
let be (`FlaggedIsCleared`). `RefundedStaysHidden` holds whatever overlaps; `RefundHides` needs `~Overlap`,
and `reviews_refund` shows why.

`KycDocuments`: the worker's copy of a document may be old. `SessionIsFresh` says what may not: a document it
may declare complete was SCANNING when it was read, and one that is SCANNING takes no uploads and, its files
being locked, no delete, so that the sides outside the batch are still as they were read.

`WebhookInbox`: the rows a batch has locked are still to be handled when it reaches them, and an attempt is
left to every event that is not settled.

`Sessions`: a family has one live token at most (`OneLive`) and none once reused (`NoneReused`); what the
revoking UPDATE saw is still all that is live in the family, because whoever would issue another token needs
the user row it holds (`SawAll`). That last part is what makes the first two inductive.

`AuditChain`: the committed rows together with those of the writer that holds the lock are a chain
(`Appending`), a ticket is the business of one request at a time (`OneUse`), and the entries of views are at
least as many as the tickets shown (`Recorded`).

`Idempotency`: at most one caller has inserted the key without committing, and only while there is no
committed row (`OneRunner`: the unique index makes the others wait), and the operation was committed once if
there is a row and never if there is none (`CountedOnce`). With both, every step is a step of `AtMostOnce`
under the mapping or changes nothing it sees.

`Commission`: the invariant is that a quote is what `compute` returns for its inputs; the rest is arithmetic,
from quotients (`DivNat`, `DivIs`) over half-up rounding (`HalfUpBelow`, `VatWithinACent`) to the split
(`SplitOfCharge`). `price_for_charge` searches; the lemmas find the least natural that satisfies a condition
(`Least`), show that a charge grows with its price (`ChargeGrows`), and that the search ends at the price the
charge was made of (`PriceOfCharge`). Rates above 100 % are excluded by `valid_rates`, as
`app/core/config.py:107` bounds them (`le=10000`).

`CommissionRules`: the validities of two rules of a scope do not overlap (`Disjoint`) and, while no GLOBAL
rule was given an end, some GLOBAL one is in force at every time (`Covered`). The first is kept by the
exclusion constraint, whatever the managers' queries saw, and because ends only move back. The second is what
`create_rule` has to keep, which ends the rules it has locked at the instant the new one begins; a manager who
is refused ends none.

`ServicesImplementParts` says that the composition implements the specification of each of its eight parts;
what each module proves of its part then holds of the composition (`ServicesKeepPromises`).

### Only model-checked

`EventuallyCollected`, `CollectedIsKnown`, `HoldReleased`, `ApprovedIsSent`, `PendingIsSettled`,
`JobsCatchUp`, `FileSettles` and `EventSettles` are liveness properties: they need fairness, that is
`ENABLED`, which the prover does not handle. The properties the runs of section 3 violate are not theorems;
where one holds under a hypothesis (`Serial`, `~Overlap`), that is stated above.

## 5. Plan

1. Done: every module of section 2 and its proofs.
2. The late-cancellation fee (payments of kind CANCELLATION_FEE), payouts, and `OrderPayment` with `MoneyBack`
   from one charge: events before the capture.
3. An abstract specification of one charge as the client sees it (nothing held, held, collected, partly or
   wholly returned), implemented by `OrderPayment` up to the capture and by `MoneyBack` from it, with the step
   simulation proved from `IInv` and `ChargeInv`.
4. The rotation of wrapped keys batch by batch against writes of new rows.

## 6. Not modelled

Reports and statements (read-only), cards and customers (a lookup and a provider call), validators and schemas
(text), cryptography and key rotation, seed data and deployment; of the provider, everything but charges,
refunds, disputes and account states; of KYC, the checks that only refuse (risk flags, regions, duplicates).
Each is listed in `PROJECT.json` with its reason.
