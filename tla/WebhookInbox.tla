------------------------------ MODULE WebhookInbox ------------------------------
(***************************************************************************)
(* The inbox of provider events: rows of payment_webhook_events stored     *)
(* when an event is delivered and worked off by the worker.  What handling *)
(* an event does to orders, payments and refunds is in OrderPayment and    *)
(* MoneyBack; here it either takes effect, is not needed, or raises.       *)
(*                                                                         *)
(*   arrived  the events stored, oldest first (received_at)                *)
(*   inbox    their rows                                                   *)
(*   batch    the worker's transaction: the rows it locked and what it has *)
(*            decided for those it has been through                        *)
(*   handled  how often each event took effect (committed)                 *)
(***************************************************************************)
EXTENDS Naturals, Sequences, FiniteSets

CONSTANTS
  Events,           \* provider event ids
  WebhookAttempts,  \* WEBHOOK_MAX_ATTEMPTS
  Limit,            \* limit of process_pending
  MaxRequeues,      \* bound: times finance puts an event back
  MaxStops          \* bound: times the worker dies in a batch

ASSUME InboxAssumption == IsFiniteSet(Events) /\ WebhookAttempts \in Nat \ {0} /\ Limit \in Nat \ {0}
                          /\ MaxRequeues \in Nat /\ MaxStops \in Nat

VARIABLES arrived, inbox, batch, handled, stops
inboxVars == <<arrived, inbox, batch, handled, stops>>

\* due: next_attempt_at has passed.
PaymentWebhookEvent ==
  [status : {"absent", "PENDING", "FAILED", "PROCESSED", "IGNORED", "DEAD"}, attempts : 0..WebhookAttempts,
   due : BOOLEAN, requeues : 0..MaxRequeues]
Verdict == {"PROCESSED", "IGNORED", "raises"}
Settled == {"PROCESSED", "IGNORED", "DEAD"}
NoBatch == [open |-> FALSE, todo |-> <<>>, verdict |-> [e \in {} |-> "raises"]]

InboxTypeOK ==
  /\ inbox \in [Events -> PaymentWebhookEvent] /\ \A i \in DOMAIN arrived : arrived[i] \in Events
  /\ batch.open \in BOOLEAN /\ \A i \in DOMAIN batch.todo : batch.todo[i] \in Events
  /\ \A e \in DOMAIN batch.verdict : e \in Events /\ batch.verdict[e] \in Verdict
  /\ handled \in [Events -> Nat] /\ stops \in 0..MaxStops

locked_rows == {batch.todo[i] : i \in DOMAIN batch.todo} \cup DOMAIN batch.verdict

\* Mutant: a repeated delivery starts the event anew.
store_again(row) == [row EXCEPT !.status = "PENDING", !.due = TRUE, !.attempts = 0]

\* INSERT ... ON CONFLICT DO NOTHING on the event id.
store(row) == IF row.status # "absent" THEN row ELSE [row EXCEPT !.status = "PENDING", !.due = TRUE]

\* _receive: the provider delivers an event, any number of times; the route commits at once.
deliver(e) ==
  /\ inbox' = [inbox EXCEPT ![e] = store(@)]
  /\ arrived' = IF inbox[e].status = "absent" THEN Append(arrived, e) ELSE arrived
  /\ UNCHANGED <<batch, handled, stops>>

\* process_pending: the oldest rows that are due, oldest first, locked.
batch_opens ==
  LET due == {i \in DOMAIN arrived : inbox[arrived[i]].status \in {"PENDING", "FAILED"} /\ inbox[arrived[i]].due}
      n == IF Cardinality(due) < Limit THEN Cardinality(due) ELSE Limit IN
  /\ ~batch.open /\ due # {}
  /\ \E oldest \in [1..n -> due] :
       /\ \A j, k \in 1..n : j < k => oldest[j] < oldest[k]
       /\ \A i \in due : i <= oldest[n] => \E k \in 1..n : oldest[k] = i
       /\ batch' = [batch EXCEPT !.open = TRUE, !.todo = [k \in 1..n |-> arrived[oldest[k]]]]
  /\ UNCHANGED <<arrived, inbox, handled, stops>>

\* _handle in a savepoint.
_handle(verdict) ==
  /\ batch.todo # <<>>
  /\ batch' = [batch EXCEPT !.todo = Tail(@),
                            !.verdict = [e \in DOMAIN @ \cup {Head(batch.todo)} |->
                                           IF e = Head(batch.todo) THEN verdict ELSE @[e]]]
  /\ UNCHANGED <<arrived, inbox, handled, stops>>

\* Mutant: a failure is put off without being counted.
raised_uncounted(row) == [row EXCEPT !.status = "FAILED", !.due = FALSE]

\* Mutant: one attempt more than allowed.
raised_once_more(row) == [row EXCEPT !.attempts = @ + 1, !.due = FALSE,
                                     !.status = IF row.attempts >= WebhookAttempts THEN "DEAD" ELSE "FAILED"]

\* attempts, back-off, DEAD with an alert for finance.
raised(row) == [row EXCEPT !.attempts = @ + 1, !.due = row.attempts + 1 >= WebhookAttempts,
                           !.status = IF row.attempts + 1 >= WebhookAttempts THEN "DEAD" ELSE "FAILED"]

\* run_once commits the whole batch.
batch_commits ==
  /\ batch.open /\ batch.todo = <<>>
  /\ inbox' = [e \in Events |-> IF e \notin DOMAIN batch.verdict THEN inbox[e]
                                ELSE IF batch.verdict[e] = "raises" THEN raised(inbox[e])
                                ELSE [inbox[e] EXCEPT !.status = batch.verdict[e]]]
  /\ handled' = [e \in Events |-> IF e \in DOMAIN batch.verdict /\ batch.verdict[e] = "PROCESSED"
                                  THEN handled[e] + 1 ELSE handled[e]]
  /\ batch' = NoBatch /\ UNCHANGED <<arrived, stops>>

\* The worker dies, or its connection does: nothing of the batch remains.
batch_falls ==
  /\ batch.open /\ stops < MaxStops
  /\ batch' = NoBatch /\ stops' = stops + 1 /\ UNCHANGED <<arrived, inbox, handled>>

\* The back-off ends.
retry_is_due(e) ==
  /\ inbox[e].status = "FAILED" /\ ~inbox[e].due
  /\ inbox' = [inbox EXCEPT ![e].due = TRUE] /\ UNCHANGED <<arrived, batch, handled, stops>>

requeue_webhook(e) ==
  /\ inbox[e].status \in {"DEAD", "IGNORED"} /\ inbox[e].requeues < MaxRequeues /\ e \notin locked_rows
  /\ inbox' = [inbox EXCEPT ![e] = [@ EXCEPT !.status = "PENDING", !.attempts = 0, !.due = TRUE,
                                              !.requeues = inbox[e].requeues + 1]]
  /\ UNCHANGED <<arrived, batch, handled, stops>>

-------------------------------------------------------------------------------
InboxInit ==
  /\ arrived = <<>> /\ batch = NoBatch /\ handled = [e \in Events |-> 0] /\ stops = 0
  /\ inbox = [e \in Events |-> [status |-> "absent", attempts |-> 0, due |-> FALSE, requeues |-> 0]]
BatchStep == batch_opens \/ (\E verdict \in Verdict : _handle(verdict)) \/ batch_commits
InboxNext ==
  \/ \E e \in Events : deliver(e) \/ retry_is_due(e) \/ requeue_webhook(e)
  \/ BatchStep \/ batch_falls
\* The worker keeps cycling and time passes.
InboxFairness == WF_inboxVars(BatchStep) /\ \A e \in Events : WF_inboxVars(retry_is_due(e))
InboxSpec == InboxInit /\ [][InboxNext]_inboxVars /\ InboxFairness

-------------------------------------------------------------------------------
\* store and process_pending: an event takes effect once, although it is delivered again before,
\* during and after its batch, batches are rolled back, and finance requeues what was ignored.
EventTakesEffectOnce == \A e \in Events : handled[e] <= 1 /\ (handled[e] = 1 <=> inbox[e].status = "PROCESSED")

\* A stored event is processed, ignored or given up on in view of finance: one that always
\* raises neither stays for ever nor keeps those behind it from being handled.
EventSettles == \A e \in Events : inbox[e].status \in {"PENDING", "FAILED"} ~> inbox[e].status \in Settled
================================================================================
