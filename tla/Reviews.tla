-------------------------------- MODULE Reviews --------------------------------
(***************************************************************************)
(* The review of one order: written, edited, answered, reported, moderated *)
(* and hidden by a full refund, with what it adds to the technician's      *)
(* reputation.                                                             *)
(*                                                                         *)
(*   rv    the committed rows: order, review, reports, reputation          *)
(*   rfnd  the transaction of a full refund between its reads and its      *)
(*         commit (only when Overlap): the order is locked, the review is  *)
(*         read without a lock                                             *)
(*                                                                         *)
(* Every other handler locks the review (create: the order) first, so it   *)
(* is one step.                                                            *)
(***************************************************************************)
EXTENDS Naturals, FiniteSets

CONSTANTS
  Reporters,  \* clients that may report the review
  Credible,   \* those with a verified e-mail, an old account and a paid service
  AutoHide,   \* REVIEW_AUTO_HIDE_REPORTS
  MaxEdits,   \* REVIEW_MAX_EDITS
  Overlap     \* BOOLEAN: other transactions may run while a full refund is under way

ASSUME ReviewsAssumption == Credible \subseteq Reporters /\ IsFiniteSet(Reporters) /\ AutoHide \in Nat \ {0}
                            /\ MaxEdits \in Nat /\ Overlap \in BOOLEAN

VARIABLES rv, rfnd
reviewVars == <<rv, rfnd>>

\* HIGH and what OFFENSIVE_LANGUAGE adds to it; the MEDIUM flags only lower the weight.
Flag == {"SHARED_WITH_TECHNICIAN", "OFFENSIVE_LANGUAGE", "MEDIUM"}
HIGH == {"SHARED_WITH_TECHNICIAN", "OFFENSIVE_LANGUAGE"}

\* weight: 2 for 1, 1 for a lower one.  reason: moderation_reason.  by_staff: moderated_by_id
\* is set.  cleared: who let what it says now be public (not a column; the audit log has it).
\* counted: the weight of the review in technician_reputation, if it is in it.
ReviewRow == [order : {"READY_FOR_REVIEW", "REVIEWED", "DISPUTED", "REFUNDED"},
              status : {"NONE", "PENDING_MODERATION", "PUBLISHED", "HIDDEN", "REMOVED"},
              reason : {"none", "AUTO_HIDDEN_REPORTS", "ORDER_REFUNDED", "STAFF"},
              flags : SUBSET Flag, weight : 0..2, by_staff : BOOLEAN, edits : 0..MaxEdits, replied : BOOLEAN,
              report : [Reporters -> {"none", "OPEN", "RESOLVED"}],
              cleared : {"rules", "publisher"}, counted : SUBSET (0..2)]
NoRefundTx == [on |-> FALSE, status |-> "NONE", weight |-> 0]

ReviewsTypeOK == rv \in ReviewRow /\ rfnd \in [on : BOOLEAN, status : {"NONE", "PENDING_MODERATION", "PUBLISHED",
                                                                      "HIDDEN", "REMOVED"}, weight : 0..2]

-------------------------------------------------------------------------------
\* reputation.recompute counts what is PUBLISHED at that moment.
recompute(r) == [r EXCEPT !.counted = IF r.status = "PUBLISHED" THEN {r.weight} ELSE {}]

\* antifraud.decide
verdict_status(flags) == IF flags \cap HIGH # {} THEN "PENDING_MODERATION" ELSE "PUBLISHED"
verdict_weight(flags) == IF flags \cap HIGH # {} THEN 0 ELSE IF "MEDIUM" \in flags THEN 1 ELSE 2

\* The trigger; the order it refers to was collected (ReviewableIsPaid of OrderPayment).
review_insert_guard(r) == r.order = "READY_FOR_REVIEW"

\* eligibility; assess finds the flags.
create_review(flags) ==
  /\ rv.status = "NONE" /\ review_insert_guard(rv) /\ ~rfnd.on
  /\ rv' = recompute([rv EXCEPT !.status = verdict_status(flags), !.weight = verdict_weight(flags), !.flags = flags,
                                !.order = "REVIEWED"])
  /\ UNCHANGED rfnd

\* Mutant: once a moderator decided, the words are not looked at again.
edited_after_staff(r, flags) ==
  IF ~r.by_staff THEN [r EXCEPT !.status = verdict_status(flags), !.weight = verdict_weight(flags)] ELSE r

edited(r, flags) ==
  IF ~r.by_staff THEN [r EXCEPT !.status = verdict_status(flags), !.weight = verdict_weight(flags)]
  ELSE IF "OFFENSIVE_LANGUAGE" \in flags /\ r.status = "PUBLISHED"
       THEN [r EXCEPT !.status = "PENDING_MODERATION", !.weight = 0] ELSE r

edit(offensive) ==
  LET flags == (rv.flags \ {"OFFENSIVE_LANGUAGE"}) \cup (IF offensive THEN {"OFFENSIVE_LANGUAGE"} ELSE {}) IN
  /\ rv.status \in {"PUBLISHED", "PENDING_MODERATION"} /\ rv.edits < MaxEdits
  /\ rv.order \notin {"DISPUTED", "REFUNDED"}
  /\ rv' = recompute([edited(rv, flags) EXCEPT !.flags = flags, !.edits = @ + 1,
                                               !.cleared = IF offensive THEN "rules" ELSE @])
  /\ UNCHANGED rfnd

reply ==
  /\ rv.status = "PUBLISHED" /\ ~rv.replied
  /\ rv' = [rv EXCEPT !.replied = TRUE] /\ UNCHANGED rfnd

open_reports(r) == {c \in Reporters : r.report[c] = "OPEN"}

report(c) ==
  LET r == [rv EXCEPT !.report[c] = "OPEN"] IN
  /\ rv.status = "PUBLISHED" /\ rv.report[c] = "none"
  /\ rv' = IF Cardinality(open_reports(r) \cap Credible) >= AutoHide
           THEN recompute([r EXCEPT !.status = "HIDDEN", !.reason = "AUTO_HIDDEN_REPORTS"]) ELSE r
  /\ UNCHANGED rfnd

\* Mutant: publishing does not look at the order.
may_publish_any(r) == TRUE

may_publish(r) == r.order # "REFUNDED"

resolve_all(r) == [c \in Reporters |-> IF r.report[c] = "OPEN" THEN "RESOLVED" ELSE r.report[c]]

\* count: count_in_reputation.
_apply_moderation(r, to, count) ==
  recompute([r EXCEPT !.status = to, !.reason = "STAFF", !.by_staff = TRUE,
                      !.weight = IF ~count THEN 0
                                 ELSE IF to = "PUBLISHED" /\ @ = 0 THEN verdict_weight(r.flags \ HIGH) ELSE @,
                      !.cleared = IF to = "PUBLISHED" THEN "publisher" ELSE @,
                      !.report = IF to = "PUBLISHED" THEN @ ELSE resolve_all(r)])

\* who: "support" has REVIEWS_MODERATE, "moderator" also REVIEWS_PUBLISH and REVIEWS_REMOVE.
moderate(who, to, count) ==
  /\ rv.status \notin {"NONE", "REMOVED", to}
  /\ to \in {"REMOVED", "PUBLISHED"} \/ ~count => who = "moderator"
  /\ to = "PUBLISHED" => may_publish(rv)
  /\ rv' = _apply_moderation(rv, to, count) /\ UNCHANGED rfnd

\* resolve_report with KEEP: what only the reports had hidden comes back with the last of them.
keep_reported(who, c) ==
  LET r == [rv EXCEPT !.report[c] = "RESOLVED"] IN
  /\ rv.report[c] = "OPEN" /\ (rv.status # "PUBLISHED" => who = "moderator")
  /\ rv' = IF r.status = "HIDDEN" /\ r.reason = "AUTO_HIDDEN_REPORTS" /\ open_reports(r) = {} /\ may_publish(r)
           THEN _apply_moderation(r, "PUBLISHED", TRUE) ELSE r
  /\ UNCHANGED rfnd

resolve_report(who, c, to) ==
  LET r == [rv EXCEPT !.report[c] = "RESOLVED"] IN
  /\ rv.report[c] = "OPEN" /\ (to = "REMOVED" => who = "moderator")
  /\ rv' = IF rv.status \notin {to, "REMOVED"} THEN _apply_moderation(r, to, TRUE) ELSE r
  /\ UNCHANGED rfnd

-------------------------------------------------------------------------------
(* orders.on_full_refund and hide_for_refund                               *)

\* loaded: the review as the refund read it.  The session writes the columns that are no longer
\* what was read, so a status that was already HIDDEN is not written.
hide_for_refund(r, loaded) ==
  IF loaded.status \in {"NONE", "REMOVED"} THEN r
  ELSE [r EXCEPT !.status = IF loaded.status = "HIDDEN" THEN @ ELSE "HIDDEN",
                 !.weight = IF loaded.weight = 0 THEN @ ELSE 0, !.reason = "ORDER_REFUNDED"]

on_full_refund(r, loaded) == recompute(hide_for_refund([r EXCEPT !.order = "REFUNDED"], loaded))

REFUND_FROM == {"DISPUTED", "READY_FOR_REVIEW", "REVIEWED"}

refund_at_once ==
  /\ ~rfnd.on /\ rv.order \in REFUND_FROM
  /\ rv' = on_full_refund(rv, rv) /\ UNCHANGED rfnd

refund_reads ==
  /\ Overlap /\ ~rfnd.on /\ rv.order \in REFUND_FROM
  /\ rfnd' = [on |-> TRUE, status |-> rv.status, weight |-> rv.weight] /\ UNCHANGED rv

refund_commits ==
  /\ rfnd.on
  /\ rv' = on_full_refund(rv, rfnd) /\ rfnd' = NoRefundTx

\* The client disputes the order and the dispute is dropped (OrderPayment has the whole of it).
dispute_and_back ==
  /\ ~rfnd.on
  /\ \/ rv.order = "REVIEWED" /\ rv' = [rv EXCEPT !.order = "DISPUTED"]
     \/ rv.order = "DISPUTED" /\ rv' = [rv EXCEPT !.order = "REVIEWED"]
  /\ UNCHANGED rfnd

-------------------------------------------------------------------------------
ReviewsInit ==
  /\ rv = [order |-> "READY_FOR_REVIEW", status |-> "NONE", reason |-> "none", flags |-> {}, weight |-> 0,
           by_staff |-> FALSE, edits |-> 0, replied |-> FALSE, report |-> [c \in Reporters |-> "none"],
           cleared |-> "rules", counted |-> {}]
  /\ rfnd = NoRefundTx

Who == {"support", "moderator"}
AuthorStep == (\E flags \in SUBSET Flag : create_review(flags)) \/ (\E offensive \in BOOLEAN : edit(offensive))
ReaderStep == reply \/ \E c \in Reporters : report(c)
ModeratorStep ==
  \/ \E who \in Who, to \in {"PUBLISHED", "HIDDEN", "REMOVED"}, count \in BOOLEAN : moderate(who, to, count)
  \/ \E who \in Who, c \in Reporters : keep_reported(who, c)
  \/ \E who \in Who, c \in Reporters, to \in {"HIDDEN", "REMOVED"} : resolve_report(who, c, to)
ReviewsNext ==
  \/ AuthorStep \/ ReaderStep \/ ModeratorStep
  \/ refund_at_once \/ refund_reads \/ refund_commits \/ dispute_and_back
ReviewsSpec == ReviewsInit /\ [][ReviewsNext]_reviewVars

-------------------------------------------------------------------------------
\* hide_for_refund: once the order is refunded its review is not public and does not count,
\* whatever the reports, their resolutions and the moderators did before or do after.
RefundedIsHidden == rv.order = "REFUNDED" => rv.status # "PUBLISHED" /\ rv.counted = {}

\* Hidden by a refund, it stays so: no report, resolution or moderation brings it back.
NeverRepublished == [][rv.order = "REFUNDED" /\ rv.status # "PUBLISHED" => rv'.status # "PUBLISHED"]_reviewVars

\* A review with a high risk signal, or with language flagged since, is public only because
\* content moderation published it as it stands: no edit, report or support decision does it.
FlaggedIsCleared == rv.status = "PUBLISHED" /\ rv.flags \cap HIGH # {} => rv.cleared = "publisher"
================================================================================
