----------------------------- MODULE ServicesProofs -----------------------------
(***************************************************************************)
(* Reviews, document scans and the inbox of provider events, for every     *)
(* value of the constants; then the composition MCServices, which behaves  *)
(* in each part as that part alone, so that what is proved of the parts,   *)
(* here and in the modules this one extends, is true of it.                *)
(***************************************************************************)
EXTENDS MCServices, SessionsProofs, IdempotencyProofs, CommissionProofs, AuditProofs

-------------------------------------------------------------------------------
(* Reviews                                                                 *)

\* The reputation counts the review exactly when it is public, with the weight it has.
counts(r) == IF r.status = "PUBLISHED" THEN {r.weight} ELSE {}
CountsPublished == rv.counted = counts(rv)
ReviewInv == ReviewsTypeOK /\ CountsPublished /\ FlaggedIsCleared

\* What recompute leaves of a row that has its type.
LEMMA RecomputeCounts ==
  ASSUME NEW r \in ReviewRow
  PROVE  /\ recompute(r) \in ReviewRow
         /\ recompute(r).counted = counts(recompute(r))
         /\ recompute(r).status = r.status /\ recompute(r).flags = r.flags /\ recompute(r).cleared = r.cleared
         /\ recompute(r).order = r.order /\ recompute(r).weight = r.weight
  BY DEF recompute, ReviewRow, counts

LEMMA VerdictType ==
  ASSUME NEW flags \in SUBSET Flag
  PROVE  /\ verdict_status(flags) \in {"PENDING_MODERATION", "PUBLISHED"} /\ verdict_weight(flags) \in 0..2
         /\ verdict_status(flags) = "PUBLISHED" => flags \cap HIGH = {}
  BY DEF verdict_status, verdict_weight

\* A decision of the staff: the row keeps its type, it counts as it must, and it is public only
\* if the decision was to publish it.
LEMMA ModerationRow ==
  ASSUME NEW r \in ReviewRow, NEW to \in {"PUBLISHED", "HIDDEN", "REMOVED"}, NEW count \in BOOLEAN,
         NEW m, m = _apply_moderation(r, to, count)
  PROVE  /\ m \in ReviewRow /\ m.status = to /\ m.order = r.order
         /\ m.counted = counts(m)
         /\ to = "PUBLISHED" => m.cleared = "publisher"
<1> DEFINE w == IF ~count THEN 0
                ELSE IF to = "PUBLISHED" /\ r.weight = 0 THEN verdict_weight(r.flags \ HIGH) ELSE r.weight
           p == IF to = "PUBLISHED" THEN r.report ELSE resolve_all(r)
           cl == IF to = "PUBLISHED" THEN "publisher" ELSE r.cleared
           e == [r EXCEPT !.status = to, !.reason = "STAFF", !.by_staff = TRUE, !.weight = w, !.cleared = cl,
                          !.report = p]
<1>1. w \in 0..2
  BY VerdictType DEF ReviewRow, Flag
<1>2. p \in [Reporters -> {"none", "OPEN", "RESOLVED"}]
  BY DEF resolve_all, ReviewRow
<1>3. cl \in {"rules", "publisher"}
  BY DEF ReviewRow
<1>4. m = recompute(e)
  BY Zenon DEF _apply_moderation
<1> HIDE DEF w, p
<1>5. e \in ReviewRow /\ e.status = to /\ e.order = r.order /\ e.cleared = cl
  BY <1>1, <1>2, <1>3 DEF ReviewRow
<1> HIDE DEF e
<1>6. QED
  BY <1>4, <1>5, RecomputeCounts

LEMMA ReviewsInitInv == ReviewsInit => ReviewInv
  BY ReviewsAssumption
  DEF ReviewsInit, ReviewInv, ReviewsTypeOK, CountsPublished, counts, FlaggedIsCleared, ReviewRow, NoRefundTx

\* Writing and editing: what the rules find decides, and only a row they find nothing in, or that
\* a moderator published and that is still without offensive language, is public.
LEMMA AuthorKeeps ==
  ASSUME ReviewInv, AuthorStep
  PROVE  ReviewInv'
<1> USE DEF ReviewInv
<1>0. rv \in ReviewRow /\ rfnd' = rfnd
  BY DEF ReviewsTypeOK, AuthorStep, create_review, edit
<1>1. ASSUME NEW flags \in SUBSET Flag, create_review(flags) PROVE ReviewInv'
  <2> DEFINE e == [rv EXCEPT !.status = verdict_status(flags), !.weight = verdict_weight(flags), !.flags = flags,
                             !.order = "REVIEWED"]
  <2>1. e \in ReviewRow /\ e.status = verdict_status(flags) /\ e.flags = flags
    BY <1>0, VerdictType DEF ReviewRow
  <2>2. rv' = recompute(e)
    BY <1>1 DEF create_review
  <2> HIDE DEF e
  <2>3. QED
    BY <1>0, <2>1, <2>2, RecomputeCounts, VerdictType DEF ReviewsTypeOK, CountsPublished, FlaggedIsCleared
<1>2. ASSUME NEW offensive \in BOOLEAN, edit(offensive) PROVE ReviewInv'
  <2> DEFINE flags == (rv.flags \ {"OFFENSIVE_LANGUAGE"}) \cup (IF offensive THEN {"OFFENSIVE_LANGUAGE"} ELSE {})
             r == edited(rv, flags)
             e == [r EXCEPT !.flags = flags, !.edits = @ + 1, !.cleared = IF offensive THEN "rules" ELSE @]
  <2>1. rv' = recompute(e) /\ rv.edits < MaxEdits
    BY <1>2 DEF edit
  <2>2. flags \in SUBSET Flag
    BY <1>0 DEF ReviewRow, Flag
  <2>3. r \in ReviewRow /\ r.edits = rv.edits /\ r.cleared = rv.cleared
    <3> DEFINE vs == verdict_status(flags)
               vw == verdict_weight(flags)
    <3>1. vs \in {"PENDING_MODERATION", "PUBLISHED"} /\ vw \in 0..2
      BY <2>2, VerdictType
    <3>2. r = rv \/ \E st \in {"PENDING_MODERATION", "PUBLISHED"}, w \in 0..2 :
                      r = [rv EXCEPT !.status = st, !.weight = w]
      <4>1. \/ r = [rv EXCEPT !.status = vs, !.weight = vw]
            \/ r = [rv EXCEPT !.status = "PENDING_MODERATION", !.weight = 0]
            \/ r = rv
        BY DEF edited
      <4> HIDE DEF vs, vw, r
      <4>2. CASE r = [rv EXCEPT !.status = vs, !.weight = vw]
        BY <3>1, <4>2
      <4>3. CASE r = [rv EXCEPT !.status = "PENDING_MODERATION", !.weight = 0]
        <5> DEFINE st == "PENDING_MODERATION"
                   w == 0
        <5>1. st \in {"PENDING_MODERATION", "PUBLISHED"} /\ w \in 0..2 /\ r = [rv EXCEPT !.status = st, !.weight = w]
          BY <4>3
        <5> HIDE DEF st, w
        <5>2. QED
          BY <5>1
      <4>4. QED
        BY <4>1, <4>2, <4>3
    <3> HIDE DEF vs, vw, r
    <3>3. ASSUME NEW st \in {"PENDING_MODERATION", "PUBLISHED"}, NEW w \in 0..2,
                 r = [rv EXCEPT !.status = st, !.weight = w]
          PROVE  r \in ReviewRow /\ r.edits = rv.edits /\ r.cleared = rv.cleared
      BY <1>0, <3>3 DEF ReviewRow
    <3>4. QED
      BY <1>0, <3>2, <3>3
  <2>4. r.status = "PUBLISHED" /\ flags \cap HIGH # {} => ~offensive /\ rv.status = "PUBLISHED"
    <3> SUFFICES ASSUME r.status = "PUBLISHED", flags \cap HIGH # {}
                 PROVE  ~offensive /\ rv.status = "PUBLISHED"
      OBVIOUS
    <3>1. rv.by_staff
      <4>1. SUFFICES ASSUME ~rv.by_staff PROVE r.status = verdict_status(flags)
        BY <2>2, VerdictType
      <4>2. QED
        BY <4>1, <1>0 DEF edited, ReviewRow
    <3>2. ~("OFFENSIVE_LANGUAGE" \in flags /\ rv.status = "PUBLISHED")
      <4>1. SUFFICES ASSUME "OFFENSIVE_LANGUAGE" \in flags /\ rv.status = "PUBLISHED" PROVE r.status = "PENDING_MODERATION"
        OBVIOUS
      <4>2. QED
        BY <3>1, <4>1, <1>0 DEF edited, ReviewRow
    <3>3. r = rv
      BY <3>1, <3>2 DEF edited
    <3>4. QED
      BY <3>2, <3>3
  <2>5. ~offensive => flags \cap HIGH \subseteq rv.flags \cap HIGH
    OBVIOUS
  <2> HIDE DEF flags, r
  <2>6. e \in ReviewRow /\ e.status = r.status /\ e.flags = flags /\ (~offensive => e.cleared = rv.cleared)
    <3> DEFINE n == r.edits + 1
               cl == IF offensive THEN "rules" ELSE r.cleared
    <3>1. n \in 0..MaxEdits /\ cl \in {"rules", "publisher"} /\ (~offensive => cl = rv.cleared)
      BY <2>1, <2>3, <1>0, ReviewsAssumption DEF ReviewRow
    <3>2. e = [r EXCEPT !.flags = flags, !.edits = n, !.cleared = cl]
      OBVIOUS
    <3> HIDE DEF n, cl, e
    <3>3. QED
      BY <3>1, <3>2, <2>2, <2>3 DEF ReviewRow
  <2> HIDE DEF e
  <2>7. FlaggedIsCleared'
    <3>1. rv'.status = e.status /\ rv'.flags = e.flags /\ rv'.cleared = e.cleared
      BY <2>1, <2>6, RecomputeCounts
    <3>2. QED
      BY <3>1, <2>4, <2>5, <2>6 DEF FlaggedIsCleared
  <2>8. QED
    BY <1>0, <2>1, <2>6, <2>7, RecomputeCounts DEF ReviewsTypeOK, CountsPublished
<1>3. QED
  BY <1>1, <1>2 DEF AuthorStep

LEMMA ReaderKeeps ==
  ASSUME ReviewInv, ReaderStep
  PROVE  ReviewInv'
<1> USE DEF ReviewInv
<1>0. rv \in ReviewRow /\ rfnd' = rfnd
  BY DEF ReviewsTypeOK, ReaderStep, reply, report
<1>1. CASE reply
  BY <1>0, <1>1 DEF reply, ReviewsTypeOK, CountsPublished, counts, FlaggedIsCleared, ReviewRow
<1>2. ASSUME NEW c \in Reporters, report(c) PROVE ReviewInv'
  <2> DEFINE r == [rv EXCEPT !.report[c] = "OPEN"]
             e == [r EXCEPT !.status = "HIDDEN", !.reason = "AUTO_HIDDEN_REPORTS"]
  <2>1. r \in ReviewRow /\ r.status = rv.status /\ r.weight = rv.weight /\ r.flags = rv.flags /\ r.cleared = rv.cleared
        /\ r.counted = rv.counted
    BY <1>0 DEF ReviewRow
  <2>2. rv' = recompute(e) \/ rv' = r
    BY <1>2 DEF report
  <2> HIDE DEF r
  <2>3. e \in ReviewRow /\ e.status = "HIDDEN"
    BY <2>1 DEF ReviewRow
  <2> HIDE DEF e
  <2>4. CASE rv' = recompute(e)
    BY <1>0, <2>3, <2>4, RecomputeCounts DEF ReviewsTypeOK, CountsPublished, FlaggedIsCleared
  <2>5. CASE rv' = r
    BY <1>0, <2>1, <2>5 DEF ReviewsTypeOK, CountsPublished, counts, FlaggedIsCleared
  <2>6. QED
    BY <2>2, <2>4, <2>5
<1>3. QED
  BY <1>1, <1>2 DEF ReaderStep

\* A report marked as resolved changes nothing else in the row.
LEMMA ResolvedRow ==
  ASSUME rv \in ReviewRow, NEW c \in Reporters, NEW r, r = [rv EXCEPT !.report[c] = "RESOLVED"]
  PROVE
         /\ r \in ReviewRow /\ r.status = rv.status /\ r.weight = rv.weight /\ r.flags = rv.flags
         /\ r.cleared = rv.cleared /\ r.counted = rv.counted /\ r.order = rv.order
  BY DEF ReviewRow

\* The step of a moderator either decides, or leaves all but the report as it was; and it publishes
\* only what may be published.
LEMMA ModeratorDoes ==
  ASSUME rv \in ReviewRow, ModeratorStep
  PROVE  /\ rfnd' = rfnd
         /\ \/ \E r \in ReviewRow, to \in {"PUBLISHED", "HIDDEN", "REMOVED"}, count \in BOOLEAN :
                 /\ rv' = _apply_moderation(r, to, count) /\ r.order = rv.order
                 /\ to = "PUBLISHED" => may_publish(r)
            \/ \E c \in Reporters : rv' = [rv EXCEPT !.report[c] = "RESOLVED"]
<1>1. ASSUME NEW who \in Who, NEW to \in {"PUBLISHED", "HIDDEN", "REMOVED"}, NEW count \in BOOLEAN,
             moderate(who, to, count)
      PROVE  /\ rfnd' = rfnd
             /\ \E r \in ReviewRow, t \in {"PUBLISHED", "HIDDEN", "REMOVED"}, n \in BOOLEAN :
                 /\ rv' = _apply_moderation(r, t, n) /\ r.order = rv.order
                 /\ t = "PUBLISHED" => may_publish(r)
  BY <1>1 DEF moderate
<1>2. ASSUME NEW who \in Who, NEW c \in Reporters, keep_reported(who, c)
      PROVE  /\ rfnd' = rfnd
             /\ \/ \E r \in ReviewRow : rv' = _apply_moderation(r, "PUBLISHED", TRUE) /\ r.order = rv.order
                                        /\ may_publish(r)
                \/ rv' = [rv EXCEPT !.report[c] = "RESOLVED"]
  <2> DEFINE r == [rv EXCEPT !.report[c] = "RESOLVED"]
  <2>1. r \in ReviewRow /\ r.order = rv.order
    BY ResolvedRow
  <2>2. (rv' = _apply_moderation(r, "PUBLISHED", TRUE) /\ may_publish(r)) \/ rv' = r
    BY <1>2 DEF keep_reported
  <2>3. rfnd' = rfnd
    BY <1>2 DEF keep_reported
  <2> HIDE DEF r
  <2>4. QED
    BY <2>1, <2>2, <2>3 DEF r
<1>3. ASSUME NEW who \in Who, NEW c \in Reporters, NEW to \in {"HIDDEN", "REMOVED"}, resolve_report(who, c, to)
      PROVE  /\ rfnd' = rfnd
             /\ \/ \E r \in ReviewRow : rv' = _apply_moderation(r, to, TRUE) /\ r.order = rv.order
                \/ rv' = [rv EXCEPT !.report[c] = "RESOLVED"]
  <2> DEFINE r == [rv EXCEPT !.report[c] = "RESOLVED"]
  <2>1. r \in ReviewRow /\ r.order = rv.order
    BY ResolvedRow
  <2>2. rv' = _apply_moderation(r, to, TRUE) \/ rv' = r
    BY <1>3 DEF resolve_report
  <2>3. rfnd' = rfnd
    BY <1>3 DEF resolve_report
  <2> HIDE DEF r
  <2>4. QED
    BY <2>1, <2>2, <2>3 DEF r
<1>4. QED
  BY <1>1, <1>2, <1>3 DEF ModeratorStep

\* What the refund of the whole charge writes, whatever it had read.
LEMMA RefundRow ==
  ASSUME NEW r \in ReviewRow,
         NEW loaded, loaded.status \in {"NONE", "PENDING_MODERATION", "PUBLISHED", "HIDDEN", "REMOVED"},
         NEW f, f = on_full_refund(r, loaded)
  PROVE  /\ f \in ReviewRow /\ f.order = "REFUNDED" /\ f.flags = r.flags /\ f.cleared = r.cleared
         /\ f.status = (IF loaded.status \in {"NONE", "REMOVED", "HIDDEN"} THEN r.status ELSE "HIDDEN")
         /\ f.counted = counts(f)
<1> DEFINE o == [r EXCEPT !.order = "REFUNDED"]
           e == hide_for_refund(o, loaded)
<1>1. o \in ReviewRow /\ o.order = "REFUNDED" /\ o.flags = r.flags /\ o.cleared = r.cleared /\ o.status = r.status
  BY DEF ReviewRow
<1>2. f = recompute(e)
  BY DEF on_full_refund
<1> HIDE DEF o
<1>3. /\ e \in ReviewRow /\ e.order = o.order /\ e.flags = o.flags /\ e.cleared = o.cleared
      /\ e.status = (IF loaded.status \in {"NONE", "REMOVED", "HIDDEN"} THEN o.status ELSE "HIDDEN")
  <2>1. CASE loaded.status \in {"NONE", "REMOVED"}
    BY <1>1, <2>1 DEF hide_for_refund
  <2>2. CASE loaded.status \notin {"NONE", "REMOVED"}
    <3> DEFINE st == IF loaded.status = "HIDDEN" THEN o.status ELSE "HIDDEN"
               w == IF loaded.weight = 0 THEN o.weight ELSE 0
    <3>1. st \in {"NONE", "PENDING_MODERATION", "PUBLISHED", "HIDDEN", "REMOVED"} /\ w \in 0..2
      BY <1>1 DEF ReviewRow
    <3>2. e = [o EXCEPT !.status = st, !.weight = w, !.reason = "ORDER_REFUNDED"]
      BY <2>2 DEF hide_for_refund
    <3>3. st = IF loaded.status \in {"NONE", "REMOVED", "HIDDEN"} THEN o.status ELSE "HIDDEN"
      BY <2>2
    <3> HIDE DEF st, w, e
    <3>4. QED
      BY <1>1, <3>1, <3>2, <3>3 DEF ReviewRow
  <2>3. QED
    BY <2>1, <2>2
<1> HIDE DEF e
<1>4. QED
  BY <1>1, <1>2, <1>3, RecomputeCounts

LEMMA RefundKeeps ==
  ASSUME ReviewInv, refund_at_once \/ refund_reads \/ refund_commits \/ dispute_and_back
  PROVE  ReviewInv'
<1> USE DEF ReviewInv
<1>0. rv \in ReviewRow
  BY DEF ReviewsTypeOK
<1>1. ASSUME NEW loaded, loaded.status \in {"NONE", "PENDING_MODERATION", "PUBLISHED", "HIDDEN", "REMOVED"},
             rv' = on_full_refund(rv, loaded), rfnd' = rfnd \/ rfnd' = NoRefundTx
      PROVE  ReviewInv'
  <2>1. /\ rv' \in ReviewRow /\ rv'.flags = rv.flags /\ rv'.cleared = rv.cleared
        /\ rv'.status = "PUBLISHED" => rv.status = "PUBLISHED"
        /\ rv'.counted = counts(rv')
    BY <1>0, <1>1, RefundRow
  <2>2. ReviewsTypeOK'
    <3>1. NoRefundTx \in [on : BOOLEAN, weight : 0..2,
                          status : {"NONE", "PENDING_MODERATION", "PUBLISHED", "HIDDEN", "REMOVED"}]
      BY DEF NoRefundTx
    <3>2. QED
      BY <1>1, <2>1, <3>1 DEF ReviewsTypeOK
  <2>3. CountsPublished'
    BY <2>1 DEF CountsPublished
  <2>4. FlaggedIsCleared'
    BY <2>1 DEF FlaggedIsCleared
  <2>5. QED
    BY <2>2, <2>3, <2>4
<1>2. CASE refund_at_once
  BY <1>0, <1>1, <1>2 DEF refund_at_once, ReviewRow
<1>3. CASE refund_commits
  BY <1>1, <1>3 DEF refund_commits, ReviewsTypeOK
<1>4. CASE refund_reads
  BY <1>4 DEF refund_reads, ReviewsTypeOK, CountsPublished, FlaggedIsCleared, ReviewRow
<1>5. CASE dispute_and_back
  BY <1>5 DEF dispute_and_back, ReviewsTypeOK, CountsPublished, counts, FlaggedIsCleared, ReviewRow
<1>6. QED
  BY <1>2, <1>3, <1>4, <1>5

LEMMA ModeratorKeeps ==
  ASSUME ReviewInv, ModeratorStep
  PROVE  ReviewInv'
<1> USE DEF ReviewInv
<1>0. rv \in ReviewRow
  BY DEF ReviewsTypeOK
<1>1. rfnd' = rfnd
  BY <1>0, ModeratorDoes
<1>2. ASSUME NEW r \in ReviewRow, NEW to \in {"PUBLISHED", "HIDDEN", "REMOVED"}, NEW count \in BOOLEAN,
             rv' = _apply_moderation(r, to, count)
      PROVE  ReviewInv'
  <2>1. /\ rv' \in ReviewRow /\ (rv'.status = "PUBLISHED" => rv'.cleared = "publisher")
        /\ rv'.counted = counts(rv')
    <3>1. rv' \in ReviewRow
      BY <1>2, ModerationRow
    <3>2. rv'.status = to /\ rv'.counted = counts(rv')
      BY <1>2, ModerationRow
    <3>3. to = "PUBLISHED" => rv'.cleared = "publisher"
      BY <1>2, ModerationRow
    <3>4. QED
      BY <3>1, <3>2, <3>3
  <2>2. QED
    BY <1>1, <2>1 DEF ReviewsTypeOK, CountsPublished, FlaggedIsCleared
<1>3. ASSUME NEW c \in Reporters, rv' = [rv EXCEPT !.report[c] = "RESOLVED"] PROVE ReviewInv'
  BY <1>0, <1>1, <1>3, ResolvedRow DEF ReviewsTypeOK, CountsPublished, counts, FlaggedIsCleared
<1>4. QED
  BY <1>0, <1>2, <1>3, ModeratorDoes

LEMMA ReviewStep == ReviewInv /\ [ReviewsNext]_reviewVars => ReviewInv'
<1> SUFFICES ASSUME ReviewInv, [ReviewsNext]_reviewVars PROVE ReviewInv'
  OBVIOUS
<1>1. CASE UNCHANGED reviewVars
  BY <1>1 DEF reviewVars, ReviewInv, ReviewsTypeOK, CountsPublished, FlaggedIsCleared
<1>2. QED
  BY <1>1, AuthorKeeps, ReaderKeeps, ModeratorKeeps, RefundKeeps DEF ReviewsNext

\* Every row of the review, its order, its reports and its reputation keeps its type.
THEOREM ReviewsTyped == ReviewsSpec => []ReviewsTypeOK
<1>1. ReviewInv => ReviewsTypeOK
  BY DEF ReviewInv
<1>2. QED
  BY <1>1, ReviewsInitInv, ReviewStep, PTL DEF ReviewsSpec

\* antifraud.decide, edit and _apply_moderation: for any number of reporters, edits and decisions,
\* a review with a high risk signal is public only because a publisher let it be as it stands,
\* also when it is edited, reported or resolved while a refund is under way.
THEOREM FlaggedWasCleared == ReviewsSpec => []FlaggedIsCleared
<1>1. ReviewInv => FlaggedIsCleared
  BY DEF ReviewInv
<1>2. QED
  BY <1>1, ReviewsInitInv, ReviewStep, PTL DEF ReviewsSpec

\* moderate, keep_reported and on_full_refund: a step that starts with a hidden review of a
\* refunded order does not publish it.
LEMMA RefundedStepHides ==
  ASSUME ReviewInv, [ReviewsNext]_reviewVars, rv.order = "REFUNDED", rv.status # "PUBLISHED"
  PROVE  rv'.status # "PUBLISHED"
<1>0. rv \in ReviewRow
  BY DEF ReviewInv, ReviewsTypeOK
<1>1. CASE UNCHANGED reviewVars
  BY <1>1 DEF reviewVars
<1>2. CASE AuthorStep
  BY <1>2 DEF AuthorStep, create_review, review_insert_guard, edit
<1>3. CASE ReaderStep
  BY <1>3 DEF ReaderStep, reply, report
<1>4. CASE ModeratorStep
  <2>1. ASSUME NEW r \in ReviewRow, NEW to \in {"PUBLISHED", "HIDDEN", "REMOVED"}, NEW count \in BOOLEAN,
               rv' = _apply_moderation(r, to, count), r.order = rv.order, to = "PUBLISHED" => may_publish(r)
        PROVE  rv'.status # "PUBLISHED"
    <3>1. to # "PUBLISHED"
      BY <2>1 DEF may_publish
    <3>2. QED
      BY <2>1, <3>1, ModerationRow, ZenonT(30)
  <2>2. ASSUME NEW c \in Reporters, rv' = [rv EXCEPT !.report[c] = "RESOLVED"] PROVE rv'.status # "PUBLISHED"
    BY <1>0, <2>2, ResolvedRow
  <2>3. QED
    BY <1>0, <1>4, <2>1, <2>2, ModeratorDoes
<1>5. CASE refund_commits
  <2>1. rfnd.status \in {"NONE", "PENDING_MODERATION", "PUBLISHED", "HIDDEN", "REMOVED"}
    BY DEF ReviewInv, ReviewsTypeOK
  <2>2. QED
    <3>1. rv' = on_full_refund(rv, rfnd)
      BY <1>5 DEF refund_commits
    <3>2. rv'.status = IF rfnd.status \in {"NONE", "REMOVED", "HIDDEN"} THEN rv.status ELSE "HIDDEN"
      BY <1>0, <2>1, <3>1, RefundRow
    <3>3. QED
      BY <3>2
<1>6. CASE refund_at_once \/ refund_reads \/ dispute_and_back
  BY <1>6 DEF refund_at_once, refund_reads, dispute_and_back, REFUND_FROM
<1>7. QED
  BY <1>1, <1>2, <1>3, <1>4, <1>5, <1>6 DEF ReviewsNext

\* Hidden when its order is refunded, a review is never published again, by whatever reports,
\* resolutions, moderations and late commits of the refund follow.
THEOREM RefundedStaysHidden == ReviewsSpec => NeverRepublished
<1>1. ReviewInv /\ [ReviewsNext]_reviewVars
        => [rv.order = "REFUNDED" /\ rv.status # "PUBLISHED" => rv'.status # "PUBLISHED"]_reviewVars
  BY RefundedStepHides
<1>2. QED
  BY <1>1, ReviewsInitInv, ReviewStep, PTL DEF ReviewsSpec, NeverRepublished

\* Without another transaction beside the refund, its order's review is hidden when it commits.
RefundedInv == ReviewInv /\ ~rfnd.on /\ RefundedIsHidden

LEMMA RefundedStep == ~Overlap /\ RefundedInv /\ [ReviewsNext]_reviewVars => RefundedInv'
<1> SUFFICES ASSUME ~Overlap, RefundedInv, [ReviewsNext]_reviewVars PROVE RefundedInv'
  OBVIOUS
<1>0. ReviewInv /\ rv \in ReviewRow /\ ~rfnd.on /\ RefundedIsHidden
  BY DEF RefundedInv, ReviewInv, ReviewsTypeOK
<1>1. ReviewInv'
  BY <1>0, ReviewStep
<1>2. ~rfnd'.on
  BY <1>0, ModeratorDoes DEF ReviewsNext, reviewVars, AuthorStep, ReaderStep, create_review, edit, reply, report,
      refund_at_once, refund_reads, refund_commits, dispute_and_back
<1>3. rv'.order = "REFUNDED" => rv'.status # "PUBLISHED"
  <2>1. CASE rv.order = "REFUNDED"
    BY <2>1, <1>0, RefundedStepHides DEF RefundedIsHidden
  <2>2. CASE rv.order # "REFUNDED"
    <3> SUFFICES ASSUME rv'.order = "REFUNDED" PROVE rv'.status # "PUBLISHED"
      OBVIOUS
    <3>1. refund_at_once
      <4>1. ~refund_reads /\ ~refund_commits
        BY <1>0 DEF refund_reads, refund_commits
      <4>2. ~UNCHANGED reviewVars /\ ~dispute_and_back
        BY <1>0, <2>2 DEF reviewVars, dispute_and_back, ReviewRow
      <4>3. ASSUME AuthorStep PROVE FALSE
        <5>1. ASSUME NEW flags \in SUBSET Flag, create_review(flags) PROVE FALSE
          <6> DEFINE e == [rv EXCEPT !.status = verdict_status(flags), !.weight = verdict_weight(flags),
                                     !.flags = flags, !.order = "REVIEWED"]
          <6>1. rv' = recompute(e)
            BY <5>1 DEF create_review
          <6>2. rv'.order = "REVIEWED"
            BY <6>1, <1>0 DEF recompute, ReviewRow
          <6>3. QED
            BY <6>2
        <5>2. ASSUME NEW offensive \in BOOLEAN, edit(offensive) PROVE FALSE
          <6>1. rv'.order = rv.order
            BY <5>2, <1>0 DEF edit, edited, recompute, ReviewRow
          <6>2. QED
            BY <6>1, <2>2
        <5>3. QED
          BY <4>3, <5>1, <5>2 DEF AuthorStep
      <4>4. ASSUME ReaderStep PROVE FALSE
        BY <4>4, <1>0, <2>2 DEF ReaderStep, reply, report, recompute, ReviewRow
      <4>5. ASSUME ModeratorStep PROVE FALSE
        <5>1. rv'.order = rv.order
          <6>1. ASSUME NEW r \in ReviewRow, NEW to \in {"PUBLISHED", "HIDDEN", "REMOVED"}, NEW count \in BOOLEAN,
                       rv' = _apply_moderation(r, to, count), r.order = rv.order
                PROVE  rv'.order = rv.order
            BY <6>1, ModerationRow
          <6>2. ASSUME NEW c \in Reporters, rv' = [rv EXCEPT !.report[c] = "RESOLVED"] PROVE rv'.order = rv.order
            BY <6>2, <1>0, ResolvedRow
          <6>3. QED
            BY <4>5, <1>0, <6>1, <6>2, ModeratorDoes
        <5>2. QED
          BY <5>1, <2>2
      <4>6. QED
        BY <4>1, <4>2, <4>3, <4>4, <4>5 DEF ReviewsNext
    <3>2. QED
      <4>1. rv.status \in {"NONE", "PENDING_MODERATION", "PUBLISHED", "HIDDEN", "REMOVED"} /\ rv.order \in REFUND_FROM
        BY <3>1, <1>0 DEF refund_at_once, ReviewRow
      <4>2. rv' = on_full_refund(rv, rv)
        BY <3>1 DEF refund_at_once
      <4>3. rv'.status = IF rv.status \in {"NONE", "REMOVED", "HIDDEN"} THEN rv.status ELSE "HIDDEN"
        BY <1>0, <4>1, <4>2, RefundRow
      <4>4. QED
        BY <4>3
  <2>3. QED
    BY <2>1, <2>2
<1>4. QED
  BY <1>1, <1>2, <1>3 DEF RefundedInv, RefundedIsHidden, ReviewInv, CountsPublished, counts

\* hide_for_refund: when no other request is served between the reads and the commit of a full
\* refund, the review of a refunded order is never public and never counts.  (The run
\* reviews_refund shows that it can be when one is.)
THEOREM RefundHides ==
  ASSUME ~Overlap
  PROVE  ReviewsSpec => []RefundedIsHidden
<1>1. ReviewsInit => RefundedInv
  BY ReviewsInitInv DEF ReviewsInit, RefundedInv, NoRefundTx, RefundedIsHidden
<1>2. RefundedInv /\ [ReviewsNext]_reviewVars => RefundedInv'
  BY RefundedStep
<1>3. RefundedInv => RefundedIsHidden
  BY DEF RefundedInv
<1>4. QED
  BY <1>1, <1>2, <1>3, PTL DEF ReviewsSpec

-------------------------------------------------------------------------------
(* Document scans                                                          *)

\* What the worker's session holds while a scan is under way.  It reads the document without a
\* lock, so what it has may be old; but a document it may declare complete was SCANNING when it
\* was read, and one that is SCANNING is closed for uploads and, its files being locked, for the
\* delete: sides that are not in the batch are still as they were read.
SessionIsFresh ==
  IF ~scan.on THEN scan.todo = {} ELSE
    /\ scan.batch # {} /\ docs.status # "PENDING_REVIEW"
    /\ scan.todo \subseteq scan.batch /\ \A s \in scan.todo : scan.row.file[s].st = "PENDING"
    /\ scan.row.status \in {"SCANNING", "PENDING_REVIEW"} => scan.was = "SCANNING"
    /\ scan.row.status = "PENDING_REVIEW" => \A s \in Side : scan.row.file[s].st = "CLEAN"
    /\ scan.was = "SCANNING" => /\ docs.status = "SCANNING"
                                /\ \A s \in Side \ scan.batch : docs.file[s] = scan.row.file[s]
DocInv == DocsTypeOK /\ ReviewableIsClean /\ SessionIsFresh

LEMMA NoScanType ==
  /\ NoScan \in [on : BOOLEAN, batch : SUBSET Side, todo : SUBSET Side, was : DocumentStatus, row : DocRow]
  /\ NoScan.row \in DocRow /\ NoScan.row.status = "NONE" /\ ~NoScan.on /\ NoScan.todo = {} /\ NoFile \in KycDocumentFile
<1>1. NoFile \in KycDocumentFile
  BY DocsAssumption DEF NoFile, KycDocumentFile
<1> DEFINE row == [status |-> "NONE", file |-> [s \in Side |-> NoFile]]
<1>2. row \in DocRow /\ row.status = "NONE"
  BY <1>1 DEF DocRow, DocumentStatus
<1> HIDE DEF row
<1>3. NoScan = [on |-> FALSE, batch |-> {}, todo |-> {}, was |-> "NONE", row |-> row]
  BY DEF NoScan, row
<1>4. QED
  BY <1>1, <1>2, <1>3 DEF DocumentStatus

LEMMA DocsInitInv == DocsInit => DocInv
<1> SUFFICES ASSUME DocsInit PROVE DocInv
  OBVIOUS
<1>1. docs = NoScan.row /\ obj = [s \in Side |-> {}] /\ scan = NoScan /\ gone = FALSE /\ falls = 0
  BY DEF DocsInit
<1>2. obj \in [Side -> SUBSET Bucket] /\ gone \in BOOLEAN /\ falls \in 0..MaxFalls
  <2>1. obj \in [Side -> SUBSET Bucket]
    BY <1>1
  <2>2. falls \in 0..MaxFalls
    BY <1>1, DocsAssumption
  <2>3. QED
    BY <1>1, <2>1, <2>2
<1>3. docs \in DocRow /\ docs.status = "NONE" /\ ~scan.on /\ scan.todo = {}
      /\ scan \in [on : BOOLEAN, batch : SUBSET Side, todo : SUBSET Side, was : DocumentStatus, row : DocRow]
  BY <1>1, NoScanType
<1>4. QED
  BY <1>2, <1>3 DEF DocInv, DocsTypeOK, ReviewableIsClean, SessionIsFresh

\* What a verdict does to one side of the row the session has: the row keeps its type and the
\* other sides, and it is complete only if it was SCANNING and every side is clean.
LEMMA RejectRow ==
  ASSUME NEW row \in DocRow, NEW s \in Side, NEW r, r = _reject(row, s)
  PROVE  /\ r \in DocRow /\ r.status = "INVALID"
         /\ \A x \in Side \ {s} : r.file[x] = row.file[x]
<1> DEFINE fs == [row.file EXCEPT ![s] = NoFile]
<1>1. fs \in [Side -> KycDocumentFile] /\ \A x \in Side \ {s} : fs[x] = row.file[x]
  BY NoScanType DEF DocRow
<1>2. r = [row EXCEPT !.file = fs, !.status = "INVALID"]
  BY DEF _reject
<1> HIDE DEF fs
<1>3. r \in DocRow /\ r.file = fs /\ r.status = "INVALID"
  BY <1>1, <1>2 DEF DocRow, DocumentStatus
<1>4. QED
  BY <1>1, <1>3

LEMMA CleanRow ==
  ASSUME NEW row \in DocRow, NEW s \in Side, NEW r, r = mark_clean(row, s)
  PROVE  /\ r \in DocRow /\ \A x \in Side \ {s} : r.file[x] = row.file[x]
         /\ \/ r.status = row.status
            \/ row.status = "SCANNING" /\ r.status = "PENDING_REVIEW" /\ \A x \in Side : r.file[x].st = "CLEAN"
<1> DEFINE f == [row.file[s] EXCEPT !.st = "CLEAN"]
           fs == [row.file EXCEPT ![s] = f]
           m == [row EXCEPT !.file = fs]
<1>1. f \in KycDocumentFile
  BY DEF DocRow, KycDocumentFile
<1> HIDE DEF f
<1>2. fs \in [Side -> KycDocumentFile] /\ \A x \in Side \ {s} : fs[x] = row.file[x]
  BY <1>1 DEF DocRow
<1>3. [row EXCEPT !.file[s].st = "CLEAN"] = m
  BY DEF DocRow, f
<1> HIDE DEF fs
<1>4. m \in DocRow /\ m.file = fs /\ m.status = row.status
  BY <1>2 DEF DocRow
<1>5. r = IF m.status = "SCANNING" /\ live(m) = Side /\ \A x \in live(m) : m.file[x].st = "CLEAN"
          THEN [m EXCEPT !.status = "PENDING_REVIEW"] ELSE m
  BY <1>3, Zenon DEF mark_clean
<1> HIDE DEF m
<1>6. CASE m.status = "SCANNING" /\ live(m) = Side /\ \A x \in live(m) : m.file[x].st = "CLEAN"
  <2>1. r = [m EXCEPT !.status = "PENDING_REVIEW"]
    BY <1>5, <1>6
  <2>2. r \in DocRow /\ r.file = m.file /\ r.status = "PENDING_REVIEW"
    BY <1>4, <2>1 DEF DocRow, DocumentStatus
  <2>3. QED
    BY <1>2, <1>4, <1>6, <2>2
<1>7. CASE ~(m.status = "SCANNING" /\ live(m) = Side /\ \A x \in live(m) : m.file[x].st = "CLEAN")
  BY <1>2, <1>4, <1>5, <1>7
<1>8. QED
  BY <1>6, <1>7

LEMMA RetryRow ==
  ASSUME NEW row \in DocRow, NEW s \in Side, NEW r, r = retry_or_reject(row, s)
  PROVE  /\ r \in DocRow /\ \A x \in Side \ {s} : r.file[x] = row.file[x]
         /\ r.status = "INVALID" \/ (r.status = row.status /\ r.file[s].st = row.file[s].st)
<1>1. CASE row.file[s].tries + 1 >= MaxAttempts
  BY <1>1, RejectRow DEF retry_or_reject
<1>2. CASE ~(row.file[s].tries + 1 >= MaxAttempts)
  <2> DEFINE n == row.file[s].tries + 1
             f == [row.file[s] EXCEPT !.tries = n]
             fs == [row.file EXCEPT ![s] = f]
  <2>0. row.file[s] \in KycDocumentFile
    BY DEF DocRow
  <2>1. n \in 0..MaxAttempts
    BY <2>0, <1>2, DocsAssumption DEF KycDocumentFile
  <2> HIDE DEF n
  <2>2. f \in KycDocumentFile /\ f.st = row.file[s].st
    BY <2>0, <2>1 DEF KycDocumentFile
  <2>3. r = [row EXCEPT !.file[s].tries = n]
    BY <1>2 DEF retry_or_reject, n
  <2>4. r = [row EXCEPT !.file = fs]
    BY <2>3 DEF DocRow
  <2> HIDE DEF f
  <2>5. fs \in [Side -> KycDocumentFile] /\ fs[s] = f /\ \A x \in Side \ {s} : fs[x] = row.file[x]
    BY <2>2 DEF DocRow
  <2> HIDE DEF fs
  <2>6. r \in DocRow /\ r.file = fs /\ r.status = row.status
    BY <2>4, <2>5 DEF DocRow
  <2>7. QED
    BY <2>2, <2>5, <2>6
<1>3. QED
  BY <1>1, <1>2

\* The technician: creating the document, uploading a side, deleting it.
LEMMA TechnicianKeeps ==
  ASSUME DocInv,
         \/ create_two_sided \/ delete_objects \/ delete_commits \/ delete_falls
         \/ \E s \in Side : upload_side(s) \/ upload_falls(s)
  PROVE  DocInv'
<1>0. /\ docs \in DocRow /\ obj \in [Side -> SUBSET Bucket] /\ gone \in BOOLEAN /\ falls \in 0..MaxFalls
      /\ scan \in [on : BOOLEAN, batch : SUBSET Side, todo : SUBSET Side, was : DocumentStatus, row : DocRow]
      /\ ReviewableIsClean /\ SessionIsFresh
  BY DEF DocInv, DocsTypeOK
<1>1. CASE create_two_sided
  <2>1. docs' \in DocRow /\ docs'.status = "UPLOADING" /\ docs.status = "NONE" /\ docs'.file = docs.file
        /\ UNCHANGED <<obj, scan, gone, falls>>
    BY <1>0, <1>1 DEF create_two_sided, DocRow, DocumentStatus
  <2>2. QED
    BY <1>0, <2>1 DEF DocInv, DocsTypeOK, ReviewableIsClean, SessionIsFresh
<1>2. CASE delete_objects
  <2>1. UNCHANGED <<docs, scan, falls>> /\ gone' = TRUE /\ obj' = [s \in Side |-> {}]
    BY <1>2 DEF delete_objects
  <2>2. obj' \in [Side -> SUBSET Bucket] /\ gone' \in BOOLEAN
    BY <2>1
  <2>3. QED
    BY <1>0, <2>1, <2>2 DEF DocInv, DocsTypeOK, ReviewableIsClean, SessionIsFresh
<1>3. CASE delete_commits
  <2>1. docs' = NoScan.row /\ gone' = FALSE /\ scan.batch = {} /\ UNCHANGED <<obj, scan, falls>>
    BY <1>3 DEF delete_commits
  <2>2. docs' \in DocRow /\ docs'.status = "NONE" /\ ~scan.on
    BY <1>0, <2>1, NoScanType DEF SessionIsFresh
  <2>3. QED
    BY <1>0, <2>1, <2>2 DEF DocInv, DocsTypeOK, ReviewableIsClean, SessionIsFresh
<1>4. CASE delete_falls
  <2>1. UNCHANGED <<docs, obj, scan>> /\ gone' = FALSE /\ falls' \in 0..MaxFalls
    BY <1>0, <1>4, DocsAssumption DEF delete_falls
  <2>2. QED
    BY <1>0, <2>1 DEF DocInv, DocsTypeOK, ReviewableIsClean, SessionIsFresh
<1>5. ASSUME NEW s \in Side, upload_side(s) PROVE DocInv'
  <2> DEFINE f == [st |-> "PENDING", tries |-> 0, odd |-> ~docs.file[s].odd]
             fs == [docs.file EXCEPT ![s] = f]
             row == [docs EXCEPT !.file = fs]
             status == IF live(row) = Side THEN "SCANNING" ELSE "UPLOADING"
  <2>1. f \in KycDocumentFile
    BY <1>0, DocsAssumption DEF DocRow, KycDocumentFile
  <2>2. [docs EXCEPT !.file[s] = f] = row
    BY <1>0 DEF DocRow
  <2>3. /\ docs' = [row EXCEPT !.status = status] /\ obj' = [obj EXCEPT ![s] = {"quarantine"}]
        /\ docs.status \in {"UPLOADING", "INVALID"} /\ s \notin scan.batch /\ UNCHANGED <<scan, gone, falls>>
    BY <1>5, <2>2, Zenon DEF upload_side, may_upload, _OPEN_FOR_FILES
  <2> HIDE DEF f
  <2>4. fs \in [Side -> KycDocumentFile]
    BY <1>0, <2>1 DEF DocRow
  <2>5. status \in {"SCANNING", "UPLOADING"}
    OBVIOUS
  <2> HIDE DEF fs, status
  <2>6. docs' \in DocRow /\ docs'.status = status
    BY <1>0, <2>3, <2>4, <2>5 DEF DocRow, DocumentStatus
  <2>7. obj' \in [Side -> SUBSET Bucket]
    BY <1>0, <2>3 DEF Bucket
  <2>8. ReviewableIsClean' /\ SessionIsFresh'
    BY <1>0, <2>3, <2>5, <2>6 DEF ReviewableIsClean, SessionIsFresh
  <2>9. QED
    BY <1>0, <2>3, <2>6, <2>7, <2>8 DEF DocInv, DocsTypeOK
<1>6. ASSUME NEW s \in Side, upload_falls(s) PROVE DocInv'
  <2>1. UNCHANGED <<docs, scan, gone>> /\ falls' \in 0..MaxFalls /\ obj' \in [Side -> SUBSET Bucket]
    BY <1>0, <1>6, DocsAssumption DEF upload_falls
  <2>2. QED
    BY <1>0, <2>1 DEF DocInv, DocsTypeOK, ReviewableIsClean, SessionIsFresh
<1>7. QED
  BY <1>1, <1>2, <1>3, <1>4, <1>5, <1>6

LEMMA ScanBeginsKeeps ==
  ASSUME DocInv, scan_begins
  PROVE  DocInv'
<1> DEFINE pending == {s \in Side : docs.file[s].st = "PENDING"}
<1>0. docs \in DocRow /\ ReviewableIsClean
  BY DEF DocInv, DocsTypeOK
<1>1. /\ scan' = [on |-> TRUE, batch |-> pending, todo |-> pending, was |-> docs.status, row |-> docs]
      /\ pending # {} /\ UNCHANGED <<docs, obj, gone, falls>>
  BY DEF scan_begins
<1>2. docs.status \in DocumentStatus /\ pending \subseteq Side /\ \A s \in pending : docs.file[s].st = "PENDING"
  BY <1>0 DEF DocRow
<1>3. docs.status # "PENDING_REVIEW"
  BY <1>0, <1>1 DEF ReviewableIsClean
<1> HIDE DEF pending
<1>4. scan' \in [on : BOOLEAN, batch : SUBSET Side, todo : SUBSET Side, was : DocumentStatus, row : DocRow]
  BY <1>0, <1>1, <1>2
<1>5. SessionIsFresh'
  BY <1>1, <1>2, <1>3 DEF SessionIsFresh
<1>6. QED
  BY <1>1, <1>4, <1>5 DEF DocInv, DocsTypeOK, ReviewableIsClean

LEMMA ScanFileKeeps ==
  ASSUME DocInv, NEW s \in Side, NEW verdict \in ScanVerdict, scan_file(s, verdict)
  PROVE  DocInv'
<1> DEFINE readable == "quarantine" \in obj[s]
           bad == ~readable \/ verdict \in {"infected", "invalid"}
           row == CASE bad -> _reject(scan.row, s)
                    [] ~bad /\ verdict = "unavailable" -> retry_or_reject(scan.row, s)
                    [] ~bad /\ verdict = "clean" -> mark_clean(scan.row, s)
           objs == CASE row.file[s].st = "none" -> {}
                     [] row.file[s].st = "CLEAN" -> {"clean"}
                     [] OTHER -> obj[s]
<1>0. /\ docs \in DocRow /\ obj \in [Side -> SUBSET Bucket] /\ scan.row \in DocRow /\ SessionIsFresh
      /\ scan \in [on : BOOLEAN, batch : SUBSET Side, todo : SUBSET Side, was : DocumentStatus, row : DocRow]
  BY DEF DocInv, DocsTypeOK
<1>1. /\ s \in scan.todo /\ scan' = [scan EXCEPT !.todo = @ \ {s}, !.row = row]
      /\ obj' = [obj EXCEPT ![s] = objs] /\ UNCHANGED <<docs, gone, falls>>
  BY Zenon DEF scan_file
<1>2. row = _reject(scan.row, s) \/ row = retry_or_reject(scan.row, s) \/ row = mark_clean(scan.row, s)
  <2>1. CASE bad
    BY <2>1, Zenon
  <2>2. CASE ~bad
    BY <2>2 DEF ScanVerdict
  <2>3. QED
    BY <2>1, <2>2
<1> HIDE DEF row
<1>3. /\ row \in DocRow /\ \A x \in Side \ {s} : row.file[x] = scan.row.file[x]
      /\ \/ row.status \in {"INVALID", scan.row.status}
         \/ scan.row.status = "SCANNING" /\ row.status = "PENDING_REVIEW" /\ \A x \in Side : row.file[x].st = "CLEAN"
  <2>1. CASE row = _reject(scan.row, s)
    BY <1>0, <2>1, RejectRow
  <2>2. CASE row = retry_or_reject(scan.row, s)
    BY <1>0, <2>2, RetryRow
  <2>3. CASE row = mark_clean(scan.row, s)
    BY <1>0, <2>3, CleanRow
  <2>4. QED
    BY <1>2, <2>1, <2>2, <2>3
<1>4. objs \in SUBSET Bucket
  BY <1>0 DEF Bucket
<1> HIDE DEF objs
<1>5. obj' \in [Side -> SUBSET Bucket]
  BY <1>0, <1>1, <1>4
<1>6. /\ scan'.on = scan.on /\ scan'.batch = scan.batch /\ scan'.was = scan.was /\ scan'.row = row
      /\ scan'.todo = scan.todo \ {s}
      /\ scan' \in [on : BOOLEAN, batch : SUBSET Side, todo : SUBSET Side, was : DocumentStatus, row : DocRow]
  BY <1>0, <1>1, <1>3
<1>7. scan.row.status # "PENDING_REVIEW"
  BY <1>0, <1>1 DEF SessionIsFresh
<1>8. SessionIsFresh'
  <2>1. scan.on
    BY <1>0, <1>1 DEF SessionIsFresh
  <2>2. QED
    BY <1>0, <1>1, <1>3, <1>6, <1>7, <2>1 DEF SessionIsFresh
<1>9. QED
  BY <1>1, <1>5, <1>6, <1>8 DEF DocInv, DocsTypeOK, ReviewableIsClean

\* What the worker's commit writes: whatever the technician did meanwhile, a document it makes
\* ready for the reviewer has every side clean.
LEMMA WrittenRow ==
  ASSUME DocInv, scan.on
  PROVE  /\ written \in DocRow
         /\ written.status = "PENDING_REVIEW" => \A s \in Side : written.file[s].st = "CLEAN"
<1> DEFINE status == IF scan.row.status # scan.was THEN scan.row.status ELSE docs.status
           fs == [s \in Side |-> IF s \in scan.batch THEN scan.row.file[s] ELSE docs.file[s]]
<1>0. docs \in DocRow /\ scan.row \in DocRow /\ SessionIsFresh
  BY DEF DocInv, DocsTypeOK
<1>1. status \in DocumentStatus /\ fs \in [Side -> KycDocumentFile]
  BY <1>0 DEF DocRow
<1>2. written = [status |-> status, file |-> fs]
  BY DEF written
<1>3. status = "PENDING_REVIEW" => \A s \in Side : fs[s].st = "CLEAN"
  <2> SUFFICES ASSUME status = "PENDING_REVIEW" PROVE \A s \in Side : fs[s].st = "CLEAN"
    OBVIOUS
  <2>1. scan.row.status = "PENDING_REVIEW"
    BY <1>0 DEF SessionIsFresh
  <2>2. (\A s \in Side : scan.row.file[s].st = "CLEAN") /\ \A s \in Side \ scan.batch : docs.file[s] = scan.row.file[s]
    BY <1>0, <2>1 DEF SessionIsFresh
  <2>3. QED
    BY <2>2
<1> HIDE DEF status, fs
<1>4. QED
  BY <1>1, <1>2, <1>3 DEF DocRow

LEMMA ScanEndsKeeps ==
  ASSUME DocInv, scan_commits \/ scan_falls \/ deadlock_broken
  PROVE  DocInv'
<1>0. /\ docs \in DocRow /\ obj \in [Side -> SUBSET Bucket] /\ gone \in BOOLEAN /\ falls \in 0..MaxFalls
      /\ ReviewableIsClean
  BY DEF DocInv, DocsTypeOK
<1>1. scan' = NoScan /\ scan.on /\ obj' = obj
  BY DEF scan_commits, scan_falls, deadlock_broken
<1>2. docs' \in {docs, written, NoScan.row}
  BY DEF scan_commits, scan_falls, deadlock_broken
<1>3. gone' \in BOOLEAN
  BY <1>0 DEF scan_commits, scan_falls, deadlock_broken
<1>4. falls' \in 0..MaxFalls
  BY <1>0, DocsAssumption DEF scan_commits, scan_falls, deadlock_broken
<1>5. docs' \in DocRow
  BY <1>0, <1>1, <1>2, NoScanType, WrittenRow
<1>6. ReviewableIsClean'
  BY <1>0, <1>1, <1>2, NoScanType, WrittenRow DEF ReviewableIsClean
<1>7. SessionIsFresh' /\ scan' \in [on : BOOLEAN, batch : SUBSET Side, todo : SUBSET Side, was : DocumentStatus,
                                    row : DocRow]
  BY <1>1, NoScanType DEF SessionIsFresh
<1>8. QED
  BY <1>0, <1>1, <1>3, <1>4, <1>5, <1>6, <1>7 DEF DocInv, DocsTypeOK

LEMMA DocStep == DocInv /\ [DocsNext]_docsVars => DocInv'
<1> SUFFICES ASSUME DocInv, [DocsNext]_docsVars PROVE DocInv'
  OBVIOUS
<1>1. CASE UNCHANGED docsVars
  BY <1>1 DEF docsVars, DocInv, DocsTypeOK, ReviewableIsClean, SessionIsFresh
<1>2. QED
  BY <1>1, TechnicianKeeps, ScanBeginsKeeps, ScanFileKeeps, ScanEndsKeeps DEF DocsNext, Scanning

\* Every row, object and session of the document has its type.
THEOREM DocsTyped == DocsSpec => []DocsTypeOK
<1>1. DocInv => DocsTypeOK
  BY DEF DocInv
<1>2. QED
  BY <1>1, DocsInitInv, DocStep, PTL DEF DocsSpec

\* process_pending, upload_side and delete_document: for any set of sides and any number of
\* attempts and crashes, a document ready for the reviewer has every side, scanned clean, although
\* the worker writes the status of a document it read without a lock.
THEOREM ReviewableWasScanned == DocsSpec => []ReviewableIsClean
<1>1. DocInv => ReviewableIsClean
  BY DEF DocInv
<1>2. QED
  BY <1>1, DocsInitInv, DocStep, PTL DEF DocsSpec

-------------------------------------------------------------------------------
(* The inbox of provider events                                            *)

\* The rows a batch has locked are still to be handled: a delivery, a requeue and the end of a
\* back-off leave them so.  An attempt is left to every event that is not settled.
LockedPending == \A e \in locked_rows : inbox[e].status \in {"PENDING", "FAILED"}
AttemptLeft == \A e \in Events : inbox[e].status \in {"absent", "PENDING", "FAILED"} => inbox[e].attempts < WebhookAttempts
BatchType ==
  /\ arrived \in Seq(Events)
  /\ batch \in [open : BOOLEAN, todo : Seq(Events), verdict : UNION {[D -> Verdict] : D \in SUBSET Events}]
InboxInv == /\ inbox \in [Events -> PaymentWebhookEvent] /\ handled \in [Events -> Nat] /\ stops \in 0..MaxStops
            /\ BatchType /\ LockedPending /\ AttemptLeft /\ EventTakesEffectOnce

LEMMA NoBatchType ==
  /\ NoBatch \in [open : BOOLEAN, todo : Seq(Events), verdict : UNION {[D -> Verdict] : D \in SUBSET Events}]
  /\ NoBatch.todo = <<>> /\ NoBatch.verdict = [e \in {} |-> "raises"]
<1> DEFINE none == [e \in {} |-> "raises"]
<1>1. none \in [{} -> Verdict]
  OBVIOUS
<1>2. none \in UNION {[D -> Verdict] : D \in SUBSET Events}
  BY <1>1
<1> HIDE DEF none
<1>3. NoBatch = [open |-> FALSE, todo |-> <<>>, verdict |-> none]
  BY DEF NoBatch, none
<1>4. QED
  BY <1>2, <1>3 DEF none

LEMMA InboxTypeHolds == InboxInv => InboxTypeOK
<1> SUFFICES ASSUME InboxInv PROVE InboxTypeOK
  OBVIOUS
<1>1. PICK D \in SUBSET Events : batch.verdict \in [D -> Verdict]
  BY DEF InboxInv, BatchType
<1>2. QED
  BY <1>1 DEF InboxInv, BatchType, InboxTypeOK

\* Without a batch no row is locked.
LEMMA NoneLocked ==
  ASSUME batch' = NoBatch
  PROVE  locked_rows' = {} /\ LockedPending'
<1>1. batch'.todo = <<>> /\ DOMAIN batch'.verdict = {}
  BY NoBatchType
<1>2. QED
  BY <1>1 DEF locked_rows, LockedPending

LEMMA InboxInitInv == InboxInit => InboxInv
<1> SUFFICES ASSUME InboxInit PROVE InboxInv
  OBVIOUS
<1> DEFINE fresh == [status |-> "absent", attempts |-> 0, due |-> FALSE, requeues |-> 0]
<1>1. fresh \in PaymentWebhookEvent
  BY InboxAssumption DEF PaymentWebhookEvent
<1>2. inbox = [e \in Events |-> fresh] /\ handled = [e \in Events |-> 0] /\ batch = NoBatch /\ arrived = <<>> /\ stops = 0
  BY DEF InboxInit
<1>3. stops \in 0..MaxStops /\ handled \in [Events -> Nat] /\ BatchType
  BY <1>2, InboxAssumption, NoBatchType DEF BatchType
<1>4. inbox \in [Events -> PaymentWebhookEvent]
  BY <1>1, <1>2
<1>5. LockedPending
  <2>1. batch.todo = <<>> /\ DOMAIN batch.verdict = {}
    BY <1>2, NoBatchType
  <2>2. QED
    BY <2>1 DEF locked_rows, LockedPending
<1>6. AttemptLeft /\ EventTakesEffectOnce
  BY <1>2, InboxAssumption DEF AttemptLeft, EventTakesEffectOnce
<1>7. QED
  BY <1>3, <1>4, <1>5, <1>6 DEF InboxInv

\* One row changes beside the batch, into one that can be locked if it was.
LEMMA OneRowKeeps ==
  ASSUME InboxInv, NEW e \in Events, NEW row \in PaymentWebhookEvent,
         inbox' = [inbox EXCEPT ![e] = row], arrived' \in Seq(Events), UNCHANGED <<batch, handled, stops>>,
         inbox[e].status \in {"PENDING", "FAILED"} /\ e \in locked_rows => row.status \in {"PENDING", "FAILED"},
         row.status \in {"absent", "PENDING", "FAILED"} => row.attempts < WebhookAttempts,
         row.status = "PROCESSED" <=> inbox[e].status = "PROCESSED"
  PROVE  InboxInv'
<1>1. inbox' \in [Events -> PaymentWebhookEvent] /\ BatchType'
  BY DEF InboxInv, BatchType
<1>2. inbox'[e] = row /\ \A d \in Events \ {e} : inbox'[d] = inbox[d]
  BY DEF InboxInv
<1>3. locked_rows' = locked_rows /\ locked_rows \subseteq Events
  <2>1. PICK D \in SUBSET Events : batch.verdict \in [D -> Verdict]
    BY DEF InboxInv, BatchType
  <2>2. QED
    BY <2>1 DEF locked_rows, InboxInv, BatchType
<1>4. LockedPending' /\ AttemptLeft' /\ EventTakesEffectOnce'
  BY <1>2, <1>3 DEF InboxInv, LockedPending, AttemptLeft, EventTakesEffectOnce
<1>5. QED
  BY <1>1, <1>4 DEF InboxInv

LEMMA DeliveryKeeps ==
  ASSUME InboxInv, NEW e \in Events, deliver(e) \/ retry_is_due(e) \/ requeue_webhook(e)
  PROVE  InboxInv'
<1>0. inbox[e] \in PaymentWebhookEvent /\ inbox \in [Events -> PaymentWebhookEvent] /\ arrived \in Seq(Events)
      /\ AttemptLeft /\ LockedPending
  BY DEF InboxInv, BatchType
<1>1. CASE deliver(e)
  <2>1. inbox' = [inbox EXCEPT ![e] = store(inbox[e])] /\ UNCHANGED <<batch, handled, stops>>
        /\ arrived' = IF inbox[e].status = "absent" THEN Append(arrived, e) ELSE arrived
    BY <1>0, <1>1 DEF deliver
  <2>2. arrived' \in Seq(Events)
    BY <1>0, <2>1
  <2>3. store(inbox[e]) \in PaymentWebhookEvent /\ store(inbox[e]).attempts = inbox[e].attempts
        /\ \/ store(inbox[e]) = inbox[e]
           \/ inbox[e].status = "absent" /\ store(inbox[e]).status = "PENDING"
    BY <1>0 DEF store, PaymentWebhookEvent
  <2>4. QED
    BY <1>0, <2>1, <2>2, <2>3, OneRowKeeps DEF AttemptLeft
<1>2. CASE retry_is_due(e)
  <2> DEFINE row == [inbox[e] EXCEPT !.due = TRUE]
  <2>1. row \in PaymentWebhookEvent /\ row.status = inbox[e].status /\ row.attempts = inbox[e].attempts
    BY <1>0 DEF PaymentWebhookEvent
  <2>2. inbox' = [inbox EXCEPT ![e] = row] /\ UNCHANGED <<arrived, batch, handled, stops>>
    BY <1>0, <1>2 DEF retry_is_due
  <2> HIDE DEF row
  <2>3. QED
    BY <1>0, <2>1, <2>2, OneRowKeeps DEF AttemptLeft
<1>3. CASE requeue_webhook(e)
  <2> DEFINE n == inbox[e].requeues + 1
             row == [inbox[e] EXCEPT !.status = "PENDING", !.attempts = 0, !.due = TRUE, !.requeues = n]
  <2>1. inbox[e].status \in {"DEAD", "IGNORED"} /\ inbox[e].requeues < MaxRequeues
    BY <1>3 DEF requeue_webhook
  <2>2. n \in 0..MaxRequeues
    BY <1>0, <2>1, InboxAssumption DEF PaymentWebhookEvent
  <2>3. inbox' = [inbox EXCEPT ![e] = row] /\ UNCHANGED <<arrived, batch, handled, stops>>
    <3>1. inbox' = [inbox EXCEPT ![e] = row]
      BY <1>3, Zenon DEF requeue_webhook
    <3>2. QED
      BY <1>3, <3>1 DEF requeue_webhook
  <2>4. row \in PaymentWebhookEvent /\ row.status = "PENDING" /\ row.attempts < WebhookAttempts
    <3> DEFINE z == 0
    <3>1. z \in 0..WebhookAttempts /\ z < WebhookAttempts
      BY InboxAssumption
    <3>2. row = [inbox[e] EXCEPT !.status = "PENDING", !.attempts = z, !.due = TRUE, !.requeues = n]
      OBVIOUS
    <3> HIDE DEF z, n, row
    <3>3. QED
      BY <1>0, <2>2, <3>1, <3>2 DEF PaymentWebhookEvent
  <2> HIDE DEF row
  <2>5. e \notin locked_rows
    BY <1>3 DEF requeue_webhook
  <2>6. QED
    BY <1>0, <2>1, <2>3, <2>4, <2>5, OneRowKeeps
<1>4. QED
  BY <1>1, <1>2, <1>3

\* process_pending locks rows that are due, and that have to be handled.
LEMMA BatchOpensKeeps ==
  ASSUME InboxInv, batch_opens
  PROVE  InboxInv'
<1> DEFINE due == {i \in DOMAIN arrived : inbox[arrived[i]].status \in {"PENDING", "FAILED"} /\ inbox[arrived[i]].due}
           n == IF Cardinality(due) < Limit THEN Cardinality(due) ELSE Limit
<1>1. PICK oldest \in [1..n -> due] :
        batch' = [batch EXCEPT !.open = TRUE, !.todo = [k \in 1..n |-> arrived[oldest[k]]]]
  BY DEF batch_opens
<1>2. UNCHANGED <<arrived, inbox, handled, stops>>
  BY DEF batch_opens
<1>3. arrived \in Seq(Events) /\ IsFiniteSet(due) /\ n \in Nat
  <2>1. arrived \in Seq(Events)
    BY DEF InboxInv, BatchType
  <2>2. IsFiniteSet(1..Len(arrived)) /\ due \subseteq 1..Len(arrived)
    BY <2>1, FS_Interval
  <2>3. IsFiniteSet(due) /\ Cardinality(due) \in Nat
    BY <2>2, FS_Subset, FS_CardinalityType
  <2>4. QED
    BY <2>1, <2>3, InboxAssumption
<1> DEFINE todo == [k \in 1..n |-> arrived[oldest[k]]]
<1>4. \A k \in 1..n : arrived[oldest[k]] \in Events /\ inbox[arrived[oldest[k]]].status \in {"PENDING", "FAILED"}
  <2> HIDE DEF n
  <2>1. ASSUME NEW k \in 1..n
        PROVE  arrived[oldest[k]] \in Events /\ inbox[arrived[oldest[k]]].status \in {"PENDING", "FAILED"}
    <3>1. oldest[k] \in due
      BY <1>1
    <3>2. QED
      BY <1>3, <3>1
  <2>2. QED
    BY <2>1
<1> HIDE DEF n, due
<1>5. todo \in Seq(Events) /\ DOMAIN todo = 1..n /\ \A k \in 1..n : inbox[todo[k]].status \in {"PENDING", "FAILED"}
  BY <1>3, <1>4
<1> HIDE DEF todo
<1>6. batch' = [batch EXCEPT !.open = TRUE, !.todo = todo]
  BY <1>1 DEF todo
<1>7. BatchType' /\ batch'.todo = todo /\ batch'.verdict = batch.verdict
  BY <1>2, <1>3, <1>5, <1>6 DEF InboxInv, BatchType
<1>8. LockedPending'
  BY <1>2, <1>5, <1>7 DEF InboxInv, LockedPending, locked_rows
<1>9. QED
  BY <1>2, <1>7, <1>8 DEF InboxInv, AttemptLeft, EventTakesEffectOnce

LEMMA HandleKeeps ==
  ASSUME InboxInv, NEW verdict \in Verdict, _handle(verdict)
  PROVE  InboxInv'
<1> DEFINE h == Head(batch.todo)
           v == [e \in DOMAIN batch.verdict \cup {h} |-> IF e = h THEN verdict ELSE batch.verdict[e]]
<1>0. BatchType /\ batch.todo \in Seq(Events) /\ batch.todo # <<>>
  BY DEF InboxInv, BatchType, _handle
<1>1. PICK D \in SUBSET Events : batch.verdict \in [D -> Verdict]
  BY DEF InboxInv, BatchType
<1>2. batch' = [batch EXCEPT !.todo = Tail(batch.todo), !.verdict = v] /\ UNCHANGED <<arrived, inbox, handled, stops>>
  BY <1>0 DEF _handle, BatchType
<1>3. h \in Events /\ h = batch.todo[1] /\ 1 \in DOMAIN batch.todo /\ Tail(batch.todo) \in Seq(Events)
  BY <1>0
<1>4. v \in [D \cup {h} -> Verdict] /\ D \cup {h} \in SUBSET Events
  BY <1>1, <1>3
<1>5. v \in UNION {[E -> Verdict] : E \in SUBSET Events}
  BY <1>4
<1>6. \A i \in DOMAIN Tail(batch.todo) : i + 1 \in DOMAIN batch.todo /\ Tail(batch.todo)[i] = batch.todo[i + 1]
  BY <1>0
<1>7. DOMAIN v = DOMAIN batch.verdict \cup {h}
  OBVIOUS
<1> DEFINE rest == Tail(batch.todo)
<1> HIDE DEF v, h, rest
<1>8. BatchType' /\ batch'.todo = rest /\ batch'.verdict = v
  BY <1>0, <1>2, <1>3, <1>5 DEF BatchType, rest
<1>9. locked_rows' \subseteq locked_rows
  BY <1>3, <1>6, <1>7, <1>8 DEF locked_rows, rest
<1>10. QED
  BY <1>2, <1>8, <1>9 DEF InboxInv, LockedPending, AttemptLeft, EventTakesEffectOnce

\* raised: an attempt more, and the row is given up with the last one.
LEMMA RaisedRow ==
  ASSUME NEW row \in PaymentWebhookEvent, row.attempts < WebhookAttempts
  PROVE  /\ raised(row) \in PaymentWebhookEvent /\ raised(row).status \in {"DEAD", "FAILED"}
         /\ raised(row).status = "FAILED" => raised(row).attempts < WebhookAttempts
<1> DEFINE n == row.attempts + 1
           due == n >= WebhookAttempts
           status == IF n >= WebhookAttempts THEN "DEAD" ELSE "FAILED"
<1>1. n \in 0..WebhookAttempts /\ (status = "FAILED" => n < WebhookAttempts) /\ status \in {"DEAD", "FAILED"}
  BY InboxAssumption DEF PaymentWebhookEvent
<1>2. due \in BOOLEAN
  OBVIOUS
<1>3. raised(row) = [row EXCEPT !.attempts = n, !.due = due, !.status = status]
  BY DEF raised
<1> HIDE DEF n, due, status
<1>4. QED
  BY <1>1, <1>2, <1>3 DEF PaymentWebhookEvent

LEMMA BatchCommitsKeeps ==
  ASSUME InboxInv, batch_commits
  PROVE  InboxInv'
<1>0. BatchType /\ AttemptLeft /\ LockedPending /\ EventTakesEffectOnce /\ inbox \in [Events -> PaymentWebhookEvent]
      /\ handled \in [Events -> Nat] /\ stops \in 0..MaxStops
  BY DEF InboxInv
<1>1. PICK D \in SUBSET Events : batch.verdict \in [D -> Verdict]
  BY DEF InboxInv, BatchType
<1>2. /\ inbox' = [e \in Events |-> IF e \notin D THEN inbox[e]
                                    ELSE IF batch.verdict[e] = "raises" THEN raised(inbox[e])
                                    ELSE [inbox[e] EXCEPT !.status = batch.verdict[e]]]
      /\ handled' = [e \in Events |-> IF e \in D /\ batch.verdict[e] = "PROCESSED" THEN handled[e] + 1 ELSE handled[e]]
      /\ batch' = NoBatch /\ UNCHANGED <<arrived, stops>>
  BY <1>1 DEF batch_commits
<1>3. \A e \in D : inbox[e].status \in {"PENDING", "FAILED"}
  BY <1>0, <1>1 DEF LockedPending, locked_rows
<1>4. BatchType' /\ LockedPending'
  BY <1>0, <1>2, NoneLocked, NoBatchType DEF BatchType
<1>5. ASSUME NEW e \in Events
      PROVE  /\ inbox'[e] \in PaymentWebhookEvent
             /\ inbox'[e].status \in {"absent", "PENDING", "FAILED"} => inbox'[e].attempts < WebhookAttempts
             /\ handled'[e] \in Nat /\ handled'[e] <= 1 /\ (handled'[e] = 1 <=> inbox'[e].status = "PROCESSED")
  <2>0. inbox[e] \in PaymentWebhookEvent /\ handled[e] \in Nat
        /\ handled[e] <= 1 /\ (handled[e] = 1 <=> inbox[e].status = "PROCESSED")
        /\ (inbox[e].status \in {"absent", "PENDING", "FAILED"} => inbox[e].attempts < WebhookAttempts)
    BY <1>0 DEF AttemptLeft, EventTakesEffectOnce
  <2>1. CASE e \notin D
    BY <1>2, <2>0, <2>1
  <2>2. CASE e \in D /\ batch.verdict[e] = "raises"
    <3>1. inbox'[e] = raised(inbox[e]) /\ handled'[e] = handled[e]
      BY <1>2, <2>2
    <3>2. QED
      BY <1>3, <2>0, <2>2, <3>1, RaisedRow
  <2>3. CASE e \in D /\ batch.verdict[e] \in {"PROCESSED", "IGNORED"}
    <3>1. inbox'[e] = [inbox[e] EXCEPT !.status = batch.verdict[e]]
          /\ handled'[e] = IF batch.verdict[e] = "PROCESSED" THEN handled[e] + 1 ELSE handled[e]
      BY <1>2, <2>3
    <3>2. inbox'[e] \in PaymentWebhookEvent /\ inbox'[e].status = batch.verdict[e]
      BY <2>0, <2>3, <3>1 DEF PaymentWebhookEvent
    <3>3. handled[e] = 0
      BY <1>3, <2>0, <2>3
    <3>4. QED
      BY <2>3, <3>1, <3>2, <3>3
  <2>4. QED
    BY <1>1, <2>1, <2>2, <2>3 DEF Verdict
<1>6. inbox' \in [Events -> PaymentWebhookEvent] /\ handled' \in [Events -> Nat]
  <2>1. DOMAIN inbox' = Events /\ DOMAIN handled' = Events
    BY <1>2
  <2>2. inbox' = [e \in Events |-> inbox'[e]] /\ handled' = [e \in Events |-> handled'[e]]
    BY <1>2, Zenon
  <2>3. QED
    BY <1>5, <2>2
<1>7. QED
  BY <1>0, <1>2, <1>4, <1>5, <1>6 DEF InboxInv, AttemptLeft, EventTakesEffectOnce

LEMMA InboxStep == InboxInv /\ [InboxNext]_inboxVars => InboxInv'
<1> SUFFICES ASSUME InboxInv, [InboxNext]_inboxVars PROVE InboxInv'
  OBVIOUS
<1>1. CASE UNCHANGED inboxVars
  BY <1>1 DEF inboxVars, InboxInv, BatchType, LockedPending, locked_rows, AttemptLeft, EventTakesEffectOnce
<1>2. CASE batch_falls
  <2>1. batch' = NoBatch /\ stops' \in 0..MaxStops /\ UNCHANGED <<arrived, inbox, handled>>
    BY <1>2, InboxAssumption DEF batch_falls, InboxInv
  <2>2. BatchType' /\ LockedPending'
    BY <2>1, NoneLocked, NoBatchType DEF InboxInv, BatchType
  <2>3. QED
    BY <2>1, <2>2 DEF InboxInv, AttemptLeft, EventTakesEffectOnce
<1>3. QED
  BY <1>1, <1>2, DeliveryKeeps, BatchOpensKeeps, HandleKeeps, BatchCommitsKeeps DEF InboxNext, BatchStep

\* Every row of the inbox and the batch of the worker has its type; in particular no event is
\* tried more than WEBHOOK_MAX_ATTEMPTS times between two requeues.
THEOREM InboxTyped == InboxSpec => []InboxTypeOK
<1>1. QED
  BY InboxTypeHolds, InboxInitInv, InboxStep, PTL DEF InboxSpec

\* store and process_pending: for any number of events, deliveries, attempts, requeues and deaths
\* of the worker, and any size of its batch, an event takes effect at most once, and its row says
\* PROCESSED exactly when it did.
THEOREM EventsTakeEffectOnce == InboxSpec => []EventTakesEffectOnce
<1>1. InboxInv => EventTakesEffectOnce
  BY DEF InboxInv
<1>2. QED
  BY <1>1, InboxInitInv, InboxStep, PTL DEF InboxSpec

-------------------------------------------------------------------------------
(* The parts side by side                                                  *)

\* A step of one part leaves the variables of the others alone.
LEMMA EachPartSteps ==
  ASSUME [ServicesNext]_servicesVars
  PROVE  /\ [DocsNext]_docsVars /\ [ReviewsNext]_reviewVars /\ [SessionsNext]_sessionVars
         /\ [IdempotencyNext]_idempotencyVars /\ [InboxNext]_inboxVars /\ [CommissionNext]_quote
         /\ [RulesNext]_ruleVars /\ [AuditNext]_auditVars
  BY DEF ServicesNext, servicesVars, Only

\* Side by side, the parts implement the specification of each: none of them changes what another
\* reads, so what is proved of a part alone holds of it in the run services too.
THEOREM ServicesImplementParts ==
  ServicesSpec => /\ DocsSpec /\ ReviewsSpec /\ SessionsSpec /\ IdempotencySpec /\ InboxSpec
                  /\ CommissionSpec /\ RulesSpec /\ AuditSpec
<1>1. ServicesInit => /\ DocsInit /\ ReviewsInit /\ SessionsInit /\ IdempotencyInit /\ InboxInit
                      /\ CommissionInit /\ RulesInit /\ AuditInit
  BY DEF ServicesInit
<1>2. [ServicesNext]_servicesVars =>
         /\ [DocsNext]_docsVars /\ [ReviewsNext]_reviewVars /\ [SessionsNext]_sessionVars
         /\ [IdempotencyNext]_idempotencyVars /\ [InboxNext]_inboxVars /\ [CommissionNext]_quote
         /\ [RulesNext]_ruleVars /\ [AuditNext]_auditVars
  BY EachPartSteps
<1>3. QED
  BY <1>1, <1>2, PTL DEF ServicesSpec, DocsSpec, ReviewsSpec, SessionsSpec, IdempotencySpec, InboxSpec,
     CommissionSpec, RulesSpec, AuditSpec

\* Every row of every part keeps its type, whichever part the behaviour is of.
THEOREM ServicesTyped == ServicesSpec => []ServicesTypeOK
<1>1. CommissionSpec => []CommissionTypeOK
  <2>1. QuoteIsComputed => CommissionTypeOK
    BY DEF QuoteIsComputed, CommissionTypeOK
  <2>2. QED
    BY <2>1, QuoteInit, QuoteStep, PTL DEF CommissionSpec
<1>2. IdempotencySpec => []IdempotencyTypeOK
  <2>1. IdemInv => IdempotencyTypeOK
    BY DEF IdemInv
  <2>2. QED
    BY <2>1, IdemInvHolds, PTL
<1>3. QED
  BY <1>1, <1>2, ServicesImplementParts, DocsTyped, ReviewsTyped, SessionsTyped, InboxTyped, RulesTyped, AuditTyped, PTL
  DEF ServicesTypeOK

\* What each part promises it also promises beside the others.
THEOREM ServicesKeepPromises ==
  ServicesSpec => /\ [](/\ ReviewableIsClean /\ FlaggedIsCleared /\ ReusedFamilyIsDead /\ EventTakesEffectOnce
                        /\ SplitIsExact /\ RuleInForce /\ ChainHoldsEveryView)
                  /\ NeverRepublished /\ RunsAtMostOnce
<1>1. QED
  BY ServicesImplementParts, ReviewableWasScanned, FlaggedWasCleared, ReuseKillsFamily, EventsTakeEffectOnce,
     ChargesAreExact, OneRuleInForce, ChainAlwaysHolds, RefundedStaysHidden, ImplementsAtMostOnce, PTL

=============================================================================
