--------------------------- MODULE IdempotencyProofs ---------------------------
(***************************************************************************)
(* Proof that idempotency.run implements AtMostOnce, for any set of        *)
(* requests and bodies, and that a keyed operation takes effect once.      *)
(***************************************************************************)
EXTENDS Idempotency, TLAPS

\* While a request runs the operation its key has no committed row, only one runs at a time (the
\* unique index), and the operation was committed once if there is a row and never otherwise.
OneRunner ==
  /\ \A c \in Callers : calls[c] = "running" => ~stored
  /\ \A c, d \in Callers : calls[c] = "running" /\ calls[d] = "running" => c = d
CountedOnce == effects = IF stored THEN 1 ELSE 0
IdemInv == IdempotencyTypeOK /\ OneRunner /\ CountedOnce

LEMMA IdemInvInit == IdempotencyInit => IdemInv
  BY DEF IdempotencyInit, IdemInv, IdempotencyTypeOK, OneRunner, CountedOnce, NoKey, IdempotencyKey, stored

LEMMA IdemInvStep == IdemInv /\ [IdempotencyNext]_idempotencyVars => IdemInv'
<1> SUFFICES ASSUME IdemInv, [IdempotencyNext]_idempotencyVars PROVE IdemInv'
  OBVIOUS
<1> USE IdempotencyAssumption DEF IdemInv, IdempotencyTypeOK, OneRunner, CountedOnce, IdempotencyKey, NoKey, stored,
                                  tell
<1>1. CASE UNCHANGED idempotencyVars
  BY <1>1 DEF idempotencyVars
<1>2. ASSUME NEW c \in Callers, insert_key(c) PROVE IdemInv'
  BY <1>2 DEF insert_key
<1>3. ASSUME NEW c \in Callers, run_commits(c) PROVE IdemInv'
  BY <1>3 DEF run_commits
<1>4. ASSUME NEW c \in Callers, run_fails(c) PROVE IdemInv'
  BY <1>4 DEF run_fails
<1>5. ASSUME NEW c \in Callers, replay(c) PROVE IdemInv'
  BY <1>5 DEF replay
<1>6. ASSUME NEW c \in Callers, ask_again(c) PROVE IdemInv'
  BY <1>6 DEF ask_again
<1>7. CASE key_expires
  BY <1>7 DEF key_expires
<1>8. CASE purge_expired
  BY <1>8 DEF purge_expired
<1>9. QED
  BY <1>1, <1>2, <1>3, <1>4, <1>5, <1>6, <1>7, <1>8 DEF IdempotencyNext

LEMMA IdemInvHolds == IdempotencySpec => []IdemInv
<1>1. QED
  BY IdemInvInit, IdemInvStep, PTL DEF IdempotencySpec

\* However many requests carry the key, and however often they are repeated, lost or fail, the
\* operation is committed exactly once while the row is kept, and never without its row.
THEOREM KeyedOperationOnce == IdempotencySpec => []Once!EffectOnce
<1>1. IdemInv => Once!EffectOnce
  BY DEF IdemInv, CountedOnce, stored, Once!EffectOnce
<1>2. QED
  BY <1>1, IdemInvHolds, PTL

LEMMA StepImplements ==
  ASSUME IdemInv, [IdempotencyNext]_idempotencyVars
  PROVE  [Once!AtMostOnceNext]_(Once!onceVars)
<1> USE IdempotencyAssumption DEF IdemInv, IdempotencyTypeOK, OneRunner, stored, tell, Once!onceVars
<1>1. CASE UNCHANGED idempotencyVars
  BY <1>1 DEF idempotencyVars
<1>2. ASSUME NEW c \in Callers, insert_key(c) PROVE UNCHANGED Once!onceVars
  BY <1>2 DEF insert_key
<1>3. ASSUME NEW c \in Callers, run_commits(c) PROVE Once!Perform(c)
  BY <1>3 DEF run_commits, Once!Perform
<1>4. ASSUME NEW c \in Callers, run_fails(c) PROVE Once!Fail(c)
  BY <1>4 DEF run_fails, Once!Fail
<1>5. ASSUME NEW c \in Callers, replay(c) PROVE Once!Fail(c) \/ Once!Refuse(c) \/ Once!Repeat(c)
  <2>1. CASE ~stored
    BY <1>5, <2>1 DEF replay, Once!Fail
  <2>2. CASE stored /\ keyrow.body # Body[c]
    BY <1>5, <2>2 DEF replay, Once!Refuse
  <2>3. CASE stored /\ keyrow.body = Body[c] /\ keyrow.answered
    BY <1>5, <2>3 DEF replay, Once!Repeat
  <2>4. CASE stored /\ keyrow.body = Body[c] /\ ~keyrow.answered
    BY <1>5, <2>4 DEF replay, Once!Fail
  <2>5. QED
    BY <2>1, <2>2, <2>3, <2>4
<1>6. ASSUME NEW c \in Callers, ask_again(c) PROVE Once!AskAgain(c)
  BY <1>6 DEF ask_again, Once!AskAgain
<1>7. CASE key_expires
  BY <1>7 DEF key_expires, IdempotencyKey
<1>8. CASE purge_expired
  BY <1>8 DEF purge_expired, NoKey, Once!Forget, Once!AtMostOnceNext
<1>9. QED
  BY <1>1, <1>2, <1>3, <1>4, <1>5, <1>6, <1>7, <1>8 DEF IdempotencyNext, Once!AtMostOnceNext

\* idempotency.run implements what the header promises: every behaviour of the key row, the
\* requests and their answers is one of AtMostOnce.
THEOREM ImplementsAtMostOnce == IdempotencySpec => RunsAtMostOnce
<1>1. IdempotencyInit => Once!AtMostOnceInit
  BY DEF IdempotencyInit, NoKey, Once!AtMostOnceInit
<1>2. IdemInv /\ [IdempotencyNext]_idempotencyVars => [Once!AtMostOnceNext]_(Once!onceVars)
  BY StepImplements
<1>3. QED
  BY <1>1, <1>2, IdemInvHolds, PTL DEF IdempotencySpec, RunsAtMostOnce, Once!AtMostOnceSpec
================================================================================
