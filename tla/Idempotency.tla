------------------------------- MODULE Idempotency -------------------------------
(***************************************************************************)
(* idempotency.run for one user, endpoint and key, as the routes that move *)
(* money use it: the row of idempotency_keys is inserted, the operation is *)
(* run and the answer stored in one transaction, committed by the route.   *)
(*                                                                         *)
(*   keyrow   the committed row, if any                                    *)
(*   calls    where each request is: "running" has inserted the row and    *)
(*            not committed, "conflict" was told that the row exists and   *)
(*            has not yet selected it                                      *)
(*   told     the last answer each caller got ("none": none yet, or lost)  *)
(*   effects  how often the operation was committed since the row was last *)
(*            purged                                                       *)
(***************************************************************************)
EXTENDS Naturals

CONSTANTS Callers, Body, Nothing

ASSUME IdempotencyAssumption == \A c \in Callers : Body[c] # Nothing

VARIABLES keyrow, calls, told, effects
idempotencyVars == <<keyrow, calls, told, effects>>

\* request_hash tells two bodies apart.
IdempotencyKey == [body : {Nothing} \cup {Body[c] : c \in Callers}, answered : BOOLEAN, expired : BOOLEAN]
NoKey == [body |-> Nothing, answered |-> FALSE, expired |-> FALSE]

IdempotencyTypeOK ==
  /\ keyrow \in IdempotencyKey
  /\ calls \in [Callers -> {"idle", "running", "conflict"}]
  /\ told \in [Callers -> {"none", "ok", "reused", "error"}]
  /\ effects \in Nat

stored == keyrow.body # Nothing
tell(c, answer) == told' = [told EXCEPT ![c] = answer]

\* INSERT ... ON CONFLICT DO NOTHING: waits while another request's insert is not committed.
insert_key(c) ==
  /\ calls[c] = "idle" /\ told[c] = "none"
  /\ \A d \in Callers : calls[d] # "running"
  /\ calls' = [calls EXCEPT ![c] = IF stored THEN "conflict" ELSE "running"]
  /\ UNCHANGED <<keyrow, told, effects>>

\* Mutant: the operation commits before the answer is stored, and a crash comes in between.
run_commits_twice(c) ==
  /\ calls[c] = "running"
  /\ effects' = effects + 1 /\ calls' = [calls EXCEPT ![c] = "idle"]
  /\ \/ tell(c, "ok") /\ keyrow' = [body |-> Body[c], answered |-> TRUE, expired |-> FALSE]
     \/ UNCHANGED <<told, keyrow>>

\* The operation, its answer and the row commit together; the answer may not reach the caller.
run_commits(c) ==
  /\ calls[c] = "running"
  /\ effects' = effects + 1 /\ calls' = [calls EXCEPT ![c] = "idle"]
  /\ keyrow' = [body |-> Body[c], answered |-> TRUE, expired |-> FALSE]
  /\ tell(c, "ok") \/ UNCHANGED told

\* The operation raises, or the process dies: the row goes with it.
run_fails(c) ==
  /\ calls[c] = "running"
  /\ calls' = [calls EXCEPT ![c] = "idle"] /\ tell(c, "error")
  /\ UNCHANGED <<keyrow, effects>>

\* SELECT ... FOR UPDATE after the conflict; a row purged meanwhile is None, and the request fails.
replay(c) ==
  /\ calls[c] = "conflict"
  /\ calls' = [calls EXCEPT ![c] = "idle"]
  /\ tell(c, IF ~stored THEN "error"
             ELSE IF keyrow.body # Body[c] THEN "reused" ELSE IF keyrow.answered THEN "ok" ELSE "error")
  /\ UNCHANGED <<keyrow, effects>>

\* The client repeats the request: a double click, an error, an answer that never came.
ask_again(c) ==
  /\ calls[c] = "idle" /\ told[c] # "none"
  /\ tell(c, "none") /\ UNCHANGED <<keyrow, calls, effects>>

\* expires_at passes; later the worker purges the row.
key_expires ==
  /\ stored /\ ~keyrow.expired
  /\ keyrow' = [keyrow EXCEPT !.expired = TRUE] /\ UNCHANGED <<calls, told, effects>>
purge_expired ==
  /\ stored /\ keyrow.expired
  /\ keyrow' = NoKey /\ effects' = 0 /\ UNCHANGED <<calls, told>>

IdempotencyInit ==
  /\ keyrow = NoKey /\ calls = [c \in Callers |-> "idle"]
  /\ told = [c \in Callers |-> "none"] /\ effects = 0
IdempotencyNext ==
  \/ \E c \in Callers : insert_key(c) \/ run_commits(c) \/ run_fails(c) \/ replay(c) \/ ask_again(c)
  \/ key_expires \/ purge_expired
IdempotencySpec == IdempotencyInit /\ [][IdempotencyNext]_idempotencyVars

-------------------------------------------------------------------------------
Once == INSTANCE AtMostOnce WITH done <- keyrow.body

\* idempotency.run keeps the promise of AtMostOnce: with concurrent requests, lost answers,
\* failures, retries and purged keys, every step is a step of that specification or none.
RunsAtMostOnce == Once!AtMostOnceSpec
================================================================================
