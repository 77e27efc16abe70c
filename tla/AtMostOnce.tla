------------------------------- MODULE AtMostOnce -------------------------------
(***************************************************************************)
(* What the header Idempotency-Key promises for one user, endpoint and     *)
(* key: until the key is forgotten the operation takes effect at most      *)
(* once, everyone who asks for it again gets the first answer, and one who *)
(* asks for something else with the key is refused.                        *)
(***************************************************************************)
EXTENDS Naturals

CONSTANTS Callers,  \* requests that carry the key
          Body,     \* what each of them asks for: a function on Callers
          Nothing   \* not the body of any of them

VARIABLES done,     \* the body the operation was done for
          effects,  \* how often it took effect since the key was last forgotten
          told      \* the last answer each caller got

Answers == {"none", "ok", "reused", "error"}
onceVars == <<done, effects, told>>

AtMostOnceInit == done = Nothing /\ effects = 0 /\ told = [c \in Callers |-> "none"]

\* The answer may be lost.
Perform(c) ==
  /\ done = Nothing
  /\ done' = Body[c] /\ effects' = effects + 1
  /\ told' \in {told, [told EXCEPT ![c] = "ok"]}
Repeat(c) == done = Body[c] /\ told' = [told EXCEPT ![c] = "ok"] /\ UNCHANGED <<done, effects>>
Refuse(c) == done \notin {Nothing, Body[c]} /\ told' = [told EXCEPT ![c] = "reused"] /\ UNCHANGED <<done, effects>>
Fail(c) == told' = [told EXCEPT ![c] = "error"] /\ UNCHANGED <<done, effects>>
AskAgain(c) == told' = [told EXCEPT ![c] = "none"] /\ UNCHANGED <<done, effects>>
Forget == done' = Nothing /\ effects' = 0 /\ UNCHANGED told

AtMostOnceNext ==
  \/ \E c \in Callers : Perform(c) \/ Repeat(c) \/ Refuse(c) \/ Fail(c) \/ AskAgain(c)
  \/ Forget
AtMostOnceSpec == AtMostOnceInit /\ [][AtMostOnceNext]_onceVars

\* The point of the promise: however often the operation is asked for, it takes effect once.
EffectOnce == effects = IF done = Nothing THEN 0 ELSE 1
================================================================================
