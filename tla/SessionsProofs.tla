----------------------------- MODULE SessionsProofs -----------------------------
(***************************************************************************)
(* Rotation of refresh tokens and detection of reuse, for any number of    *)
(* logins, tokens and requests under way.                                  *)
(***************************************************************************)
EXTENDS Sessions, FiniteSetTheorems, TLAPS

Refresh == [at : {"idle", "token", "user", "revoking"}, token : {0} \cup Tokens, seen : SUBSET Tokens]
Ending == [kind : {"none", "logout", "all_loaded", "all", "deactivate"}, version : 0..MaxVersion, seen : SUBSET Tokens]

-------------------------------------------------------------------------------
(* The inductive invariant                                                 *)

\* Tokens are numbered from 1, each of a family that has logged in.
Issued == /\ \E n \in 0..MaxTokens : tok \in [1..n -> RefreshToken]
          /\ acc \in [DOMAIN acc -> 0..MaxVersion] /\ DOMAIN acc \subseteq Families
          /\ \A t \in DOMAIN tok : tok[t].family \in DOMAIN acc
          /\ reused \subseteq DOMAIN acc

\* A refresh holds a token that was issued, no two the same, and no two hold the user.
Holding == /\ \A r \in Refreshes : rfr[r].at # "idle" => rfr[r].token \in DOMAIN tok
           /\ \A r, q \in Refreshes :
                rfr[r].at \in {"user", "revoking"} /\ rfr[q].at \in {"user", "revoking"} => r = q

\* A family has one live token at most, and none once a revoked one of it was presented.
OneLive == \A t, u \in DOMAIN tok : tok[t].live /\ tok[u].live /\ tok[t].family = tok[u].family => t = u
NoneReused == \A t \in DOMAIN tok : tok[t].live => tok[t].family \notin reused

\* What the UPDATE of the family saw is still all that is live in it: who would issue another
\* token of it needs the user, which the refresh that found the reuse holds.
SawAll == \A r \in Refreshes : rfr[r].at = "revoking" =>
            \A t \in DOMAIN tok : tok[t].live /\ tok[t].family = tok[rfr[r].token].family => t \in rfr[r].seen

SessionsInv == /\ acct \in Account /\ rfr \in [Refreshes -> Refresh] /\ ending \in Ending
               /\ Issued /\ Holding /\ OneLive /\ NoneReused /\ SawAll

LEMMA SessionsTypeHolds == SessionsInv => SessionsTypeOK
<1> SUFFICES ASSUME SessionsInv PROVE SessionsTypeOK
  OBVIOUS
<1>1. PICK n \in 0..MaxTokens : tok \in [1..n -> RefreshToken]
  BY DEF SessionsInv, Issued
<1>2. DOMAIN tok \subseteq Tokens /\ \A t \in DOMAIN tok : tok[t] \in RefreshToken
  BY <1>1, SessionsAssumption DEF Tokens
<1>3. reused \subseteq Families /\ DOMAIN acc \subseteq Families /\ \A f \in DOMAIN acc : acc[f] \in 0..MaxVersion
  BY DEF SessionsInv, Issued
<1>4. QED
  BY <1>2, <1>3 DEF SessionsInv, SessionsTypeOK, Refresh, Ending

LEMMA ReuseHolds == SessionsInv => ReusedFamilyIsDead
<1> SUFFICES ASSUME SessionsInv PROVE ReusedFamilyIsDead
  OBVIOUS
<1>1. \A f \in reused : live_of(f) = {}
  BY DEF SessionsInv, NoneReused, live_of
<1>2. ASSUME NEW f \in Families PROVE Cardinality(live_of(f)) <= 1
  <2>1. CASE live_of(f) = {}
    BY <2>1, FS_EmptySet
  <2>2. CASE live_of(f) # {}
    <3>1. PICK t \in live_of(f) : TRUE
      BY <2>2
    <3>2. live_of(f) = {t}
      BY <3>1 DEF SessionsInv, OneLive, live_of
    <3>3. QED
      BY <3>2, FS_Singleton
  <2>3. QED
    BY <2>1, <2>2
<1>3. QED
  BY <1>1, <1>2 DEF ReusedFamilyIsDead

LEMMA SessionsInitInv == SessionsInit => SessionsInv
<1> SUFFICES ASSUME SessionsInit PROVE SessionsInv
  OBVIOUS
<1>1. acct \in Account
  BY SessionsAssumption DEF SessionsInit, Account
<1>2. Idle \in Refresh /\ Idle.at = "idle" /\ NoEnding \in Ending
  BY SessionsAssumption DEF Idle, Refresh, NoEnding, Ending
<1>3. rfr \in [Refreshes -> Refresh] /\ ending \in Ending /\ \A r \in Refreshes : rfr[r].at = "idle"
  BY <1>2 DEF SessionsInit
<1>4. tok = [t \in {} |-> 0] /\ DOMAIN tok = {} /\ acc \in [{} -> 0..MaxVersion] /\ DOMAIN acc = {} /\ reused = {}
  BY DEF SessionsInit
<1>5. tok \in [1..0 -> RefreshToken] /\ 0 \in 0..MaxTokens
  BY <1>4, SessionsAssumption
<1>6. QED
  BY <1>1, <1>3, <1>4, <1>5 DEF SessionsInv, Issued, Holding, OneLive, NoneReused, SawAll

-------------------------------------------------------------------------------
(* The steps                                                               *)

\* Revoking tokens leaves what they are and makes some of them no longer live.
LEMMA RevokeTokens ==
  ASSUME SessionsInv, NEW s, tok' = revoke(s)
  PROVE  /\ \E n \in 0..MaxTokens : tok' \in [1..n -> RefreshToken]
         /\ DOMAIN tok' = DOMAIN tok
         /\ \A t \in DOMAIN tok : /\ tok'[t].family = tok[t].family
                                  /\ tok'[t].live => tok[t].live /\ t \notin s
<1>1. PICK n \in 0..MaxTokens : tok \in [1..n -> RefreshToken]
  BY DEF SessionsInv, Issued
<1>2. ASSUME NEW t \in 1..n
      PROVE  /\ tok'[t] \in RefreshToken /\ tok'[t].family = tok[t].family
             /\ tok'[t].live => tok[t].live /\ t \notin s
  <2> DEFINE l == tok[t].live /\ t \notin s
  <2>1. tok'[t] = [tok[t] EXCEPT !.live = l]
    BY <1>1 DEF revoke
  <2>2. tok[t] \in RefreshToken /\ l \in BOOLEAN
    BY <1>1 DEF RefreshToken
  <2> HIDE DEF l
  <2>3. tok'[t] \in RefreshToken /\ tok'[t].family = tok[t].family /\ tok'[t].live = l
    BY <2>1, <2>2 DEF RefreshToken
  <2>4. QED
    BY <2>3 DEF l
<1>3. DOMAIN tok' = 1..n /\ tok' = [t \in 1..n |-> tok'[t]]
  BY <1>1, Zenon DEF revoke
<1>4. tok' \in [1..n -> RefreshToken]
  BY <1>2, <1>3
<1>5. QED
  BY <1>1, <1>2, <1>3, <1>4

\* A new token of a family in which nothing but the rotated one is live.
LEMMA IssueTokens ==
  ASSUME SessionsInv, NEW family \in Families, NEW rotated, NEW version \in 0..MaxVersion,
         _issue_tokens(family, rotated, version),
         \A t \in DOMAIN tok : tok[t].live /\ tok[t].family = family => t = rotated,
         family \notin reused, UNCHANGED reused
  PROVE  Issued' /\ OneLive' /\ NoneReused' /\ DOMAIN tok \subseteq DOMAIN tok'
<1>1. PICK n \in 0..MaxTokens : tok \in [1..n -> RefreshToken]
  BY DEF SessionsInv, Issued
<1>2. n \in Nat /\ DOMAIN tok = 1..n /\ Cardinality(1..n) = n
  BY <1>1, SessionsAssumption, FS_Interval
<1> DEFINE new == n + 1
<1>3. /\ new \in 1..MaxTokens
      /\ tok' = [t \in 1..n \cup {new} |-> IF t = new THEN [family |-> family, live |-> TRUE]
                                           ELSE [tok[t] EXCEPT !.live = @ /\ t # rotated]]
      /\ acc' = [f \in DOMAIN acc \cup {family} |-> IF f = family THEN version ELSE acc[f]]
  BY <1>2 DEF _issue_tokens, Tokens
<1>4. 1..n \cup {new} = 1..new /\ new \in 0..MaxTokens /\ new \notin 1..n
  BY <1>2, <1>3, SessionsAssumption
<1> HIDE DEF new
<1>5. DOMAIN tok' = 1..new /\ tok' = [t \in 1..new |-> tok'[t]]
  BY <1>3, <1>4, Zenon
<1>6. tok'[new] = [family |-> family, live |-> TRUE] /\ tok'[new].family = family /\ tok'[new] \in RefreshToken
  BY <1>3, <1>4 DEF RefreshToken
<1>7. ASSUME NEW t \in 1..n
      PROVE  /\ tok'[t] \in RefreshToken /\ tok'[t].family = tok[t].family
             /\ tok'[t].live => tok[t].live /\ t # rotated
  <2> DEFINE l == tok[t].live /\ t # rotated
  <2>1. tok'[t] = [tok[t] EXCEPT !.live = l]
    BY <1>3, <1>4
  <2>2. tok[t] \in RefreshToken /\ l \in BOOLEAN
    BY <1>1 DEF RefreshToken
  <2> HIDE DEF l
  <2>3. tok'[t] \in RefreshToken /\ tok'[t].family = tok[t].family /\ tok'[t].live = l
    BY <2>1, <2>2 DEF RefreshToken
  <2>4. QED
    BY <2>3 DEF l
<1>8. tok' \in [1..new -> RefreshToken]
  BY <1>4, <1>5, <1>6, <1>7
<1>9. acc' \in [DOMAIN acc' -> 0..MaxVersion] /\ DOMAIN acc' = DOMAIN acc \cup {family}
  <2>1. acc \in [DOMAIN acc -> 0..MaxVersion]
    BY DEF SessionsInv, Issued
  <2>2. QED
    BY <1>3, <2>1
<1>10. Issued'
  <2>1. DOMAIN acc' \subseteq Families /\ reused' \subseteq DOMAIN acc'
    BY <1>9 DEF SessionsInv, Issued
  <2>2. \A t \in DOMAIN tok' : tok'[t].family \in DOMAIN acc'
    BY <1>2, <1>4, <1>5, <1>6, <1>7, <1>9 DEF SessionsInv, Issued
  <2>3. QED
    BY <1>4, <1>8, <1>9, <2>1, <2>2 DEF Issued
<1>11. OneLive'
  BY <1>2, <1>4, <1>5, <1>6, <1>7 DEF SessionsInv, OneLive
<1>12. NoneReused'
  BY <1>2, <1>4, <1>5, <1>6, <1>7 DEF SessionsInv, NoneReused
<1>13. QED
  BY <1>2, <1>4, <1>5, <1>10, <1>11, <1>12

\* Steps that leave the tokens alone.
LEMMA TokensUntouched ==
  ASSUME SessionsInv, UNCHANGED <<tok, acc, reused>>
  PROVE  Issued' /\ OneLive' /\ NoneReused'
  BY DEF SessionsInv, Issued, OneLive, NoneReused

LEMMA LoginKeeps ==
  ASSUME SessionsInv, (\E f \in Families : login(f)) \/ login_fails \/ lock_ends
  PROVE  SessionsInv'
<1>0. acct \in Account /\ rfr \in [Refreshes -> Refresh] /\ ending \in Ending
  BY DEF SessionsInv
<1>1. ASSUME NEW f \in Families, login(f) PROVE SessionsInv'
  <2>1. /\ ~user_locked /\ f \notin DOMAIN acc /\ acct' = [acct EXCEPT !.failed = 0]
        /\ _issue_tokens(f, 0, acct.version) /\ UNCHANGED <<rfr, ending, reused>>
    BY <1>1 DEF login
  <2>2. acct.version \in 0..MaxVersion /\ acct' \in Account
    BY <1>0, <2>1, SessionsAssumption DEF Account
  <2>3. (\A t \in DOMAIN tok : tok[t].live /\ tok[t].family = f => t = 0) /\ f \notin reused
    BY <2>1 DEF SessionsInv, Issued
  <2>4. Issued' /\ OneLive' /\ NoneReused' /\ DOMAIN tok \subseteq DOMAIN tok'
    BY <2>1, <2>2, <2>3, IssueTokens
  <2>5. Holding' /\ SawAll'
    BY <2>1, <2>4 DEF SessionsInv, Holding, SawAll, user_locked
  <2>6. QED
    BY <1>0, <2>1, <2>2, <2>4, <2>5 DEF SessionsInv
<1>2. CASE login_fails \/ lock_ends
  <2>1. acct' \in Account
    <3>1. CASE login_fails
      <4>1. CASE acct.failed + 1 >= MaxFailedLogins
        <5> DEFINE z == 0
        <5>1. acct' = [acct EXCEPT !.failed = z, !.locked = TRUE]
          BY <3>1, <4>1 DEF login_fails
        <5>2. z \in 0..MaxFailedLogins - 1
          BY SessionsAssumption
        <5> HIDE DEF z
        <5>3. QED
          BY <1>0, <5>1, <5>2 DEF Account
      <4>2. CASE ~(acct.failed + 1 >= MaxFailedLogins)
        <5> DEFINE n == acct.failed + 1
        <5>1. acct' = [acct EXCEPT !.failed = n] /\ n \in 0..MaxFailedLogins - 1
          BY <1>0, <3>1, <4>2, SessionsAssumption DEF login_fails, Account
        <5> HIDE DEF n
        <5>2. QED
          BY <1>0, <5>1 DEF Account
      <4>3. QED
        BY <4>1, <4>2
    <3>2. CASE lock_ends
      BY <1>0, <3>2 DEF lock_ends, Account
    <3>3. QED
      BY <1>2, <3>1, <3>2
  <2>2. UNCHANGED <<tok, acc, rfr, ending, reused>>
    BY <1>2 DEF login_fails, lock_ends
  <2>3. Holding' /\ SawAll'
    BY <2>2 DEF SessionsInv, Holding, SawAll
  <2>4. QED
    BY <1>0, <2>1, <2>2, <2>3, TokensUntouched DEF SessionsInv
<1>3. QED
  BY <1>1, <1>2

\* A refresh lets go of what it holds.
LEMMA IdleKeeps ==
  ASSUME SessionsInv, NEW r \in Refreshes, rfr' = idle(r)
  PROVE  /\ rfr' \in [Refreshes -> Refresh] /\ rfr'[r].at = "idle"
         /\ \A q \in Refreshes \ {r} : rfr'[q] = rfr[q]
<1>1. Idle \in Refresh /\ Idle.at = "idle"
  BY DEF Idle, Refresh
<1>2. QED
  BY <1>1 DEF SessionsInv, idle

LEMMA RefreshKeeps ==
  ASSUME SessionsInv, NEW r \in Refreshes,
         \/ \E t \in DOMAIN tok : refresh_locks_token(r, t)
         \/ refresh_locks_user(r) \/ refresh_rotates(r) \/ refresh_ends(r)
         \/ refresh_finds_reuse(r) \/ refresh_revokes(r)
  PROVE  SessionsInv'
<1>0. acct \in Account /\ rfr \in [Refreshes -> Refresh] /\ ending \in Ending /\ rfr[r] \in Refresh
  BY DEF SessionsInv
<1>1. DOMAIN tok \subseteq Tokens
  BY SessionsTypeHolds DEF SessionsTypeOK
<1>2. ASSUME NEW t \in DOMAIN tok, refresh_locks_token(r, t) PROVE SessionsInv'
  <2> DEFINE q == [at |-> "token", token |-> t, seen |-> {}]
  <2>1. rfr' = [rfr EXCEPT ![r] = q] /\ UNCHANGED <<acct, tok, acc, ending, reused>>
    BY <1>2 DEF refresh_locks_token
  <2>2. q \in Refresh /\ q.at = "token" /\ q.token = t
    BY <1>1 DEF Refresh
  <2> HIDE DEF q
  <2>3. rfr' \in [Refreshes -> Refresh] /\ rfr'[r] = q /\ \A x \in Refreshes \ {r} : rfr'[x] = rfr[x]
    BY <1>0, <2>1, <2>2
  <2>4. Holding' /\ SawAll'
    BY <2>1, <2>2, <2>3 DEF SessionsInv, Holding, SawAll
  <2>5. QED
    BY <1>0, <2>1, <2>3, <2>4, TokensUntouched DEF SessionsInv
<1>3. CASE refresh_locks_user(r)
  <2> DEFINE q == [rfr[r] EXCEPT !.at = "user"]
  <2>1. rfr' = [rfr EXCEPT ![r] = q] /\ ~user_locked /\ rfr[r].at = "token" /\ UNCHANGED <<acct, tok, acc, ending, reused>>
    BY <1>0, <1>3 DEF refresh_locks_user
  <2>2. q \in Refresh /\ q.at = "user" /\ q.token = rfr[r].token
    BY <1>0 DEF Refresh
  <2> HIDE DEF q
  <2>3. rfr' \in [Refreshes -> Refresh] /\ rfr'[r] = q /\ \A x \in Refreshes \ {r} : rfr'[x] = rfr[x]
    BY <1>0, <2>1, <2>2
  <2>4. Holding' /\ SawAll'
    BY <2>1, <2>2, <2>3 DEF SessionsInv, Holding, SawAll, user_locked
  <2>5. QED
    BY <1>0, <2>1, <2>3, <2>4, TokensUntouched DEF SessionsInv
<1>4. CASE refresh_rotates(r)
  <2> DEFINE t == rfr[r].token
  <2>1. /\ rfr[r].at = "user" /\ tok[t].live /\ _issue_tokens(tok[t].family, t, acct.version)
        /\ rfr' = idle(r) /\ UNCHANGED <<acct, ending, reused>>
    BY <1>4 DEF refresh_rotates
  <2>2. t \in DOMAIN tok /\ tok[t].family \in Families /\ acct.version \in 0..MaxVersion
    BY <1>0, <2>1 DEF SessionsInv, Holding, Issued, Account
  <2>3. (\A u \in DOMAIN tok : tok[u].live /\ tok[u].family = tok[t].family => u = t) /\ tok[t].family \notin reused
    BY <2>1, <2>2 DEF SessionsInv, OneLive, NoneReused
  <2>4. Issued' /\ OneLive' /\ NoneReused' /\ DOMAIN tok \subseteq DOMAIN tok'
    <3> HIDE DEF t
    <3>1. QED
      BY <2>1, <2>2, <2>3, IssueTokens
  <2>5. \A q \in Refreshes : rfr'[q].at # "revoking"
    BY <2>1, IdleKeeps DEF SessionsInv, Holding
  <2>6. Holding' /\ SawAll'
    BY <2>1, <2>4, <2>5, IdleKeeps DEF SessionsInv, Holding, SawAll
  <2>7. QED
    BY <1>0, <2>1, <2>4, <2>6, IdleKeeps DEF SessionsInv
<1>5. CASE refresh_ends(r)
  <2>1. rfr' = idle(r) /\ UNCHANGED <<acct, tok, acc, ending, reused>>
    BY <1>5 DEF refresh_ends
  <2>2. Holding' /\ SawAll'
    BY <2>1, IdleKeeps DEF SessionsInv, Holding, SawAll
  <2>3. QED
    BY <1>0, <2>1, <2>2, IdleKeeps, TokensUntouched DEF SessionsInv
<1>6. CASE refresh_finds_reuse(r)
  <2> DEFINE s == live_of(tok[rfr[r].token].family)
             q == [rfr[r] EXCEPT !.at = "revoking", !.seen = s]
  <2>1. rfr' = [rfr EXCEPT ![r] = q] /\ rfr[r].at = "user" /\ UNCHANGED <<acct, tok, acc, ending, reused>>
    BY <1>0, <1>6 DEF refresh_finds_reuse
  <2>2. s \subseteq Tokens
    BY <1>1 DEF live_of
  <2>3. \A t \in DOMAIN tok : tok[t].live /\ tok[t].family = tok[rfr[r].token].family => t \in s
    BY DEF live_of
  <2> HIDE DEF s
  <2>4. q \in Refresh /\ q.at = "revoking" /\ q.token = rfr[r].token /\ q.seen = s
    BY <1>0, <2>2 DEF Refresh
  <2> HIDE DEF q
  <2>5. rfr' \in [Refreshes -> Refresh] /\ rfr'[r] = q /\ \A x \in Refreshes \ {r} : rfr'[x] = rfr[x]
    BY <1>0, <2>1, <2>4
  <2>6. Holding'
    BY <2>1, <2>4, <2>5 DEF SessionsInv, Holding
  <2>7. SawAll'
    BY <2>1, <2>3, <2>4, <2>5 DEF SessionsInv, SawAll
  <2>8. QED
    BY <1>0, <2>1, <2>5, <2>6, <2>7, TokensUntouched DEF SessionsInv
<1>7. CASE refresh_revokes(r)
  <2> DEFINE t == rfr[r].token
             s == rfr[r].seen
             v == acct.version + 1
  <2>1. /\ rfr[r].at = "revoking" /\ acct.version < MaxVersion /\ tok' = revoke(s)
        /\ acct' = [acct EXCEPT !.version = v] /\ reused' = reused \cup {tok[t].family} /\ rfr' = idle(r)
        /\ UNCHANGED <<acc, ending>>
    BY <1>7 DEF refresh_revokes
  <2>2. v \in 0..MaxVersion
    BY <1>0, <2>1, SessionsAssumption DEF Account
  <2> HIDE DEF v
  <2>3. acct' \in Account
    BY <1>0, <2>1, <2>2 DEF Account
  <2>4. t \in DOMAIN tok
    BY <2>1 DEF SessionsInv, Holding
  <2>5. \A u \in DOMAIN tok : tok[u].live /\ tok[u].family = tok[t].family => u \in s
    BY <2>1 DEF SessionsInv, SawAll
  <2> HIDE DEF t, s
  <2>6. /\ \E n \in 0..MaxTokens : tok' \in [1..n -> RefreshToken]
        /\ DOMAIN tok' = DOMAIN tok
        /\ \A u \in DOMAIN tok : tok'[u].family = tok[u].family /\ (tok'[u].live => tok[u].live /\ u \notin s)
    BY <2>1, RevokeTokens
  <2>7. Issued'
    BY <2>1, <2>4, <2>6 DEF SessionsInv, Issued
  <2>8. OneLive' /\ NoneReused'
    BY <2>1, <2>5, <2>6 DEF SessionsInv, OneLive, NoneReused
  <2>9. Holding' /\ SawAll'
    BY <2>1, <2>6, IdleKeeps, SMTT(30) DEF SessionsInv, Holding, SawAll
  <2>10. QED
    BY <1>0, <2>1, <2>3, <2>7, <2>8, <2>9, IdleKeeps DEF SessionsInv
<1>8. QED
  BY <1>2, <1>3, <1>4, <1>5, <1>6, <1>7

LEMMA EndingKeeps ==
  ASSUME SessionsInv,
         \/ \E t \in DOMAIN tok : logout_starts(t)
         \/ logout_all_loads \/ logout_all_starts \/ deactivate_loads \/ ending_commits \/ ending_falls
  PROVE  SessionsInv'
<1>0. acct \in Account /\ rfr \in [Refreshes -> Refresh] /\ ending \in Ending
  BY DEF SessionsInv
<1>1. DOMAIN tok \subseteq Tokens /\ acct.version \in 0..MaxVersion /\ NoEnding \in Ending
  BY <1>0, SessionsTypeHolds, SessionsAssumption DEF SessionsTypeOK, Account, NoEnding, Ending
<1>2. ASSUME UNCHANGED <<acct, tok, acc, rfr, reused>>, ending' \in Ending PROVE SessionsInv'
  <2>1. Holding' /\ SawAll'
    BY <1>2 DEF SessionsInv, Holding, SawAll
  <2>2. QED
    BY <1>0, <1>2, <2>1, TokensUntouched DEF SessionsInv
<1>3. ASSUME NEW t \in DOMAIN tok, logout_starts(t) PROVE SessionsInv'
  <2> DEFINE s == live_of(tok[t].family)
  <2>1. s \subseteq Tokens
    BY <1>1 DEF live_of
  <2>2. ending' = [NoEnding EXCEPT !.kind = "logout", !.seen = s] /\ UNCHANGED <<acct, tok, acc, rfr, reused>>
    BY <1>3 DEF logout_starts, begin_ending
  <2> HIDE DEF s
  <2>3. ending' \in Ending
    BY <1>1, <2>1, <2>2 DEF Ending
  <2>4. QED
    BY <1>2, <2>2, <2>3
<1>4. CASE logout_all_loads \/ deactivate_loads
  <2>1. /\ \E k \in {"all_loaded", "deactivate"} : ending' = [NoEnding EXCEPT !.kind = k, !.version = acct.version]
        /\ UNCHANGED <<acct, tok, acc, rfr, reused>>
    BY <1>4 DEF logout_all_loads, deactivate_loads, begin_ending
  <2>2. ending' \in Ending
    BY <1>1, <2>1 DEF Ending
  <2>3. QED
    BY <1>2, <2>1, <2>2
<1>5. CASE logout_all_starts
  <2> DEFINE s == {t \in DOMAIN tok : tok[t].live}
  <2>1. s \subseteq Tokens
    BY <1>1
  <2>2. ending' = [ending EXCEPT !.kind = "all", !.seen = s] /\ UNCHANGED <<acct, tok, acc, rfr, reused>>
    BY <1>5 DEF logout_all_starts
  <2> HIDE DEF s
  <2>3. ending' \in Ending
    BY <1>0, <2>1, <2>2 DEF Ending
  <2>4. QED
    BY <1>2, <2>2, <2>3
<1>6. CASE ending_falls
  BY <1>1, <1>2, <1>6 DEF ending_falls
<1>7. CASE ending_commits
  <2>1. tok' = revoke(ending.seen) /\ ending' = NoEnding /\ UNCHANGED <<acc, rfr, reused>>
    BY <1>7 DEF ending_commits
  <2>2. acct' \in Account
    <3>1. CASE ending.kind = "logout"
      BY <1>0, <1>7, <3>1 DEF ending_commits
    <3>2. CASE ending.kind # "logout"
      <4> DEFINE v == ending.version + 1
                 a == acct.active /\ ending.kind # "deactivate"
      <4>1. acct' = [acct EXCEPT !.version = v, !.active = a] /\ ending.version < MaxVersion
        BY <1>7, <3>2 DEF ending_commits
      <4>2. v \in 0..MaxVersion /\ a \in BOOLEAN
        BY <1>0, <4>1, SessionsAssumption DEF Ending, Account
      <4> HIDE DEF v, a
      <4>3. QED
        BY <1>0, <4>1, <4>2 DEF Account
    <3>3. QED
      BY <3>1, <3>2
  <2>3. /\ \E n \in 0..MaxTokens : tok' \in [1..n -> RefreshToken]
        /\ DOMAIN tok' = DOMAIN tok
        /\ \A u \in DOMAIN tok : tok'[u].family = tok[u].family /\ (tok'[u].live => tok[u].live)
    BY <2>1, RevokeTokens
  <2>4. Issued'
    BY <2>1, <2>3 DEF SessionsInv, Issued
  <2>5. OneLive' /\ NoneReused'
    BY <2>1, <2>3 DEF SessionsInv, OneLive, NoneReused
  <2>6. Holding'
    BY <2>1, <2>3 DEF SessionsInv, Holding
  <2>7. SawAll'
    BY <2>1, <2>3 DEF SessionsInv, SawAll, Holding
  <2>8. QED
    BY <1>0, <1>1, <2>1, <2>2, <2>4, <2>5, <2>6, <2>7 DEF SessionsInv
<1>8. QED
  BY <1>3, <1>4, <1>5, <1>6, <1>7

LEMMA SessionsStep == SessionsInv /\ [SessionsNext]_sessionVars => SessionsInv'
<1> SUFFICES ASSUME SessionsInv, [SessionsNext]_sessionVars PROVE SessionsInv'
  OBVIOUS
<1>1. CASE UNCHANGED sessionVars
  BY <1>1 DEF sessionVars, SessionsInv, Issued, Holding, OneLive, NoneReused, SawAll
<1>2. QED
  BY <1>1, LoginKeeps, RefreshKeeps, EndingKeeps DEF SessionsNext

\* The account, the tokens and the requests under way have their types.
THEOREM SessionsTyped == SessionsSpec => []SessionsTypeOK
<1>1. QED
  BY SessionsInitInv, SessionsStep, SessionsTypeHolds, PTL DEF SessionsSpec

\* refresh_tokens and _issue_tokens: for any number of logins and of requests under way, a family
\* has one live token at most, and none from the moment the reuse of a revoked one is committed.
THEOREM ReuseKillsFamily == SessionsSpec => []ReusedFamilyIsDead
<1>1. QED
  BY SessionsInitInv, SessionsStep, ReuseHolds, PTL DEF SessionsSpec
=============================================================================
