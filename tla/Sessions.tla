-------------------------------- MODULE Sessions --------------------------------
(***************************************************************************)
(* The sessions of one account: login, rotation of refresh tokens with     *)
(* detection of reuse, logout, logout from every device, deactivation.     *)
(*                                                                         *)
(*   acct    the row of users                                              *)
(*   tok     refresh_tokens: for each token issued its family, and whether *)
(*           it is still live (revoked_at is null)                         *)
(*   acc     the version each family's newest access token carries         *)
(*   rfr     refreshes in flight: each locks its token, then the user      *)
(*   ending  a logout, a logout-all or a deactivation in flight: all three *)
(*           read without a lock and write later                           *)
(*   reused  families in which a revoked token was presented and the       *)
(*           answer committed (not a column)                               *)
(***************************************************************************)
EXTENDS Naturals, FiniteSets

CONSTANTS
  Families,           \* logins, i.e. families of refresh tokens
  MaxTokens,          \* bound: refresh tokens ever issued
  MaxVersion,         \* bound: values of token_version
  Refreshes,          \* bound: refresh requests under way at a time
  MaxFailedLogins     \* MAX_FAILED_LOGIN_ATTEMPTS

ASSUME SessionsAssumption == IsFiniteSet(Families) /\ MaxTokens \in Nat /\ MaxVersion \in Nat
                             /\ MaxFailedLogins \in Nat \ {0}

VARIABLES acct, tok, acc, rfr, ending, reused
sessionVars == <<acct, tok, acc, rfr, ending, reused>>

Account == [active : BOOLEAN, version : 0..MaxVersion, failed : 0..MaxFailedLogins - 1, locked : BOOLEAN]
RefreshToken == [family : Families, live : BOOLEAN]
Tokens == 1..MaxTokens
NoEnding == [kind |-> "none", version |-> 0, seen |-> {}]

SessionsTypeOK ==
  /\ acct \in Account /\ DOMAIN tok \subseteq Tokens
  /\ \A t \in DOMAIN tok : tok[t] \in RefreshToken
  /\ DOMAIN acc \subseteq Families /\ \A f \in DOMAIN acc : acc[f] \in 0..MaxVersion
  /\ rfr \in [Refreshes -> [at : {"idle", "token", "user", "revoking"}, token : {0} \cup Tokens, seen : SUBSET Tokens]]
  /\ ending \in [kind : {"none", "logout", "all_loaded", "all", "deactivate"}, version : 0..MaxVersion,
                 seen : SUBSET Tokens]
  /\ reused \subseteq Families

live_of(family) == {t \in DOMAIN tok : tok[t].family = family /\ tok[t].live}
held_by(rs) == {rfr[q].token : q \in {p \in rs : rfr[p].at # "idle"}}
user_locked == \E r \in Refreshes : rfr[r].at \in {"user", "revoking"}
revoke(tokens) == [t \in DOMAIN tok |-> [tok[t] EXCEPT !.live = @ /\ t \notin tokens]]

\* _issue_tokens: a refresh token in the family and an access token with the current version.
_issue_tokens(family, rotated, version) ==
  LET new == Cardinality(DOMAIN tok) + 1 IN
  /\ new \in Tokens
  /\ tok' = [t \in DOMAIN tok \cup {new} |-> IF t = new THEN [family |-> family, live |-> TRUE]
                                             ELSE [tok[t] EXCEPT !.live = @ /\ t # rotated]]
  /\ acc' = [f \in DOMAIN acc \cup {family} |-> IF f = family THEN version ELSE acc[f]]

-------------------------------------------------------------------------------
(* login holds the lock of the user from its first read to its commit      *)

login(family) ==
  /\ ~user_locked /\ ~acct.locked /\ acct.active /\ family \notin DOMAIN acc
  /\ acct' = [acct EXCEPT !.failed = 0]
  /\ _issue_tokens(family, 0, acct.version)
  /\ UNCHANGED <<rfr, ending, reused>>

login_fails ==
  /\ ~user_locked /\ ~acct.locked
  /\ acct' = IF acct.failed + 1 >= MaxFailedLogins THEN [acct EXCEPT !.failed = 0, !.locked = TRUE]
             ELSE [acct EXCEPT !.failed = @ + 1]
  /\ UNCHANGED <<tok, acc, rfr, ending, reused>>

\* locked_until passes.
lock_ends ==
  /\ acct.locked
  /\ acct' = [acct EXCEPT !.locked = FALSE] /\ UNCHANGED <<tok, acc, rfr, ending, reused>>

-------------------------------------------------------------------------------
(* refresh_tokens                                                          *)

refresh_locks_token(r, t) ==
  /\ rfr[r].at = "idle" /\ t \notin held_by(Refreshes \ {r})
  /\ rfr' = [rfr EXCEPT ![r] = [at |-> "token", token |-> t, seen |-> {}]]
  /\ UNCHANGED <<acct, tok, acc, ending, reused>>

\* Mutant: the user is read without its lock.
reads_user(r) ==
  /\ rfr[r].at = "token"
  /\ rfr' = [rfr EXCEPT ![r].at = "user"] /\ UNCHANGED <<acct, tok, acc, ending, reused>>

\* db.get(User, with_for_update=True)
refresh_locks_user(r) ==
  /\ rfr[r].at = "token" /\ ~user_locked
  /\ rfr' = [rfr EXCEPT ![r].at = "user"] /\ UNCHANGED <<acct, tok, acc, ending, reused>>

Idle == [at |-> "idle", token |-> 0, seen |-> {}]
idle(r) == [rfr EXCEPT ![r] = Idle]

refresh_rotates(r) ==
  LET t == rfr[r].token IN
  /\ rfr[r].at = "user" /\ tok[t].live /\ acct.active
  /\ _issue_tokens(tok[t].family, t, acct.version) /\ rfr' = idle(r)
  /\ UNCHANGED <<acct, ending, reused>>

\* A revoked token: the UPDATE of the family starts with the tokens that are live then and waits
\* for those another refresh holds.  If that one waits for the user, the database ends one of them.
refresh_finds_reuse(r) ==
  /\ rfr[r].at = "user" /\ ~tok[rfr[r].token].live
  /\ rfr' = [rfr EXCEPT ![r].at = "revoking", ![r].seen = live_of(tok[rfr[r].token].family)]
  /\ UNCHANGED <<acct, tok, acc, ending, reused>>
refresh_revokes(r) ==
  /\ rfr[r].at = "revoking" /\ acct.version < MaxVersion
  /\ rfr[r].seen \cap held_by(Refreshes \ {r}) = {}
  /\ tok' = revoke(rfr[r].seen) /\ acct' = [acct EXCEPT !.version = @ + 1]
  /\ reused' = reused \cup {tok[rfr[r].token].family} /\ rfr' = idle(r)
  /\ UNCHANGED <<acc, ending>>

\* An expired token, an inactive user, a crash or a deadlock: rolled back.
refresh_ends(r) ==
  /\ rfr[r].at # "idle"
  /\ rfr' = idle(r) /\ UNCHANGED <<acct, tok, acc, ending, reused>>

-------------------------------------------------------------------------------
(* logout, logout_all and deactivate_user                                  *)

begin_ending(e) == ending = NoEnding /\ ending' = e /\ UNCHANGED <<acct, tok, acc, rfr, reused>>

\* The UPDATE revokes what it saw when it started, after waiting for the rows others hold.
logout_starts(t) == begin_ending([NoEnding EXCEPT !.kind = "logout", !.seen = live_of(tok[t].family)])

\* The access token carries the version the row still has.
valid_access(family) == family \in DOMAIN acc /\ acc[family] = acct.version

\* get_current_user loads the row; the version written at the commit is this one plus one.
logout_all_loads ==
  /\ acct.active /\ \E f \in Families : valid_access(f)
  /\ begin_ending([NoEnding EXCEPT !.kind = "all_loaded", !.version = acct.version])
logout_all_starts ==
  /\ ending.kind = "all_loaded"
  /\ ending' = [ending EXCEPT !.kind = "all", !.seen = {t \in DOMAIN tok : tok[t].live}]
  /\ UNCHANGED <<acct, tok, acc, rfr, reused>>
deactivate_loads == begin_ending([NoEnding EXCEPT !.kind = "deactivate", !.version = acct.version])

ending_commits ==
  /\ ending.kind \in {"logout", "all", "deactivate"}
  /\ ending.seen \cap held_by(Refreshes) = {}
  /\ tok' = revoke(ending.seen) /\ ending' = NoEnding
  /\ IF ending.kind = "logout" THEN UNCHANGED acct
     ELSE /\ ~user_locked /\ ending.version < MaxVersion
          /\ acct' = [acct EXCEPT !.version = ending.version + 1,
                                  !.active = @ /\ ending.kind # "deactivate"]
  /\ UNCHANGED <<acc, rfr, reused>>
ending_falls ==
  /\ ending # NoEnding /\ ending' = NoEnding /\ UNCHANGED <<acct, tok, acc, rfr, reused>>

-------------------------------------------------------------------------------
SessionsInit ==
  /\ acct = [active |-> TRUE, version |-> 0, failed |-> 0, locked |-> FALSE]
  /\ tok = [t \in {} |-> 0] /\ acc = [f \in {} |-> 0]
  /\ rfr = [r \in Refreshes |-> Idle]
  /\ ending = NoEnding /\ reused = {}

SessionsNext ==
  \/ \E f \in Families : login(f)
  \/ login_fails \/ lock_ends
  \/ \E r \in Refreshes : \/ \E t \in DOMAIN tok : refresh_locks_token(r, t)
                          \/ refresh_locks_user(r) \/ refresh_rotates(r) \/ refresh_ends(r)
                          \/ refresh_finds_reuse(r) \/ refresh_revokes(r)
  \/ \E t \in DOMAIN tok : logout_starts(t)
  \/ logout_all_loads \/ logout_all_starts \/ deactivate_loads \/ ending_commits \/ ending_falls
SessionsSpec == SessionsInit /\ [][SessionsNext]_sessionVars

-------------------------------------------------------------------------------
\* refresh_tokens: once a rotated token was presented again, its family has no live token, then
\* and for ever, although the rightful holder may have been refreshing at that moment; and a
\* family never has two live tokens, however many requests present the same one.
ReusedFamilyIsDead ==
  /\ \A f \in reused : live_of(f) = {}
  /\ \A f \in Families : Cardinality(live_of(f)) <= 1
================================================================================
