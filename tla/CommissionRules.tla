---------------------------- MODULE CommissionRules ----------------------------
(***************************************************************************)
(* The commission rules of one category, technician and promotion over     *)
(* time: created, which ends the rule they replace, closed, and looked up. *)
(*                                                                         *)
(*   rules   the rows of commission_rules: scope, terms and the time they  *)
(*           are in force, [from, to); until is the end given at creation  *)
(*           (not a column)                                                *)
(*   making  for each manager, the rule being created: what its query for  *)
(*           the rules of the scope found, and what will be inserted       *)
(*   now     the time, in minutes                                          *)
(***************************************************************************)
EXTENDS Commission, FiniteSets

CONSTANTS
  RuleScopes,  \* bound: the scopes rules are made for
  Proposed,    \* the terms managers propose, out of Terms
  Seed,        \* terms of the GLOBAL rule the migration inserts
  Managers,    \* the requests that may create a rule at once
  NoRule,      \* the manager is creating none
  Grace,       \* how far in the past a rule may start (a minute)
  Horizon,     \* bound: the last time
  MaxRules     \* bound: rules ever created

PRECEDENCE == <<"PROMOTION", "TECHNICIAN", "CATEGORY", "GLOBAL">>
Scopes == {PRECEDENCE[i] : i \in 1..4}

ASSUME RulesAssumption == Seed \in Terms /\ Proposed \subseteq Terms /\ RuleScopes \subseteq Scopes /\ Horizon \in Nat
                          /\ MaxRules \in Nat \ {0} /\ Grace \in Nat

VARIABLES rules, making, now
ruleVars == <<rules, making, now>>

Times == 0..Horizon

in_force(r, at) == r.from <= at /\ (r.to = None \/ r.to > at)
Applicable(at) == {r \in rules : in_force(r, at)}

\* The rules in force of the first scope that has any; by_scope keeps one of them.
resolve_rule(at) ==
  LET of(i) == {r \in Applicable(at) : r.scope = PRECEDENCE[i]}
      found == {i \in 1..4 : of(i) # {}} IN
  IF found = {} THEN {} ELSE of(CHOOSE i \in found : \A j \in found : i <= j)

\* The rules of the scope that would still be in force when the new one starts.
same_scope(scope, from) == {r \in rules : r.scope = scope /\ (r.to = None \/ r.to > from)}

\* create_rule up to its query, SELECT ... FOR UPDATE.  A rule is known by its start: no two of a
\* scope start together.
create_rule(m, scope, x, from, to) ==
  /\ making[m] = NoRule
  /\ from + Grace >= now /\ (to = None \/ to > from)
  /\ \A taxes \in {t \in Rates : t.rfc} : uncovered_prices(x, taxes) = {}
  /\ making' = [making EXCEPT ![m] = [scope |-> scope, terms |-> x, from |-> from, to |-> to,
                                     found |-> {r.from : r \in same_scope(scope, from)}]]
  /\ UNCHANGED <<rules, now>>

\* What the query returns once every wait for a row is over (READ COMMITTED): the rows it found
\* that still match, and never one inserted meanwhile.
locked(w) == {r \in same_scope(w.scope, w.from) : r.from \in w.found}

\* The rule of the scope that would still be in force ends where the new one begins.
closed(r, w) == IF r \in locked(w) THEN [r EXCEPT !.to = w.from] ELSE r

overlaps(r, q) == r.scope = q.scope /\ (r.to = None \/ r.to > q.from) /\ (q.to = None \/ q.to > r.from)

\* Mutant: the table without its exclusion constraint.
unconstrained(rule, rs) == TRUE

\* EXCLUDE, which waits for a conflicting row until its transaction ends.
ex_commission_rules_no_overlap(rule, rs) == \A r \in rs : ~overlaps(r, rule)

\* From the lock on its rows, which nobody changes meanwhile, to the commit.
insert_rule(m) ==
  LET w == making[m]
      rule == [scope |-> w.scope, terms |-> w.terms, from |-> w.from, to |-> w.to, until |-> w.to]
      kept == {closed(r, w) : r \in rules} IN
  /\ w # NoRule /\ Cardinality(rules) < MaxRules
  /\ \A r \in locked(w) : r.from < w.from
  /\ ex_commission_rules_no_overlap(rule, kept)
  /\ rules' = kept \cup {rule} /\ making' = [making EXCEPT ![m] = NoRule] /\ UNCHANGED now

\* A rule of the scope starts later, the constraint or a deadlock aborts, or the request dies.
create_fails(m) ==
  /\ making[m] # NoRule
  /\ making' = [making EXCEPT ![m] = NoRule] /\ UNCHANGED <<rules, now>>

\* The trigger: only the end of a rule changes, and never to a later one.
commission_rule_guard(r, to) == r.to = None \/ to <= r.to

\* Looked up by its id: the row is the one it locks.
close_rule(r, to) ==
  /\ r.scope # "GLOBAL" /\ to > r.from /\ commission_rule_guard(r, to)
  /\ rules' = (rules \ {r}) \cup {[r EXCEPT !.to = to]} /\ UNCHANGED <<making, now>>

\* Time passes.
time_goes_by == now < Horizon /\ now' = now + 1 /\ UNCHANGED <<rules, making>>

RulesInit ==
  /\ rules = {[scope |-> "GLOBAL", terms |-> Seed, from |-> 0, to |-> None, until |-> None]}
  /\ making = [m \in Managers |-> NoRule] /\ now = 0
RulesNext ==
  \/ \E m \in Managers, scope \in RuleScopes, x \in Proposed, from \in Times, to \in Times \cup {None} :
       create_rule(m, scope, x, from, to)
  \/ \E m \in Managers : insert_rule(m) \/ create_fails(m)
  \/ \E r \in rules, to \in Times : close_rule(r, to)
  \/ time_goes_by
RulesSpec == RulesInit /\ [][RulesNext]_ruleVars

-------------------------------------------------------------------------------
Made == [scope : Scopes, terms : Terms, from : Times, to : Times \cup {None}, found : SUBSET Times]

RulesTypeOK ==
  /\ now \in Times /\ Cardinality(rules) <= MaxRules
  /\ \A r \in rules : r.scope \in Scopes /\ r.terms \in Terms /\ r.from \in Times
                     /\ {r.to, r.until} \subseteq Times \cup {None}
  /\ \A m \in Managers : making[m] \in Made \cup {NoRule}

\* resolve_rule: at any time at most one rule of each scope is in force, also when managers create
\* rules at once and the one that waits never sees the other's (by_scope relies on EXCLUDE); and
\* a rule ends only where another begins: as long as no GLOBAL rule was created with an end, some
\* rule is always in force, whoever of them is refused.
RuleInForce ==
  /\ \A at \in Times, scope \in Scopes : Cardinality({r \in Applicable(at) : r.scope = scope}) <= 1
  /\ (\A r \in rules : r.scope = "GLOBAL" => r.until = None) => \A at \in Times : Cardinality(resolve_rule(at)) = 1
================================================================================
