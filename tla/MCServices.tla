------------------------------- MODULE MCServices -------------------------------
(***************************************************************************)
(* The parts of the system that share no state with one another, checked   *)
(* side by side in one run: a behaviour is of one part from start to end.  *)
(***************************************************************************)
EXTENDS KycDocuments, Reviews, Sessions, Idempotency, WebhookInbox, CommissionRules, AuditChain

VARIABLE part
servicesVars == <<docsVars, reviewVars, sessionVars, idempotencyVars, inboxVars, quote, ruleVars, auditVars, part>>

Only(p) ==
  /\ part = p /\ part' = p
  /\ IF p = "documents" THEN TRUE ELSE UNCHANGED docsVars
  /\ IF p = "reviews" THEN TRUE ELSE UNCHANGED reviewVars
  /\ IF p = "sessions" THEN TRUE ELSE UNCHANGED sessionVars
  /\ IF p = "idempotency" THEN TRUE ELSE UNCHANGED idempotencyVars
  /\ IF p = "inbox" THEN TRUE ELSE UNCHANGED inboxVars
  /\ IF p = "quotes" THEN TRUE ELSE UNCHANGED quote
  /\ IF p = "rules" THEN TRUE ELSE UNCHANGED ruleVars
  /\ IF p = "audit" THEN TRUE ELSE UNCHANGED auditVars

ServicesInit ==
  /\ DocsInit /\ ReviewsInit /\ SessionsInit /\ IdempotencyInit /\ InboxInit /\ CommissionInit /\ RulesInit
  /\ AuditInit
  /\ part \in {"documents", "reviews", "sessions", "idempotency", "inbox", "quotes", "rules", "audit"}
ServicesNext ==
  \/ Only("documents") /\ DocsNext
  \/ Only("reviews") /\ ReviewsNext
  \/ Only("sessions") /\ SessionsNext
  \/ Only("idempotency") /\ IdempotencyNext
  \/ Only("inbox") /\ InboxNext
  \/ Only("quotes") /\ CommissionNext
  \/ Only("rules") /\ RulesNext
  \/ Only("audit") /\ AuditNext
ServicesSpec == ServicesInit /\ [][ServicesNext]_servicesVars /\ DocsFairness /\ InboxFairness

\* Every row of every part has its type.
ServicesTypeOK == DocsTypeOK /\ ReviewsTypeOK /\ SessionsTypeOK /\ IdempotencyTypeOK /\ InboxTypeOK
                  /\ CommissionTypeOK /\ RulesTypeOK /\ AuditTypeOK

-------------------------------------------------------------------------------
(* The instance                                                            *)

MCBody == [c \in Callers |-> IF c = 3 THEN "another" ELSE "refund"]
terms(type, rate, fixed, min, max) == [type |-> type, rate |-> rate, fixed |-> fixed, min |-> min, max |-> max]
MCSeed == terms("PERCENT", 1500, 0, 30, None)
MCProposed == {terms("FIXED", 0, 35, None, None), terms("PERCENT", 100, 0, None, None)}
MCTerms == {MCSeed, terms("PERCENT_PLUS_FIXED", 485, 20, None, 40), terms("PERCENT", 10000, 0, None, None)} \cup MCProposed
MCRates == {[service |-> 1600, commission |-> 1600, isr |-> 250, iva |-> 800, rfc |-> TRUE],
            [service |-> 1600, commission |-> 1600, isr |-> 2000, iva |-> 1600, rfc |-> FALSE]}
MCPrices == 0..60
================================================================================
