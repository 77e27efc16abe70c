---------------------------------- MODULE Kyc ----------------------------------
(***************************************************************************)
(* The verification case of one technician and what hangs on it: the       *)
(* documents and the address it is decided on, the payment account and an  *)
(* order the technician may hold.                                          *)
(*                                                                         *)
(*   kyc   the committed rows: profile, address, one document of each      *)
(*         required category, payment account, availability, one order     *)
(*   acc   the technician's accept under way: it read the account, then    *)
(*         wrote the order (holding the profile and the account FOR SHARE)  *)
(*   job   what the worker's scan found before it locks the row            *)
(*                                                                         *)
(* Every other handler locks the profile or the account row first and does *)
(* all its reads after that, so it is one step.  Documents have one side   *)
(* here (KycDocuments has the others) and OPEN stands for UPLOADING and    *)
(* INVALID, which every handler treats alike.  expected_version is         *)
(* optional in both routes that take it: every decision may come without.  *)
(***************************************************************************)
EXTENDS Naturals, FiniteSets

CONSTANTS
  Reviewers, Supervisors,  \* staff with KYC_REVIEWER, with KYC_SUPERVISOR
  System, Technician, Nobody,
  Categories,              \* REQUIRED_CATEGORIES, or part of it (bound)
  Names,                   \* what name_matches may answer: "unknown", "yes", "no"
  Reports                  \* what the provider may report of an account (bound)

ASSUME KycAssumption == /\ Categories \subseteq {"IDENTITY", "ADDRESS", "SELFIE"} /\ "ADDRESS" \in Categories
                        /\ Reviewers \cap Supervisors = {}
                        /\ {System, Technician, Nobody} \cap (Reviewers \cup Supervisors) = {} /\ System # Technician
                        /\ Names \subseteq {"unknown", "yes", "no"}
                        /\ Reports \subseteq {"rejected", "complete", "submitted", "started"}

VARIABLES kyc, acc, job
kycVars == <<kyc, acc, job>>

Staff == Reviewers \cup Supervisors
KycStatus == {"NOT_STARTED", "PENDING_DOCUMENTS", "SUBMITTED", "UNDER_REVIEW", "CORRECTION_REQUIRED",
              "APPROVED", "REJECTED", "SUSPENDED", "EXPIRED"}
Scope == {"PERSONAL_DATA", "ADDRESS", "DOCUMENTS"}
AccountStatus == {"NOT_CREATED", "ONBOARDING", "PENDING_VERIFICATION", "ENABLED", "RESTRICTED", "DISABLED"}
REQUIRED_CONSENTS == {"KYC_IDENTITY", "BIOMETRIC_SELFIE"}
KYC_BLOCKS == {"KYC_SUSPENDED", "KYC_EXPIRED"}
BlockedReason == KYC_BLOCKS \cup {"none", "NAME_MISMATCH", "NAME_REJECTED", "PROVIDER_DEAUTHORIZED"}

\* mine: decided in this cycle; bound: address_id is the current address; proves: it was issued
\* for what the current address says (both for ADDRESS only); valid: not past its expiry or age.
KycDocument == [status : {"NONE", "OPEN", "SCANNING", "PENDING_REVIEW", "APPROVED", "REJECTED"},
                mine : BOOLEAN, valid : BOOLEAN, bound : BOOLEAN, proves : BOOLEAN]
NoDocument == [status |-> "NONE", mine |-> FALSE, valid |-> FALSE, bound |-> FALSE, proves |-> FALSE]

\* ref: some document, deleted or not, points to the current address.
KycAddress == [st : {"none", "draft", "locked"}, ref : BOOLEAN]

TechnicianPaymentAccount == [status : AccountStatus, blocked : BlockedReason, match : {"unknown", "yes", "no"}]

\* fix: the scopes the last correction opened; due: expires_at or revalidation_due_at has passed;
\* old: assigned longer ago than KYC_REVIEW_CLAIM_TIMEOUT_HOURS.
KycProfile == [status : KycStatus, assigned : Staff \cup {Nobody}, consents : SUBSET REQUIRED_CONSENTS,
               data : BOOLEAN, fix : SUBSET Scope,
               due : BOOLEAN, old : BOOLEAN, address : KycAddress, doc : [Categories -> KycDocument],
               account : TechnicianPaymentAccount, available : BOOLEAN, active : BOOLEAN,
               order : {"pool", "direct", "held", "started"}]

\* The rows have the values of their columns, and the case has a reviewer exactly while it is
\* under review (the constraint reviewer_only_under_review, which would abort the update).
KycTypeOK == /\ kyc \in KycProfile /\ acc \in {"none", "checked", "written"} /\ job \in {"idle", "claims", "approvals"}
             /\ (kyc.status = "UNDER_REVIEW") = (kyc.assigned # Nobody)

-------------------------------------------------------------------------------
(* app/kyc/state_machine.py                                                *)

\* Who may take a pair; the same pairs are in the trigger kyc_enforce_transition.
ALLOWED_TRANSITIONS ==
  {<<"NOT_STARTED", "PENDING_DOCUMENTS", {Technician, System}>>, <<"PENDING_DOCUMENTS", "SUBMITTED", {Technician}>>,
   <<"SUBMITTED", "UNDER_REVIEW", Staff>>, <<"UNDER_REVIEW", "SUBMITTED", Staff \cup {System}>>,
   <<"UNDER_REVIEW", "APPROVED", Staff>>, <<"UNDER_REVIEW", "CORRECTION_REQUIRED", Staff>>,
   <<"UNDER_REVIEW", "REJECTED", Supervisors>>, <<"CORRECTION_REQUIRED", "SUBMITTED", {Technician}>>,
   <<"APPROVED", "SUSPENDED", Supervisors>>, <<"APPROVED", "EXPIRED", {System}>>,
   <<"EXPIRED", "SUBMITTED", {Technician}>>, <<"SUSPENDED", "UNDER_REVIEW", Supervisors>>}

\* The trigger: whoever asks, and whatever the session believed the status to be.
kyc_enforce_transition(from, to) == \E r \in ALLOWED_TRANSITIONS : r[1] = from /\ r[2] = to

can_transition(k, to, a) ==
  /\ \E r \in ALLOWED_TRANSITIONS : r[1] = k.status /\ r[2] = to /\ a \in r[3]
  /\ k.status = "UNDER_REVIEW" /\ a \in Reviewers => k.assigned = a

NEW_CYCLE_FROM == {"PENDING_DOCUMENTS", "CORRECTION_REQUIRED", "EXPIRED"}

\* A new cycle leaves the decisions of the earlier ones behind (review_cycle # cycle).
_new_cycle(k) == [k EXCEPT !.doc = [c \in Categories |-> [@[c] EXCEPT !.mine = FALSE]]]

\* Mutant: the reviewer of a case that leaves the review stays.
apply_effects_keeping_reviewer(k, to, a) ==
  [k EXCEPT !.assigned = IF to = "UNDER_REVIEW" THEN a ELSE @, !.old = FALSE]

_apply_effects(k, to, a) ==
  LET c == IF (to = "SUBMITTED" /\ k.status \in NEW_CYCLE_FROM) \/ (to = "UNDER_REVIEW" /\ k.status = "SUSPENDED")
           THEN _new_cycle(k) ELSE k
  IN  [c EXCEPT !.assigned = IF to = "UNDER_REVIEW" THEN a ELSE Nobody, !.old = FALSE]

\* The trigger kyc_unavailable_when_not_approved takes availability away with the approval.
kyc_unavailable_when_not_approved(k, to) ==
  IF k.status = "APPROVED" /\ to # "APPROVED" THEN [k EXCEPT !.available = FALSE] ELSE k

\* What the correction opened and what fell due are only read in the status left behind.
transition(k, to, a) ==
  [kyc_unavailable_when_not_approved(_apply_effects(k, to, a), to) EXCEPT !.status = to, !.fix = {}, !.due = FALSE]

-------------------------------------------------------------------------------
(* app/kyc/service.py, requirements.py and identity.py: the technician     *)

STATE_SCOPES == [s \in KycStatus |-> CASE s \in {"NOT_STARTED", "PENDING_DOCUMENTS"} -> Scope
                                       [] s = "EXPIRED" -> {"ADDRESS", "DOCUMENTS"}
                                       [] OTHER -> {}]
CORRECTION_SCOPES == {Scope, {"ADDRESS", "DOCUMENTS"}, {"DOCUMENTS"}}
editable_scopes(k) == IF k.status = "CORRECTION_REQUIRED" THEN k.fix ELSE STATE_SCOPES[k.status]

_start_if_needed(k) == IF k.status = "NOT_STARTED" THEN transition(k, "PENDING_DOCUMENTS", Technician) ELSE k

record_consents(purposes) ==
  /\ ~(purposes \subseteq kyc.consents)
  /\ kyc' = [kyc EXCEPT !.consents = @ \cup purposes] /\ UNCHANGED <<acc, job>>

\* Names, birth date, CURP and RFC, valid and nobody else's.
IDENTITY_EDITABLE_STATES == {"NOT_STARTED", "PENDING_DOCUMENTS", "CORRECTION_REQUIRED"}
set_identity(k) == [k EXCEPT !.data = TRUE]

save_personal_data ==
  /\ "KYC_IDENTITY" \in kyc.consents /\ "PERSONAL_DATA" \in editable_scopes(kyc)
  /\ kyc.status \in IDENTITY_EDITABLE_STATES
  /\ kyc' = _start_if_needed(set_identity(kyc))
  /\ UNCHANGED <<acc, job>>

\* Mutant: a draft is edited in its place though a proof already points to it.
draft_is_editable(k) == k.address.st = "draft"

editable_in_place(k) == k.address.st = "draft" /\ ~k.address.ref

\* New content: what a proof was issued for is no longer what the address says.
save_address ==
  /\ "KYC_IDENTITY" \in kyc.consents /\ "ADDRESS" \in editable_scopes(kyc)
  /\ LET in_place == editable_in_place(kyc)
         proof    == [kyc.doc["ADDRESS"] EXCEPT !.proves = FALSE, !.bound = in_place /\ @]
     IN  kyc' = _start_if_needed([kyc EXCEPT !.address = IF in_place THEN @ ELSE [st |-> "draft", ref |-> FALSE],
                                             !.doc["ADDRESS"] = proof])
  /\ UNCHANGED <<acc, job>>

\* _COUNTING; with one side a document that counts has its file clean.
_doc_usable(d) == d.status \in {"PENDING_REVIEW", "APPROVED"}

evaluate(k) == /\ REQUIRED_CONSENTS \subseteq k.consents /\ k.data /\ k.address.st # "none"
               /\ \A c \in Categories : _doc_usable(k.doc[c]) /\ k.doc[c].valid
               /\ k.doc["ADDRESS"].bound
               /\ \A c \in Categories : k.doc[c].status # "SCANNING"

submit ==
  /\ kyc.status \in NEW_CYCLE_FROM /\ evaluate(kyc)
  /\ kyc' = transition([kyc EXCEPT !.address.st = "locked"], "SUBMITTED", Technician)
  /\ UNCHANGED <<acc, job>>

-------------------------------------------------------------------------------
(* app/kyc/documents.py: a document of one side                            *)

\* Only an identification has an expiry date: an approved proof that is too old is not replaceable.
replaceable(k, c) == LET old == k.doc[c] IN
  \/ old.status \in {"NONE", "REJECTED"}
  \/ old.status = "APPROVED" /\ (k.status = "EXPIRED" \/ (c = "IDENTITY" /\ ~old.valid))
  \/ c = "ADDRESS" /\ ~old.bound

create_document(c) ==
  /\ "KYC_IDENTITY" \in kyc.consents /\ (c = "SELFIE" => "BIOMETRIC_SELFIE" \in kyc.consents)
  /\ "DOCUMENTS" \in editable_scopes(kyc) /\ replaceable(kyc, c)
  /\ c = "ADDRESS" => kyc.address.st # "none"
  /\ kyc' = [kyc EXCEPT !.doc[c] = [NoDocument EXCEPT !.status = "OPEN", !.valid = TRUE, !.bound = c = "ADDRESS",
                                                     !.proves = c = "ADDRESS"],
                        !.address.ref = @ \/ c = "ADDRESS"]
  /\ UNCHANGED <<acc, job>>

upload_file(c) ==
  /\ "DOCUMENTS" \in editable_scopes(kyc) /\ kyc.doc[c].status = "OPEN"
  /\ kyc' = [kyc EXCEPT !.doc[c].status = "SCANNING"]
  /\ UNCHANGED <<acc, job>>

delete_document(c) ==
  /\ "DOCUMENTS" \in editable_scopes(kyc) /\ kyc.doc[c].status \notin {"NONE", "APPROVED"}
  /\ kyc' = [kyc EXCEPT !.doc[c] = NoDocument]
  /\ UNCHANGED <<acc, job>>

\* The worker's verdict on the one file.
process_pending(c, clean) ==
  /\ kyc.doc[c].status = "SCANNING"
  /\ kyc' = [kyc EXCEPT !.doc[c].status = IF clean THEN "PENDING_REVIEW" ELSE "OPEN"]
  /\ UNCHANGED <<acc, job>>

-------------------------------------------------------------------------------
(* app/payments/accounts.py and orders/service.py                          *)

can_receive_payments(k) == k.account.status = "ENABLED" /\ k.account.blocked = "none"

\* The orders not started yet, direct bookings too, go back to the pool.
release_technician_orders(k) == IF k.order \in {"held", "direct"} THEN [k EXCEPT !.order = "pool"] ELSE k

block_for_kyc(k, reason) ==
  IF k.account.status # "NOT_CREATED" /\ k.account.blocked \in KYC_BLOCKS \cup {"none"}
  THEN [k EXCEPT !.account.blocked = reason] ELSE k

unblock_for_kyc(k) == IF k.account.blocked \in KYC_BLOCKS THEN [k EXCEPT !.account.blocked = "none"] ELSE k

-------------------------------------------------------------------------------
(* app/kyc/decisions.py: the staff                                         *)

\* can_read_case: a supervisor reads any case, a reviewer the one assigned.
can_read_case(k, a) == a \in Supervisors \/ k.assigned = a

claim(a) ==
  /\ kyc.status = "SUBMITTED" /\ can_transition(kyc, "UNDER_REVIEW", a)
  /\ kyc' = transition(kyc, "UNDER_REVIEW", a)
  /\ UNCHANGED <<acc, job>>

release(a) ==
  /\ can_read_case(kyc, a) /\ can_transition(kyc, "SUBMITTED", a)
  /\ kyc' = transition(kyc, "SUBMITTED", a)
  /\ UNCHANGED <<acc, job>>

decide_document(a, c, ok) ==
  LET d == kyc.doc[c] IN
  /\ can_read_case(kyc, a) /\ kyc.status = "UNDER_REVIEW"
  /\ d.status = "PENDING_REVIEW" \/ (d.status \in {"APPROVED", "REJECTED"} /\ d.mine)
  /\ kyc' = [kyc EXCEPT !.doc[c].status = IF ok THEN "APPROVED" ELSE "REJECTED", !.doc[c].mine = TRUE]
  /\ UNCHANGED <<acc, job>>

\* The age of the proof is measured at the last submission, where submit required it.
_approval_blockers(k) == \/ \E c \in Categories : k.doc[c].status # "APPROVED" \/ (c = "IDENTITY" /\ ~k.doc[c].valid)
                         \/ ~k.doc["ADDRESS"].bound \/ ~k.data \/ k.address.st = "none"

approve(a) ==
  /\ can_read_case(kyc, a) /\ kyc.status = "UNDER_REVIEW" /\ can_transition(kyc, "APPROVED", a)
  /\ \A c \in Categories : kyc.doc[c].status # "PENDING_REVIEW"
  /\ ~_approval_blockers(kyc)
  /\ kyc' = unblock_for_kyc(transition(kyc, "APPROVED", a))
  /\ UNCHANGED <<acc, job>>

request_correction(a, fix) ==
  /\ can_read_case(kyc, a) /\ kyc.status = "UNDER_REVIEW" /\ can_transition(kyc, "CORRECTION_REQUIRED", a)
  /\ fix = {"DOCUMENTS"} => \E c \in Categories : kyc.doc[c].status = "REJECTED"
  /\ kyc' = [transition(kyc, "CORRECTION_REQUIRED", a) EXCEPT !.fix = fix]
  /\ UNCHANGED <<acc, job>>

reject(a) ==
  /\ kyc.status = "UNDER_REVIEW" /\ can_transition(kyc, "REJECTED", a)
  /\ kyc' = transition(kyc, "REJECTED", a)
  /\ UNCHANGED <<acc, job>>

\* The rows a suspension has to lock: an accept that has written holds the profile and the
\* account, one that has only read holds the order it is about to take.
Unlocked(k) == acc # "written" /\ (acc = "checked" => k.order # "direct")

suspend(a) ==
  /\ Unlocked(kyc) /\ can_transition(kyc, "SUSPENDED", a)
  /\ kyc' = block_for_kyc(release_technician_orders(transition(kyc, "SUSPENDED", a)), "KYC_SUSPENDED")
  /\ UNCHANGED <<acc, job>>

reinstate(a) ==
  /\ kyc.status = "SUSPENDED" /\ can_transition(kyc, "UNDER_REVIEW", a)
  /\ kyc' = transition(kyc, "UNDER_REVIEW", a)
  /\ UNCHANGED <<acc, job>>

-------------------------------------------------------------------------------
(* app/kyc/decisions.py: the worker's jobs, and the time they wait for     *)

\* A claim grows old, an approval falls due, a document lapses.
time_passes ==
  /\ \/ kyc.status = "UNDER_REVIEW" /\ kyc' = [kyc EXCEPT !.old = TRUE]
     \/ kyc.status = "APPROVED" /\ kyc' = [kyc EXCEPT !.due = TRUE]
     \/ \E c \in Categories \ {"SELFIE"} :
          kyc' = [kyc EXCEPT !.doc[c].valid = FALSE,
                             !.due = @ \/ (c = "IDENTITY" /\ kyc.status = "APPROVED")]
  /\ UNCHANGED <<acc, job>>

\* Mutant: the claims of supervisors are never old.
scan_claims_of_reviewers ==
  /\ job = "idle" /\ kyc.status = "UNDER_REVIEW" /\ kyc.old /\ kyc.assigned \in Reviewers
  /\ job' = "claims" /\ UNCHANGED <<kyc, acc>>

scan_claims ==
  /\ job = "idle" /\ kyc.status = "UNDER_REVIEW" /\ kyc.old
  /\ job' = "claims" /\ UNCHANGED <<kyc, acc>>

\* Whoever holds the case by now loses it: only the status is read again under the lock.
release_stale_claims ==
  /\ job = "claims" /\ job' = "idle"
  /\ kyc' = IF can_transition(kyc, "SUBMITTED", System) THEN transition(kyc, "SUBMITTED", System) ELSE kyc
  /\ UNCHANGED acc

scan_approvals ==
  /\ job = "idle" /\ kyc.status = "APPROVED" /\ kyc.due
  /\ job' = "approvals" /\ UNCHANGED <<kyc, acc>>

\* The row keeps the values of the scan in the session; kyc_enforce_transition refuses the
\* update when the case is not APPROVED any more, and the job starts over.
expire_approvals ==
  /\ job = "approvals" /\ Unlocked(kyc) /\ job' = "idle"
  /\ kyc' = IF kyc_enforce_transition(kyc.status, "EXPIRED")
            THEN block_for_kyc(release_technician_orders(transition(kyc, "EXPIRED", System)), "KYC_EXPIRED")
            ELSE kyc
  /\ UNCHANGED acc

-------------------------------------------------------------------------------
(* app/payments/accounts.py: the payment account                           *)

create_account ==
  /\ kyc.status = "APPROVED" /\ kyc.active /\ kyc.account.status = "NOT_CREATED"
  /\ kyc' = [kyc EXCEPT !.account.status = "ONBOARDING"]
  /\ UNCHANGED <<acc, job>>

ALLOWED_ACCOUNT_TRANSITIONS ==
  ({"ONBOARDING"} \X {"PENDING_VERIFICATION", "ENABLED", "DISABLED"})
  \cup ({"PENDING_VERIFICATION"} \X {"ENABLED", "ONBOARDING", "DISABLED"})
  \cup ({"ENABLED"} \X {"RESTRICTED", "DISABLED"}) \cup ({"RESTRICTED"} \X {"ENABLED", "DISABLED"})
  \cup {<<"NOT_CREATED", "ONBOARDING">>}

\* info: what get_account_status reports, as far as it is told apart.
derive_status(current, info) ==
  CASE info = "rejected" -> "DISABLED"
    [] info = "complete" -> "ENABLED"
    [] OTHER -> IF current \in {"ENABLED", "RESTRICTED"} THEN "RESTRICTED"
                ELSE IF info = "submitted" THEN "PENDING_VERIFICATION" ELSE "ONBOARDING"

\* The trigger repeats the table.
payment_account_guard(from, to) == <<from, to>> \in ALLOWED_ACCOUNT_TRANSITIONS

\* A transition the table does not have (a DISABLED account that comes back) keeps the status.
_move(current, target) == IF payment_account_guard(current, target) THEN target ELSE current

sync_account(info, name) ==
  LET before == kyc.account
      newly_mismatched == name = "no" /\ before.match # "no"
      k == [kyc EXCEPT !.account =
              [status  |-> _move(before.status, derive_status(before.status, info)),
               blocked |-> IF newly_mismatched /\ before.blocked = "none" THEN "NAME_MISMATCH" ELSE before.blocked,
               match   |-> name]]
  IN  /\ before.status # "NOT_CREATED" /\ Unlocked(kyc)
      /\ kyc' = IF can_receive_payments(kyc) /\ ~can_receive_payments(k) THEN release_technician_orders(k) ELSE k
      /\ UNCHANGED <<acc, job>>

\* _on_deauthorized: the technician disconnected the platform; block overrides what is milder.
block ==
  /\ kyc.account.status # "NOT_CREATED" /\ Unlocked(kyc)
  /\ LET k == IF kyc.account.blocked \in KYC_BLOCKS \cup {"none", "NAME_MISMATCH"}
              THEN [kyc EXCEPT !.account.blocked = "PROVIDER_DEAUTHORIZED"] ELSE kyc
     IN  kyc' = IF can_receive_payments(kyc) THEN release_technician_orders(k) ELSE k
  /\ UNCHANGED <<acc, job>>

\* Mutant: the block hidden behind the name review is forgotten.
no_hidden_block(k) == "none"

hidden_block(k) == CASE k.status = "SUSPENDED" -> "KYC_SUSPENDED"
                     [] k.status = "EXPIRED" -> "KYC_EXPIRED"
                     [] OTHER -> "none"

resolve_name_review(ok) ==
  /\ kyc.account.blocked = "NAME_MISMATCH" /\ Unlocked(kyc)
  /\ kyc' = IF ok THEN [kyc EXCEPT !.account.blocked = hidden_block(kyc), !.account.match = "yes"]
            ELSE release_technician_orders([kyc EXCEPT !.account.blocked = "NAME_REJECTED"])
  /\ UNCHANGED <<acc, job>>

-------------------------------------------------------------------------------
(* app/orders/service.py and app/api/routes/users.py                       *)

\* Mutant: the trigger as migration 0005 had it: the account is only looked at when accept begins.
order_technician_guard_0005(k) == k.status = "APPROVED" /\ k.active

\* The trigger, as accepting or booking meets it (it locks both rows FOR SHARE).
order_technician_guard(k) == k.status = "APPROVED" /\ k.active /\ can_receive_payments(k)

\* orders.create with requested_technician_id: a booking of this technician.
book_directly ==
  /\ kyc.order = "pool" /\ acc = "none" /\ kyc.available /\ order_technician_guard(kyc)
  /\ kyc' = [kyc EXCEPT !.order = "direct"] /\ UNCHANGED <<acc, job>>

accept_reads ==
  /\ acc = "none" /\ kyc.active /\ kyc.available /\ can_receive_payments(kyc)
  /\ kyc.order \in {"pool", "direct"}
  /\ acc' = "checked" /\ UNCHANGED <<kyc, job>>

\* The update fires the trigger, after any suspension that held the profile has committed.
accept_writes ==
  /\ acc = "checked"
  /\ acc' = IF order_technician_guard(kyc) THEN "written" ELSE "none"
  /\ UNCHANGED <<kyc, job>>

accept_commits ==
  /\ acc = "written" /\ acc' = "none"
  /\ kyc' = [kyc EXCEPT !.order = "held"] /\ UNCHANGED job

\* The request dies, or PostgreSQL picks it to break a deadlock with a suspension.
accept_aborts == acc # "none" /\ acc' = "none" /\ UNCHANGED <<kyc, job>>

start_order ==
  /\ kyc.order = "held" /\ kyc.status = "APPROVED" /\ kyc.active
  /\ kyc' = [kyc EXCEPT !.order = "started"] /\ UNCHANGED <<acc, job>>

\* The order goes on in OrderPayment; the next open request takes its place here.
order_ends == kyc.order = "started" /\ kyc' = [kyc EXCEPT !.order = "pool"] /\ UNCHANGED <<acc, job>>

technician_availability_guard(k, on) == on => k.status = "APPROVED"

update_technician_profile(on) ==
  /\ kyc.active /\ technician_availability_guard(kyc, on)
  /\ kyc' = [kyc EXCEPT !.available = on] /\ UNCHANGED <<acc, job>>

\* It locks neither the profile nor the account: an accept that has written goes on.
deactivate_user ==
  /\ kyc.active /\ (acc # "none" => kyc.order # "direct")
  /\ kyc' = release_technician_orders([kyc EXCEPT !.active = FALSE])
  /\ UNCHANGED <<acc, job>>

-------------------------------------------------------------------------------
create_kyc_profile == [status |-> "NOT_STARTED", assigned |-> Nobody, consents |-> {}, data |-> FALSE,
                       fix |-> {}, due |-> FALSE, old |-> FALSE, address |-> [st |-> "none", ref |-> FALSE],
                       doc |-> [c \in Categories |-> NoDocument],
                       account |-> [status |-> "NOT_CREATED", blocked |-> "none", match |-> "unknown"],
                       available |-> FALSE, active |-> TRUE, order |-> "pool"]

KycInit == kyc = create_kyc_profile /\ acc = "none" /\ job = "idle"

TechnicianStep == \/ \E p \in SUBSET REQUIRED_CONSENTS : kyc.active /\ record_consents(p)
                  \/ kyc.active /\ (save_personal_data \/ save_address \/ submit)
                  \/ \E c \in Categories : kyc.active /\ (create_document(c) \/ upload_file(c) \/ delete_document(c))
                  \/ accept_reads \/ start_order
                  \/ \E on \in BOOLEAN : update_technician_profile(on)
StaffStep == \E a \in Staff :
               \/ claim(a) \/ release(a) \/ approve(a) \/ reject(a) \/ suspend(a) \/ reinstate(a)
               \/ \E c \in Categories, ok \in BOOLEAN : decide_document(a, c, ok)
               \/ \E fix \in CORRECTION_SCOPES : request_correction(a, fix)
AccountStep == create_account \/ \E info \in Reports, name \in Names : sync_account(info, name)
NameReview == \E ok \in BOOLEAN : resolve_name_review(ok)
JobStep == scan_claims \/ release_stale_claims \/ scan_approvals \/ expire_approvals
Accepting == accept_writes \/ accept_commits
KycNext == \/ TechnicianStep \/ StaffStep \/ JobStep \/ Accepting \/ accept_aborts \/ time_passes
           \/ \E c \in Categories, clean \in BOOLEAN : process_pending(c, clean)
           \/ AccountStep \/ NameReview \/ block \/ book_directly \/ order_ends \/ deactivate_user

\* The worker runs its jobs over and over (worker/jobs.py), and PostgreSQL serves those who
\* wait for a row in turn: the job gets the lock although accepts come and go.
KycFairness == SF_kycVars(JobStep) /\ WF_kycVars(Accepting)
KycSpec == KycInit /\ [][KycNext]_kycVars /\ KycFairness

-------------------------------------------------------------------------------
\* An order the technician holds, and the availability to be booked, never outlive what they
\* rest on: the approval and, for the order, an account that can be paid.
HeldIsEligible == /\ kyc.order = "held" => kyc.status = "APPROVED" /\ can_receive_payments(kyc)
                  /\ kyc.available => kyc.status = "APPROVED"

\* While the case is suspended or expired the account cannot be paid, whatever name review,
\* sync or deauthorization happened before, meanwhile or in between.
SuspendedIsBlocked == kyc.status \in {"SUSPENDED", "EXPIRED"} => ~can_receive_payments(kyc)

\* An approved case has its data, an approved document in every category, and an approved proof
\* of what its address says, not of an address it had before.
ApprovedIsProven == kyc.status = "APPROVED" =>
  /\ kyc.data /\ \A c \in Categories : kyc.doc[c].status = "APPROVED"
  /\ kyc.address.st = "locked" /\ kyc.doc["ADDRESS"].bound /\ kyc.doc["ADDRESS"].proves

\* An abandoned claim does not keep a case for ever, and an approval that fell due ends.
JobsCatchUp == /\ (kyc.status = "UNDER_REVIEW" /\ kyc.old) ~> kyc.status # "UNDER_REVIEW"
               /\ (kyc.status = "APPROVED" /\ kyc.due) ~> kyc.status # "APPROVED"
================================================================================
