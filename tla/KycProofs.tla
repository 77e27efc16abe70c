------------------------------- MODULE KycProofs -------------------------------
(***************************************************************************)
(* Safety of the verification case, for any staff, any of the required     *)
(* categories and anything the payment provider reports.                   *)
(*                                                                         *)
(* CaseInv is an invariant of the committed rows; KycInv adds what an      *)
(* accept that has written its order relies on while it holds the profile  *)
(* and the account.                                                        *)
(***************************************************************************)
EXTENDS Kyc, TLAPS

Reviewed(k) == (k.status = "UNDER_REVIEW") = (k.assigned # Nobody)

Eligible(k) == /\ k.order = "held" => k.status = "APPROVED" /\ can_receive_payments(k)
               /\ k.available => k.status = "APPROVED"

\* No account is created, and none loses its block, while the case is suspended or expired.
Blocked(k) == k.status \in {"SUSPENDED", "EXPIRED"} => k.account.status = "NOT_CREATED" \/ k.account.blocked # "none"

\* The address is locked from the submission on, until a correction or an expiry opens it.
Locked(k) == k.status \in {"SUBMITTED", "UNDER_REVIEW", "APPROVED", "REJECTED", "SUSPENDED"} => k.address.st = "locked"

\* A proof bound to the current address was issued for what it says: an address a document points
\* to is not edited in its place.
BoundProves(k) == k.doc["ADDRESS"].bound => k.doc["ADDRESS"].proves /\ k.address.ref

DecidedOn(k) == k.status = "APPROVED" =>
  k.data /\ k.doc["ADDRESS"].bound /\ \A c \in Categories : k.doc[c].status = "APPROVED"

CaseInv(k) == /\ k \in KycProfile /\ Reviewed(k) /\ Eligible(k) /\ Blocked(k)
              /\ Locked(k) /\ BoundProves(k) /\ DecidedOn(k)

\* The trigger locked both rows FOR SHARE: what it checked stays true until the accept ends.
KycInv == /\ CaseInv(kyc) /\ acc \in {"none", "checked", "written"} /\ job \in {"idle", "claims", "approvals"}
          /\ acc = "written" => kyc.status = "APPROVED" /\ can_receive_payments(kyc)

-------------------------------------------------------------------------------
(* Lemmas on the operators from rows to rows.                              *)

\* The fields of a case.
LEMMA CaseFields ==
  ASSUME NEW k \in KycProfile
  PROVE  /\ k.status \in KycStatus /\ k.assigned \in Staff \cup {Nobody} /\ k.data \in BOOLEAN
         /\ k.address \in KycAddress /\ k.doc \in [Categories -> KycDocument]
         /\ k.account \in TechnicianPaymentAccount /\ k.available \in BOOLEAN /\ k.active \in BOOLEAN
         /\ k.order \in {"pool", "direct", "held", "started"}
         /\ k.fix \in SUBSET Scope /\ k.consents \in SUBSET REQUIRED_CONSENTS
         /\ k.address.st \in {"none", "draft", "locked"} /\ k.address.ref \in BOOLEAN
         /\ k.account.status \in AccountStatus /\ k.account.blocked \in BlockedReason
         /\ k.account.match \in {"unknown", "yes", "no"}
         /\ \A c \in Categories : k.doc[c] \in KycDocument
BY DEF KycProfile, KycAddress, TechnicianPaymentAccount

\* What a proof depends on in a document.
SameProofs(k, e) == \A c \in Categories :
  e.doc[c].status = k.doc[c].status /\ e.doc[c].bound = k.doc[c].bound /\ e.doc[c].proves = k.doc[c].proves

\* transition: the status, the reviewer and the availability; the documents stay, a new cycle only
\* forgets who decided them.
LEMMA TransitionFields ==
  ASSUME NEW k \in KycProfile, NEW to \in KycStatus, NEW a, to = "UNDER_REVIEW" => a \in Staff
  PROVE  LET e == transition(k, to, a) IN
         /\ e \in KycProfile /\ e.status = to /\ e.assigned = (IF to = "UNDER_REVIEW" THEN a ELSE Nobody)
         /\ e.data = k.data /\ e.address = k.address /\ e.account = k.account /\ e.order = k.order
         /\ e.available => k.available /\ (k.status = "APPROVED" => to = "APPROVED")
         /\ SameProofs(k, e)
<1> DEFINE D == [c \in Categories |-> [k.doc[c] EXCEPT !.mine = FALSE]]
           n == [k EXCEPT !.doc = D]
           b == _apply_effects(k, to, a)
           new == (to = "SUBMITTED" /\ k.status \in NEW_CYCLE_FROM) \/ (to = "UNDER_REVIEW" /\ k.status = "SUSPENDED")
           c0 == IF new THEN n ELSE k
           u == kyc_unavailable_when_not_approved(b, to)
           e == transition(k, to, a)
<1>1. /\ D \in [Categories -> KycDocument]
      /\ \A c \in Categories : /\ D[c].status = k.doc[c].status /\ D[c].bound = k.doc[c].bound
                               /\ D[c].proves = k.doc[c].proves
  <2>1. \A x \in KycDocument : LET y == [x EXCEPT !.mine = FALSE] IN
          y \in KycDocument /\ y.status = x.status /\ y.bound = x.bound /\ y.proves = x.proves
    BY DEF KycDocument
  <2>2. \A c \in Categories : k.doc[c] \in KycDocument /\ D[c] = [k.doc[c] EXCEPT !.mine = FALSE]
    BY CaseFields
  <2> QED BY <2>1, <2>2
<1>2. _new_cycle(k) = n
  BY DEF _new_cycle
<1> HIDE DEF D
<1>3. /\ n \in KycProfile /\ n.doc = D /\ n.status = k.status /\ n.data = k.data /\ n.address = k.address
      /\ n.account = k.account /\ n.order = k.order /\ n.available = k.available
  BY <1>1 DEF KycProfile
<1>4. SameProofs(k, n)
  BY <1>1, <1>3 DEF SameProofs
<1> HIDE DEF n
<1>5. /\ c0 \in KycProfile /\ c0.status = k.status /\ c0.data = k.data /\ c0.address = k.address
      /\ c0.account = k.account /\ c0.order = k.order /\ c0.available = k.available /\ SameProofs(k, c0)
  BY <1>3, <1>4 DEF SameProofs
<1>6. b = [c0 EXCEPT !.assigned = IF to = "UNDER_REVIEW" THEN a ELSE Nobody, !.old = FALSE]
  BY <1>2 DEF _apply_effects
<1> HIDE DEF c0
<1>7. /\ b \in KycProfile /\ b.assigned = (IF to = "UNDER_REVIEW" THEN a ELSE Nobody)
      /\ b.status = k.status /\ b.data = k.data /\ b.address = k.address
      /\ b.account = k.account /\ b.order = k.order /\ b.available = k.available /\ b.doc = c0.doc
  BY <1>5, <1>6 DEF KycProfile
<1> HIDE DEF b
<1>8. /\ u \in KycProfile /\ u.assigned = b.assigned /\ u.data = k.data /\ u.address = k.address
      /\ u.account = k.account /\ u.order = k.order /\ u.doc = c0.doc
      /\ u.available => k.available /\ (k.status = "APPROVED" => to = "APPROVED")
  BY <1>7 DEF KycProfile, kyc_unavailable_when_not_approved
<1>9. e = [u EXCEPT !.status = to, !.fix = {}, !.due = FALSE]
  BY DEF transition, b, u
<1> HIDE DEF u, e
<1>10. /\ e \in KycProfile /\ e.status = to /\ e.assigned = u.assigned /\ e.data = u.data /\ e.address = u.address
       /\ e.account = u.account /\ e.order = u.order /\ e.doc = u.doc /\ e.available = u.available
  BY <1>8, <1>9 DEF KycProfile
<1>11. SameProofs(k, e)
  BY <1>5, <1>8, <1>10 DEF SameProofs
<1> QED BY <1>7, <1>8, <1>10, <1>11 DEF e

\* A case that was not approved changes status: it goes into review with its address locked, and is
\* approved with everything decided.
LEMMA TransitionCase ==
  ASSUME NEW k, CaseInv(k), k.status # "APPROVED", NEW to \in KycStatus \ {"SUSPENDED", "EXPIRED"}, NEW a,
         to = "UNDER_REVIEW" => a \in Staff,
         to \in {"SUBMITTED", "UNDER_REVIEW", "APPROVED", "REJECTED"} => k.address.st = "locked",
         to = "APPROVED" => k.data /\ k.doc["ADDRESS"].bound /\ \A c \in Categories : k.doc[c].status = "APPROVED"
  PROVE  LET e == transition(k, to, a) IN CaseInv(e) /\ e.account = k.account /\ e.status = to
<1> DEFINE e == transition(k, to, a)
<1>0. k \in KycProfile
  BY DEF CaseInv
<1>1. /\ e \in KycProfile /\ e.status = to /\ e.assigned = (IF to = "UNDER_REVIEW" THEN a ELSE Nobody)
      /\ e.data = k.data /\ e.address = k.address /\ e.account = k.account /\ e.order = k.order
      /\ (e.available => k.available) /\ SameProofs(k, e)
  BY <1>0, TransitionFields
<1> HIDE DEF e
<1>2. Reviewed(e)
  BY <1>1, KycAssumption DEF Reviewed, Staff
<1>3. k.order # "held" /\ ~k.available
  BY DEF CaseInv, Eligible
<1>4. Eligible(e) /\ Blocked(e) /\ Locked(e)
  BY <1>1, <1>3 DEF Eligible, Blocked, Locked
<1>5. BoundProves(e) /\ DecidedOn(e)
  BY <1>1, KycAssumption DEF CaseInv, BoundProves, DecidedOn, SameProofs
<1> QED BY <1>1, <1>2, <1>4, <1>5 DEF CaseInv, e

\* The orders not started yet go back to the pool, and nothing else changes.
LEMMA ReleaseFields ==
  ASSUME NEW k \in KycProfile
  PROVE  LET e == release_technician_orders(k) IN
         /\ e \in KycProfile /\ e.order # "held" /\ e.status = k.status /\ e.assigned = k.assigned /\ e.data = k.data
         /\ e.address = k.address /\ e.doc = k.doc /\ e.account = k.account /\ e.available = k.available
BY DEF KycProfile, release_technician_orders

\* An approval ends: the orders are released and the account, if there is one, is blocked.
LEMMA EndedCase ==
  ASSUME NEW k, CaseInv(k), k.status = "APPROVED", NEW to \in {"SUSPENDED", "EXPIRED"}, NEW a,
         NEW reason \in KYC_BLOCKS
  PROVE  CaseInv(block_for_kyc(release_technician_orders(transition(k, to, a)), reason))
<1> DEFINE t == transition(k, to, a)
           r == release_technician_orders(t)
           e == block_for_kyc(r, reason)
<1>0. k \in KycProfile
  BY DEF CaseInv
<1>1. /\ t \in KycProfile /\ t.status = to /\ t.assigned = Nobody /\ t.address = k.address
      /\ t.account = k.account /\ ~t.available /\ SameProofs(k, t)
  BY <1>0, TransitionFields DEF KycStatus
<1> HIDE DEF t
<1>2. /\ r \in KycProfile /\ r.order # "held" /\ r.status = to /\ r.assigned = Nobody
      /\ r.address = k.address /\ r.doc = t.doc /\ r.account = k.account /\ ~r.available
  BY <1>1, ReleaseFields
<1> HIDE DEF r
<1>3. /\ e \in KycProfile /\ e.order = r.order /\ e.status = r.status /\ e.assigned = r.assigned
      /\ e.address = r.address /\ e.doc = r.doc /\ e.available = r.available
      /\ e.account.status = "NOT_CREATED" \/ e.account.blocked # "none"
  <2>1. CASE r.account.status # "NOT_CREATED" /\ r.account.blocked \in KYC_BLOCKS \cup {"none"}
    <3>1. e = [r EXCEPT !.account.blocked = reason]
      BY <2>1 DEF block_for_kyc
    <3>2. [r.account EXCEPT !.blocked = reason] \in TechnicianPaymentAccount
      BY <1>2, CaseFields DEF TechnicianPaymentAccount, BlockedReason
    <3>3. e.account = [r.account EXCEPT !.blocked = reason] /\ e.account.blocked = reason
      BY <3>1, <1>2 DEF KycProfile, TechnicianPaymentAccount
    <3> QED BY <3>1, <3>2, <3>3, <1>2 DEF KycProfile, KYC_BLOCKS
  <2>2. CASE ~(r.account.status # "NOT_CREATED" /\ r.account.blocked \in KYC_BLOCKS \cup {"none"})
    BY <2>2, <1>2 DEF block_for_kyc
  <2> QED BY <2>1, <2>2
<1> HIDE DEF e
<1>4. Reviewed(e) /\ Eligible(e) /\ Blocked(e)
  BY <1>2, <1>3 DEF Reviewed, Eligible, Blocked
<1>5. Locked(e)
  BY <1>2, <1>3 DEF CaseInv, Locked
<1>6. BoundProves(e) /\ DecidedOn(e)
  BY <1>1, <1>2, <1>3, KycAssumption DEF CaseInv, BoundProves, DecidedOn, SameProofs
<1> QED BY <1>3, <1>4, <1>5, <1>6 DEF CaseInv, e, r, t

\* A step that touches neither the decision, nor the account, nor the order.
LEMMA UntouchedCase ==
  ASSUME NEW k, CaseInv(k), NEW e \in KycProfile,
         e.status = k.status, e.assigned = k.assigned, e.data \in {k.data, TRUE}, e.address = k.address,
         e.account = k.account, e.order = k.order, e.available = k.available, SameProofs(k, e)
  PROVE  CaseInv(e)
<1>1. Reviewed(e) /\ Eligible(e) /\ Blocked(e) /\ Locked(e)
  BY DEF CaseInv, Reviewed, Eligible, Blocked, Locked, can_receive_payments
<1>2. BoundProves(e) /\ DecidedOn(e)
  BY KycAssumption, ZenonT(30) DEF CaseInv, BoundProves, DecidedOn, SameProofs
<1> QED BY <1>1, <1>2 DEF CaseInv

\* A step on the documents or the address of a case that is not approved.
LEMMA DocumentsCase ==
  ASSUME NEW k, CaseInv(k), NEW e \in KycProfile, k.status # "APPROVED",
         e.status = k.status, e.assigned = k.assigned, e.account = k.account, e.order = k.order,
         e.available = k.available, BoundProves(e), Locked(e)
  PROVE  CaseInv(e)
<1>1. Reviewed(e) /\ Eligible(e) /\ Blocked(e) /\ DecidedOn(e)
  BY DEF CaseInv, Reviewed, Eligible, Blocked, DecidedOn
<1> QED BY <1>1 DEF CaseInv

\* A step on the account or the order alone.
LEMMA AccountCase ==
  ASSUME NEW k, CaseInv(k), NEW e \in KycProfile,
         e.status = k.status, e.assigned = k.assigned, e.data = k.data, e.address = k.address, e.doc = k.doc,
         Eligible(e), Blocked(e)
  PROVE  CaseInv(e)
<1>1. Reviewed(e) /\ Locked(e)
  BY DEF CaseInv, Reviewed, Locked
<1>2. BoundProves(e) /\ DecidedOn(e)
  BY DEF CaseInv, BoundProves, DecidedOn
<1> QED BY <1>1, <1>2 DEF CaseInv

\* A technician who edits a case that has not started yet starts it.
LEMMA StartCase ==
  ASSUME NEW k, CaseInv(k) PROVE CaseInv(_start_if_needed(k))
<1>1. CASE k.status = "NOT_STARTED"
  BY <1>1, TransitionCase DEF _start_if_needed, KycStatus
<1>2. CASE k.status # "NOT_STARTED"
  BY <1>2 DEF _start_if_needed
<1> QED BY <1>1, <1>2
-------------------------------------------------------------------------------
(* Every action keeps KycInv.                                              *)

\* A step beside an accept: it leaves the status and the account alone, or the accept does not hold them.
LEMMA CaseStep ==
  ASSUME KycInv, CaseInv(kyc'), acc' = acc, job' \in {"idle", "claims", "approvals"},
         acc # "written" \/ kyc.status # "APPROVED" \/ (kyc'.status = kyc.status /\ kyc'.account = kyc.account)
  PROVE  KycInv'
BY DEF KycInv, can_receive_payments

LEMMA RecordConsentsInv == ASSUME KycInv, NEW p \in SUBSET REQUIRED_CONSENTS, record_consents(p) PROVE KycInv'
<1>1. kyc' = [kyc EXCEPT !.consents = @ \cup p] /\ UNCHANGED <<acc, job>>
  BY DEF record_consents
<1>2. CaseInv(kyc) /\ kyc \in KycProfile
  BY DEF KycInv, CaseInv
<1>3. /\ kyc' \in KycProfile /\ kyc'.status = kyc.status /\ kyc'.assigned = kyc.assigned /\ kyc'.data = kyc.data
      /\ kyc'.address = kyc.address /\ kyc'.account = kyc.account /\ kyc'.order = kyc.order
      /\ kyc'.available = kyc.available /\ kyc'.doc = kyc.doc
  BY <1>1, <1>2 DEF KycProfile
<1>4. CaseInv(kyc')
  BY <1>2, <1>3, UntouchedCase DEF SameProofs
<1> QED BY <1>1, <1>3, <1>4, CaseStep DEF KycInv

LEMMA SavePersonalDataInv == ASSUME KycInv, save_personal_data PROVE KycInv'
<1> DEFINE e == [kyc EXCEPT !.data = TRUE]
<1>1. /\ kyc.status \in IDENTITY_EDITABLE_STATES /\ kyc' = _start_if_needed(e) /\ UNCHANGED <<acc, job>>
  BY DEF save_personal_data, set_identity
<1>2. CaseInv(kyc) /\ kyc \in KycProfile
  BY DEF KycInv, CaseInv
<1>3. /\ e \in KycProfile /\ e.status = kyc.status /\ e.assigned = kyc.assigned /\ e.data = TRUE
      /\ e.address = kyc.address /\ e.account = kyc.account /\ e.order = kyc.order
      /\ e.available = kyc.available /\ e.doc = kyc.doc
  BY <1>2 DEF KycProfile
<1> HIDE DEF e
<1>4. CaseInv(e)
  BY <1>2, <1>3, UntouchedCase DEF SameProofs
<1>5. CaseInv(kyc')
  BY <1>1, <1>4, StartCase
<1> QED BY <1>1, <1>5, CaseStep DEF KycInv, IDENTITY_EDITABLE_STATES

\* What may be edited, and when.
LEMMA EditableStates ==
  ASSUME NEW k \in KycProfile, NEW s \in Scope, s \in editable_scopes(k)
  PROVE  k.status \in {"NOT_STARTED", "PENDING_DOCUMENTS", "CORRECTION_REQUIRED", "EXPIRED"}
<1>1. k.status \in KycStatus
  BY CaseFields
<1> QED BY <1>1 DEF editable_scopes, STATE_SCOPES, KycStatus

\* A new address, or the draft nobody points to edited in its place.
LEMMA SaveAddressInv == ASSUME KycInv, save_address PROVE KycInv'
<1> DEFINE in == editable_in_place(kyc)
           proof == [kyc.doc["ADDRESS"] EXCEPT !.proves = FALSE, !.bound = in /\ @]
           address == IF in THEN kyc.address ELSE [st |-> "draft", ref |-> FALSE]
           D == [kyc.doc EXCEPT !["ADDRESS"] = proof]
           e == [kyc EXCEPT !.address = IF in THEN @ ELSE [st |-> "draft", ref |-> FALSE], !.doc["ADDRESS"] = proof]
<1>1. "ADDRESS" \in editable_scopes(kyc) /\ kyc' = _start_if_needed(e) /\ UNCHANGED <<acc, job>>
  BY DEF save_address
<1>2. CaseInv(kyc) /\ kyc \in KycProfile /\ "ADDRESS" \in Categories
  BY KycAssumption DEF KycInv, CaseInv
<1>3. kyc.status \in {"NOT_STARTED", "PENDING_DOCUMENTS", "CORRECTION_REQUIRED", "EXPIRED"}
  BY <1>1, <1>2, EditableStates DEF Scope
<1>4. in => ~kyc.doc["ADDRESS"].bound
  BY <1>2 DEF editable_in_place, CaseInv, BoundProves
<1>5. in \in BOOLEAN
  BY DEF editable_in_place
<1> HIDE DEF in
<1>6. proof \in KycDocument /\ ~proof.bound
  <2>1. kyc.doc["ADDRESS"] \in KycDocument
    BY <1>2, CaseFields
  <2>2. \A x \in KycDocument, b \in BOOLEAN :
          LET y == [x EXCEPT !.proves = FALSE, !.bound = b] IN y \in KycDocument /\ y.bound = b
    BY DEF KycDocument
  <2>3. (in /\ kyc.doc["ADDRESS"].bound) = FALSE
    BY <1>4
  <2>4. proof = [kyc.doc["ADDRESS"] EXCEPT !.proves = FALSE, !.bound = in /\ kyc.doc["ADDRESS"].bound]
    BY <2>1 DEF KycDocument
  <2>5. proof = [kyc.doc["ADDRESS"] EXCEPT !.proves = FALSE, !.bound = FALSE]
    BY <2>3, <2>4
  <2> HIDE DEF proof
  <2> QED BY <2>1, <2>2, <2>5
<1> HIDE DEF proof
<1>7. /\ address \in KycAddress /\ D \in [Categories -> KycDocument] /\ D["ADDRESS"] = proof
  BY <1>2, <1>6, CaseFields DEF KycAddress
<1>8. /\ e \in KycProfile /\ e.status = kyc.status /\ e.assigned = kyc.assigned /\ e.account = kyc.account
      /\ e.order = kyc.order /\ e.available = kyc.available /\ e.doc["ADDRESS"] = proof
  <2>1. e = [kyc EXCEPT !.address = address, !.doc = D]
    BY <1>2 DEF KycProfile
  <2> HIDE DEF e, address, D
  <2> QED BY <2>1, <1>2, <1>7 DEF KycProfile
<1> HIDE DEF e
<1>9. CaseInv(e)
  <2>1. BoundProves(e) /\ Locked(e)
    BY <1>3, <1>6, <1>8 DEF BoundProves, Locked
  <2> QED BY <2>1, <1>2, <1>3, <1>8, DocumentsCase
<1>10. CaseInv(kyc')
  BY <1>1, <1>9, StartCase
<1> QED BY <1>1, <1>3, <1>10, CaseStep DEF KycInv

LEMMA SubmitInv == ASSUME KycInv, submit PROVE KycInv'
<1> DEFINE e == [kyc EXCEPT !.address.st = "locked"]
           address == [kyc.address EXCEPT !.st = "locked"]
<1>1. kyc.status \in NEW_CYCLE_FROM /\ kyc' = transition(e, "SUBMITTED", Technician) /\ UNCHANGED <<acc, job>>
  BY DEF submit
<1>2. CaseInv(kyc) /\ kyc \in KycProfile
  BY DEF KycInv, CaseInv
<1>3. address \in KycAddress /\ address.st = "locked" /\ address.ref = kyc.address.ref
  BY <1>2, CaseFields DEF KycAddress
<1>4. /\ e \in KycProfile /\ e.status = kyc.status /\ e.assigned = kyc.assigned /\ e.account = kyc.account
      /\ e.order = kyc.order /\ e.available = kyc.available /\ e.doc = kyc.doc /\ e.address = address
  <2>1. e = [kyc EXCEPT !.address = address]
    BY <1>2 DEF KycProfile
  <2> HIDE DEF e, address
  <2> QED BY <2>1, <1>2, <1>3 DEF KycProfile
<1> HIDE DEF e, address
<1>5. CaseInv(e)
  <2>1. BoundProves(e) /\ Locked(e)
    BY <1>2, <1>3, <1>4 DEF CaseInv, BoundProves, Locked
  <2> QED BY <2>1, <1>1, <1>2, <1>4, DocumentsCase DEF NEW_CYCLE_FROM
<1>6. CaseInv(kyc')
  BY <1>1, <1>3, <1>4, <1>5, TransitionCase DEF NEW_CYCLE_FROM, KycStatus
<1> QED BY <1>1, <1>6, CaseStep DEF KycInv, NEW_CYCLE_FROM

\* The document of one category is replaced, and with the proof its pointer to the address.
LEMMA DocumentStep ==
  ASSUME KycInv, kyc.status # "APPROVED", NEW c \in Categories, NEW d \in KycDocument, NEW ref \in BOOLEAN,
         kyc.address.ref => ref, c = "ADDRESS" /\ d.bound => d.proves /\ ref,
         kyc' = [kyc EXCEPT !.doc[c] = d, !.address.ref = ref], UNCHANGED <<acc, job>>
  PROVE  KycInv'
<1> DEFINE D == [kyc.doc EXCEPT ![c] = d]
           address == [kyc.address EXCEPT !.ref = ref]
<1>1. CaseInv(kyc) /\ kyc \in KycProfile /\ "ADDRESS" \in Categories
  BY KycAssumption DEF KycInv, CaseInv
<1>2. /\ D \in [Categories -> KycDocument] /\ D["ADDRESS"] = (IF c = "ADDRESS" THEN d ELSE kyc.doc["ADDRESS"])
      /\ address \in KycAddress /\ address.ref = ref /\ address.st = kyc.address.st
  BY <1>1, CaseFields DEF KycAddress
<1>3. /\ kyc' \in KycProfile /\ kyc'.status = kyc.status /\ kyc'.assigned = kyc.assigned
      /\ kyc'.account = kyc.account /\ kyc'.order = kyc.order /\ kyc'.available = kyc.available
      /\ kyc'.doc = D /\ kyc'.address = address
  <2>1. kyc' = [kyc EXCEPT !.address = address, !.doc = D]
    BY <1>1 DEF KycProfile
  <2> HIDE DEF address, D
  <2> QED BY <2>1, <1>1, <1>2 DEF KycProfile
<1> HIDE DEF D, address
<1>4. BoundProves(kyc') /\ Locked(kyc')
  BY <1>1, <1>2, <1>3 DEF CaseInv, BoundProves, Locked
<1>5. CaseInv(kyc')
  BY <1>1, <1>3, <1>4, DocumentsCase
<1> QED BY <1>5, CaseStep DEF KycInv

\* A document changes and the address does not.
LEMMA DocumentAloneStep ==
  ASSUME KycInv, kyc.status # "APPROVED", NEW c \in Categories, NEW d \in KycDocument,
         c = "ADDRESS" /\ d.bound => d.proves /\ kyc.doc[c].bound,
         kyc' = [kyc EXCEPT !.doc[c] = d], UNCHANGED <<acc, job>>
  PROVE  KycInv'
<1>1. kyc \in KycProfile /\ kyc.address.ref \in BOOLEAN /\ BoundProves(kyc)
  BY CaseFields DEF KycInv, CaseInv
<1>2. c = "ADDRESS" /\ d.bound => d.proves /\ kyc.address.ref
  BY <1>1 DEF BoundProves
<1>3. [kyc EXCEPT !.doc[c] = d] = [kyc EXCEPT !.doc[c] = d, !.address.ref = kyc.address.ref]
  <2>1. [kyc.address EXCEPT !.ref = kyc.address.ref] = kyc.address
    BY <1>1, CaseFields DEF KycAddress
  <2>2. [kyc EXCEPT !.doc[c] = d, !.address.ref = kyc.address.ref]
          = [kyc EXCEPT !.doc[c] = d, !.address = [kyc.address EXCEPT !.ref = kyc.address.ref]]
    BY <1>1 DEF KycProfile
  <2>3. [kyc EXCEPT !.doc[c] = d] = [kyc EXCEPT !.doc[c] = d, !.address = kyc.address]
    BY <1>1 DEF KycProfile
  <2> QED BY <2>1, <2>2, <2>3
<1>4. kyc' = [kyc EXCEPT !.doc[c] = d, !.address.ref = kyc.address.ref]
  BY <1>3, Zenon
<1> QED BY <1>1, <1>2, <1>4, DocumentStep

LEMMA CreateDocumentInv == ASSUME KycInv, NEW c \in Categories, create_document(c) PROVE KycInv'
<1> DEFINE d == [NoDocument EXCEPT !.status = "OPEN", !.valid = TRUE, !.bound = c = "ADDRESS", !.proves = c = "ADDRESS"]
           ref == kyc.address.ref \/ c = "ADDRESS"
<1>1. /\ "DOCUMENTS" \in editable_scopes(kyc) /\ UNCHANGED <<acc, job>>
      /\ kyc' = [kyc EXCEPT !.doc[c] = d, !.address.ref = @ \/ c = "ADDRESS"]
  BY DEF create_document
<1>2. kyc \in KycProfile
  BY DEF KycInv, CaseInv
<1>3. kyc.status # "APPROVED"
  BY <1>1, <1>2, EditableStates DEF Scope
<1>4. d \in KycDocument /\ (d.bound => d.proves) /\ (d.bound => c = "ADDRESS")
  BY DEF KycDocument, NoDocument
<1>5. ref \in BOOLEAN /\ (kyc.address.ref => ref) /\ (c = "ADDRESS" => ref)
  BY <1>2, CaseFields
<1>6. kyc' = [kyc EXCEPT !.doc[c] = d, !.address.ref = ref]
  BY <1>1, <1>2 DEF KycProfile
<1> HIDE DEF d, ref
<1> QED BY <1>1, <1>3, <1>4, <1>5, <1>6, DocumentStep

\* The status of a document changes and what it proves does not.
LEMMA StatusStep ==
  ASSUME KycInv, kyc.status # "APPROVED", NEW c \in Categories,
         NEW s \in {"OPEN", "SCANNING", "PENDING_REVIEW", "APPROVED", "REJECTED"}, NEW m \in BOOLEAN,
         kyc' = [kyc EXCEPT !.doc[c] = [kyc.doc[c] EXCEPT !.status = s, !.mine = m]], UNCHANGED <<acc, job>>
  PROVE  KycInv'
<1> DEFINE d == [kyc.doc[c] EXCEPT !.status = s, !.mine = m]
<1>1. kyc.doc[c] \in KycDocument /\ BoundProves(kyc)
  BY CaseFields DEF KycInv, CaseInv
<1>2. \A x \in KycDocument : LET y == [x EXCEPT !.status = s, !.mine = m] IN
        y \in KycDocument /\ y.bound = x.bound /\ y.proves = x.proves
  BY DEF KycDocument
<1>3. d \in KycDocument /\ d.bound = kyc.doc[c].bound /\ d.proves = kyc.doc[c].proves
  BY <1>1, <1>2
<1> HIDE DEF d
<1>4. c = "ADDRESS" /\ d.bound => d.proves /\ kyc.doc[c].bound
  BY <1>1, <1>3 DEF BoundProves
<1>5. kyc' = [kyc EXCEPT !.doc[c] = d]
  BY DEF d
<1> QED BY <1>3, <1>4, <1>5, DocumentAloneStep

\* An update of the status of a document, written as an update of the document.
LEMMA DocumentUpdate ==
  ASSUME NEW k \in KycProfile, NEW c \in Categories, NEW s
  PROVE  [k EXCEPT !.doc[c].status = s]
           = [k EXCEPT !.doc[c] = [k.doc[c] EXCEPT !.status = s, !.mine = k.doc[c].mine]]
<1>1. k.doc[c] \in KycDocument
  BY CaseFields
<1>2. \A x \in KycDocument : [x EXCEPT !.status = s] = [x EXCEPT !.status = s, !.mine = x.mine]
  BY DEF KycDocument
<1>3. [k EXCEPT !.doc[c].status = s] = [k EXCEPT !.doc[c] = [k.doc[c] EXCEPT !.status = s]]
  BY DEF KycProfile
<1> QED BY <1>1, <1>2, <1>3

LEMMA UploadFileInv == ASSUME KycInv, NEW c \in Categories, upload_file(c) PROVE KycInv'
<1>1. /\ "DOCUMENTS" \in editable_scopes(kyc) /\ kyc' = [kyc EXCEPT !.doc[c].status = "SCANNING"]
      /\ UNCHANGED <<acc, job>>
  BY DEF upload_file
<1>2. kyc \in KycProfile
  BY DEF KycInv, CaseInv
<1>3. kyc.status # "APPROVED" /\ kyc.doc[c].mine \in BOOLEAN
  BY <1>1, <1>2, EditableStates, CaseFields DEF Scope, KycDocument
<1>4. kyc' = [kyc EXCEPT !.doc[c] = [kyc.doc[c] EXCEPT !.status = "SCANNING", !.mine = kyc.doc[c].mine]]
  BY <1>1, <1>2, DocumentUpdate, Zenon
<1> QED BY <1>1, <1>3, <1>4, StatusStep

LEMMA DeleteDocumentInv == ASSUME KycInv, NEW c \in Categories, delete_document(c) PROVE KycInv'
<1>1. /\ "DOCUMENTS" \in editable_scopes(kyc) /\ kyc' = [kyc EXCEPT !.doc[c] = NoDocument] /\ UNCHANGED <<acc, job>>
  BY DEF delete_document
<1>2. kyc \in KycProfile
  BY DEF KycInv, CaseInv
<1>3. kyc.status # "APPROVED"
  BY <1>1, <1>2, EditableStates DEF Scope
<1>4. NoDocument \in KycDocument /\ ~NoDocument.bound
  BY DEF KycDocument, NoDocument
<1> QED BY <1>1, <1>3, <1>4, DocumentAloneStep

\* A file that is being scanned is not of an approved case.
LEMMA ProcessPendingInv ==
  ASSUME KycInv, NEW c \in Categories, NEW clean \in BOOLEAN, process_pending(c, clean) PROVE KycInv'
<1> DEFINE s == IF clean THEN "PENDING_REVIEW" ELSE "OPEN"
<1>1. kyc.doc[c].status = "SCANNING" /\ kyc' = [kyc EXCEPT !.doc[c].status = s] /\ UNCHANGED <<acc, job>>
  BY DEF process_pending
<1>2. kyc \in KycProfile /\ DecidedOn(kyc)
  BY DEF KycInv, CaseInv
<1>3. kyc.status # "APPROVED" /\ kyc.doc[c].mine \in BOOLEAN
  BY <1>1, <1>2, CaseFields DEF DecidedOn, KycDocument
<1>4. kyc' = [kyc EXCEPT !.doc[c] = [kyc.doc[c] EXCEPT !.status = s, !.mine = kyc.doc[c].mine]]
  BY <1>1, <1>2, DocumentUpdate, Zenon
<1>5. s \in {"OPEN", "PENDING_REVIEW"}
  OBVIOUS
<1> HIDE DEF s
<1> QED BY <1>1, <1>3, <1>4, <1>5, StatusStep

LEMMA DecideDocumentInv ==
  ASSUME KycInv, NEW a \in Staff, NEW c \in Categories, NEW ok \in BOOLEAN, decide_document(a, c, ok) PROVE KycInv'
<1> DEFINE s == IF ok THEN "APPROVED" ELSE "REJECTED"
<1>1. /\ kyc.status = "UNDER_REVIEW" /\ kyc' = [kyc EXCEPT !.doc[c].status = s, !.doc[c].mine = TRUE]
      /\ UNCHANGED <<acc, job>>
  BY DEF decide_document
<1>2. kyc \in KycProfile
  BY DEF KycInv, CaseInv
<1>3. s \in {"APPROVED", "REJECTED"}
  OBVIOUS
<1> HIDE DEF s
<1>4. [kyc EXCEPT !.doc[c].status = s, !.doc[c].mine = TRUE]
        = [kyc EXCEPT !.doc[c] = [kyc.doc[c] EXCEPT !.status = s, !.mine = TRUE]]
  <2> DEFINE x == [kyc.doc[c] EXCEPT !.status = s]
             j == [kyc EXCEPT !.doc[c] = x]
  <2>1. [kyc EXCEPT !.doc[c].status = s] = j
    BY <1>2 DEF KycProfile
  <2>2. [kyc EXCEPT !.doc[c].status = s, !.doc[c].mine = TRUE] = [j EXCEPT !.doc[c].mine = TRUE]
    BY <2>1
  <2>3. kyc.doc \in [Categories -> KycDocument] /\ kyc.doc[c] \in KycDocument
    BY <1>2, CaseFields
  <2>4. [j EXCEPT !.doc[c].mine = TRUE] = [kyc EXCEPT !.doc[c] = [x EXCEPT !.mine = TRUE]]
    BY <1>2, <2>3 DEF KycProfile
  <2>5. [x EXCEPT !.mine = TRUE] = [kyc.doc[c] EXCEPT !.status = s, !.mine = TRUE]
    BY <2>3 DEF KycDocument
  <2> QED BY <2>2, <2>4, <2>5
<1>5. kyc' = [kyc EXCEPT !.doc[c] = [kyc.doc[c] EXCEPT !.status = s, !.mine = TRUE]]
  BY <1>1, <1>4
<1> QED BY <1>1, <1>3, <1>5, StatusStep

\* From where the staff and the worker may take a case.
LEMMA WhoMayMove ==
  ASSUME NEW k, NEW a
  PROVE  /\ a \in Staff \cup {System} /\ can_transition(k, "SUBMITTED", a) => k.status = "UNDER_REVIEW"
         /\ can_transition(k, "SUSPENDED", a) => k.status = "APPROVED"
         /\ kyc_enforce_transition(k.status, "EXPIRED") => k.status = "APPROVED"
<1>1. a \in Staff \cup {System} => a # Technician
  BY KycAssumption DEF Staff
<1>2. a \in Staff \cup {System} /\ can_transition(k, "SUBMITTED", a) => k.status = "UNDER_REVIEW"
  BY <1>1 DEF can_transition, ALLOWED_TRANSITIONS
<1>3. can_transition(k, "SUSPENDED", a) => k.status = "APPROVED"
  BY DEF can_transition, ALLOWED_TRANSITIONS
<1>4. kyc_enforce_transition(k.status, "EXPIRED") => k.status = "APPROVED"
  BY DEF kyc_enforce_transition, ALLOWED_TRANSITIONS
<1> QED BY <1>2, <1>3, <1>4

LEMMA ReviewStepInv ==
  ASSUME KycInv, NEW a \in Staff, claim(a) \/ release(a) \/ reject(a) \/ reinstate(a) PROVE KycInv'
<1>0. CaseInv(kyc) /\ Locked(kyc)
  BY DEF KycInv, CaseInv
<1>1. PICK to \in {"UNDER_REVIEW", "SUBMITTED", "REJECTED"} :
        /\ kyc.status \in {"SUBMITTED", "UNDER_REVIEW", "SUSPENDED"} /\ kyc' = transition(kyc, to, a)
        /\ UNCHANGED <<acc, job>>
  BY WhoMayMove DEF claim, release, reject, reinstate
<1>2. CaseInv(kyc')
  BY <1>0, <1>1, TransitionCase DEF Locked, KycStatus
<1> QED BY <1>1, <1>2, CaseStep DEF KycInv

LEMMA RequestCorrectionInv ==
  ASSUME KycInv, NEW a \in Staff, NEW fix \in CORRECTION_SCOPES, request_correction(a, fix) PROVE KycInv'
<1> DEFINE t == transition(kyc, "CORRECTION_REQUIRED", a)
<1>1. kyc.status = "UNDER_REVIEW" /\ kyc' = [t EXCEPT !.fix = fix] /\ UNCHANGED <<acc, job>>
  BY DEF request_correction
<1>2. CaseInv(t)
  BY <1>1, TransitionCase DEF KycInv, KycStatus
<1> HIDE DEF t
<1>3. t \in KycProfile /\ fix \in SUBSET Scope
  BY <1>2 DEF CaseInv, CORRECTION_SCOPES, Scope
<1>4. /\ kyc' \in KycProfile /\ kyc'.status = t.status /\ kyc'.assigned = t.assigned /\ kyc'.data = t.data
      /\ kyc'.address = t.address /\ kyc'.account = t.account /\ kyc'.order = t.order
      /\ kyc'.available = t.available /\ kyc'.doc = t.doc
  BY <1>1, <1>3 DEF KycProfile
<1>5. CaseInv(kyc')
  BY <1>2, <1>4, UntouchedCase DEF SameProofs
<1> QED BY <1>1, <1>5, CaseStep DEF KycInv

\* The account loses the block of the case and keeps any other.
LEMMA UnblockCase ==
  ASSUME NEW k, CaseInv(k), k.status = "APPROVED", k.order # "held" PROVE CaseInv(unblock_for_kyc(k))
<1>1. CASE k.account.blocked \in KYC_BLOCKS
  <2> DEFINE A == [k.account EXCEPT !.blocked = "none"]
             e == [k EXCEPT !.account = A]
  <2>1. k \in KycProfile
    BY DEF CaseInv
  <2>2. unblock_for_kyc(k) = e
    BY <1>1, <2>1 DEF unblock_for_kyc, KycProfile
  <2>3. A \in TechnicianPaymentAccount
    BY <2>1, CaseFields DEF TechnicianPaymentAccount, BlockedReason
  <2> HIDE DEF A
  <2>4. /\ e \in KycProfile /\ e.status = k.status /\ e.assigned = k.assigned /\ e.data = k.data
        /\ e.address = k.address /\ e.doc = k.doc /\ e.order = k.order /\ e.available = k.available
    BY <2>1, <2>3 DEF KycProfile
  <2> HIDE DEF e
  <2>5. Eligible(e) /\ Blocked(e)
    BY <2>4 DEF CaseInv, Eligible, Blocked
  <2> QED BY <2>2, <2>4, <2>5, AccountCase
<1>2. CASE k.account.blocked \notin KYC_BLOCKS
  BY <1>2 DEF unblock_for_kyc
<1> QED BY <1>1, <1>2

\* Approval needs every document approved, the proof bound and the data: _approval_blockers.
LEMMA ApproveInv == ASSUME KycInv, NEW a \in Staff, approve(a) PROVE KycInv'
<1> DEFINE t == transition(kyc, "APPROVED", a)
<1>1. /\ kyc.status = "UNDER_REVIEW" /\ ~_approval_blockers(kyc) /\ kyc' = unblock_for_kyc(t) /\ UNCHANGED <<acc, job>>
  BY DEF approve
<1>2. CaseInv(kyc) /\ kyc.address.st = "locked" /\ kyc.order # "held" /\ kyc \in KycProfile
  BY <1>1 DEF KycInv, CaseInv, Locked, Eligible
<1>3. kyc.data /\ kyc.doc["ADDRESS"].bound /\ \A c \in Categories : kyc.doc[c].status = "APPROVED"
  BY <1>1 DEF _approval_blockers
<1>4. CaseInv(t) /\ t.status = "APPROVED"
  BY <1>1, <1>2, <1>3, TransitionCase DEF KycStatus
<1>5. t.order = kyc.order
  BY <1>2, TransitionFields DEF KycStatus
<1> HIDE DEF t
<1>6. CaseInv(kyc')
  BY <1>1, <1>2, <1>4, <1>5, UnblockCase
<1> QED BY <1>1, <1>6, CaseStep DEF KycInv

LEMMA SuspendInv == ASSUME KycInv, NEW a \in Staff, suspend(a) PROVE KycInv'
<1>1. /\ acc # "written" /\ kyc.status = "APPROVED" /\ UNCHANGED <<acc, job>>
      /\ kyc' = block_for_kyc(release_technician_orders(transition(kyc, "SUSPENDED", a)), "KYC_SUSPENDED")
  BY WhoMayMove DEF suspend, Unlocked
<1>2. CaseInv(kyc')
  BY <1>1, EndedCase DEF KycInv, KYC_BLOCKS
<1> QED BY <1>1, <1>2, CaseStep DEF KycInv

LEMMA TimePassesInv == ASSUME KycInv, time_passes PROVE KycInv'
<1>0. kyc \in KycProfile /\ CaseInv(kyc)
  BY DEF KycInv, CaseInv
<1>1. UNCHANGED <<acc, job>>
  BY DEF time_passes
<1>2. ASSUME kyc' \in KycProfile, kyc'.status = kyc.status, kyc'.assigned = kyc.assigned, kyc'.data = kyc.data,
             kyc'.address = kyc.address, kyc'.account = kyc.account, kyc'.order = kyc.order,
             kyc'.available = kyc.available, SameProofs(kyc, kyc')
      PROVE  KycInv'
  <2>1. CaseInv(kyc')
    BY <1>0, <1>2, UntouchedCase
  <2> QED BY <2>1, <1>1, <1>2, CaseStep DEF KycInv
<1>3. CASE kyc' = [kyc EXCEPT !.old = TRUE] \/ kyc' = [kyc EXCEPT !.due = TRUE]
  BY <1>0, <1>2, <1>3, ZenonT(30) DEF KycProfile, SameProofs
<1>4. ASSUME NEW c \in Categories,
             kyc' = [kyc EXCEPT !.doc[c].valid = FALSE, !.due = @ \/ (c = "IDENTITY" /\ kyc.status = "APPROVED")]
      PROVE  KycInv'
  <2> DEFINE D == [kyc.doc EXCEPT ![c].valid = FALSE]
             due == kyc.due \/ (c = "IDENTITY" /\ kyc.status = "APPROVED")
  <2>1. kyc' = [kyc EXCEPT !.doc = D, !.due = due] /\ due \in BOOLEAN
    BY <1>0, <1>4 DEF KycProfile
  <2>2. /\ D \in [Categories -> KycDocument]
        /\ \A b \in Categories : /\ D[b].status = kyc.doc[b].status /\ D[b].bound = kyc.doc[b].bound
                                 /\ D[b].proves = kyc.doc[b].proves
    <3>1. \A x \in KycDocument : LET y == [x EXCEPT !.valid = FALSE] IN
            y \in KycDocument /\ y.status = x.status /\ y.bound = x.bound /\ y.proves = x.proves
      BY DEF KycDocument
    <3>2. /\ kyc.doc \in [Categories -> KycDocument]
          /\ D = [b \in Categories |-> IF b = c THEN [kyc.doc[b] EXCEPT !.valid = FALSE] ELSE kyc.doc[b]]
      BY <1>0, CaseFields
    <3> HIDE DEF D
    <3> QED BY <3>1, <3>2
  <2> HIDE DEF D, due
  <2>3. /\ kyc' \in KycProfile /\ kyc'.status = kyc.status /\ kyc'.assigned = kyc.assigned /\ kyc'.data = kyc.data
        /\ kyc'.address = kyc.address /\ kyc'.account = kyc.account /\ kyc'.order = kyc.order
        /\ kyc'.available = kyc.available /\ kyc'.doc = D
    BY <1>0, <2>1, <2>2 DEF KycProfile
  <2> QED BY <2>2, <2>3, <1>2 DEF SameProofs
<1> QED BY <1>3, <1>4 DEF time_passes

LEMMA ReleaseStaleClaimsInv == ASSUME KycInv, release_stale_claims PROVE KycInv'
<1>1. acc' = acc /\ job' = "idle"
  BY DEF release_stale_claims
<1>2. CASE can_transition(kyc, "SUBMITTED", System)
  <2>1. kyc' = transition(kyc, "SUBMITTED", System) /\ kyc.status = "UNDER_REVIEW"
    BY <1>2, WhoMayMove DEF release_stale_claims
  <2>2. CaseInv(kyc) /\ kyc.address.st = "locked"
    BY <2>1 DEF KycInv, CaseInv, Locked
  <2>3. CaseInv(kyc')
    BY <2>1, <2>2, TransitionCase DEF KycStatus
  <2> QED BY <2>1, <2>3, <1>1, CaseStep
<1>3. CASE ~can_transition(kyc, "SUBMITTED", System)
  <2>1. kyc' = kyc
    BY <1>3 DEF release_stale_claims
  <2> QED BY <2>1, <1>1 DEF KycInv
<1> QED BY <1>2, <1>3

LEMMA ExpireApprovalsInv == ASSUME KycInv, expire_approvals PROVE KycInv'
<1>1. acc # "written" /\ acc' = acc /\ job' = "idle"
  BY DEF expire_approvals, Unlocked
<1>2. CASE kyc_enforce_transition(kyc.status, "EXPIRED")
  <2>1. /\ kyc.status = "APPROVED"
        /\ kyc' = block_for_kyc(release_technician_orders(transition(kyc, "EXPIRED", System)), "KYC_EXPIRED")
    BY <1>2, WhoMayMove DEF expire_approvals
  <2>2. CaseInv(kyc')
    BY <2>1, EndedCase DEF KycInv, KYC_BLOCKS
  <2> QED BY <2>2, <1>1, CaseStep
<1>3. CASE ~kyc_enforce_transition(kyc.status, "EXPIRED")
  <2>1. kyc' = kyc
    BY <1>3 DEF expire_approvals
  <2> QED BY <2>1, <1>1 DEF KycInv
<1> QED BY <1>2, <1>3

LEMMA ScanInv == ASSUME KycInv, scan_claims \/ scan_approvals PROVE KycInv'
BY DEF scan_claims, scan_approvals, KycInv

\* A new value of the account; the order may be released with it.
LEMMA AccountFields ==
  ASSUME NEW k \in KycProfile, NEW A \in TechnicianPaymentAccount
  PROVE  LET e == [k EXCEPT !.account = A] IN
         /\ e \in KycProfile /\ e.account = A /\ e.status = k.status /\ e.assigned = k.assigned /\ e.data = k.data
         /\ e.address = k.address /\ e.doc = k.doc /\ e.order = k.order /\ e.available = k.available
BY DEF KycProfile

\* An account changes while no accept holds it: the order goes when the account can no longer be paid,
\* and the block of a suspended or expired case stays.
LEMMA AccountStepCase ==
  ASSUME NEW k, CaseInv(k), NEW A \in TechnicianPaymentAccount, NEW e,
         LET b == [k EXCEPT !.account = A] IN
           \/ e = release_technician_orders(b)
           \/ e = b /\ (can_receive_payments(k) => can_receive_payments(b)),
         k.status \in {"SUSPENDED", "EXPIRED"} =>
           (k.account.status = "NOT_CREATED" /\ A.status = "NOT_CREATED") \/ A.blocked # "none"
  PROVE  CaseInv(e)
<1> DEFINE b == [k EXCEPT !.account = A]
<1>1. /\ b \in KycProfile /\ b.account = A /\ b.status = k.status /\ b.assigned = k.assigned /\ b.data = k.data
      /\ b.address = k.address /\ b.doc = k.doc /\ b.order = k.order /\ b.available = k.available
  BY AccountFields DEF CaseInv
<1>2. e = release_technician_orders(b) \/ (e = b /\ (can_receive_payments(k) => can_receive_payments(b)))
  OBVIOUS
<1> HIDE DEF b
<1>3. CASE e = release_technician_orders(b)
  <2>1. /\ e \in KycProfile /\ e.order # "held" /\ e.status = k.status /\ e.assigned = k.assigned /\ e.data = k.data
        /\ e.address = k.address /\ e.doc = k.doc /\ e.account = A /\ e.available = k.available
    BY <1>1, <1>3, ReleaseFields
  <2>2. Eligible(e) /\ Blocked(e)
    BY <2>1 DEF CaseInv, Eligible, Blocked
  <2> QED BY <2>1, <2>2, AccountCase
<1>4. CASE e = b /\ (can_receive_payments(k) => can_receive_payments(b))
  <2>1. Eligible(e) /\ Blocked(e)
    BY <1>1, <1>4 DEF CaseInv, Eligible, Blocked
  <2> QED BY <2>1, <1>1, <1>4, AccountCase
<1> QED BY <1>2, <1>3, <1>4

\* An account is created without a block, and cannot be paid yet.
LEMMA CreateAccountInv == ASSUME KycInv, create_account PROVE KycInv'
<1> DEFINE A == [kyc.account EXCEPT !.status = "ONBOARDING"]
<1>1. /\ kyc.status = "APPROVED" /\ kyc.account.status = "NOT_CREATED" /\ UNCHANGED <<acc, job>>
      /\ kyc' = [kyc EXCEPT !.account.status = "ONBOARDING"]
  BY DEF create_account
<1>2. CaseInv(kyc) /\ kyc \in KycProfile
  BY DEF KycInv, CaseInv
<1>3. A \in TechnicianPaymentAccount /\ kyc' = [kyc EXCEPT !.account = A]
  BY <1>1, <1>2, CaseFields DEF TechnicianPaymentAccount, AccountStatus, KycProfile
<1>4. acc # "written" /\ ~can_receive_payments(kyc)
  BY <1>1 DEF KycInv, can_receive_payments
<1> HIDE DEF A
<1>5. CaseInv(kyc')
  BY <1>1, <1>2, <1>3, <1>4, AccountStepCase
<1> QED BY <1>1, <1>4, <1>5, CaseStep DEF KycInv

LEMMA SyncAccountInv == ASSUME KycInv, NEW info \in Reports, NEW name \in Names, sync_account(info, name) PROVE KycInv'
<1> DEFINE before == kyc.account
           A == [status  |-> _move(before.status, derive_status(before.status, info)),
                 blocked |-> IF (name = "no" /\ before.match # "no") /\ before.blocked = "none" THEN "NAME_MISMATCH"
                             ELSE before.blocked,
                 match   |-> name]
           k == [kyc EXCEPT !.account = A]
<1>1. /\ kyc.account.status # "NOT_CREATED" /\ acc # "written" /\ UNCHANGED <<acc, job>>
      /\ kyc' = IF can_receive_payments(kyc) /\ ~can_receive_payments(k) THEN release_technician_orders(k) ELSE k
  BY DEF sync_account, Unlocked
<1>2. CaseInv(kyc) /\ kyc \in KycProfile
  BY DEF KycInv, CaseInv
<1>3. A \in TechnicianPaymentAccount
  <2>1. before.status \in AccountStatus /\ before.blocked \in BlockedReason
    BY <1>2, CaseFields
  <2>2. _move(before.status, derive_status(before.status, info)) \in AccountStatus
    BY <2>1 DEF _move, derive_status, AccountStatus
  <2>3. name \in {"unknown", "yes", "no"}
    BY KycAssumption
  <2> QED BY <2>1, <2>2, <2>3 DEF TechnicianPaymentAccount, BlockedReason
<1>4. before.blocked # "none" => A.blocked # "none"
  OBVIOUS
<1> HIDE DEF A
<1>5. CaseInv(kyc')
  <2>1. kyc.status \in {"SUSPENDED", "EXPIRED"} => A.blocked # "none"
    BY <1>1, <1>2, <1>4 DEF CaseInv, Blocked
  <2>2. \/ kyc' = release_technician_orders(k)
        \/ kyc' = k /\ (can_receive_payments(kyc) => can_receive_payments(k))
    BY <1>1
  <2> QED BY <2>1, <2>2, <1>2, <1>3, AccountStepCase
<1> QED BY <1>1, <1>5, CaseStep DEF KycInv

LEMMA BlockInv == ASSUME KycInv, block PROVE KycInv'
<1> DEFINE A == IF kyc.account.blocked \in KYC_BLOCKS \cup {"none", "NAME_MISMATCH"}
                THEN [kyc.account EXCEPT !.blocked = "PROVIDER_DEAUTHORIZED"] ELSE kyc.account
           k == IF kyc.account.blocked \in KYC_BLOCKS \cup {"none", "NAME_MISMATCH"}
                THEN [kyc EXCEPT !.account.blocked = "PROVIDER_DEAUTHORIZED"] ELSE kyc
<1>1. /\ acc # "written" /\ UNCHANGED <<acc, job>>
      /\ kyc' = IF can_receive_payments(kyc) THEN release_technician_orders(k) ELSE k
  BY DEF block, Unlocked
<1>2. CaseInv(kyc) /\ kyc \in KycProfile
  BY DEF KycInv, CaseInv
<1>3. A \in TechnicianPaymentAccount /\ A.blocked # "none" /\ k = [kyc EXCEPT !.account = A]
  <2>1. CASE kyc.account.blocked \in KYC_BLOCKS \cup {"none", "NAME_MISMATCH"}
    BY <2>1, <1>2, CaseFields DEF TechnicianPaymentAccount, BlockedReason, KycProfile
  <2>2. CASE kyc.account.blocked \notin KYC_BLOCKS \cup {"none", "NAME_MISMATCH"}
    BY <2>2, <1>2, CaseFields DEF KycProfile
  <2> QED BY <2>1, <2>2
<1> HIDE DEF A, k
<1>4. CaseInv(kyc')
  BY <1>1, <1>2, <1>3, AccountStepCase
<1> QED BY <1>1, <1>4, CaseStep DEF KycInv

\* A name that is accepted gives back the block of the case that it hid.
LEMMA ResolveNameReviewInv == ASSUME KycInv, NEW ok \in BOOLEAN, resolve_name_review(ok) PROVE KycInv'
<1>1. acc # "written" /\ kyc.account.blocked = "NAME_MISMATCH" /\ UNCHANGED <<acc, job>>
  BY DEF resolve_name_review, Unlocked
<1>2. CaseInv(kyc) /\ kyc \in KycProfile /\ kyc.account \in TechnicianPaymentAccount
  BY CaseFields DEF KycInv, CaseInv
<1>3. CASE ok
  <2> DEFINE A == [kyc.account EXCEPT !.blocked = hidden_block(kyc), !.match = "yes"]
  <2>1. hidden_block(kyc) \in BlockedReason /\ (kyc.status \in {"SUSPENDED", "EXPIRED"} => hidden_block(kyc) # "none")
    BY DEF hidden_block, BlockedReason, KYC_BLOCKS
  <2>2. A \in TechnicianPaymentAccount /\ A.blocked = hidden_block(kyc)
    BY <1>2, <2>1 DEF TechnicianPaymentAccount
  <2>3. kyc' = [kyc EXCEPT !.account.blocked = hidden_block(kyc), !.account.match = "yes"]
    BY <1>3 DEF resolve_name_review
  <2>4. kyc' = [kyc EXCEPT !.account = A]
    BY <2>3, <1>2 DEF KycProfile, TechnicianPaymentAccount
  <2>5. ~can_receive_payments(kyc)
    BY <1>1 DEF can_receive_payments
  <2> HIDE DEF A
  <2>6. CaseInv(kyc')
    BY <2>1, <2>2, <2>4, <2>5, <1>2, AccountStepCase
  <2> QED BY <2>6, <1>1, CaseStep DEF KycInv
<1>4. CASE ~ok
  <2> DEFINE A == [kyc.account EXCEPT !.blocked = "NAME_REJECTED"]
  <2>1. A \in TechnicianPaymentAccount /\ A.blocked # "none"
    BY <1>2 DEF TechnicianPaymentAccount, BlockedReason
  <2>2. kyc' = release_technician_orders([kyc EXCEPT !.account.blocked = "NAME_REJECTED"])
    BY <1>4 DEF resolve_name_review
  <2>3. [kyc EXCEPT !.account.blocked = "NAME_REJECTED"] = [kyc EXCEPT !.account = A]
    BY <1>2 DEF KycProfile
  <2>4. kyc' = release_technician_orders([kyc EXCEPT !.account = A])
    BY <2>2, <2>3
  <2> HIDE DEF A
  <2>5. CaseInv(kyc')
    BY <2>1, <2>4, <1>2, AccountStepCase
  <2> QED BY <2>5, <1>1, CaseStep DEF KycInv
<1> QED BY <1>3, <1>4

\* A step of the order, the availability or the user: held only with what it rests on.
LEMMA OrderStep ==
  ASSUME KycInv, kyc' \in KycProfile, kyc'.status = kyc.status, kyc'.assigned = kyc.assigned, kyc'.data = kyc.data,
         kyc'.address = kyc.address, kyc'.doc = kyc.doc, kyc'.account = kyc.account,
         kyc'.order = "held" => kyc.order = "held" \/ acc = "written",
         kyc'.available => kyc.available \/ kyc.status = "APPROVED",
         acc' \in {acc, "none"}, job' = job
  PROVE  KycInv'
<1>1. Eligible(kyc') /\ Blocked(kyc')
  BY DEF KycInv, CaseInv, Eligible, Blocked, can_receive_payments
<1>2. CaseInv(kyc')
  BY <1>1, AccountCase DEF KycInv
<1> QED BY <1>2 DEF KycInv, can_receive_payments

LEMMA OrderStepsInv ==
  ASSUME KycInv, book_directly \/ accept_commits \/ start_order \/ order_ends PROVE KycInv'
<1>1. kyc \in KycProfile
  BY DEF KycInv, CaseInv
<1>2. PICK o \in {"direct", "held", "started", "pool"} :
        /\ kyc' = [kyc EXCEPT !.order = o] /\ acc' \in {acc, "none"} /\ job' = job
        /\ o = "held" => acc = "written"
  BY DEF book_directly, accept_commits, start_order, order_ends
<1>3. /\ kyc' \in KycProfile /\ kyc'.status = kyc.status /\ kyc'.assigned = kyc.assigned /\ kyc'.data = kyc.data
      /\ kyc'.address = kyc.address /\ kyc'.doc = kyc.doc /\ kyc'.account = kyc.account /\ kyc'.order = o
      /\ kyc'.available = kyc.available
  BY <1>1, <1>2 DEF KycProfile
<1> QED BY <1>2, <1>3, OrderStep

LEMMA AcceptInv == ASSUME KycInv, accept_reads \/ accept_writes \/ accept_aborts PROVE KycInv'
BY DEF accept_reads, accept_writes, accept_aborts, order_technician_guard, KycInv

LEMMA UpdateTechnicianProfileInv == ASSUME KycInv, NEW on \in BOOLEAN, update_technician_profile(on) PROVE KycInv'
<1>1. kyc \in KycProfile
  BY DEF KycInv, CaseInv
<1>2. kyc' = [kyc EXCEPT !.available = on] /\ (on => kyc.status = "APPROVED") /\ UNCHANGED <<acc, job>>
  BY DEF update_technician_profile, technician_availability_guard
<1>3. /\ kyc' \in KycProfile /\ kyc'.status = kyc.status /\ kyc'.assigned = kyc.assigned /\ kyc'.data = kyc.data
      /\ kyc'.address = kyc.address /\ kyc'.doc = kyc.doc /\ kyc'.account = kyc.account /\ kyc'.order = kyc.order
      /\ kyc'.available = on
  BY <1>1, <1>2 DEF KycProfile
<1> QED BY <1>2, <1>3, OrderStep

LEMMA DeactivateUserInv == ASSUME KycInv, deactivate_user PROVE KycInv'
<1> DEFINE e == [kyc EXCEPT !.active = FALSE]
<1>1. kyc \in KycProfile
  BY DEF KycInv, CaseInv
<1>2. kyc' = release_technician_orders(e) /\ UNCHANGED <<acc, job>>
  BY DEF deactivate_user
<1>3. /\ e \in KycProfile /\ e.status = kyc.status /\ e.assigned = kyc.assigned /\ e.data = kyc.data
      /\ e.address = kyc.address /\ e.doc = kyc.doc /\ e.account = kyc.account /\ e.available = kyc.available
  BY <1>1 DEF KycProfile
<1> HIDE DEF e
<1>4. /\ kyc' \in KycProfile /\ kyc'.order # "held" /\ kyc'.status = kyc.status /\ kyc'.assigned = kyc.assigned
      /\ kyc'.data = kyc.data /\ kyc'.address = kyc.address /\ kyc'.doc = kyc.doc /\ kyc'.account = kyc.account
      /\ kyc'.available = kyc.available
  BY <1>2, <1>3, ReleaseFields
<1> QED BY <1>2, <1>4, OrderStep

-------------------------------------------------------------------------------
(* The invariant and what it shows.                                        *)

LEMMA KycInitInv == KycInit => KycInv
<1> SUFFICES ASSUME KycInit PROVE KycInv
  OBVIOUS
<1>1. kyc = create_kyc_profile /\ acc = "none" /\ job = "idle"
  BY DEF KycInit
<1>2. NoDocument \in KycDocument
  BY DEF NoDocument, KycDocument
<1>3. kyc \in KycProfile
  BY <1>1, <1>2 DEF create_kyc_profile, KycProfile, KycStatus, KycAddress, TechnicianPaymentAccount, AccountStatus,
                    BlockedReason
<1>4. /\ kyc.status = "NOT_STARTED" /\ kyc.assigned = Nobody /\ kyc.order = "pool" /\ kyc.available = FALSE
      /\ kyc.doc["ADDRESS"].bound = FALSE
  BY <1>1, KycAssumption DEF create_kyc_profile, NoDocument
<1>5. Reviewed(kyc) /\ Eligible(kyc) /\ Blocked(kyc) /\ Locked(kyc) /\ BoundProves(kyc) /\ DecidedOn(kyc)
  BY <1>4 DEF Reviewed, Eligible, Blocked, Locked, BoundProves, DecidedOn
<1> QED BY <1>1, <1>3, <1>5 DEF KycInv, CaseInv

LEMMA KycNextInv == KycInv /\ [KycNext]_kycVars => KycInv'
<1> SUFFICES ASSUME KycInv, [KycNext]_kycVars PROVE KycInv'
  OBVIOUS
<1>1. CASE TechnicianStep
  BY <1>1, RecordConsentsInv, SavePersonalDataInv, SaveAddressInv, SubmitInv, CreateDocumentInv, UploadFileInv,
     DeleteDocumentInv, AcceptInv, OrderStepsInv, UpdateTechnicianProfileInv DEF TechnicianStep
<1>2. CASE StaffStep
  BY <1>2, ReviewStepInv, ApproveInv, SuspendInv, DecideDocumentInv, RequestCorrectionInv DEF StaffStep
<1>3. CASE JobStep \/ time_passes
  BY <1>3, ScanInv, ReleaseStaleClaimsInv, ExpireApprovalsInv, TimePassesInv DEF JobStep
<1>4. CASE Accepting \/ accept_aborts \/ book_directly \/ order_ends \/ deactivate_user
  BY <1>4, AcceptInv, OrderStepsInv, DeactivateUserInv DEF Accepting
<1>5. CASE \E c \in Categories, clean \in BOOLEAN : process_pending(c, clean)
  BY <1>5, ProcessPendingInv
<1>6. CASE AccountStep \/ NameReview \/ block
  BY <1>6, CreateAccountInv, SyncAccountInv, ResolveNameReviewInv, BlockInv DEF AccountStep, NameReview
<1>7. CASE UNCHANGED kycVars
  BY <1>7 DEF kycVars, KycInv
<1> QED BY <1>1, <1>2, <1>3, <1>4, <1>5, <1>6, <1>7 DEF KycNext

\* KycInv holds in every reachable state.
THEOREM KycInvariance == KycSpec => []KycInv
BY KycInitInv, KycNextInv, PTL DEF KycSpec

\* Rows keep their types, and a case has a reviewer exactly while it is under review: no update is
\* refused by the constraint reviewer_only_under_review.
THEOREM KycTypeCorrect == KycSpec => []KycTypeOK
<1>1. KycInv => KycTypeOK
  BY DEF KycInv, CaseInv, Reviewed, KycTypeOK
<1> QED BY <1>1, KycInvariance, PTL

\* An order is held, and a technician available, only with the approval and the account they rest on,
\* though the accept reads the account before it locks it (orders.accept, order_technician_guard).
THEOREM HeldWasEligible == KycSpec => []HeldIsEligible
<1>1. KycInv => HeldIsEligible
  BY DEF KycInv, CaseInv, Eligible, HeldIsEligible
<1> QED BY <1>1, KycInvariance, PTL

\* The account of a suspended or expired case cannot be paid, whatever name reviews, syncs and
\* deauthorizations came before or between (accounts.block_for_kyc, resolve_name_review).
THEOREM SuspendedStaysBlocked == KycSpec => []SuspendedIsBlocked
<1>1. KycInv => SuspendedIsBlocked
  BY DEF KycInv, CaseInv, Blocked, SuspendedIsBlocked, can_receive_payments
<1> QED BY <1>1, KycInvariance, PTL

\* An approved case has its data, every document approved and an approved proof of what its locked
\* address says, whatever was edited, replaced or corrected on the way.
THEOREM ApprovedWasProven == KycSpec => []ApprovedIsProven
<1>1. KycInv => ApprovedIsProven
  BY DEF KycInv, CaseInv, Locked, BoundProves, DecidedOn, ApprovedIsProven
<1> QED BY <1>1, KycInvariance, PTL
=============================================================================
