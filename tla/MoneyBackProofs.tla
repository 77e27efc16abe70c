---------------------------- MODULE MoneyBackProofs ----------------------------
(***************************************************************************)
(* Safety of the money that goes back, for any charge and its parts, any   *)
(* set of refunds and chargebacks, any amounts and any finance staff.      *)
(*                                                                         *)
(* Balanced is an invariant of the ledger alone: what a party gave back,   *)
(* times the charge, is at most its part times what the client got, so     *)
(* that no sequence of rounded shares takes more than the part.  RowInv    *)
(* adds the rows of the payment, its refunds and its order; IInv adds what *)
(* the transaction and the event in flight rely on.                        *)
(*                                                                         *)
(* On top of IInv: ChargebackInv says what is known of each chargeback;    *)
(* SumsInv, what the amounts of the succeeded refunds add up to, for which *)
(* the lemmas about AmountSum remove one refund of a set at a time.        *)
(***************************************************************************)
EXTENDS MoneyBack, FiniteSetTheorems, WellFoundedInduction, TLAPS

Parties == {"TECHNICIAN_PAYABLE", "PLATFORM_REVENUE", "VAT_PAYABLE", "TAX_WITHHELD"}
Part(a) == CASE a = "TECHNICIAN_PAYABLE" -> Technician [] a = "PLATFORM_REVENUE" -> Commission
             [] a = "VAT_PAYABLE" -> Vat [] a = "TAX_WITHHELD" -> Withholding

\* What the client got back, by refunds and by a chargeback.
Returned(L) == Captured + L["CUSTOMER"]

Balanced(L) ==
  /\ L \in [Account -> Int]
  /\ Returned(L) \in Nat /\ L["CUSTOMER"] <= 0
  /\ \A a \in Parties : L[a] \in Nat /\ L[a] <= Part(a) /\ (Part(a) - L[a]) * Captured <= Part(a) * Returned(L)
  /\ L["REFUNDS"] <= 0 /\ 0 <= Returned(L) + L["REFUNDS"]

\* The payment row agrees with the ledger; a chargeback adds what refunded_cents does not count.
Books(d) ==
  /\ Balanced(d.ledger)
  /\ d.pay # "CHARGED_BACK" => d.refunded = Returned(d.ledger)
  /\ d.refunded <= Returned(d.ledger)
  /\ d.pay = "REFUNDED" => d.refunded = Captured

\* At most one refund is open, for no more than what is left.
OneOpen(d) ==
  /\ \A r, q \in Open(d) : r = q
  /\ \A r \in Open(d) : 0 < d.refund[r].amount /\ d.refund[r].amount <= Captured - d.refunded

ClosedByReturn(d) ==
  /\ d.refunded = Captured => d.order \in {"REFUNDED", "CANCELLED"}
  /\ d.order = "REFUNDED" => d.review # "public"

Confirmed(d, p) == \A r \in All : d.refund[r].status = "SUCCEEDED" => p[r].st \in {"succeeded", "reverted"}

RowInv(d, p) == d \in Row /\ Books(d) /\ OneOpen(d) /\ ClosedByReturn(d) /\ Confirmed(d, p)

\* While a transaction waits for the provider the payment can still be refunded, no other refund
\* is open, and an answer that says paid is what the provider's record says.
TxInv ==
  tx.op # "none" =>
    /\ tx.r \in All /\ db.pay \in REFUNDABLE /\ Open(db) \subseteq {tx.r}
    /\ tx.row.status = "APPROVED" /\ 0 < tx.row.amount /\ tx.row.amount <= Captured - db.refunded
    /\ tx.ans = "succeeded" => prov[tx.r].st \in {"succeeded", "reverted"}
    /\ tx.after \in {"SAME", "READY_FOR_REVIEW", "REVIEWED"}
    /\ tx.after # "SAME" => tx.row.amount < Captured - db.refunded

\* The event is about a refund or a chargeback, and what it says was paid was paid.
WkInv ==
  /\ wk.pc \in {"fetched", "found", "unknown"} =>
       wk.id \in All /\ (wk.view.st = "succeeded" => prov[wk.id].st \in {"succeeded", "reverted"})
  /\ wk.pc = "dispute" => wk.id \in Disputes

IInv == TypeOK /\ RowInv(db, prov) /\ TxInv /\ WkInv

-------------------------------------------------------------------------------
(* Arithmetic of the shares.                                               *)

LEMMA CapturedPos == Captured \in Nat /\ Captured > 0
BY SplitAssumption DEF Captured

LEMMA TimesNat == \A a, b \in Nat : a * b \in Nat
BY SMT

\* Each part is rounded down.
LEMMA ShareBelow ==
  ASSUME NEW part \in Nat, NEW x \in Nat
  PROVE  share(part, x) \in Nat /\ share(part, x) * Captured <= part * x
<1> DEFINE n == part * x
<1>1. n \in Nat
  BY TimesNat
<1> HIDE DEF n
<1>2. \A c \in Nat \ {0} : n \div c \in Nat /\ (n \div c) * c <= n
  BY <1>1, SMT
<1>3. QED
  BY <1>2, CapturedPos DEF share, n

\* What was given back before and the new share together are within the part.
LEMMA GivenBack ==
  ASSUME NEW part \in Nat, NEW g \in Nat, NEW s \in Nat, NEW ret \in Nat, NEW x \in Nat, NEW c \in Nat,
         c > 0, g * c <= part * ret, s * c <= part * x, ret + x <= c
  PROVE  (g + s) * c <= part * (ret + x) /\ g + s <= part
<1>1. (g + s) * c = g * c + s * c /\ part * (ret + x) = part * ret + part * x
  BY SMT
<1>2. /\ g * c \in Nat /\ s * c \in Nat /\ part * ret \in Nat /\ part * x \in Nat
      /\ (g + s) * c \in Nat /\ part * (ret + x) \in Nat /\ part * c \in Nat
  BY TimesNat
<1>3. (g + s) * c <= part * (ret + x)
  BY <1>1, <1>2
<1>4. part * (ret + x) <= part * c
  <2>1. \A y \in Nat : y <= c => part * y <= part * c
    BY SMT
  <2>2. QED
    BY <2>1
<1>5. g + s <= part
  <2>1. SUFFICES ASSUME g + s >= part + 1 PROVE FALSE
    OBVIOUS
  <2>2. (g + s) * c >= (part + 1) * c
    BY <2>1, SMT
  <2>3. (part + 1) * c = part * c + c
    BY SMT
  <2>4. QED
    BY <2>2, <2>3, <1>2, <1>3, <1>4
<1>6. QED
  BY <1>3, <1>5

\* The shares of one amount together are within it.
LEMMA SharesFit ==
  ASSUME NEW x \in Nat, NEW t \in Nat, NEW c \in Nat, NEW v \in Nat, NEW w \in Nat,
         t * Captured <= Technician * x, c * Captured <= Commission * x,
         v * Captured <= Vat * x, w * Captured <= Withholding * x
  PROVE  t + c + v + w <= x
<1> DEFINE s == t + c + v + w
<1>1. s * Captured = t * Captured + c * Captured + v * Captured + w * Captured
  BY CapturedPos, SMT
<1>2. Technician * x + Commission * x + Vat * x + Withholding * x = Captured * x
  BY SplitAssumption, SMT DEF Captured
<1>3. /\ t * Captured \in Nat /\ c * Captured \in Nat /\ v * Captured \in Nat /\ w * Captured \in Nat
      /\ Technician * x \in Nat /\ Commission * x \in Nat /\ Vat * x \in Nat /\ Withholding * x \in Nat
      /\ s * Captured \in Nat /\ Captured * x \in Nat
  BY TimesNat, CapturedPos, SplitAssumption
<1>4. s * Captured <= Captured * x
  BY <1>1, <1>2, <1>3
<1>5. \A m, n, k \in Nat : k > 0 /\ m * k <= k * n => m <= n
  BY SMT
<1>6. QED
  BY <1>4, <1>5, CapturedPos
-------------------------------------------------------------------------------
(* The ledger.                                                             *)

\* The balances after the entries of one group.
Posted(L, lines) == [a \in Account |-> L[a] + IF a \in DOMAIN lines THEN lines[a] ELSE 0]

\* Money that goes back with rounded shares keeps the ledger balanced.
LEMMA BalancedPost ==
  ASSUME NEW L, Balanced(L), NEW M \in [Account -> Int], NEW x \in Nat, Returned(L) + x <= Captured,
         NEW t \in Nat, NEW c \in Nat, NEW v \in Nat, NEW w \in Nat,
         t * Captured <= Technician * x, c * Captured <= Commission * x,
         v * Captured <= Vat * x, w * Captured <= Withholding * x,
         M["CUSTOMER"] = L["CUSTOMER"] + x,
         M["TECHNICIAN_PAYABLE"] = L["TECHNICIAN_PAYABLE"] - t,
         M["PLATFORM_REVENUE"] = L["PLATFORM_REVENUE"] - c,
         M["VAT_PAYABLE"] = L["VAT_PAYABLE"] - v,
         M["TAX_WITHHELD"] = L["TAX_WITHHELD"] - w,
         M["REFUNDS"] = L["REFUNDS"] - (x - t - c - v - w)
  PROVE  Balanced(M) /\ Returned(M) = Returned(L) + x
<1> DEFINE ret == Returned(L)
<1>1. /\ ret \in Nat /\ ret = Captured + L["CUSTOMER"] /\ L["CUSTOMER"] \in Int
      /\ L["REFUNDS"] \in Int /\ L["REFUNDS"] <= 0 /\ 0 <= ret + L["REFUNDS"]
  BY DEF Balanced, Returned, Account
<1>2. Returned(M) = ret + x /\ M["CUSTOMER"] <= 0
  BY <1>1, CapturedPos DEF Returned
<1>3. t + c + v + w <= x
  BY SharesFit
<1>4. M["REFUNDS"] <= 0 /\ 0 <= Returned(M) + M["REFUNDS"]
  BY <1>1, <1>2, <1>3
<1>5. ASSUME NEW a \in Parties, NEW s \in Nat, s * Captured <= Part(a) * x, M[a] = L[a] - s
      PROVE  M[a] \in Nat /\ M[a] <= Part(a) /\ (Part(a) - M[a]) * Captured <= Part(a) * Returned(M)
  <2> DEFINE part == Part(a)
             g == part - L[a]
  <2>1. part \in Nat
    BY SplitAssumption DEF Part, Parties
  <2>2. L[a] \in Nat /\ L[a] <= part /\ g * Captured <= part * ret
    BY DEF Balanced
  <2>3. g \in Nat /\ part - M[a] = g + s /\ M[a] \in Int
    BY <2>1, <2>2, <1>5
  <2> HIDE DEF part, g, ret
  <2>4. (g + s) * Captured <= part * (ret + x) /\ g + s <= part
    BY <2>1, <2>2, <2>3, <1>1, <1>5, CapturedPos, GivenBack DEF part, ret
  <2>5. M[a] \in Nat /\ M[a] <= part
    BY <2>1, <2>3, <2>4
  <2>6. (part - M[a]) * Captured <= part * Returned(M)
    BY <2>3, <2>4, <1>2
  <2>7. QED
    BY <2>5, <2>6 DEF part
<1>6. \A a \in Parties : M[a] \in Nat /\ M[a] <= Part(a) /\ (Part(a) - M[a]) * Captured <= Part(a) * Returned(M)
  <2>1. /\ Part("TECHNICIAN_PAYABLE") = Technician /\ Part("PLATFORM_REVENUE") = Commission
        /\ Part("VAT_PAYABLE") = Vat /\ Part("TAX_WITHHELD") = Withholding
    BY DEF Part
  <2>2. QED
    BY <2>1, <1>5 DEF Parties
<1>7. QED
  BY <1>1, <1>2, <1>4, <1>6 DEF Balanced

\* Balanced accounts stay within the charge.
LEMMA BalancedType ==
  ASSUME NEW L, Balanced(L) PROVE L \in [Account -> -Captured..Captured]
<1>1. \A a \in Account : L[a] \in -Captured..Captured
  <2>1. L["CUSTOMER"] \in -Captured..Captured /\ L["REFUNDS"] \in -Captured..Captured
    BY CapturedPos DEF Balanced, Returned, Account
  <2>2. \A a \in Parties : L[a] \in -Captured..Captured
    <3>1. \A a \in Parties : Part(a) \in Nat /\ Part(a) <= Captured
      BY SplitAssumption DEF Part, Parties, Captured
    <3>2. QED
      BY <3>1, CapturedPos DEF Balanced
  <2>3. QED
    BY <2>1, <2>2 DEF Account, Parties
<1>2. QED
  BY <1>1 DEF Balanced
-------------------------------------------------------------------------------
(* Lemmas on the operators from rows to rows.                              *)

\* The fields of a row.
LEMMA RowFields ==
  ASSUME NEW d \in Row
  PROVE  /\ d.pay \in {"PAID", "PARTIALLY_REFUNDED", "REFUNDED", "DISPUTED", "CHARGED_BACK"}
         /\ d.refunded \in Nat /\ d.refunded <= Captured
         /\ d.order \in {"READY_FOR_REVIEW", "REVIEWED", "DISPUTED", "REFUNDED", "CANCELLED"}
         /\ d.review \in {"none", "public", "hidden"}
         /\ d.refund \in [All -> RefundRow]
         /\ \A r \in All : /\ d.refund[r] \in RefundRow /\ d.refund[r].amount \in Nat
                           /\ d.refund[r].status \in RefundStatus \cup {"NONE"} /\ d.refund[r].fault \in BOOLEAN
         /\ d.dispute \in [Disputes -> DisputeStatus \cup {"NONE"}]
         /\ d.ledger \in [Account -> -Captured..Captured]
BY CapturedPos DEF Row, RefundRow, Cents

\* A refund that changes status without being paid: closed, or open as it was before.
LEMMA StatusRow ==
  ASSUME NEW d, NEW p, RowInv(d, p), NEW r \in All, NEW s \in RefundStatus \ {"SUCCEEDED"},
         s \in OPEN => r \in Open(d)
  PROVE  LET e == [d EXCEPT !.refund[r].status = s] IN
         /\ RowInv(e, p) /\ Open(e) \subseteq Open(d)
         /\ e.pay = d.pay /\ e.refunded = d.refunded /\ e.order = d.order /\ e.dispute = d.dispute
<1> DEFINE e == [d EXCEPT !.refund[r].status = s]
<1>0. d \in Row
  BY DEF RowInv
<1>1. /\ e.pay = d.pay /\ e.refunded = d.refunded /\ e.order = d.order /\ e.review = d.review
      /\ e.dispute = d.dispute /\ e.ledger = d.ledger
      /\ e.refund = [d.refund EXCEPT ![r].status = s]
  BY <1>0 DEF Row
<1>2. e \in Row
  <2>1. [d.refund EXCEPT ![r].status = s] \in [All -> RefundRow]
    BY <1>0, RowFields DEF RefundRow
  <2> QED BY <2>1, <1>0 DEF Row
<1> HIDE DEF e
<1>3. \A q \in All : /\ e.refund[q].amount = d.refund[q].amount
                     /\ e.refund[q].status = IF q = r THEN s ELSE d.refund[q].status
  BY <1>0, <1>1, RowFields DEF RefundRow
<1>4. Open(e) \subseteq Open(d)
  BY <1>3 DEF Open
<1>5. OneOpen(e)
  <2>1. \A q \in Open(e) : q \in Open(d) /\ q \in All
    BY <1>4 DEF Open
  <2> QED BY <2>1, <1>1, <1>3 DEF RowInv, OneOpen
<1>6. Books(e) /\ ClosedByReturn(e)
  BY <1>1 DEF RowInv, Books, ClosedByReturn
<1>7. Confirmed(e, p)
  BY <1>3 DEF RowInv, Confirmed
<1>8. RowInv(e, p)
  BY <1>2, <1>5, <1>6, <1>7 DEF RowInv
<1> QED BY <1>1, <1>4, <1>8 DEF e

\* The only refund that may be open is written, for no more than what is left.
LEMMA RefundRowWritten ==
  ASSUME NEW d, NEW p, RowInv(d, p), NEW r \in All, Open(d) \subseteq {r},
         NEW row \in RefundRow, row.status \in {"REQUESTED", "APPROVED"},
         0 < row.amount, row.amount <= Captured - d.refunded
  PROVE  LET e == [d EXCEPT !.refund[r] = row] IN
         /\ RowInv(e, p) /\ Open(e) = {r} /\ e.refund[r] = row
         /\ e.pay = d.pay /\ e.refunded = d.refunded /\ e.order = d.order /\ e.dispute = d.dispute
<1> DEFINE e == [d EXCEPT !.refund[r] = row]
<1>0. d \in Row
  BY DEF RowInv
<1>1. /\ e.pay = d.pay /\ e.refunded = d.refunded /\ e.order = d.order /\ e.review = d.review
      /\ e.dispute = d.dispute /\ e.ledger = d.ledger /\ e.refund = [d.refund EXCEPT ![r] = row]
  BY <1>0 DEF Row
<1>2. e \in Row
  BY <1>0 DEF Row
<1> HIDE DEF e
<1>3. \A q \in All : e.refund[q] = IF q = r THEN row ELSE d.refund[q]
  BY <1>0, <1>1, RowFields
<1>4. Open(e) = {r}
  BY <1>3 DEF Open, OPEN
<1>5. OneOpen(e)
  BY <1>1, <1>3, <1>4 DEF OneOpen
<1>6. Books(e) /\ ClosedByReturn(e)
  BY <1>1 DEF RowInv, Books, ClosedByReturn
<1>7. Confirmed(e, p)
  BY <1>3 DEF RowInv, Confirmed
<1>8. RowInv(e, p)
  BY <1>2, <1>5, <1>6, <1>7 DEF RowInv
<1> QED BY <1>1, <1>3, <1>4, <1>8 DEF e

\* The order moves on while something is left to return, or is cancelled.
LEMMA TransitionRow ==
  ASSUME NEW d, NEW p, RowInv(d, p),
         NEW to \in {"SAME", "READY_FOR_REVIEW", "REVIEWED", "DISPUTED", "CANCELLED"},
         to \in {"SAME", "CANCELLED"} \/ d.refunded # Captured
  PROVE  LET e == transition(d, to) IN
         /\ RowInv(e, p) /\ Open(e) = Open(d)
         /\ e.pay = d.pay /\ e.refunded = d.refunded /\ e.refund = d.refund /\ e.dispute = d.dispute
<1> DEFINE e == transition(d, to)
<1>0. d \in Row
  BY DEF RowInv
<1>1. /\ e.pay = d.pay /\ e.refunded = d.refunded /\ e.review = d.review /\ e.refund = d.refund
      /\ e.dispute = d.dispute /\ e.ledger = d.ledger /\ e.order = (IF to = "SAME" THEN d.order ELSE to)
  BY <1>0 DEF Row, transition
<1>2. e \in Row
  BY <1>0 DEF Row, transition
<1> HIDE DEF e
<1>3. Open(e) = Open(d)
  BY <1>1 DEF Open
<1>4. OneOpen(e) /\ Books(e) /\ Confirmed(e, p) /\ ClosedByReturn(e)
  BY <1>1, <1>3 DEF RowInv, OneOpen, Books, Confirmed, ClosedByReturn
<1> QED BY <1>1, <1>2, <1>3, <1>4 DEF RowInv, e

\* Everything was returned: the order is closed and its rating hidden.
LEMMA FullRefundFields ==
  ASSUME NEW d \in Row
  PROVE  LET e == on_full_refund(d) IN
         /\ e \in Row /\ e.pay = d.pay /\ e.refunded = d.refunded /\ e.refund = d.refund
         /\ e.dispute = d.dispute /\ e.ledger = d.ledger
         /\ e.order \in {"REFUNDED", "CANCELLED"}
         /\ (e.order = d.order /\ e.review = d.review) \/ e.review # "public"
BY DEF on_full_refund, Row

\* A refund of what is left at most: the five parties give back their rounded shares.
LEMMA RefundPosted ==
  ASSUME NEW d \in Row, Balanced(d.ledger), NEW x \in Nat, Returned(d.ledger) + x <= Captured,
         NEW fault \in BOOLEAN
  PROVE  \E L : /\ post_refund_allocation(d, x, fault) = [d EXCEPT !.ledger = L]
                /\ Balanced(L) /\ Returned(L) = Returned(d.ledger) + x
<1> DEFINE t == IF fault THEN share(Technician, x) ELSE 0
           c == IF fault THEN share(Commission, x) ELSE 0
           v == IF fault THEN share(Vat, x) ELSE 0
           w == IF fault THEN share(Withholding, x) ELSE 0
           q == x - t - c - v - w
           lines == [CUSTOMER |-> x, TECHNICIAN_PAYABLE |-> -t, PLATFORM_REVENUE |-> -c, VAT_PAYABLE |-> -v,
                     TAX_WITHHELD |-> -w, REFUNDS |-> -q]
           L == Posted(d.ledger, lines)
<1>1. post_refund_allocation(d, x, fault) = post(d, lines)
  BY DEF post_refund_allocation, allocate
<1>2. /\ t \in Nat /\ c \in Nat /\ v \in Nat /\ w \in Nat
      /\ t * Captured <= Technician * x /\ c * Captured <= Commission * x
      /\ v * Captured <= Vat * x /\ w * Captured <= Withholding * x
  <2>1. \A part \in Nat : /\ share(part, x) \in Nat /\ share(part, x) * Captured <= part * x
    BY ShareBelow
  <2>2. \A part \in Nat : 0 * Captured <= part * x
    <3>1. 0 * Captured = 0 /\ \A part \in Nat : part * x \in Nat
      BY TimesNat, CapturedPos
    <3> QED BY <3>1
  <2> QED BY <2>1, <2>2, SplitAssumption
<1> HIDE DEF t, c, v, w
<1>3. q \in Int
  BY <1>2
<1>4. d.ledger \in [Account -> Int]
  BY DEF Balanced
<1> HIDE DEF q
<1>5. post(d, lines) = [d EXCEPT !.ledger = L]
  BY DEF post, Posted
<1>6. /\ L \in [Account -> Int]
      /\ L["CUSTOMER"] = d.ledger["CUSTOMER"] + x
      /\ L["TECHNICIAN_PAYABLE"] = d.ledger["TECHNICIAN_PAYABLE"] - t
      /\ L["PLATFORM_REVENUE"] = d.ledger["PLATFORM_REVENUE"] - c
      /\ L["VAT_PAYABLE"] = d.ledger["VAT_PAYABLE"] - v
      /\ L["TAX_WITHHELD"] = d.ledger["TAX_WITHHELD"] - w
      /\ L["REFUNDS"] = d.ledger["REFUNDS"] - q
  <2>1. lines = [CUSTOMER |-> x, TECHNICIAN_PAYABLE |-> -t, PLATFORM_REVENUE |-> -c, VAT_PAYABLE |-> -v,
                 TAX_WITHHELD |-> -w, REFUNDS |-> -q]
    OBVIOUS
  <2>2. x \in Int /\ t \in Int /\ c \in Int /\ v \in Int /\ w \in Int
    BY <1>2
  <2> HIDE DEF lines
  <2> QED BY <2>1, <2>2, <1>3, <1>4 DEF Posted, Account
<1> HIDE DEF L, lines
<1>7. Balanced(L) /\ Returned(L) = Returned(d.ledger) + x
  BY <1>2, <1>6, BalancedPost DEF q
<1> QED BY <1>1, <1>5, <1>7

\* The statuses a payment may have when a refund of it is booked.
Bookable == {"PAID", "PARTIALLY_REFUNDED", "DISPUTED"}

\* From d to e one refund succeeds and no other changes.
Succeeds(d, e, r) ==
  \A q \in All : /\ e.refund[q].status = IF q = r THEN "SUCCEEDED" ELSE d.refund[q].status
                 /\ e.refund[q].amount = d.refund[q].amount /\ e.refund[q].by = d.refund[q].by
                 /\ e.refund[q].signer = d.refund[q].signer

\* An open refund the provider confirmed is booked; in full, it closes the order.
LEMMA SucceedRow ==
  ASSUME NEW d, NEW p, RowInv(d, p), NEW r \in Open(d), d.pay \in Bookable,
         p[r].st \in {"succeeded", "reverted"}, NEW e, e = _succeed(d, r)
  PROVE  /\ RowInv(e, p) /\ Open(e) = {} /\ e.refunded = d.refunded + d.refund[r].amount
         /\ e.dispute = d.dispute /\ Succeeds(d, e, r)
         /\ IF d.pay = "DISPUTED" THEN e.pay = d.pay ELSE e.pay \in {"REFUNDED", "PARTIALLY_REFUNDED"}
<1> DEFINE amount == d.refund[r].amount
           total == d.refunded + amount
           full == total >= Captured
           pay == IF d.pay = "DISPUTED" THEN d.pay ELSE IF full THEN "REFUNDED" ELSE "PARTIALLY_REFUNDED"
<1>0. d \in Row /\ r \in All /\ d.refund[r].fault \in BOOLEAN /\ amount \in Nat /\ d.refunded \in Nat
      /\ d.refund[r].status \in OPEN
  BY RowFields DEF RowInv, Open
<1>1. /\ Balanced(d.ledger) /\ d.refunded = Returned(d.ledger) /\ 0 < amount /\ total <= Captured
      /\ total \in Nat /\ d.pay # "REFUNDED"
  BY <1>0, CapturedPos DEF RowInv, Books, OneOpen, Bookable
<1> HIDE DEF amount
<1>2. PICK L : /\ post_refund_allocation(d, amount, d.refund[r].fault) = [d EXCEPT !.ledger = L]
               /\ Balanced(L) /\ Returned(L) = Returned(d.ledger) + amount
  BY <1>0, <1>1, RefundPosted
<1>3. L \in [Account -> -Captured..Captured]
  BY <1>2, BalancedType
<1> DEFINE F == [d.refund EXCEPT ![r].status = "SUCCEEDED"]
           e1 == [[d EXCEPT !.ledger = L] EXCEPT
                    !.refund[r].status = "SUCCEEDED",
                    !.refunded = IF full THEN Captured ELSE total,
                    !.pay = IF @ = "DISPUTED" THEN @ ELSE IF full THEN "REFUNDED" ELSE "PARTIALLY_REFUNDED"]
           e2 == IF full THEN on_full_refund(e1) ELSE e1
<1>4. e = e2
  BY <1>2, Zenon DEF _succeed, amount
<1>5. /\ e1.pay = pay /\ e1.refunded = total /\ e1.order = d.order /\ e1.review = d.review
      /\ e1.refund = F /\ e1.dispute = d.dispute /\ e1.ledger = L
  BY <1>0, <1>1, CapturedPos DEF Row
<1>6. F \in [All -> RefundRow]
  BY <1>0, RowFields DEF RefundRow, RefundStatus
<1>7. e1 \in Row
  <2>1. (IF full THEN Captured ELSE total) \in Cents
    BY <1>1, CapturedPos DEF Cents
  <2>2. pay \in {"PAID", "PARTIALLY_REFUNDED", "REFUNDED", "DISPUTED", "CHARGED_BACK"}
    BY <1>0, RowFields
  <2> QED BY <1>0, <1>3, <1>6, <2>1, <2>2 DEF Row
<1> HIDE DEF e1
<1>8. /\ e \in Row /\ e.pay = pay /\ e.refunded = total /\ e.refund = F /\ e.dispute = d.dispute /\ e.ledger = L
      /\ full => e.order \in {"REFUNDED", "CANCELLED"}
      /\ (e.order = d.order /\ e.review = d.review) \/ e.review # "public"
  BY <1>4, <1>5, <1>7, FullRefundFields
<1> HIDE DEF e2
<1>9. Succeeds(d, e, r)
  BY <1>0, <1>8, RowFields DEF RefundRow, Succeeds
<1>10. Open(e) = {}
  <2>1. \A q \in All : q # r => d.refund[q].status \notin OPEN
    BY DEF RowInv, OneOpen, Open
  <2> QED BY <2>1, <1>9 DEF Open, OPEN, Succeeds
<1>11. OneOpen(e)
  BY <1>10 DEF OneOpen
<1>12. Books(e)
  BY <1>1, <1>2, <1>8, CapturedPos DEF Books, Bookable
<1>13. ClosedByReturn(e)
  BY <1>1, <1>8, CapturedPos DEF ClosedByReturn, RowInv
<1>14. Confirmed(e, p)
  BY <1>9 DEF Confirmed, RowInv, Succeeds
<1> QED BY <1>4, <1>8, <1>9, <1>10, <1>11, <1>12, <1>13, <1>14 DEF RowInv, amount, Bookable

\* The provider's word on a refund: booked, failed, pending, or nothing new.
LEMMA ApplyRow ==
  ASSUME NEW d, NEW p, RowInv(d, p), NEW r \in All, NEW st,
         st = "succeeded" => p[r].st \in {"succeeded", "reverted"},
         st = "succeeded" /\ d.refund[r].status \in {"APPROVED", "PENDING"} => d.pay \in Bookable
  PROVE  LET e == apply_provider_refund(d, r, st) IN
         /\ RowInv(e, p) /\ e.dispute = d.dispute
         /\ e.refunded \in {d.refunded, d.refunded + d.refund[r].amount}
         /\ e.pay = d.pay \/ (d.pay \in {"PAID", "PARTIALLY_REFUNDED"} /\ e.pay \in {"REFUNDED", "PARTIALLY_REFUNDED"})
<1> DEFINE e == apply_provider_refund(d, r, st)
           open == d.refund[r].status \in {"APPROVED", "PENDING"}
<1>0. open => r \in Open(d)
  BY DEF Open, OPEN
<1>1. CASE st = "succeeded" /\ open
  <2>1. e = _succeed(d, r)
    BY <1>1 DEF apply_provider_refund
  <2>2. r \in Open(d) /\ d.pay \in Bookable /\ p[r].st \in {"succeeded", "reverted"}
    BY <1>0, <1>1
  <2> HIDE DEF e
  <2>3. /\ RowInv(e, p) /\ e.refunded = d.refunded + d.refund[r].amount /\ e.dispute = d.dispute
        /\ IF d.pay = "DISPUTED" THEN e.pay = d.pay ELSE e.pay \in {"REFUNDED", "PARTIALLY_REFUNDED"}
    BY <2>1, <2>2, SucceedRow
  <2> QED BY <2>2, <2>3 DEF Bookable, e
<1>2. CASE st \in {"failed", "reverted"} /\ open
  <2>1. e = _fail(d, r)
    BY <1>2 DEF apply_provider_refund
  <2>2. e = [d EXCEPT !.refund[r].status = "FAILED"]
    BY <2>1 DEF _fail
  <2> QED BY <2>2, StatusRow DEF RefundStatus, OPEN
<1>3. CASE st = "pending" /\ d.refund[r].status = "APPROVED"
  <2>1. e = [d EXCEPT !.refund[r].status = "PENDING"]
    BY <1>3 DEF apply_provider_refund
  <2> QED BY <2>1, <1>0, <1>3, StatusRow DEF RefundStatus
<1>4. CASE /\ ~(st = "succeeded" /\ open) /\ ~(st \in {"failed", "reverted"} /\ open)
           /\ ~(st = "pending" /\ d.refund[r].status = "APPROVED")
  <2>1. e = d
    BY <1>4 DEF apply_provider_refund
  <2> QED BY <2>1
<1> QED BY <1>1, <1>2, <1>3, <1>4

\* What execute does with the answer.
LEMMA SettleRow ==
  ASSUME NEW d, NEW p, RowInv(d, p), NEW r \in All, NEW ans \in Answer,
         ans = "succeeded" => p[r].st \in {"succeeded", "reverted"}, d.pay \in Bookable
  PROVE  LET e == settle(d, r, ans) IN
         /\ RowInv(e, p) /\ e.dispute = d.dispute
         /\ e.refunded \in {d.refunded, d.refunded + d.refund[r].amount}
         /\ e.pay = d.pay \/ (d.pay \in {"PAID", "PARTIALLY_REFUNDED"} /\ e.pay \in {"REFUNDED", "PARTIALLY_REFUNDED"})
<1> DEFINE e == settle(d, r, ans)
<1>1. CASE ans = "retryable"
  <2>1. e = d
    BY <1>1 DEF settle
  <2> QED BY <2>1
<1>2. CASE ans = "rejected"
  <2>1. e = [d EXCEPT !.refund[r].status = "FAILED"]
    BY <1>2 DEF settle, _fail
  <2> QED BY <2>1, StatusRow DEF RefundStatus, OPEN
<1>3. CASE ans \notin {"retryable", "rejected"}
  <2>1. e = apply_provider_refund(d, r, ans)
    BY <1>3 DEF settle
  <2> QED BY <2>1, ApplyRow
<1> QED BY <1>1, <1>2, <1>3

\* A chargeback becomes known, and freezes a payment that was collected.
LEMMA DisputedRow ==
  ASSUME NEW d, NEW p, RowInv(d, p), NEW c \in Disputes, NEW st \in DisputeStatus \cup {"NONE"}, NEW new
  PROVE  LET e == [d EXCEPT !.dispute[c] = st, !.pay = IF new /\ @ \in REFUNDABLE THEN "DISPUTED" ELSE @] IN
         /\ RowInv(e, p) /\ e.refunded = d.refunded /\ e.order = d.order
         /\ e.dispute = [d.dispute EXCEPT ![c] = st]
         /\ e.pay = IF new /\ d.pay \in REFUNDABLE THEN "DISPUTED" ELSE d.pay
<1> DEFINE e == [d EXCEPT !.dispute[c] = st, !.pay = IF new /\ @ \in REFUNDABLE THEN "DISPUTED" ELSE @]
           pay == IF new /\ d.pay \in REFUNDABLE THEN "DISPUTED" ELSE d.pay
<1>0. d \in Row
  BY DEF RowInv
<1>1. /\ e.pay = pay /\ e.refunded = d.refunded /\ e.order = d.order /\ e.review = d.review
      /\ e.refund = d.refund /\ e.ledger = d.ledger /\ e.dispute = [d.dispute EXCEPT ![c] = st]
  BY <1>0 DEF Row
<1>2. e \in Row
  <2>1. [d.dispute EXCEPT ![c] = st] \in [Disputes -> DisputeStatus \cup {"NONE"}]
    BY <1>0, RowFields
  <2>2. pay \in {"PAID", "PARTIALLY_REFUNDED", "REFUNDED", "DISPUTED", "CHARGED_BACK"}
    BY <1>0, RowFields
  <2> QED BY <2>1, <2>2, <1>0 DEF Row
<1> HIDE DEF e
<1>3. Open(e) = Open(d)
  BY <1>1 DEF Open
<1>4. Books(e) /\ OneOpen(e) /\ ClosedByReturn(e) /\ Confirmed(e, p)
  BY <1>1, <1>3 DEF RowInv, Books, OneOpen, ClosedByReturn, Confirmed, REFUNDABLE, PAYMENT_CONFIRMED
<1> QED BY <1>1, <1>2, <1>4 DEF RowInv, e

\* A chargeback that is lost takes what is left of the contested amount.
LEMMA ChargeBackRow ==
  ASSUME NEW d, NEW p, RowInv(d, p), d.pay = "DISPUTED", NEW amount \in Nat, NEW reversed \in BOOLEAN
  PROVE  LET e == charge_back(d, amount, reversed) IN
         /\ RowInv(e, p) /\ e.pay = "CHARGED_BACK" /\ e.refunded = d.refunded /\ e.dispute = d.dispute
         /\ e.refund = d.refund
<1> DEFINE left == Captured - d.refunded
           lost == IF left < amount THEN left ELSE amount
           t == IF reversed THEN share(Technician, lost) ELSE 0
           q == lost - t
           e1 == [d EXCEPT !.pay = "CHARGED_BACK"]
           lines == [CUSTOMER |-> lost, TECHNICIAN_PAYABLE |-> -t, REFUNDS |-> -q]
           L == IF lost <= 0 THEN d.ledger ELSE Posted(d.ledger, lines)
           e == charge_back(d, amount, reversed)
<1>0. d \in Row /\ d.refunded \in Nat /\ d.refunded <= Captured
  BY RowFields DEF RowInv
<1>1. lost \in Nat /\ d.refunded + lost <= Captured /\ Balanced(d.ledger) /\ d.refunded = Returned(d.ledger)
  BY <1>0, CapturedPos DEF RowInv, Books
<1> HIDE DEF lost
<1>2. Balanced(L) /\ Returned(L) = d.refunded + lost
  <2>1. CASE lost <= 0
    BY <2>1, <1>1, <1>0
  <2>2. CASE ~(lost <= 0)
    <3>1. t \in Nat /\ t * Captured <= Technician * lost
      <4>1. share(Technician, lost) \in Nat /\ share(Technician, lost) * Captured <= Technician * lost
        BY <1>1, ShareBelow, SplitAssumption
      <4>2. 0 * Captured = 0 /\ Technician * lost \in Nat
        BY <1>1, TimesNat, SplitAssumption, CapturedPos
      <4> QED BY <4>1, <4>2
    <3>2. /\ 0 * Captured <= Commission * lost /\ 0 * Captured <= Vat * lost /\ 0 * Captured <= Withholding * lost
      <4>1. 0 * Captured = 0 /\ Commission * lost \in Nat /\ Vat * lost \in Nat /\ Withholding * lost \in Nat
        BY <1>1, TimesNat, SplitAssumption, CapturedPos
      <4> QED BY <4>1
    <3> HIDE DEF t
    <3>3. q \in Int /\ d.ledger \in [Account -> Int]
      BY <3>1, <1>1 DEF Balanced
    <3> DEFINE M == Posted(d.ledger, lines)
    <3>4. /\ M \in [Account -> Int]
          /\ M["CUSTOMER"] = d.ledger["CUSTOMER"] + lost
          /\ M["TECHNICIAN_PAYABLE"] = d.ledger["TECHNICIAN_PAYABLE"] - t
          /\ M["PLATFORM_REVENUE"] = d.ledger["PLATFORM_REVENUE"] - 0
          /\ M["VAT_PAYABLE"] = d.ledger["VAT_PAYABLE"] - 0
          /\ M["TAX_WITHHELD"] = d.ledger["TAX_WITHHELD"] - 0
          /\ M["REFUNDS"] = d.ledger["REFUNDS"] - (lost - t - 0 - 0 - 0)
      BY <3>1, <3>3, <1>1 DEF Posted, Account
    <3> HIDE DEF M, lines
    <3>5. Balanced(M) /\ Returned(M) = Returned(d.ledger) + lost
      BY <3>1, <3>2, <3>4, <1>1, BalancedPost
    <3> QED BY <3>5, <2>2, <1>1 DEF M
  <2> QED BY <2>1, <2>2
<1>3. L \in [Account -> -Captured..Captured]
  BY <1>2, BalancedType
<1>4. e = [e1 EXCEPT !.ledger = L]
  <2>1. e1.ledger = d.ledger /\ (lost <= 0 => e1 = [e1 EXCEPT !.ledger = d.ledger])
    BY <1>0 DEF Row
  <2>2. e = IF lost <= 0 THEN e1 ELSE post(e1, lines)
    BY DEF charge_back, lost
  <2>3. post(e1, lines) = [e1 EXCEPT !.ledger = Posted(d.ledger, lines)]
    BY <2>1 DEF post, Posted
  <2> HIDE DEF e, e1, lines
  <2> QED BY <2>1, <2>2, <2>3
<1> HIDE DEF L, e
<1>5. /\ e \in Row /\ e.pay = "CHARGED_BACK" /\ e.refunded = d.refunded /\ e.order = d.order /\ e.review = d.review
      /\ e.refund = d.refund /\ e.dispute = d.dispute /\ e.ledger = L
  BY <1>0, <1>3, <1>4 DEF Row
<1>6. Open(e) = Open(d)
  BY <1>5 DEF Open
<1>7. Books(e) /\ OneOpen(e) /\ ClosedByReturn(e) /\ Confirmed(e, p)
  BY <1>0, <1>1, <1>2, <1>5, <1>6 DEF RowInv, Books, OneOpen, ClosedByReturn, Confirmed
<1> QED BY <1>5, <1>7 DEF RowInv, e

\* A chargeback that is won gives the payment the status its refunds give it.
LEMMA ClosedRow ==
  ASSUME NEW d, NEW p, RowInv(d, p), d.pay = "DISPUTED"
  PROVE  LET e == mark_dispute_closed(d) IN
         /\ RowInv(e, p) /\ e.dispute = d.dispute /\ e.refunded = d.refunded /\ e.refund = d.refund
         /\ e.pay \in {"PAID", "PARTIALLY_REFUNDED", "REFUNDED"}
<1> DEFINE full == d.refunded >= Captured
           pay == IF full THEN "REFUNDED" ELSE IF d.refunded > 0 THEN "PARTIALLY_REFUNDED" ELSE "PAID"
           e1 == [d EXCEPT !.pay = pay]
           e == IF full THEN on_full_refund(e1) ELSE e1
<1>0. d \in Row /\ d.refunded \in Nat /\ d.refunded <= Captured
  BY RowFields DEF RowInv
<1>1. mark_dispute_closed(d) = e
  BY DEF mark_dispute_closed
<1>2. /\ e1 \in Row /\ e1.pay = pay /\ e1.refunded = d.refunded /\ e1.order = d.order /\ e1.review = d.review
      /\ e1.refund = d.refund /\ e1.dispute = d.dispute /\ e1.ledger = d.ledger
  BY <1>0 DEF Row
<1> HIDE DEF e1
<1>3. /\ e \in Row /\ e.pay = pay /\ e.refunded = d.refunded /\ e.refund = d.refund /\ e.dispute = d.dispute
      /\ e.ledger = d.ledger
      /\ full => e.order \in {"REFUNDED", "CANCELLED"}
      /\ (e.order = d.order /\ e.review = d.review) \/ e.review # "public"
  BY <1>2, FullRefundFields
<1> HIDE DEF e
<1>4. Open(e) = Open(d)
  BY <1>3 DEF Open
<1>5. Books(e) /\ OneOpen(e) /\ ClosedByReturn(e) /\ Confirmed(e, p)
  BY <1>0, <1>3, <1>4, CapturedPos DEF RowInv, Books, OneOpen, ClosedByReturn, Confirmed
<1> QED BY <1>1, <1>3, <1>5 DEF RowInv
-------------------------------------------------------------------------------
(* Every action keeps IInv.                                                *)

\* The rows, records and jobs there are before anything happens.
LEMMA Nothing == NoRefund \in RefundRow /\ NoneYet \in ProviderRefund /\ NoTx \in Tx /\ Idle \in Job
<1>1. 0 \in Cents
  BY CapturedPos DEF Cents
<1>2. NoRefund \in RefundRow /\ NoneYet \in ProviderRefund
  BY <1>1 DEF NoRefund, RefundRow, NoneYet, ProviderRefund
<1>3. NoTx \in Tx
  BY <1>2 DEF NoTx, Tx, Answer
<1>4. Idle \in Job
  BY <1>2 DEF Idle, Job
<1> QED BY <1>2, <1>3, <1>4

\* A step of the rows alone, while no transaction holds the payment.
LEMMA RowStep ==
  ASSUME IInv, PaymentFree, RowInv(db', prov), UNCHANGED <<prov, bank, tx>>, wk' = wk \/ wk' = Idle
  PROVE  IInv'
<1>1. TypeOK'
  BY Nothing DEF IInv, TypeOK, RowInv
<1>2. TxInv' /\ WkInv'
  BY DEF IInv, TxInv, WkInv, PaymentFree, Idle
<1> QED BY <1>1, <1>2 DEF IInv

\* A step of the worker alone.
LEMMA WorkerStep ==
  ASSUME IInv, UNCHANGED <<db, prov, bank, tx>>, wk' \in Job, WkInv'
  PROVE  IInv'
BY DEF IInv, TypeOK, TxInv, RowInv, Books, OneOpen, ClosedByReturn, Confirmed

\* A step of the rows beside a transaction: neither the payment nor its open refunds change.
LEMMA BesideTx ==
  ASSUME IInv, RowInv(db', prov), db'.pay = db.pay, db'.refunded = db.refunded, Open(db') \subseteq Open(db),
         bank' \in [Disputes -> [st : DisputeStatus \cup {"NONE"}, amount : Cents]], UNCHANGED <<prov, tx, wk>>
  PROVE  IInv'
<1>1. TypeOK' /\ WkInv'
  BY DEF IInv, TypeOK, RowInv, WkInv
<1>2. TxInv'
  BY DEF IInv, TxInv
<1> QED BY <1>1, <1>2 DEF IInv

\* What the provider paid stays paid, or is reverted.
PaidStays(p, q) == \A r \in All : p[r].st \in {"succeeded", "reverted"} => q[r].st \in {"succeeded", "reverted"}

\* A step of the provider alone.
LEMMA ProviderStep ==
  ASSUME IInv, prov' \in [All -> ProviderRefund], PaidStays(prov, prov'), UNCHANGED <<db, bank, tx, wk>>
  PROVE  IInv'
<1>1. TypeOK'
  BY DEF IInv, TypeOK
<1>2. RowInv(db, prov)'
  <2>1. Confirmed(db', prov')
    BY DEF IInv, RowInv, Confirmed, PaidStays
  <2> QED BY <2>1 DEF IInv, RowInv, Books, OneOpen, ClosedByReturn
<1>3. TxInv' /\ WkInv'
  BY DEF IInv, TxInv, WkInv, PaidStays
<1> QED BY <1>1, <1>2, <1>3 DEF IInv

\* The refund is sent and the payment stays locked.
LEMMA ExecuteInv ==
  ASSUME IInv, PaymentFree, NEW op \in {"create", "approve", "retry"}, NEW r \in All, NEW row \in RefundRow,
         row.status = "APPROVED", 0 < row.amount, row.amount <= Captured - db.refunded,
         db.pay \in REFUNDABLE, Open(db) \subseteq {r},
         NEW after \in {"SAME", "READY_FOR_REVIEW", "REVIEWED"},
         after # "SAME" => row.amount < Captured - db.refunded,
         execute(op, r, row, after)
  PROVE  IInv'
<1>1. PICK ans \in Answer :
        /\ tx' = [op |-> op, r |-> r, row |-> row, ans |-> ans, after |-> after]
        /\ \/ prov[r].st # "none" /\ ans \in {answer_of(prov[r].st), "retryable"} /\ UNCHANGED prov
           \/ /\ prov[r].st = "none" /\ ans \in {"pending", "succeeded", "failed"}
              /\ prov' = [prov EXCEPT ![r] = [st |-> ans, amount |-> row.amount]]
           \/ /\ prov[r].st = "none" /\ ans = "retryable"
              /\ \E st \in {"pending", "succeeded"} : prov' = [prov EXCEPT ![r] = [st |-> st, amount |-> row.amount]]
           \/ prov[r].st = "none" /\ ans \in {"retryable", "rejected"} /\ UNCHANGED prov
        /\ UNCHANGED <<db, bank, wk>>
  BY DEF execute
<1>2. prov \in [All -> ProviderRefund] /\ row.amount \in Cents
  BY DEF IInv, TypeOK, RefundRow
<1>3. /\ prov' \in [All -> ProviderRefund] /\ PaidStays(prov, prov')
      /\ ans = "succeeded" => prov'[r].st \in {"succeeded", "reverted"}
  <2>1. CASE prov[r].st # "none" /\ ans \in {answer_of(prov[r].st), "retryable"} /\ UNCHANGED prov
    BY <2>1, <1>2 DEF PaidStays, answer_of
  <2>2. ASSUME NEW st \in {"pending", "succeeded", "failed"}, prov[r].st = "none", ans \in {st, "retryable"},
               prov' = [prov EXCEPT ![r] = [st |-> st, amount |-> row.amount]]
        PROVE  /\ prov' \in [All -> ProviderRefund] /\ PaidStays(prov, prov')
               /\ ans = "succeeded" => prov'[r].st \in {"succeeded", "reverted"}
    <3>1. [st |-> st, amount |-> row.amount] \in ProviderRefund
      BY <1>2 DEF ProviderRefund
    <3> QED BY <3>1, <2>2, <1>2 DEF PaidStays
  <2>3. CASE prov[r].st = "none" /\ ans \in {"retryable", "rejected"} /\ UNCHANGED prov
    BY <2>3, <1>2 DEF PaidStays
  <2> QED BY <1>1, <2>1, <2>2, <2>3
<1>4. tx' \in Tx
  BY <1>1 DEF Tx, OrderStatus
<1>5. TypeOK'
  BY <1>1, <1>3, <1>4 DEF IInv, TypeOK
<1>6. RowInv(db, prov)'
  <2>1. Confirmed(db', prov')
    BY <1>1, <1>3 DEF IInv, RowInv, Confirmed, PaidStays
  <2> QED BY <2>1, <1>1 DEF IInv, RowInv, Books, OneOpen, ClosedByReturn
<1>7. TxInv'
  BY <1>1, <1>3 DEF TxInv, Open
<1>8. WkInv'
  BY <1>1, <1>3 DEF IInv, WkInv, PaidStays
<1> QED BY <1>5, <1>6, <1>7, <1>8 DEF IInv

\* What _create has checked, and the row it writes.
LEMMA MayCreate ==
  ASSUME IInv, NEW r \in All, NEW amount, may_create(r, amount), amount \in asked \cup Amounts,
         NEW s \in {"REQUESTED", "APPROVED"}, NEW fault \in BOOLEAN, NEW who \in Admins \cup {Client}
  PROVE  /\ PaymentFree /\ Open(db) = {} /\ db.pay \in REFUNDABLE /\ amount \in Nat /\ 0 < amount
         /\ amount <= Captured - db.refunded
         /\ [status |-> s, amount |-> amount, fault |-> fault, by |-> who, signer |-> Nobody] \in RefundRow
<1>1. db.refunded \in Nat /\ db.refunded <= Captured
  BY RowFields DEF IInv, TypeOK
<1>2. /\ PaymentFree /\ Open(db) = {} /\ db.pay \in REFUNDABLE /\ amount \in Nat /\ 0 < amount
      /\ amount <= Captured - db.refunded
  BY <1>1, AmountsAssumption, CapturedPos DEF may_create, asked, refundable_cents
<1>3. amount \in Cents
  BY <1>1, <1>2, CapturedPos DEF Cents
<1> QED BY <1>2, <1>3 DEF RefundRow, RefundStatus

LEMMA RequestByClientInv == ASSUME IInv, NEW r \in Refunds, request_by_client(r) PROVE IInv'
<1>1. PICK amount \in asked, fault \in Faults :
        /\ may_create(r, amount)
        /\ db' = [db EXCEPT !.refund[r] = [status |-> "REQUESTED", amount |-> amount, fault |-> fault,
                                           by |-> Client, signer |-> Nobody]]
        /\ UNCHANGED <<prov, bank, tx, wk>>
  BY DEF request_by_client
<1> DEFINE row == [status |-> "REQUESTED", amount |-> amount, fault |-> fault, by |-> Client, signer |-> Nobody]
<1>2. r \in All /\ fault \in BOOLEAN /\ RowInv(db, prov)
  BY AmountsAssumption DEF All, IInv
<1>3. /\ PaymentFree /\ Open(db) = {} /\ 0 < amount /\ amount <= Captured - db.refunded /\ row \in RefundRow
  BY <1>1, <1>2, MayCreate
<1>4. row.status = "REQUESTED" /\ row.amount = amount
  OBVIOUS
<1> HIDE DEF row
<1>5. RowInv([db EXCEPT !.refund[r] = row], prov)
  BY <1>2, <1>3, <1>4, RefundRowWritten
<1> QED BY <1>1, <1>3, <1>5, RowStep DEF row

\* _create by finance: the refund waits for a signature or is sent at once.
LEMMA CreateByFinanceInv ==
  ASSUME IInv, NEW r \in Refunds, NEW who \in Admins, NEW amount \in asked \cup Amounts, NEW fault \in BOOLEAN,
         NEW after \in {"SAME", "READY_FOR_REVIEW", "REVIEWED"},
         after # "SAME" => amount < Captured - db.refunded,
         create_by_finance(r, who, amount, fault, after)
  PROVE  IInv'
<1> DEFINE row == [status |-> "REQUESTED", amount |-> amount, fault |-> fault, by |-> who, signer |-> Nobody]
           sent == [status |-> "APPROVED", amount |-> amount, fault |-> fault, by |-> who, signer |-> Nobody]
<1>1. /\ may_create(r, amount)
      /\ \/ /\ db' = transition([db EXCEPT !.refund[r] = row], after)
            /\ UNCHANGED <<prov, bank, tx, wk>>
         \/ execute("create", r, [row EXCEPT !.status = "APPROVED"], after)
  BY DEF create_by_finance
<1>2. r \in All /\ RowInv(db, prov) /\ db.refunded \in Nat
  BY RowFields DEF All, IInv, TypeOK
<1>3. /\ PaymentFree /\ Open(db) = {} /\ db.pay \in REFUNDABLE /\ amount \in Nat /\ 0 < amount
      /\ amount <= Captured - db.refunded /\ row \in RefundRow /\ sent \in RefundRow
  BY <1>1, <1>2, MayCreate
<1>4. row.status = "REQUESTED" /\ row.amount = amount /\ sent.status = "APPROVED" /\ sent.amount = amount
      /\ [row EXCEPT !.status = "APPROVED"] = sent
  OBVIOUS
<1> HIDE DEF row, sent
<1>5. CASE db' = transition([db EXCEPT !.refund[r] = row], after) /\ UNCHANGED <<prov, bank, tx, wk>>
  <2> DEFINE e == [db EXCEPT !.refund[r] = row]
  <2>1. RowInv(e, prov) /\ e.refunded = db.refunded
    BY <1>2, <1>3, <1>4, RefundRowWritten
  <2> HIDE DEF e
  <2>2. e.refunded # Captured
    BY <2>1, <1>2, <1>3, CapturedPos
  <2>3. RowInv(transition(e, after), prov)
    BY <2>1, <2>2, TransitionRow
  <2> QED BY <2>3, <1>3, <1>5, RowStep DEF e
<1>6. CASE execute("create", r, sent, after)
  BY <1>2, <1>3, <1>4, <1>6, ExecuteInv
<1> QED BY <1>1, <1>4, <1>5, <1>6

LEMMA CreateRefundInv == ASSUME IInv, NEW r \in Refunds, create_refund(r) PROVE IInv'
BY CreateByFinanceInv, AmountsAssumption DEF create_refund

\* The order goes back to where it was while the client keeps part of the money.
LEMMA ResolvePartialInv == ASSUME IInv, NEW r \in Refunds, resolve_partial(r) PROVE IInv'
<1>1. PICK who \in Admins, amount \in Amounts :
        amount < Captured - db.refunded /\ create_by_finance(r, who, amount, TRUE, after_payment(db))
  BY DEF resolve_partial
<1>2. after_payment(db) \in {"READY_FOR_REVIEW", "REVIEWED"}
  BY DEF after_payment
<1> QED BY <1>1, <1>2, CreateByFinanceInv

LEMMA ResolveFullInv == ASSUME IInv, NEW r \in Refunds, resolve_full(r) PROVE IInv'
<1>1. PICK who \in Admins : create_by_finance(r, who, refundable_cents(db), TRUE, "SAME")
  BY DEF resolve_full
<1>2. refundable_cents(db) \in asked
  BY DEF asked
<1> QED BY <1>1, <1>2, CreateByFinanceInv

LEMMA ApproveInv == ASSUME IInv, NEW r \in All, NEW who \in Admins, approve(r, who) PROVE IInv'
<1> DEFINE row == [db.refund[r] EXCEPT !.status = "APPROVED", !.signer = who]
<1>1. /\ PaymentFree /\ db.refund[r].status = "REQUESTED" /\ db.pay \in REFUNDABLE
      /\ execute("approve", r, row, "SAME")
  BY DEF approve
<1>2. db.refund[r] \in RefundRow
  BY RowFields DEF IInv, TypeOK
<1>3. row \in RefundRow /\ row.status = "APPROVED" /\ row.amount = db.refund[r].amount
  BY <1>2 DEF RefundRow, RefundStatus
<1>4. r \in Open(db)
  BY <1>1 DEF Open, OPEN
<1>5. Open(db) \subseteq {r} /\ 0 < db.refund[r].amount /\ db.refund[r].amount <= Captured - db.refunded
  BY <1>4 DEF IInv, RowInv, OneOpen
<1> HIDE DEF row
<1> QED BY <1>1, <1>3, <1>5, ExecuteInv

LEMMA RejectInv == ASSUME IInv, NEW r \in All, reject(r) PROVE IInv'
<1>1. db' = [db EXCEPT !.refund[r].status = "REJECTED"] /\ UNCHANGED <<prov, bank, tx, wk>>
  BY DEF reject
<1>2. RowInv(db', prov) /\ Open(db') \subseteq Open(db) /\ db'.pay = db.pay /\ db'.refunded = db.refunded
  BY <1>1, StatusRow DEF IInv, RefundStatus, OPEN
<1>3. bank' \in [Disputes -> [st : DisputeStatus \cup {"NONE"}, amount : Cents]]
  BY <1>1 DEF IInv, TypeOK
<1> QED BY <1>1, <1>2, <1>3, BesideTx

LEMMA RetryApprovedInv == ASSUME IInv, NEW r \in All, retry_approved(r) PROVE IInv'
<1>1. PaymentFree /\ db.refund[r].status = "APPROVED"
  BY DEF retry_approved
<1>2. r \in Open(db) /\ db.refund[r] \in RefundRow
  BY <1>1, RowFields DEF Open, OPEN, IInv, TypeOK
<1>3. Open(db) \subseteq {r} /\ 0 < db.refund[r].amount /\ db.refund[r].amount <= Captured - db.refunded
  BY <1>2 DEF IInv, RowInv, OneOpen
<1>4. CASE db.pay \in REFUNDABLE
  <2>1. execute("retry", r, db.refund[r], "SAME")
    BY <1>4 DEF retry_approved
  <2> QED BY <2>1, <1>1, <1>2, <1>3, <1>4, ExecuteInv
<1>5. CASE db.pay \notin REFUNDABLE
  <2>1. db' = [db EXCEPT !.refund[r].status = "FAILED"] /\ UNCHANGED <<prov, bank, tx, wk>>
    BY <1>5 DEF retry_approved, _fail
  <2>2. RowInv(db', prov)
    BY <2>1, StatusRow DEF IInv, RefundStatus, OPEN
  <2> QED BY <2>1, <2>2, <1>1, RowStep
<1> QED BY <1>4, <1>5

\* The transaction commits: the refund it wrote, what the answer makes of it, and the order.
LEMMA CommitInv == ASSUME IInv, commit PROVE IInv'
<1> DEFINE e == [db EXCEPT !.refund[tx.r] = tx.row]
           f == settle(e, tx.r, tx.ans)
<1>1. /\ tx.op # "none" /\ db' = transition(f, tx.after) /\ tx' = NoTx /\ UNCHANGED <<prov, bank, wk>>
  BY DEF commit
<1>2. /\ tx.r \in All /\ db.pay \in REFUNDABLE /\ Open(db) \subseteq {tx.r}
      /\ tx.row.status = "APPROVED" /\ 0 < tx.row.amount /\ tx.row.amount <= Captured - db.refunded
      /\ tx.ans = "succeeded" => prov[tx.r].st \in {"succeeded", "reverted"}
      /\ tx.after \in {"SAME", "READY_FOR_REVIEW", "REVIEWED"}
      /\ tx.after # "SAME" => tx.row.amount < Captured - db.refunded
  BY <1>1 DEF IInv, TxInv
<1>3. tx.row \in RefundRow /\ tx.ans \in Answer /\ tx.row.amount \in Nat /\ RowInv(db, prov) /\ db.refunded \in Nat
  BY RowFields, CapturedPos DEF IInv, TypeOK, Tx, RefundRow, Cents
<1>4. RowInv(e, prov) /\ e.refund[tx.r] = tx.row /\ e.pay = db.pay /\ e.refunded = db.refunded
  BY <1>2, <1>3, RefundRowWritten
<1> HIDE DEF e
<1>5. RowInv(f, prov) /\ f.refunded \in {db.refunded, db.refunded + tx.row.amount}
  <2>1. e.pay \in Bookable
    BY <1>2, <1>4 DEF Bookable, REFUNDABLE, PAYMENT_CONFIRMED
  <2> QED BY <2>1, <1>2, <1>3, <1>4, SettleRow
<1> HIDE DEF f
<1>6. tx.after # "SAME" => f.refunded # Captured
  BY <1>2, <1>3, <1>5, CapturedPos
<1>7. RowInv(db', prov)
  BY <1>1, <1>2, <1>5, <1>6, TransitionRow
<1>8. TypeOK' /\ WkInv' /\ TxInv'
  BY <1>1, <1>7, Nothing DEF IInv, TypeOK, WkInv, TxInv, RowInv, NoTx
<1> QED BY <1>1, <1>7, <1>8 DEF IInv

LEMMA AbortInv == ASSUME IInv, abort PROVE IInv'
<1>1. tx' = NoTx /\ UNCHANGED <<db, prov, bank, wk>>
  BY DEF abort
<1>2. TypeOK' /\ WkInv' /\ TxInv'
  BY <1>1, Nothing DEF IInv, TypeOK, WkInv, TxInv, NoTx
<1> QED BY <1>1, <1>2 DEF IInv, RowInv, Books, OneOpen, ClosedByReturn, Confirmed

\* An order that can be rated or disputed has something left to return.
LEMMA OrderIsOpen ==
  ASSUME IInv
  PROVE  /\ db.order \notin {"REFUNDED", "CANCELLED"} => db.refunded # Captured
         /\ RowInv(db, prov)
         /\ bank \in [Disputes -> [st : DisputeStatus \cup {"NONE"}, amount : Cents]]
BY DEF IInv, TypeOK, RowInv, ClosedByReturn

LEMMA ReviewInv == ASSUME IInv, review PROVE IInv'
<1>1. db.order = "READY_FOR_REVIEW" /\ db' = [db EXCEPT !.order = "REVIEWED", !.review = "public"]
      /\ UNCHANGED <<prov, bank, tx, wk>>
  BY DEF review
<1>2. /\ db'.pay = db.pay /\ db'.refunded = db.refunded /\ db'.order = "REVIEWED" /\ db'.refund = db.refund
      /\ db'.dispute = db.dispute /\ db'.ledger = db.ledger /\ db' \in Row
  BY <1>1 DEF IInv, TypeOK, Row
<1>3. Open(db') = Open(db)
  BY <1>2 DEF Open
<1>4. RowInv(db', prov)
  BY <1>1, <1>2, <1>3, OrderIsOpen DEF RowInv, Books, OneOpen, ClosedByReturn, Confirmed
<1> QED BY <1>1, <1>2, <1>3, <1>4, OrderIsOpen, BesideTx

\* The client disputes an order whose work is done: the table lets no closed order be disputed.
LEMMA DisputeInv == ASSUME IInv, dispute PROVE IInv'
<1>1. may_transition(db.order, "DISPUTED", "C") /\ db' = transition(db, "DISPUTED") /\ UNCHANGED <<prov, bank, tx, wk>>
  BY DEF dispute
<1>2. db.order \notin {"REFUNDED", "CANCELLED"}
  BY <1>1 DEF may_transition, ALLOWED_TRANSITIONS
<1>3. RowInv(db', prov) /\ Open(db') = Open(db) /\ db'.pay = db.pay /\ db'.refunded = db.refunded
  BY <1>1, <1>2, OrderIsOpen, TransitionRow
<1> QED BY <1>1, <1>3, OrderIsOpen, BesideTx

LEMMA ResolveReleaseInv == ASSUME IInv, resolve_release PROVE IInv'
<1>1. /\ PaymentFree /\ db.order = "DISPUTED" /\ db' = transition(db, after_payment(db))
      /\ UNCHANGED <<prov, bank, tx, wk>>
  BY DEF resolve_release
<1>2. after_payment(db) \in {"READY_FOR_REVIEW", "REVIEWED"}
  BY DEF after_payment
<1>3. RowInv(db', prov)
  BY <1>1, <1>2, OrderIsOpen, TransitionRow
<1> QED BY <1>1, <1>3, RowStep

LEMMA ResolveFullUnpaidInv == ASSUME IInv, resolve_full_unpaid PROVE IInv'
<1>1. PaymentFree /\ db' = transition(db, "CANCELLED") /\ UNCHANGED <<prov, bank, tx, wk>>
  BY DEF resolve_full_unpaid
<1>2. RowInv(db', prov)
  BY <1>1, OrderIsOpen, TransitionRow
<1> QED BY <1>1, <1>2, RowStep

LEMMA WebhookFetchInv == ASSUME IInv, NEW r \in All, webhook_fetch(r) PROVE IInv'
<1>1. /\ wk' = [pc |-> "fetched", id |-> r, view |-> prov[r], st |-> "NONE"]
      /\ UNCHANGED <<db, prov, bank, tx>>
  BY DEF webhook_fetch
<1>2. prov[r] \in ProviderRefund
  BY DEF IInv, TypeOK
<1>3. wk' \in Job
  BY <1>1, <1>2 DEF Job
<1>4. WkInv'
  BY <1>1 DEF WkInv
<1> QED BY <1>1, <1>3, <1>4, WorkerStep

LEMMA FindInv == ASSUME IInv, _find PROVE IInv'
<1>1. /\ wk.pc = "fetched" /\ wk' = [wk EXCEPT !.pc = IF db.refund[wk.id].status = "NONE" THEN "unknown" ELSE "found"]
      /\ UNCHANGED <<db, prov, bank, tx>>
  BY DEF _find
<1>2. wk \in Job
  BY DEF IInv, TypeOK
<1>3. /\ wk' \in Job /\ wk'.id = wk.id /\ wk'.view = wk.view /\ wk'.pc \in {"unknown", "found"}
  BY <1>1, <1>2 DEF Job
<1>4. WkInv'
  BY <1>1, <1>3 DEF WkInv, IInv
<1> QED BY <1>1, <1>3, <1>4, WorkerStep

\* A confirmation can be booked unless the payment was charged back; then it raises.
LEMMA BookableWhenBooked ==
  ASSUME IInv, ~unbookable, wk.id \in All, wk.view.st = "succeeded",
         db.refund[wk.id].status \in {"APPROVED", "PENDING"}
  PROVE  db.pay \in Bookable
<1>1. RowInv(db, prov) /\ ~raises(db, wk.id)
  BY DEF unbookable, IInv
<1>2. wk.id \in Open(db) /\ db.refunded \in Nat /\ db.refund[wk.id].amount \in Nat
  BY <1>1, RowFields DEF Open, OPEN, RowInv
<1>3. db.refunded # Captured
  BY <1>1, <1>2, CapturedPos DEF RowInv, OneOpen
<1>4. db.pay \in Bookable \cup {"CHARGED_BACK"}
  BY <1>1, <1>3, RowFields DEF RowInv, Books, Bookable
<1> QED BY <1>1, <1>4 DEF raises, can_move, ALLOWED_PAYMENT_TRANSITIONS

LEMMA OnRefundInv == ASSUME IInv, _on_refund PROVE IInv'
<1>1. /\ wk.pc = "found" /\ PaymentFree /\ ~unbookable
      /\ db' = apply_provider_refund(db, wk.id, wk.view.st) /\ wk' = Idle /\ UNCHANGED <<prov, bank, tx>>
  BY DEF _on_refund
<1>2. wk.id \in All /\ (wk.view.st = "succeeded" => prov[wk.id].st \in {"succeeded", "reverted"}) /\ RowInv(db, prov)
  BY <1>1 DEF IInv, WkInv
<1>3. RowInv(db', prov)
  BY <1>1, <1>2, BookableWhenBooked, ApplyRow
<1> QED BY <1>1, <1>3, RowStep

\* A refund made in the provider's panel is recorded for what is left at most.
LEMMA OutsideRow ==
  ASSUME IInv, wk.id \in All, recordable
  PROVE  LET row == [status |-> "APPROVED", amount |-> outside_amount, fault |-> FALSE, by |-> Nobody,
                     signer |-> Nobody]
             e == [db EXCEPT !.refund[wk.id] = row]
         IN  RowInv(e, prov) /\ e.pay = db.pay /\ e.dispute = db.dispute
<1> DEFINE row == [status |-> "APPROVED", amount |-> outside_amount, fault |-> FALSE, by |-> Nobody, signer |-> Nobody]
           e == [db EXCEPT !.refund[wk.id] = row]
<1>1. Open(db) = {} /\ outside_amount > 0 /\ RowInv(db, prov)
  BY DEF recordable, IInv
<1>2. db.refunded \in Nat /\ db.refunded <= Captured /\ wk.view.amount \in Nat
  BY RowFields, CapturedPos DEF IInv, TypeOK, Job, ProviderRefund, Cents
<1>3. outside_amount \in Cents /\ outside_amount <= Captured - db.refunded
  BY <1>2, CapturedPos DEF outside_amount, Cents
<1>4. row \in RefundRow /\ row.status = "APPROVED" /\ row.amount = outside_amount
  BY <1>3 DEF RefundRow, RefundStatus
<1>5. outside_amount \in Nat
  BY <1>3, CapturedPos DEF Cents
<1>6. RowInv(e, prov) /\ e.pay = db.pay /\ e.dispute = db.dispute
  <2> HIDE DEF row
  <2> QED BY <1>1, <1>3, <1>4, <1>5, RefundRowWritten, ZenonT(30)
<1> QED BY <1>6

LEMMA RecordOutsideAppInv == ASSUME IInv, _record_outside_app PROVE IInv'
<1> DEFINE row == [status |-> "APPROVED", amount |-> outside_amount, fault |-> FALSE, by |-> Nobody, signer |-> Nobody]
           e == [db EXCEPT !.refund[wk.id] = row]
<1>1. /\ wk.pc = "unknown" /\ PaymentFree /\ recordable
      /\ db' = apply_provider_refund(e, wk.id, wk.view.st) /\ wk' = Idle /\ UNCHANGED <<prov, bank, tx>>
  BY DEF _record_outside_app
<1>2. /\ wk.id \in All /\ (wk.view.st = "succeeded" => prov[wk.id].st \in {"succeeded", "reverted"})
      /\ db.pay \in REFUNDABLE
  BY <1>1 DEF IInv, WkInv, recordable
<1>3. RowInv(e, prov) /\ e.pay = db.pay
  BY <1>1, <1>2, OutsideRow
<1> HIDE DEF e
<1>4. e.pay \in Bookable
  BY <1>2, <1>3 DEF Bookable, REFUNDABLE, PAYMENT_CONFIRMED
<1>5. RowInv(db', prov)
  BY <1>1, <1>2, <1>3, <1>4, ApplyRow
<1> QED BY <1>1, <1>5, RowStep

LEMMA WebhookDroppedInv == ASSUME IInv, webhook_refused \/ webhook_crashes PROVE IInv'
<1>1. wk' = Idle /\ UNCHANGED <<db, prov, bank, tx>>
  BY DEF webhook_refused, webhook_crashes
<1>2. wk' \in Job /\ WkInv'
  BY <1>1, Nothing DEF WkInv, Idle
<1> QED BY <1>1, <1>2, WorkerStep

LEMMA DisputeFetchInv == ASSUME IInv, NEW c \in Disputes, dispute_fetch(c) PROVE IInv'
<1>1. /\ wk' = [pc |-> "dispute", id |-> c, view |-> NoneYet, st |-> bank[c].st]
      /\ UNCHANGED <<db, prov, bank, tx>>
  BY DEF dispute_fetch
<1>2. bank[c].st \in DisputeStatus \cup {"NONE"}
  BY DEF IInv, TypeOK
<1>3. wk' \in Job /\ WkInv'
  BY <1>1, <1>2, Nothing DEF Job, WkInv
<1> QED BY <1>1, <1>3, WorkerStep

\* The chargeback is written, and closed when the bank closed it and the payment was frozen.
LEMMA SyncFromProviderInv == ASSUME IInv, sync_from_provider PROVE IInv'
<1> DEFINE new == db.dispute[wk.id] = "NONE"
           e == [db EXCEPT !.dispute[wk.id] = wk.st, !.pay = IF new /\ @ \in REFUNDABLE THEN "DISPUTED" ELSE @]
<1>1. /\ wk.pc = "dispute" /\ PaymentFree /\ wk' = Idle /\ UNCHANGED <<prov, bank, tx>>
      /\ \/ db' = e
         \/ e.pay = "DISPUTED" /\ db' = mark_dispute_closed(e)
         \/ e.pay = "DISPUTED" /\ \E reversed \in BOOLEAN : db' = charge_back(e, bank[wk.id].amount, reversed)
  BY DEF sync_from_provider
<1>2. wk.id \in Disputes /\ wk.st \in DisputeStatus \cup {"NONE"} /\ bank[wk.id].amount \in Nat /\ RowInv(db, prov)
  BY <1>1, CapturedPos DEF IInv, WkInv, TypeOK, Job, Cents
<1> HIDE DEF new
<1>3. RowInv(e, prov)
  BY <1>2, DisputedRow
<1> HIDE DEF e
<1>4. RowInv(db', prov)
  <2>1. CASE e.pay = "DISPUTED" /\ db' = mark_dispute_closed(e)
    BY <2>1, <1>3, ClosedRow
  <2>2. CASE e.pay = "DISPUTED" /\ \E reversed \in BOOLEAN : db' = charge_back(e, bank[wk.id].amount, reversed)
    BY <2>2, <1>2, <1>3, ChargeBackRow
  <2> QED BY <2>1, <2>2, <1>1, <1>3
<1> QED BY <1>1, <1>4, RowStep

LEMMA SubmitEvidenceInv == ASSUME IInv, NEW c \in Disputes, submit_evidence(c) PROVE IInv'
<1>1. /\ bank' = [bank EXCEPT ![c].st = "UNDER_REVIEW"] /\ db' = [db EXCEPT !.dispute[c] = "UNDER_REVIEW"]
      /\ UNCHANGED <<prov, tx, wk>>
  BY DEF submit_evidence
<1>2. bank' \in [Disputes -> [st : DisputeStatus \cup {"NONE"}, amount : Cents]]
  BY <1>1, OrderIsOpen DEF DisputeStatus
<1>3. [db.dispute EXCEPT ![c] = "UNDER_REVIEW"] \in [Disputes -> DisputeStatus \cup {"NONE"}]
  BY RowFields DEF IInv, TypeOK, DisputeStatus
<1>4. /\ db'.pay = db.pay /\ db'.refunded = db.refunded /\ db'.order = db.order /\ db'.refund = db.refund
      /\ db'.review = db.review /\ db'.ledger = db.ledger /\ db' \in Row
  BY <1>1, <1>3 DEF IInv, TypeOK, Row
<1>5. Open(db') = Open(db)
  BY <1>4 DEF Open
<1>6. RowInv(db', prov)
  BY <1>4, <1>5, OrderIsOpen DEF RowInv, Books, OneOpen, ClosedByReturn, Confirmed
<1> QED BY <1>1, <1>2, <1>4, <1>5, <1>6, BesideTx

LEMMA ProviderStepInv == ASSUME IInv, NEW r \in All, provider_step(r) PROVE IInv'
<1>1. PICK st \in {"succeeded", "failed", "reverted"} :
        /\ <<prov[r].st, st>> \in provider_refund_moves /\ prov' = [prov EXCEPT ![r].st = st]
        /\ UNCHANGED <<db, bank, tx, wk>>
  BY DEF provider_step
<1>2. prov \in [All -> ProviderRefund]
  BY DEF IInv, TypeOK
<1>3. prov' \in [All -> ProviderRefund]
  BY <1>1, <1>2 DEF ProviderRefund
<1>4. PaidStays(prov, prov')
  BY <1>1, <1>2 DEF PaidStays, provider_refund_moves, ProviderRefund
<1> QED BY <1>1, <1>3, <1>4, ProviderStep

LEMMA RefundOutsideAppInv == ASSUME IInv, NEW r \in All, refund_outside_app(r) PROVE IInv'
<1>1. PICK amount \in Amounts \cap Cents :
        /\ prov[r].st = "none" /\ prov' = [prov EXCEPT ![r] = [st |-> "succeeded", amount |-> amount]]
        /\ UNCHANGED <<db, bank, tx, wk>>
  BY DEF refund_outside_app
<1>2. prov \in [All -> ProviderRefund] /\ [st |-> "succeeded", amount |-> amount] \in ProviderRefund
  BY DEF IInv, TypeOK, ProviderRefund
<1>3. prov' \in [All -> ProviderRefund] /\ PaidStays(prov, prov')
  BY <1>1, <1>2 DEF PaidStays
<1> QED BY <1>1, <1>3, ProviderStep

LEMMA BankInv == ASSUME IInv, NEW c \in Disputes, open_dispute(c) \/ close_dispute(c) PROVE IInv'
<1>1. UNCHANGED <<db, prov, tx, wk>>
  BY DEF open_dispute, close_dispute
<1>2. bank' \in [Disputes -> [st : DisputeStatus \cup {"NONE"}, amount : Cents]]
  BY OrderIsOpen DEF open_dispute, close_dispute, DisputeStatus
<1> QED BY <1>1, <1>2, OrderIsOpen, BesideTx

-------------------------------------------------------------------------------
(* The invariant and what it shows.                                        *)

\* The payment has just been collected and its parts are in their accounts.
LEMMA InitInv == Init => IInv
<1> SUFFICES ASSUME Init PROVE IInv
  OBVIOUS
<1> DEFINE L == [a \in Account |->
                   CASE a = "CUSTOMER" -> -Captured [] a = "TECHNICIAN_PAYABLE" -> Technician
                     [] a = "PLATFORM_REVENUE" -> Commission [] a = "VAT_PAYABLE" -> Vat
                     [] a = "TAX_WITHHELD" -> Withholding [] a = "REFUNDS" -> 0]
           F == [r \in All |-> NoRefund]
           D == [c \in Disputes |-> "NONE"]
<1>1. db = [pay |-> "PAID", refunded |-> 0, order |-> "READY_FOR_REVIEW", review |-> "none",
            refund |-> F, dispute |-> D, ledger |-> L]
  BY Zenon DEF Init
<1>2. /\ L \in [Account -> Int] /\ L["CUSTOMER"] = -Captured /\ L["REFUNDS"] = 0
      /\ \A a \in Parties : L[a] = Part(a)
  <2>1. /\ L["CUSTOMER"] = -Captured /\ L["REFUNDS"] = 0 /\ L["TECHNICIAN_PAYABLE"] = Technician
        /\ L["PLATFORM_REVENUE"] = Commission /\ L["VAT_PAYABLE"] = Vat /\ L["TAX_WITHHELD"] = Withholding
    BY DEF Account
  <2>2. \A a \in Account : L[a] \in Int
    <3> HIDE DEF L
    <3> QED BY <2>1, CapturedPos, SplitAssumption DEF Account
  <2>3. L \in [Account -> Int]
    BY <2>2
  <2> HIDE DEF L
  <2> QED BY <2>1, <2>3 DEF Parties, Part
<1> HIDE DEF L
<1>3. /\ db.pay = "PAID" /\ db.refunded = 0 /\ db.order = "READY_FOR_REVIEW" /\ db.review = "none"
      /\ db.refund = F /\ db.dispute = D /\ db.ledger = L
  BY <1>1
<1>4. Balanced(db.ledger) /\ Returned(db.ledger) = 0
  <2>1. Returned(db.ledger) = 0
    BY <1>3, <1>2, CapturedPos DEF Returned
  <2>2. \A a \in Parties : Part(a) \in Nat
    BY SplitAssumption DEF Parties, Part
  <2>3. \A n \in Nat : (n - n) * Captured <= n * 0
    BY CapturedPos
  <2> QED BY <2>1, <2>2, <2>3, <1>3, <1>2, CapturedPos DEF Balanced
<1>5. db \in Row
  <2>1. db.refund \in [All -> RefundRow] /\ db.refunded \in Cents
    BY <1>3, Nothing, CapturedPos DEF Cents
  <2>2. db.ledger \in [Account -> -Captured..Captured]
    BY <1>4, BalancedType
  <2>3. db.dispute \in [Disputes -> DisputeStatus \cup {"NONE"}]
    BY <1>3
  <2> QED BY <1>1, <1>3, <2>1, <2>2, <2>3 DEF Row
<1>6. Open(db) = {}
  BY <1>3 DEF Open, OPEN, NoRefund
<1>7. RowInv(db, prov)
  BY <1>3, <1>4, <1>5, <1>6, CapturedPos DEF RowInv, Books, OneOpen, ClosedByReturn, Confirmed, NoRefund
<1>8. TypeOK
  <2>1. /\ prov = [r \in All |-> NoneYet] /\ bank = [c \in Disputes |-> [st |-> "NONE", amount |-> 0]]
        /\ tx = NoTx /\ wk = Idle
    BY Zenon DEF Init
  <2>2. 0 \in Cents
    BY CapturedPos DEF Cents
  <2> QED BY <2>1, <2>2, <1>5, Nothing DEF TypeOK
<1>9. TxInv /\ WkInv
  BY DEF Init, TxInv, WkInv, NoTx, Idle
<1> QED BY <1>7, <1>8, <1>9 DEF IInv

LEMMA NextInv == IInv /\ [Next]_vars => IInv'
<1> SUFFICES ASSUME IInv, [Next]_vars PROVE IInv'
  OBVIOUS
<1>1. CASE Refunding
  BY <1>1, RequestByClientInv, CreateRefundInv, ResolvePartialInv, ResolveFullInv, RetryApprovedInv, RejectInv,
     ApproveInv, CommitInv, AbortInv DEF Refunding
<1>2. CASE OrderSteps
  BY <1>2, ReviewInv, DisputeInv, ResolveReleaseInv, ResolveFullUnpaidInv DEF OrderSteps
<1>3. CASE Events
  BY <1>3, WebhookFetchInv, FindInv, OnRefundInv, RecordOutsideAppInv, WebhookDroppedInv, DisputeFetchInv,
     SubmitEvidenceInv, SyncFromProviderInv DEF Events
<1>4. CASE External
  BY <1>4, ProviderStepInv, RefundOutsideAppInv, BankInv DEF External
<1>5. CASE UNCHANGED vars
  BY <1>5 DEF vars, IInv, TypeOK, RowInv, Books, OneOpen, ClosedByReturn, Confirmed, TxInv, WkInv, Open
<1> QED BY <1>1, <1>2, <1>3, <1>4, <1>5 DEF Next

\* IInv holds in every reachable state.
THEOREM Invariance == Spec => []IInv
BY InitInv, NextInv, PTL DEF Spec

\* Rows, provider and bank records and work in flight keep their types; among them, no ledger
\* account ever leaves the range of the charge.
THEOREM TypeCorrect == Spec => []TypeOK
<1>1. IInv => TypeOK
  BY DEF IInv
<1> QED BY <1>1, Invariance, PTL

\* The client is never given back more than was collected, by refunds and chargebacks together
\* (refunds._succeed, disputes._charge_back), in any order and with any event repeated.
THEOREM ReturnsAreBounded == Spec => []NeverOverReturned
<1>1. IInv => NeverOverReturned
  BY CapturedPos DEF IInv, RowInv, Books, Balanced, Returned, NeverOverReturned, Account
<1> QED BY <1>1, Invariance, PTL

\* No party gives back more than the charge gave it (refunds.allocate rounds every share down),
\* for any split of the charge and any sequence of partial refunds and of a chargeback.
THEOREM PartiesAreSafe == Spec => []PartiesNeverOwe
<1>1. IInv => PartiesNeverOwe
  BY DEF IInv, RowInv, Books, Balanced, PartiesNeverOwe, Parties
<1> QED BY <1>1, Invariance, PTL

\* A refund booked as succeeded did succeed at the provider: neither a stale event nor an answer
\* that was lost books one that did not.
THEOREM BookedWasReturned == Spec => []BookedIsReturned
<1>1. IInv => BookedIsReturned
  BY DEF IInv, RowInv, Confirmed, BookedIsReturned
<1> QED BY <1>1, Invariance, PTL

\* Once everything was returned the order is closed for good and its rating is not public.
THEOREM FullReturnCloses == Spec => []FullReturnClosesOrder
<1>1. IInv => FullReturnClosesOrder
  BY DEF IInv, RowInv, ClosedByReturn, FullReturnClosesOrder
<1> QED BY <1>1, Invariance, PTL

-------------------------------------------------------------------------------
(* A chargeback that was lost has been booked.  With one chargeback the     *)
(* payment stays frozen until it is closed; with two, winning one would     *)
(* reopen the payment under the other.                                      *)

\* What is known here of a chargeback, what the worker carries and the bank's record agree once the
\* chargeback is closed; while it is open, the payment cannot be paid out.
ChargebackInv ==
  /\ \A c \in Disputes : db.dispute[c] \in {"WON", "LOST"} => bank[c].st = db.dispute[c]
  /\ wk.pc = "dispute" =>
       /\ wk.st # "NONE" /\ (wk.st \in {"WON", "LOST"} => bank[wk.id].st = wk.st)
       /\ db.dispute[wk.id] \in {"WON", "LOST"} => wk.st = db.dispute[wk.id]
  /\ \A c \in Disputes : db.dispute[c] \in {"NEEDS_RESPONSE", "UNDER_REVIEW"} =>
       db.pay \in {"DISPUTED", "REFUNDED", "CHARGED_BACK"}
  /\ \A c \in Disputes : db.dispute[c] = "LOST" => db.pay \in {"REFUNDED", "CHARGED_BACK"}

\* A payment changes only by its refunds, and no chargeback does.
RefundsOnly(d, e) ==
  /\ e.dispute = d.dispute
  /\ e.pay = d.pay \/ (d.pay \in {"PAID", "PARTIALLY_REFUNDED"} /\ e.pay \in {"REFUNDED", "PARTIALLY_REFUNDED"})

Quiet == RefundsOnly(db, db') /\ bank' = bank /\ (wk' = wk \/ wk'.pc # "dispute")

LEMMA QuietInv == ASSUME ChargebackInv, Quiet PROVE ChargebackInv'
BY DEF ChargebackInv, Quiet, RefundsOnly

\* Creating, signing and settling refunds leaves the chargebacks alone.
LEMMA RefundingQuiet == ASSUME IInv, Refunding PROVE Quiet
<1>0. db \in Row /\ RowInv(db, prov)
  BY DEF IInv, TypeOK
<1>1. ASSUME db' = db, bank' = bank, wk' = wk PROVE Quiet
  BY <1>1 DEF Quiet, RefundsOnly
<1>2. ASSUME NEW op, NEW r, NEW row, NEW after, execute(op, r, row, after) PROVE Quiet
  BY <1>2, <1>1 DEF execute
<1>3. ASSUME NEW r, request_by_client(r) PROVE Quiet
  <2>1. PICK row : db' = [db EXCEPT !.refund[r] = row] /\ UNCHANGED <<bank, wk>>
    BY <1>3 DEF request_by_client
  <2>2. db'.pay = db.pay /\ db'.dispute = db.dispute
    BY <2>1, <1>0 DEF Row
  <2> QED BY <2>1, <2>2 DEF Quiet, RefundsOnly
<1>4. ASSUME NEW r, NEW who, NEW amount, NEW fault, NEW after, create_by_finance(r, who, amount, fault, after) PROVE Quiet
  <2>1. \/ \E row : db' = transition([db EXCEPT !.refund[r] = row], after) /\ UNCHANGED <<bank, wk>>
        \/ \E row : execute("create", r, row, after)
    BY <1>4 DEF create_by_finance
  <2>2. ASSUME NEW row, db' = transition([db EXCEPT !.refund[r] = row], after), UNCHANGED <<bank, wk>> PROVE Quiet
    <3>1. db'.pay = db.pay /\ db'.dispute = db.dispute
      BY <2>2, <1>0 DEF Row, transition
    <3> QED BY <2>2, <3>1 DEF Quiet, RefundsOnly
  <2> QED BY <2>1, <2>2, <1>2
<1>5. ASSUME NEW r, create_refund(r) \/ resolve_partial(r) \/ resolve_full(r) PROVE Quiet
  BY <1>5, <1>4 DEF create_refund, resolve_partial, resolve_full
<1>6. ASSUME NEW r \in All, NEW s, db' = [db EXCEPT !.refund[r].status = s], UNCHANGED <<bank, wk>> PROVE Quiet
  <2>1. db'.pay = db.pay /\ db'.dispute = db.dispute
    BY <1>6, <1>0 DEF Row
  <2> QED BY <2>1, <1>6 DEF Quiet, RefundsOnly
<1>7. ASSUME NEW r \in All, retry_approved(r) PROVE Quiet
  BY <1>7, <1>2, <1>6 DEF retry_approved, _fail
<1>8. ASSUME NEW r \in All, reject(r) PROVE Quiet
  BY <1>8, <1>6 DEF reject
<1>9. ASSUME NEW r \in All, NEW who, approve(r, who) PROVE Quiet
  BY <1>9, <1>2 DEF approve
<1>10. CASE commit
  <2> DEFINE e == [db EXCEPT !.refund[tx.r] = tx.row]
             f == settle(e, tx.r, tx.ans)
  <2>1. tx.op # "none" /\ db' = transition(f, tx.after) /\ UNCHANGED <<prov, bank, wk>>
    BY <1>10 DEF commit
  <2>2. /\ tx.r \in All /\ db.pay \in REFUNDABLE /\ Open(db) \subseteq {tx.r}
        /\ tx.row.status = "APPROVED" /\ 0 < tx.row.amount /\ tx.row.amount <= Captured - db.refunded
        /\ tx.ans = "succeeded" => prov[tx.r].st \in {"succeeded", "reverted"}
    BY <2>1 DEF IInv, TxInv
  <2>3. tx.row \in RefundRow /\ tx.ans \in Answer
    BY DEF IInv, TypeOK, Tx
  <2>4. RowInv(e, prov) /\ e.pay = db.pay /\ e.dispute = db.dispute
    BY <2>2, <2>3, <1>0, RefundRowWritten
  <2> HIDE DEF e
  <2>5. RowInv(f, prov) /\ RefundsOnly(e, f)
    <3>1. e.pay \in Bookable
      BY <2>2, <2>4 DEF Bookable, REFUNDABLE, PAYMENT_CONFIRMED
    <3> QED BY <3>1, <2>2, <2>3, <2>4, SettleRow DEF RefundsOnly
  <2> HIDE DEF f
  <2>6. db'.pay = f.pay /\ db'.dispute = f.dispute
    BY <2>1, <2>5 DEF transition, Row, RowInv
  <2> QED BY <2>1, <2>4, <2>5, <2>6 DEF Quiet, RefundsOnly
<1>11. CASE abort
  BY <1>11, <1>1 DEF abort
<1> QED BY <1>3, <1>5, <1>7, <1>8, <1>9, <1>10, <1>11 DEF Refunding

LEMMA OrderQuiet == ASSUME IInv, OrderSteps PROVE Quiet
<1>0. db \in Row
  BY DEF IInv, TypeOK
<1>1. /\ \/ db' = [db EXCEPT !.order = "REVIEWED", !.review = "public"]
         \/ \E to : db' = transition(db, to)
      /\ UNCHANGED <<bank, wk>>
  BY DEF OrderSteps, review, dispute, resolve_release, resolve_full_unpaid
<1>2. db'.pay = db.pay /\ db'.dispute = db.dispute
  BY <1>0, <1>1 DEF transition, Row
<1> QED BY <1>1, <1>2 DEF Quiet, RefundsOnly

\* The events of refunds.
LEMMA RefundEventsQuiet ==
  ASSUME IInv,
         \/ \E r \in All : webhook_fetch(r)
         \/ _find \/ _on_refund \/ _record_outside_app \/ webhook_refused \/ webhook_crashes
  PROVE  Quiet
<1>0. RowInv(db, prov)
  BY DEF IInv
<1>1. CASE \E r \in All : webhook_fetch(r)
  BY <1>1 DEF webhook_fetch, Quiet, RefundsOnly
<1>2. CASE _find
  <2>1. /\ wk' = [wk EXCEPT !.pc = IF db.refund[wk.id].status = "NONE" THEN "unknown" ELSE "found"]
        /\ UNCHANGED <<db, bank>>
    BY <1>2 DEF _find
  <2>2. wk'.pc # "dispute"
    BY <2>1 DEF IInv, TypeOK, Job
  <2> QED BY <2>1, <2>2 DEF Quiet, RefundsOnly
<1>3. CASE webhook_refused \/ webhook_crashes
  BY <1>3 DEF webhook_refused, webhook_crashes, Quiet, RefundsOnly, Idle
<1>4. ASSUME NEW d, RowInv(d, prov), d.pay = db.pay, d.dispute = db.dispute, wk.id \in All,
             wk.view.st = "succeeded" => prov[wk.id].st \in {"succeeded", "reverted"},
             wk.view.st = "succeeded" /\ d.refund[wk.id].status \in {"APPROVED", "PENDING"} => d.pay \in Bookable,
             db' = apply_provider_refund(d, wk.id, wk.view.st), wk' = Idle, bank' = bank
      PROVE  Quiet
  <2>1. RefundsOnly(d, db')
    BY <1>4, ApplyRow DEF RefundsOnly
  <2> QED BY <2>1, <1>4 DEF Quiet, RefundsOnly, Idle
<1>5. CASE _on_refund
  <2>1. /\ wk.pc = "found" /\ ~unbookable /\ db' = apply_provider_refund(db, wk.id, wk.view.st)
        /\ wk' = Idle /\ bank' = bank
    BY <1>5 DEF _on_refund
  <2>2. wk.id \in All /\ (wk.view.st = "succeeded" => prov[wk.id].st \in {"succeeded", "reverted"})
    BY <2>1 DEF IInv, WkInv
  <2>3. wk.view.st = "succeeded" /\ db.refund[wk.id].status \in {"APPROVED", "PENDING"} => db.pay \in Bookable
    BY <2>1, <2>2, BookableWhenBooked
  <2> QED BY <2>1, <2>2, <2>3, <1>0, <1>4
<1>6. CASE _record_outside_app
  <2> DEFINE row == [status |-> "APPROVED", amount |-> outside_amount, fault |-> FALSE, by |-> Nobody, signer |-> Nobody]
             e == [db EXCEPT !.refund[wk.id] = row]
  <2>1. /\ wk.pc = "unknown" /\ recordable /\ db' = apply_provider_refund(e, wk.id, wk.view.st)
        /\ wk' = Idle /\ bank' = bank
    BY <1>6 DEF _record_outside_app
  <2>2. /\ wk.id \in All /\ (wk.view.st = "succeeded" => prov[wk.id].st \in {"succeeded", "reverted"})
        /\ db.pay \in REFUNDABLE
    BY <2>1 DEF IInv, WkInv, recordable
  <2>3. RowInv(e, prov) /\ e.pay = db.pay /\ e.dispute = db.dispute
    BY <2>1, <2>2, OutsideRow
  <2> HIDE DEF e
  <2>4. e.pay \in Bookable
    BY <2>2, <2>3 DEF Bookable, REFUNDABLE, PAYMENT_CONFIRMED
  <2> QED BY <2>1, <2>2, <2>3, <2>4, <1>4
<1> QED BY <1>1, <1>2, <1>3, <1>5, <1>6

LEMMA DisputeFetchKnown == ASSUME IInv, ChargebackInv, NEW c \in Disputes, dispute_fetch(c) PROVE ChargebackInv'
BY DEF dispute_fetch, ChargebackInv

\* Only here the chargebacks are told apart: closing the only one there is leaves none open.
LEMMA SyncKnown ==
  ASSUME \A b, c \in Disputes : b = c, IInv, ChargebackInv, sync_from_provider
  PROVE  ChargebackInv'
<1> DEFINE new == db.dispute[wk.id] = "NONE"
           e == [db EXCEPT !.dispute[wk.id] = wk.st, !.pay = IF new /\ @ \in REFUNDABLE THEN "DISPUTED" ELSE @]
<1>1. /\ wk.pc = "dispute" /\ wk' = Idle /\ UNCHANGED <<prov, bank, tx>>
      /\ \/ wk.st \notin {"WON", "LOST"} /\ db' = e
         \/ wk.st \in {"WON", "LOST"} /\ e.pay # "DISPUTED" /\ db' = e
         \/ wk.st = "WON" /\ e.pay = "DISPUTED" /\ db' = mark_dispute_closed(e)
         \/ /\ wk.st = "LOST" /\ e.pay = "DISPUTED"
            /\ \E reversed \in BOOLEAN : db' = charge_back(e, bank[wk.id].amount, reversed)
  BY DEF sync_from_provider
<1>2. /\ wk.id \in Disputes /\ wk.st \in DisputeStatus \cup {"NONE"} /\ bank[wk.id].amount \in Nat
      /\ RowInv(db, prov) /\ db.dispute \in [Disputes -> DisputeStatus \cup {"NONE"}]
  BY <1>1, CapturedPos, RowFields DEF IInv, WkInv, TypeOK, Job, Cents
<1>3. \A c \in Disputes : c = wk.id
  BY <1>2
<1>4. /\ wk.st # "NONE" /\ (wk.st \in {"WON", "LOST"} => bank[wk.id].st = wk.st)
      /\ db.dispute[wk.id] \in {"WON", "LOST"} => wk.st = db.dispute[wk.id]
  BY <1>1 DEF ChargebackInv
<1> HIDE DEF new
<1>5. /\ RowInv(e, prov) /\ e.dispute = [db.dispute EXCEPT ![wk.id] = wk.st]
      /\ e.pay = IF new /\ db.pay \in REFUNDABLE THEN "DISPUTED" ELSE db.pay
  <2>1. RowInv(e, prov)
    BY <1>2, DisputedRow
  <2>2. /\ e.dispute = [db.dispute EXCEPT ![wk.id] = wk.st]
        /\ e.pay = IF new /\ db.pay \in REFUNDABLE THEN "DISPUTED" ELSE db.pay
    BY <1>2 DEF RowInv, Row
  <2> QED BY <2>1, <2>2
<1> HIDE DEF e
<1>6. e.dispute[wk.id] = wk.st
  BY <1>2, <1>5
<1>7. db'.dispute = e.dispute
  <2>1. CASE e.pay = "DISPUTED" /\ db' = mark_dispute_closed(e)
    BY <2>1, <1>5, ClosedRow
  <2>2. CASE e.pay = "DISPUTED" /\ \E reversed \in BOOLEAN : db' = charge_back(e, bank[wk.id].amount, reversed)
    BY <2>2, <1>2, <1>5, ChargeBackRow
  <2> QED BY <2>1, <2>2, <1>1
<1>8. wk.st \in {"NEEDS_RESPONSE", "UNDER_REVIEW"} => db'.pay \in {"DISPUTED", "REFUNDED", "CHARGED_BACK"}
  <2> SUFFICES ASSUME wk.st \in {"NEEDS_RESPONSE", "UNDER_REVIEW"} PROVE db'.pay \in {"DISPUTED", "REFUNDED", "CHARGED_BACK"}
    OBVIOUS
  <2>1. db' = e
    BY <1>1
  <2>2. CASE new
    BY <2>1, <2>2, <1>2, <1>5, RowFields DEF RowInv, REFUNDABLE, PAYMENT_CONFIRMED
  <2>3. CASE ~new
    <3>1. db.dispute[wk.id] \in {"NEEDS_RESPONSE", "UNDER_REVIEW"}
      BY <2>3, <1>2, <1>4 DEF new, DisputeStatus
    <3> QED BY <3>1, <2>1, <2>3, <1>2, <1>5 DEF ChargebackInv
  <2> QED BY <2>2, <2>3
<1>9. wk.st = "LOST" => db'.pay \in {"REFUNDED", "CHARGED_BACK"}
  <2> SUFFICES ASSUME wk.st = "LOST" PROVE db'.pay \in {"REFUNDED", "CHARGED_BACK"}
    OBVIOUS
  <2>1. CASE e.pay = "DISPUTED"
    BY <2>1, <1>1, <1>2, <1>5, ChargeBackRow
  <2>2. CASE e.pay # "DISPUTED"
    <3>1. db' = e
      BY <2>2, <1>1
    <3>2. CASE new
      BY <3>1, <3>2, <2>2, <1>2, <1>5, RowFields DEF RowInv, REFUNDABLE, PAYMENT_CONFIRMED
    <3>3. CASE ~new
      <4>1. db.dispute[wk.id] \in {"NEEDS_RESPONSE", "UNDER_REVIEW", "LOST"}
        BY <3>3, <1>2, <1>4 DEF new, DisputeStatus
      <4> QED BY <4>1, <3>1, <3>3, <2>2, <1>2, <1>5 DEF ChargebackInv
    <3> QED BY <3>2, <3>3
  <2> QED BY <2>1, <2>2
<1> QED BY <1>1, <1>3, <1>4, <1>6, <1>7, <1>8, <1>9 DEF ChargebackInv, Idle

LEMMA SubmitEvidenceKnown ==
  ASSUME IInv, ChargebackInv, NEW c \in Disputes, submit_evidence(c) PROVE ChargebackInv'
<1>1. /\ db.dispute[c] = "NEEDS_RESPONSE" /\ bank[c].st \in {"NEEDS_RESPONSE", "UNDER_REVIEW"}
      /\ bank' = [bank EXCEPT ![c].st = "UNDER_REVIEW"] /\ db' = [db EXCEPT !.dispute[c] = "UNDER_REVIEW"]
      /\ wk' = wk
  BY DEF submit_evidence
<1>2. /\ db'.pay = db.pay /\ db'.dispute = [db.dispute EXCEPT ![c] = "UNDER_REVIEW"]
      /\ db.dispute \in [Disputes -> DisputeStatus \cup {"NONE"}]
      /\ bank \in [Disputes -> [st : DisputeStatus \cup {"NONE"}, amount : Cents]]
      /\ wk.pc = "dispute" => wk.id \in Disputes
  BY <1>1 DEF IInv, TypeOK, Row, WkInv
<1>3. \A b \in Disputes : /\ db'.dispute[b] = IF b = c THEN "UNDER_REVIEW" ELSE db.dispute[b]
                          /\ bank'[b].st = IF b = c THEN "UNDER_REVIEW" ELSE bank[b].st
  BY <1>1, <1>2
<1> QED BY <1>1, <1>2, <1>3 DEF ChargebackInv

\* The bank never changes its mind on a chargeback it closed.
LEMMA BankKnown ==
  ASSUME IInv, ChargebackInv, NEW c \in Disputes, open_dispute(c) \/ close_dispute(c) PROVE ChargebackInv'
<1>1. /\ bank[c].st \in {"NONE", "NEEDS_RESPONSE", "UNDER_REVIEW"} /\ UNCHANGED <<db, wk>>
      /\ \A b \in Disputes : b # c => bank'[b] = bank[b]
  <2>1. bank \in [Disputes -> [st : DisputeStatus \cup {"NONE"}, amount : Cents]]
    BY DEF IInv, TypeOK
  <2> QED BY <2>1 DEF open_dispute, close_dispute
<1>2. wk.pc = "dispute" => wk.id \in Disputes
  BY DEF IInv, WkInv
<1> QED BY <1>1, <1>2 DEF ChargebackInv

LEMMA ChargebackNext ==
  ASSUME \A b, c \in Disputes : b = c, IInv, ChargebackInv, [Next]_vars
  PROVE  ChargebackInv'
<1>1. CASE Refunding \/ OrderSteps
  BY <1>1, RefundingQuiet, OrderQuiet, QuietInv
<1>2. CASE Events
  BY <1>2, RefundEventsQuiet, QuietInv, DisputeFetchKnown, SubmitEvidenceKnown, SyncKnown DEF Events
<1>3. CASE \E r \in All : provider_step(r) \/ refund_outside_app(r)
  <2>1. Quiet
    BY <1>3 DEF provider_step, refund_outside_app, Quiet, RefundsOnly
  <2> QED BY <2>1, QuietInv
<1>4. CASE \E c \in Disputes : open_dispute(c) \/ close_dispute(c)
  BY <1>4, BankKnown
<1>5. CASE UNCHANGED vars
  BY <1>5, QuietInv DEF vars, Quiet, RefundsOnly
<1> QED BY <1>1, <1>2, <1>3, <1>4, <1>5 DEF Next, External

\* A chargeback known to be lost has been booked, unless everything had been refunded, for a payment
\* with one chargeback, whatever refunds and stale events it meets (disputes.sync_from_provider).
THEOREM LostIsBooked ==
  ASSUME \A b, c \in Disputes : b = c
  PROVE  Spec => []LostIsChargedBack
<1>1. Init => ChargebackInv
  <2> SUFFICES ASSUME Init PROVE ChargebackInv
    OBVIOUS
  <2>1. \A c \in Disputes : db.dispute[c] = "NONE"
    BY DEF Init
  <2>2. wk.pc = "idle"
    BY DEF Init, Idle
  <2> QED BY <2>1, <2>2 DEF ChargebackInv
<1>2. IInv /\ ChargebackInv /\ [Next]_vars => ChargebackInv'
  BY ChargebackNext
<1>3. ChargebackInv => LostIsChargedBack
  BY DEF ChargebackInv, LostIsChargedBack
<1> QED BY <1>1, <1>2, <1>3, Invariance, PTL DEF Spec

-------------------------------------------------------------------------------
(* Sums of amounts.  MapThenSumSet is a recursive function on the subsets  *)
(* of a finite set: its equation and the order of its terms are proved by  *)
(* looking at a smallest set for which they would fail.                    *)

pick(s) == CHOOSE x \in s : TRUE
AmountSum(rf, S) == MapThenSumSet(LAMBDA r : rf[r].amount, S)

\* g is the sum for every subset of S.
Adds(g, rf, S) == \A s \in SUBSET S : g[s] = IF s = {} THEN 0 ELSE rf[pick(s)].amount + g[s \ {pick(s)}]

\* Among sets of refunds there is a smallest one.
LEMMA Smallest ==
  ASSUME NEW S, IsFiniteSet(S), NEW T \in SUBSET (SUBSET S), T # {}
  PROVE  \E m \in T : \A u \in T : u \subseteq m => u = m
<1> DEFINE R == StrictSubsetOrdering(S)
<1>1. IsWellFoundedOn(R, SUBSET S)
  BY FS_StrictSubsetOrderingWellFounded, FS_FiniteSubsetsOfFinite
<1>2. \A u, m \in SUBSET S : u \subseteq m /\ u # m => <<u, m>> \in R
  BY DEF StrictSubsetOrdering
<1> HIDE DEF R
<1>3. PICK m \in T : \A u \in T : <<u, m>> \notin R
  BY <1>1, WFMin
<1> QED BY <1>2, <1>3

\* A set that is not empty has the element the sum takes first.
LEMMA Picked == ASSUME NEW s, s # {} PROVE pick(s) \in s
BY DEF pick

\* Two sums of the same amounts agree, whatever else they add.
LEMMA SameSum ==
  ASSUME NEW S, IsFiniteSet(S), NEW Z, S \subseteq Z, NEW f, NEW g, NEW rf, NEW rg, Adds(f, rf, S), Adds(g, rg, Z),
         \A r \in S : rf[r].amount = rg[r].amount
  PROVE  \A s \in SUBSET S : f[s] = g[s]
<1> DEFINE T == {s \in SUBSET S : f[s] # g[s]}
<1>0. T \in SUBSET (SUBSET S) /\ \A s \in SUBSET S : s \in T <=> f[s] # g[s]
  OBVIOUS
<1>1. SUFFICES ASSUME T # {} PROVE FALSE
  OBVIOUS
<1> HIDE DEF T
<1>2. PICK m \in T : \A u \in T : u \subseteq m => u = m
  BY <1>0, <1>1, Smallest
<1> DEFINE p == pick(m)
           u == m \ {p}
<1>3. m \in SUBSET S /\ m \in SUBSET Z /\ f[m] # g[m]
  BY <1>0
<1>4. m # {}
  BY <1>3 DEF Adds
<1>5. p \in m /\ u \in SUBSET S /\ u \subseteq m /\ u # m
  BY <1>3, <1>4, Picked
<1>6. f[m] = rf[p].amount + f[u] /\ g[m] = rg[p].amount + g[u]
  BY <1>3, <1>4 DEF Adds
<1> HIDE DEF u, p
<1>7. f[u] = g[u]
  BY <1>0, <1>2, <1>5
<1> QED BY <1>3, <1>5, <1>6, <1>7

\* The recursion of the sum has a solution: the sums of the smaller sets give the next one.
LEMMA SumExists ==
  ASSUME NEW S, IsFiniteSet(S), NEW rf
  PROVE  \E g : Adds(g, rf, S)
<1> DEFINE T == {s \in SUBSET S : ~ \E g : Adds(g, rf, s)}
<1>0. T \in SUBSET (SUBSET S) /\ \A s \in SUBSET S : s \in T <=> ~ \E g : Adds(g, rf, s)
  OBVIOUS
<1>1. SUFFICES ASSUME T # {} PROVE FALSE
  BY <1>0
<1> HIDE DEF T
<1>2. PICK m \in T : \A u \in T : u \subseteq m => u = m
  BY <1>0, <1>1, Smallest
<1>a. m \in SUBSET S /\ IsFiniteSet(m)
  BY <1>0, FS_Subset
<1> DEFINE w(u) == CHOOSE g : Adds(g, rf, u)
           h == [s \in SUBSET m |-> IF s = {} THEN 0 ELSE rf[pick(s)].amount + w(s \ {pick(s)})[s \ {pick(s)}]]
<1>3. ASSUME NEW u \in SUBSET m, u # m PROVE Adds(w(u), rf, u)
  <2>1. \E g : Adds(g, rf, u)
    BY <1>0, <1>2, <1>3, <1>a
  <2> QED BY <2>1
<1>4. \A s \in SUBSET m : h[s] = IF s = {} THEN 0 ELSE rf[pick(s)].amount + w(s \ {pick(s)})[s \ {pick(s)}]
  OBVIOUS
<1> HIDE DEF w, h
<1>5. ASSUME NEW u \in SUBSET m, u # m PROVE h[u] = w(u)[u]
  <2>1. Adds(w(u), rf, u)
    BY <1>3, <1>5
  <2>2. CASE u = {}
    BY <1>4, <2>1, <2>2 DEF Adds
  <2>3. CASE u # {}
    <3> DEFINE v == u \ {pick(u)}
    <3>1. pick(u) \in u
      BY <2>3, Picked
    <3>2. v \in SUBSET m /\ v # m /\ v \subseteq u /\ IsFiniteSet(v)
      BY <1>a, <3>1, FS_Subset
    <3>3. Adds(w(v), rf, v)
      BY <1>3, <3>2
    <3>4. h[u] = rf[pick(u)].amount + w(v)[v] /\ w(u)[u] = rf[pick(u)].amount + w(u)[v]
      BY <1>4, <2>1, <2>3 DEF Adds
    <3> HIDE DEF v
    <3>5. w(v)[v] = w(u)[v]
      BY <2>1, <3>2, <3>3, SameSum
    <3> QED BY <3>4, <3>5
  <2> QED BY <2>2, <2>3
<1>6. Adds(h, rf, m)
  <2> SUFFICES ASSUME NEW s \in SUBSET m PROVE h[s] = IF s = {} THEN 0 ELSE rf[pick(s)].amount + h[s \ {pick(s)}]
    BY DEF Adds
  <2>1. s # {} => pick(s) \in s
    BY Picked
  <2> DEFINE u == s \ {pick(s)}
  <2>2. s # {} => u \in SUBSET m /\ u # m
    BY <2>1
  <2>3. h[s] = IF s = {} THEN 0 ELSE rf[pick(s)].amount + w(u)[u]
    BY <1>4
  <2> HIDE DEF u
  <2>4. s # {} => h[u] = w(u)[u]
    BY <1>5, <2>2
  <2> QED BY <2>3, <2>4 DEF u
<1> QED BY <1>0, <1>6, <1>a

\* So the sum of the library is one.
LEMMA SumAdds ==
  ASSUME NEW S, IsFiniteSet(S), NEW rf
  PROVE  \E g : Adds(g, rf, S) /\ AmountSum(rf, S) = g[S]
<1> DEFINE Def(g) == [s \in SUBSET S |-> IF s = {} THEN 0 ELSE rf[CHOOSE x \in s : TRUE].amount + g[s \ {CHOOSE x \in s : TRUE}]]
           it == CHOOSE g : g = Def(g)
<1>1. AmountSum(rf, S) = it[S]
  BY DEF AmountSum, MapThenSumSet, MapThenFoldSet
<1>2. PICK g : Adds(g, rf, S)
  BY SumExists
<1> DEFINE k == [s \in SUBSET S |-> g[s]]
<1>3. k = Def(k)
  BY <1>2, Picked DEF Adds, pick
<1>4. it = Def(it)
  BY <1>3
<1>5. Adds(it, rf, S)
  BY <1>4 DEF Adds, pick
<1> QED BY <1>1, <1>5

\* The order in which the sum takes the refunds does not matter.
LEMMA AddsAny ==
  ASSUME NEW S, IsFiniteSet(S), NEW g, NEW rf, Adds(g, rf, S), \A r \in S : rf[r].amount \in Nat
  PROVE  \A s \in SUBSET S : g[s] \in Nat /\ \A r \in s : g[s] = rf[r].amount + g[s \ {r}]
<1> DEFINE Good(s) == g[s] \in Nat /\ \A r \in s : g[s] = rf[r].amount + g[s \ {r}]
           T == {s \in SUBSET S : ~Good(s)}
<1>0. T \in SUBSET (SUBSET S) /\ \A s \in SUBSET S : s \in T <=> ~Good(s)
  OBVIOUS
<1>1. SUFFICES ASSUME T # {} PROVE FALSE
  BY <1>0
<1> HIDE DEF T
<1>2. PICK m \in T : \A u \in T : u \subseteq m => u = m
  BY <1>0, <1>1, Smallest
<1> DEFINE p == pick(m)
<1>3. m \in SUBSET S /\ ~Good(m) /\ \A u \in SUBSET m : u # m => Good(u)
  BY <1>0, <1>2
<1>4. m # {}
  <2>1. g[{}] = 0
    BY DEF Adds
  <2>2. Good({})
    BY <2>1
  <2> HIDE DEF Good
  <2> QED BY <1>3, <2>2
<1>5. p \in m /\ g[m] = rf[p].amount + g[m \ {p}]
  BY <1>3, <1>4, Picked DEF Adds
<1> HIDE DEF p
<1>6. Good(m \ {p})
  BY <1>3, <1>5
<1>7. g[m] \in Nat
  BY <1>3, <1>5, <1>6
<1>8. ASSUME NEW r \in m, r # p PROVE g[m] = rf[r].amount + g[m \ {r}]
  <2>1. r \in m \ {p} /\ p \in m \ {r} /\ (m \ {p}) \ {r} = (m \ {r}) \ {p}
    BY <1>5, <1>8
  <2>2. g[m \ {p}] = rf[r].amount + g[(m \ {p}) \ {r}]
    BY <1>6, <2>1
  <2>3. Good(m \ {r})
    BY <1>3
  <2>4. g[m \ {r}] = rf[p].amount + g[(m \ {r}) \ {p}]
    BY <2>1, <2>3
  <2>5. Good((m \ {p}) \ {r})
    BY <1>3, <1>5, <2>1
  <2>6. g[(m \ {p}) \ {r}] \in Nat /\ rf[p].amount \in Nat /\ rf[r].amount \in Nat
    BY <1>3, <1>5, <2>5
  <2> DEFINE v == (m \ {p}) \ {r}
  <2>7. g[m] = rf[p].amount + (rf[r].amount + g[v]) /\ g[m \ {r}] = rf[p].amount + g[v] /\ g[v] \in Nat
    BY <1>5, <2>1, <2>2, <2>4, <2>6
  <2> HIDE DEF v
  <2> QED BY <2>6, <2>7
<1> QED BY <1>3, <1>5, <1>7, <1>8

\* Only the amounts matter.
LEMMA SumSame ==
  ASSUME NEW S, IsFiniteSet(S), NEW rf, NEW rg, \A r \in S : rf[r].amount = rg[r].amount
  PROVE  AmountSum(rf, S) = AmountSum(rg, S)
<1>1. PICK f : Adds(f, rf, S) /\ AmountSum(rf, S) = f[S]
  BY SumAdds
<1>2. PICK g : Adds(g, rg, S) /\ AmountSum(rg, S) = g[S]
  BY SumAdds
<1>3. \A s \in SUBSET S : f[s] = g[s]
  BY <1>1, <1>2, SameSum
<1> QED BY <1>1, <1>2, <1>3

LEMMA SumOfNone ==
  ASSUME NEW rf
  PROVE  AmountSum(rf, {}) = 0
<1>1. PICK f : Adds(f, rf, {}) /\ AmountSum(rf, {}) = f[{}]
  BY SumAdds, FS_EmptySet
<1> QED BY <1>1 DEF Adds

\* One refund more adds its amount.
LEMMA SumWith ==
  ASSUME NEW S, IsFiniteSet(S), NEW rf, \A q \in S : rf[q].amount \in Nat, NEW r \in S
  PROVE  AmountSum(rf, S) = rf[r].amount + AmountSum(rf, S \ {r}) /\ AmountSum(rf, S \ {r}) \in Nat
<1> DEFINE u == S \ {r}
<1>1. PICK f : Adds(f, rf, S) /\ AmountSum(rf, S) = f[S]
  BY SumAdds
<1>2. u \subseteq S /\ IsFiniteSet(u)
  BY FS_Subset
<1>3. PICK g : Adds(g, rf, u) /\ AmountSum(rf, u) = g[u]
  BY <1>2, SumAdds
<1>a. \A s \in SUBSET S : f[s] \in Nat /\ \A q \in s : f[s] = rf[q].amount + f[s \ {q}]
  BY <1>1, AddsAny
<1>4. f[S] = rf[r].amount + f[u] /\ f[u] \in Nat
  BY <1>a
<1> HIDE DEF u
<1>5. g[u] = f[u]
  BY <1>1, <1>2, <1>3, SameSum
<1> QED BY <1>1, <1>3, <1>4, <1>5 DEF u

-------------------------------------------------------------------------------
(* refunded_cents and the signatures, as sums over the refunds.            *)

Succeeded(d) == {r \in All : d.refund[r].status = "SUCCEEDED"}
Unsigned(d) ==
  {r \in All : d.refund[r].status = "SUCCEEDED" /\ d.refund[r].by # Nobody /\ d.refund[r].signer \notin High}

\* A refund finance sends without a high signature fits under the threshold with what was returned.
Small(d, row) == row.by # Nobody /\ row.signer \notin High => d.refunded + row.amount <= Threshold

SumsRow(d) ==
  /\ d.refunded = AmountSum(d.refund, Succeeded(d))
  /\ AmountSum(d.refund, Unsigned(d)) <= Threshold
  /\ AmountSum(d.refund, Unsigned(d)) <= d.refunded
  /\ \A r \in All : d.refund[r].status \in {"APPROVED", "PENDING"} => Small(d, d.refund[r])

TxSums == tx.op # "none" => db.refund[tx.r].status # "SUCCEEDED" /\ Small(db, tx.row)

SumsInv == SumsRow(db) /\ TxSums

LEMMA AllFinite == \A S \in SUBSET All : IsFiniteSet(S)
BY FS_Subset, IdsAssumption DEF All

\* Nothing more succeeds and nothing is returned.
LEMMA KeepsSums ==
  ASSUME NEW d \in Row, SumsRow(d), NEW e, e.refunded = d.refunded,
         \A q \in All : IF d.refund[q].status = "SUCCEEDED" THEN e.refund[q] = d.refund[q]
                        ELSE e.refund[q].status # "SUCCEEDED",
         \A q \in All : e.refund[q].status \in {"APPROVED", "PENDING"} => Small(e, e.refund[q])
  PROVE  SumsRow(e)
<1>1. Succeeded(e) = Succeeded(d) /\ Unsigned(e) = Unsigned(d)
  BY DEF Succeeded, Unsigned
<1>2. \A q \in Succeeded(d) \cup Unsigned(d) : d.refund[q].amount = e.refund[q].amount
  BY DEF Succeeded, Unsigned
<1>3. IsFiniteSet(Succeeded(d)) /\ IsFiniteSet(Unsigned(d))
  BY AllFinite DEF Succeeded, Unsigned
<1>4. /\ AmountSum(d.refund, Succeeded(d)) = AmountSum(e.refund, Succeeded(d))
      /\ AmountSum(d.refund, Unsigned(d)) = AmountSum(e.refund, Unsigned(d))
  BY <1>2, <1>3, SumSame
<1> QED BY <1>1, <1>4 DEF SumsRow

LEMMA SameSums ==
  ASSUME NEW d, SumsRow(d), NEW e, e.refund = d.refund, e.refunded = d.refunded
  PROVE  SumsRow(e)
BY DEF SumsRow, Succeeded, Unsigned, Small

\* The open refund succeeds.
LEMMA SucceedSums ==
  ASSUME NEW d \in Row, SumsRow(d), NEW r \in All, d.refund[r].status \in {"APPROVED", "PENDING"}, NEW e,
         e.refunded = d.refunded + d.refund[r].amount, Succeeds(d, e, r), Open(e) = {}
  PROVE  SumsRow(e)
<1>1. \A q \in All : /\ e.refund[q].status = IF q = r THEN "SUCCEEDED" ELSE d.refund[q].status
                     /\ e.refund[q].amount = d.refund[q].amount /\ e.refund[q].by = d.refund[q].by
                     /\ e.refund[q].signer = d.refund[q].signer
                     /\ d.refund[q].amount \in Nat
  BY RowFields DEF Succeeds
<1>2. Succeeded(e) \ {r} = Succeeded(d) /\ r \in Succeeded(e)
  BY <1>1 DEF Succeeded
<1>3. Unsigned(e) \ {r} = Unsigned(d)
  BY <1>1 DEF Unsigned
<1>4. Succeeded(e) \subseteq All /\ Unsigned(e) \subseteq All /\ Succeeded(d) \subseteq All /\ Unsigned(d) \subseteq All
  BY DEF Succeeded, Unsigned
<1>5. ASSUME NEW S \in SUBSET All PROVE AmountSum(e.refund, S) = AmountSum(d.refund, S)
  <2>1. IsFiniteSet(S) /\ \A q \in S : e.refund[q].amount = d.refund[q].amount
    BY <1>1, AllFinite
  <2> QED BY <2>1, SumSame
<1>6. \A S \in SUBSET All : \A q \in S :
        /\ AmountSum(e.refund, S) = e.refund[q].amount + AmountSum(e.refund, S \ {q})
        /\ AmountSum(e.refund, S \ {q}) \in Nat
  BY <1>1, AllFinite, SumWith
<1>7. e.refunded = AmountSum(e.refund, Succeeded(e))
  <2>1. AmountSum(e.refund, Succeeded(e)) = e.refund[r].amount + AmountSum(e.refund, Succeeded(d))
    BY <1>2, <1>4, <1>6
  <2>2. AmountSum(e.refund, Succeeded(d)) = d.refunded
    BY <1>4, <1>5 DEF SumsRow
  <2> QED BY <1>1, <2>1, <2>2, RowFields
<1>8. AmountSum(e.refund, Unsigned(e)) <= Threshold /\ AmountSum(e.refund, Unsigned(e)) <= e.refunded
  <2>1. AmountSum(e.refund, Unsigned(d)) <= Threshold /\ AmountSum(e.refund, Unsigned(d)) <= d.refunded
    BY <1>4, <1>5 DEF SumsRow
  <2>2. d.refunded \in Nat /\ d.refund[r].amount \in Nat /\ Threshold \in Nat
    BY RowFields, AmountsAssumption
  <2>3. CASE r \in Unsigned(e)
    <3>1. d.refunded + d.refund[r].amount <= Threshold
      BY <1>1, <2>3 DEF Unsigned, SumsRow, Small
    <3>2. /\ AmountSum(e.refund, Unsigned(e)) = d.refund[r].amount + AmountSum(e.refund, Unsigned(d))
          /\ AmountSum(e.refund, Unsigned(d)) \in Nat
      BY <1>1, <1>3, <1>4, <1>6, <2>3
    <3> QED BY <2>1, <2>2, <3>1, <3>2
  <2>4. CASE r \notin Unsigned(e)
    <3>1. Unsigned(e) = Unsigned(d)
      BY <1>3, <2>4
    <3>2. AmountSum(e.refund, Unsigned(d)) \in Nat
      <4>1. CASE Unsigned(d) = {}
        BY <4>1, SumOfNone
      <4>2. CASE Unsigned(d) # {}
        <5>1. PICK q \in Unsigned(d) : TRUE
          BY <4>2
        <5>2. q \in All /\ e.refund[q].amount \in Nat
          BY <1>1, <1>4, <5>1
        <5>3. /\ AmountSum(e.refund, Unsigned(d)) = e.refund[q].amount + AmountSum(e.refund, Unsigned(d) \ {q})
              /\ AmountSum(e.refund, Unsigned(d) \ {q}) \in Nat
          BY <1>4, <1>6, <5>1
        <5> QED BY <5>2, <5>3
      <4> QED BY <4>1, <4>2
    <3> QED BY <2>1, <2>2, <3>1, <3>2
  <2> QED BY <2>3, <2>4
<1>9. \A q \in All : e.refund[q].status \notin {"APPROVED", "PENDING"}
  BY DEF Open, OPEN
<1> QED BY <1>7, <1>8, <1>9 DEF SumsRow

\* A refund closes, or is pending.
LEMMA StatusSums ==
  ASSUME NEW d \in Row, SumsRow(d), NEW r \in All, NEW s \in {"FAILED", "REJECTED", "PENDING"},
         d.refund[r].status # "SUCCEEDED", s = "PENDING" => d.refund[r].status = "APPROVED",
         NEW e, e = [d EXCEPT !.refund[r].status = s]
  PROVE  SumsRow(e)
<1>1. e.refunded = d.refunded /\ e.refund = [d.refund EXCEPT ![r].status = s]
  BY DEF Row
<1>2. \A q \in All : /\ e.refund[q].status = IF q = r THEN s ELSE d.refund[q].status
                     /\ e.refund[q].amount = d.refund[q].amount /\ e.refund[q].by = d.refund[q].by
                     /\ e.refund[q].signer = d.refund[q].signer
                     /\ q # r => e.refund[q] = d.refund[q]
  BY <1>1, RowFields DEF RefundRow
<1>3. \A q \in All : e.refund[q].status \in {"APPROVED", "PENDING"} => Small(e, e.refund[q])
  BY <1>1, <1>2 DEF SumsRow, Small
<1>4. \A q \in All : IF d.refund[q].status = "SUCCEEDED" THEN e.refund[q] = d.refund[q]
                     ELSE e.refund[q].status # "SUCCEEDED"
  BY <1>2
<1> QED BY <1>1, <1>3, <1>4, KeepsSums

\* A refund is asked for, or sent.
LEMMA WrittenSums ==
  ASSUME NEW d \in Row, SumsRow(d), NEW r \in All, d.refund[r].status # "SUCCEEDED", NEW row \in RefundRow,
         row.status \in {"REQUESTED", "APPROVED"}, row.status = "APPROVED" => Small(d, row),
         NEW e, e = [d EXCEPT !.refund[r] = row]
  PROVE  SumsRow(e)
<1>1. e.refunded = d.refunded /\ \A q \in All : e.refund[q] = IF q = r THEN row ELSE d.refund[q]
  BY RowFields DEF Row
<1>2. \A q \in All : e.refund[q].status \in {"APPROVED", "PENDING"} => Small(e, e.refund[q])
  BY <1>1 DEF SumsRow, Small
<1>3. \A q \in All : IF d.refund[q].status = "SUCCEEDED" THEN e.refund[q] = d.refund[q]
                     ELSE e.refund[q].status # "SUCCEEDED"
  BY <1>1
<1> QED BY <1>1, <1>2, <1>3, KeepsSums

\* The provider's word on a refund.
LEMMA ApplySums ==
  ASSUME NEW d, NEW p, RowInv(d, p), SumsRow(d), NEW r \in All, NEW st,
         st = "succeeded" => p[r].st \in {"succeeded", "reverted"},
         st = "succeeded" /\ d.refund[r].status \in {"APPROVED", "PENDING"} => d.pay \in Bookable,
         NEW e, e = apply_provider_refund(d, r, st)
  PROVE  SumsRow(e)
<1> DEFINE open == d.refund[r].status \in {"APPROVED", "PENDING"}
<1>0. d \in Row /\ (open => r \in Open(d))
  BY DEF RowInv, Open, OPEN
<1>1. CASE st = "succeeded" /\ open
  <2>1. e = _succeed(d, r)
    BY <1>1 DEF apply_provider_refund
  <2>2. Open(e) = {} /\ e.refunded = d.refunded + d.refund[r].amount /\ Succeeds(d, e, r)
    BY <2>1, <1>0, <1>1, SucceedRow
  <2> QED BY <1>0, <1>1, <2>2, SucceedSums
<1>2. CASE st \in {"failed", "reverted"} /\ open
  BY <1>0, <1>2, StatusSums DEF apply_provider_refund, _fail
<1>3. CASE st = "pending" /\ d.refund[r].status = "APPROVED"
  BY <1>0, <1>3, StatusSums DEF apply_provider_refund
<1>4. CASE /\ ~(st = "succeeded" /\ open) /\ ~(st \in {"failed", "reverted"} /\ open)
           /\ ~(st = "pending" /\ d.refund[r].status = "APPROVED")
  <2>1. e = d
    BY <1>4 DEF apply_provider_refund
  <2> QED BY <2>1
<1> QED BY <1>1, <1>2, <1>3, <1>4

LEMMA SettleSums ==
  ASSUME NEW d, NEW p, RowInv(d, p), SumsRow(d), NEW r \in All, NEW ans \in Answer,
         ans = "succeeded" => p[r].st \in {"succeeded", "reverted"}, d.pay \in Bookable,
         d.refund[r].status = "APPROVED", NEW e, e = settle(d, r, ans)
  PROVE  SumsRow(e)
<1>1. CASE ans = "retryable"
  BY <1>1 DEF settle
<1>2. CASE ans = "rejected"
  BY <1>2, StatusSums DEF settle, _fail, RowInv
<1>3. CASE ans \notin {"retryable", "rejected"}
  <2>1. e = apply_provider_refund(d, r, ans)
    BY <1>3 DEF settle
  <2> QED BY <2>1, ApplySums
<1> QED BY <1>1, <1>2, <1>3

\* A step that leaves the refunds and the transaction alone.
LEMMA RefundsSame ==
  ASSUME SumsInv, db'.refund = db.refund, db'.refunded = db.refunded, tx' = tx
  PROVE  SumsInv'
<1>1. SumsRow(db')
  BY SameSums DEF SumsInv
<1> QED BY <1>1 DEF SumsInv, TxSums, Small

\* A step that ends with the payment free.
LEMMA FreeSums == ASSUME SumsRow(db'), tx'.op = "none" PROVE SumsInv'
BY DEF SumsInv, TxSums

\* The refund is sent.
LEMMA ExecuteSums ==
  ASSUME SumsInv, NEW op, NEW r, NEW row, NEW after, execute(op, r, row, after),
         db.refund[r].status # "SUCCEEDED", Small(db, row)
  PROVE  SumsInv'
<1>1. db' = db /\ tx'.r = r /\ tx'.row = row
  BY DEF execute
<1> QED BY <1>1 DEF SumsInv, TxSums

LEMMA RequestByClientSums == ASSUME IInv, SumsInv, NEW r \in Refunds, request_by_client(r) PROVE SumsInv'
<1>1. PICK amount \in asked, fault \in Faults :
        /\ may_create(r, amount)
        /\ db' = [db EXCEPT !.refund[r] = [status |-> "REQUESTED", amount |-> amount, fault |-> fault,
                                           by |-> Client, signer |-> Nobody]]
        /\ tx' = tx
  BY DEF request_by_client
<1> DEFINE row == [status |-> "REQUESTED", amount |-> amount, fault |-> fault, by |-> Client, signer |-> Nobody]
<1>2. r \in All /\ fault \in BOOLEAN /\ db \in Row /\ SumsRow(db)
  BY AmountsAssumption DEF All, IInv, RowInv, SumsInv
<1>3. row \in RefundRow /\ row.status = "REQUESTED" /\ db.refund[r].status # "SUCCEEDED" /\ PaymentFree
  BY <1>1, <1>2, MayCreate DEF may_create
<1> HIDE DEF row
<1>4. SumsRow(db')
  BY <1>1, <1>2, <1>3, WrittenSums DEF row
<1> QED BY <1>1, <1>3, <1>4, FreeSums DEF PaymentFree

\* Finance sends at once what fits under the threshold with what was returned before.
LEMMA CreateByFinanceSums ==
  ASSUME IInv, SumsInv, NEW r \in Refunds, NEW who \in Admins, NEW amount \in asked \cup Amounts,
         NEW fault \in BOOLEAN, NEW after, create_by_finance(r, who, amount, fault, after)
  PROVE  SumsInv'
<1> DEFINE row == [status |-> "REQUESTED", amount |-> amount, fault |-> fault, by |-> who, signer |-> Nobody]
           sent == [status |-> "APPROVED", amount |-> amount, fault |-> fault, by |-> who, signer |-> Nobody]
<1>1. /\ may_create(r, amount)
      /\ \/ /\ db' = transition([db EXCEPT !.refund[r] = row], after)
            /\ UNCHANGED <<prov, bank, tx, wk>>
         \/ /\ ~needs_high_approval(db, amount)
            /\ execute("create", r, [row EXCEPT !.status = "APPROVED"], after)
  BY DEF create_by_finance
<1>2. r \in All /\ db \in Row /\ SumsRow(db) /\ db.refunded \in Nat
  BY RowFields DEF All, IInv, RowInv, SumsInv
<1>3. row \in RefundRow /\ amount \in Nat /\ PaymentFree /\ db.refund[r].status # "SUCCEEDED"
  BY <1>1, <1>2, MayCreate DEF may_create
<1>4. row.status = "REQUESTED" /\ sent.amount = amount /\ [row EXCEPT !.status = "APPROVED"] = sent
  OBVIOUS
<1> HIDE DEF row, sent
<1>5. CASE db' = transition([db EXCEPT !.refund[r] = row], after) /\ UNCHANGED <<prov, bank, tx, wk>>
  <2> DEFINE e == [db EXCEPT !.refund[r] = row]
  <2>1. SumsRow(e) /\ e \in Row
    <3>1. e \in Row
      BY <1>2, <1>3 DEF Row
    <3> QED BY <3>1, <1>2, <1>3, <1>4, WrittenSums
  <2>2. db' = transition(e, after) /\ tx' = tx
    BY <1>5
  <2> HIDE DEF e
  <2>3. db'.refund = e.refund /\ db'.refunded = e.refunded
    BY <2>1, <2>2 DEF transition, Row
  <2>4. SumsRow(db')
    BY <2>1, <2>3, SameSums
  <2> QED BY <2>2, <2>4, <1>3, FreeSums DEF PaymentFree
<1>6. CASE ~needs_high_approval(db, amount) /\ execute("create", r, sent, after)
  <2>1. db.refunded + sent.amount <= Threshold
    BY <1>2, <1>3, <1>4, <1>6, AmountsAssumption DEF needs_high_approval
  <2>2. Small(db, sent)
    BY <2>1 DEF Small
  <2> QED BY <2>2, <1>3, <1>6, ExecuteSums
<1> QED BY <1>1, <1>4, <1>5, <1>6

LEMMA CreationSums ==
  ASSUME IInv, SumsInv, NEW r \in Refunds, create_refund(r) \/ resolve_partial(r) \/ resolve_full(r)
  PROVE  SumsInv'
<1>1. refundable_cents(db) \in asked
  BY DEF asked
<1> QED BY <1>1, CreateByFinanceSums, AmountsAssumption DEF create_refund, resolve_partial, resolve_full

\* Whoever signs for more than the threshold can.
LEMMA ApproveSums == ASSUME IInv, SumsInv, NEW r \in All, NEW who \in Admins, approve(r, who) PROVE SumsInv'
<1> DEFINE row == [db.refund[r] EXCEPT !.status = "APPROVED", !.signer = who]
<1>1. /\ db.refund[r].status = "REQUESTED" /\ execute("approve", r, row, "SAME")
      /\ needs_high_approval(db, db.refund[r].amount) => who \in High
  BY DEF approve
<1>2. db.refund[r] \in RefundRow /\ db.refunded \in Nat /\ db.refund[r].amount \in Nat
  BY RowFields DEF IInv, TypeOK
<1>3. row.signer = who /\ row.amount = db.refund[r].amount
  BY <1>2 DEF RefundRow
<1> HIDE DEF row
<1>4. Small(db, row)
  BY <1>1, <1>2, <1>3, AmountsAssumption DEF Small, needs_high_approval
<1> QED BY <1>1, <1>4, ExecuteSums

LEMMA RejectSums == ASSUME IInv, SumsInv, NEW r \in All, reject(r) PROVE SumsInv'
<1>1. /\ db.refund[r].status = "REQUESTED" /\ db' = [db EXCEPT !.refund[r].status = "REJECTED"] /\ tx' = tx
  BY DEF reject
<1>2. db \in Row /\ SumsRow(db)
  BY DEF IInv, RowInv, SumsInv
<1>3. SumsRow(db')
  BY <1>1, <1>2, StatusSums
<1>4. /\ db'.refunded = db.refunded
      /\ \A q \in All : db'.refund[q].status # "SUCCEEDED" \/ db'.refund[q].status = db.refund[q].status
  BY <1>1, <1>2, RowFields DEF Row, RefundRow
<1>5. tx.op # "none" => tx.r \in All
  BY DEF IInv, TxInv
<1> QED BY <1>1, <1>3, <1>4, <1>5 DEF SumsInv, TxSums, Small

LEMMA RetryApprovedSums == ASSUME IInv, SumsInv, NEW r \in All, retry_approved(r) PROVE SumsInv'
<1>1. PaymentFree /\ db.refund[r].status = "APPROVED" /\ db \in Row /\ SumsRow(db)
  BY DEF retry_approved, IInv, RowInv, SumsInv
<1>2. CASE db.pay \in REFUNDABLE
  <2>1. execute("retry", r, db.refund[r], "SAME")
    BY <1>2 DEF retry_approved
  <2>2. Small(db, db.refund[r])
    BY <1>1 DEF SumsRow
  <2> QED BY <2>1, <2>2, <1>1, ExecuteSums
<1>3. CASE db.pay \notin REFUNDABLE
  <2>1. db' = [db EXCEPT !.refund[r].status = "FAILED"] /\ tx' = tx
    BY <1>3 DEF retry_approved, _fail
  <2>2. SumsRow(db')
    BY <2>1, <1>1, StatusSums
  <2> QED BY <2>1, <2>2, <1>1, FreeSums DEF PaymentFree
<1> QED BY <1>2, <1>3

LEMMA CommitSums == ASSUME IInv, SumsInv, commit PROVE SumsInv'
<1> DEFINE e == [db EXCEPT !.refund[tx.r] = tx.row]
           f == settle(e, tx.r, tx.ans)
<1>1. tx.op # "none" /\ db' = transition(f, tx.after) /\ tx' = NoTx
  BY DEF commit
<1>2. /\ tx.r \in All /\ db.pay \in REFUNDABLE /\ Open(db) \subseteq {tx.r}
      /\ tx.row.status = "APPROVED" /\ 0 < tx.row.amount /\ tx.row.amount <= Captured - db.refunded
      /\ tx.ans = "succeeded" => prov[tx.r].st \in {"succeeded", "reverted"}
      /\ db.refund[tx.r].status # "SUCCEEDED" /\ Small(db, tx.row)
  BY <1>1 DEF IInv, TxInv, SumsInv, TxSums
<1>3. tx.row \in RefundRow /\ tx.ans \in Answer /\ RowInv(db, prov) /\ db \in Row /\ SumsRow(db)
  BY DEF IInv, TypeOK, Tx, RowInv, SumsInv
<1>4. RowInv(e, prov) /\ e.refund[tx.r] = tx.row /\ e.pay = db.pay
  BY <1>2, <1>3, RefundRowWritten
<1>5. SumsRow(e)
  BY <1>2, <1>3, WrittenSums
<1> HIDE DEF e
<1>6. e.pay \in Bookable
  BY <1>2, <1>4 DEF Bookable, REFUNDABLE, PAYMENT_CONFIRMED
<1>7. RowInv(f, prov) /\ SumsRow(f)
  <2>1. RowInv(f, prov)
    BY <1>2, <1>3, <1>4, <1>6, SettleRow
  <2>2. SumsRow(f)
    BY <1>2, <1>3, <1>4, <1>5, <1>6, SettleSums
  <2> QED BY <2>1, <2>2
<1> HIDE DEF f
<1>8. db'.refund = f.refund /\ db'.refunded = f.refunded
  BY <1>1, <1>7 DEF transition, Row, RowInv
<1>9. SumsRow(db')
  BY <1>7, <1>8, SameSums
<1> QED BY <1>1, <1>9, FreeSums DEF NoTx

LEMMA OrderSums == ASSUME IInv, SumsInv, OrderSteps PROVE SumsInv'
<1>1. db \in Row
  BY DEF IInv, TypeOK
<1>2. /\ \/ db' = [db EXCEPT !.order = "REVIEWED", !.review = "public"]
         \/ \E to : db' = transition(db, to)
      /\ tx' = tx
  BY DEF OrderSteps, review, dispute, resolve_release, resolve_full_unpaid
<1>3. db'.refund = db.refund /\ db'.refunded = db.refunded
  BY <1>1, <1>2 DEF transition, Row
<1> QED BY <1>2, <1>3, RefundsSame

LEMMA OnRefundSums == ASSUME IInv, SumsInv, _on_refund PROVE SumsInv'
<1>1. /\ wk.pc = "found" /\ PaymentFree /\ ~unbookable /\ db' = apply_provider_refund(db, wk.id, wk.view.st) /\ tx' = tx
  BY DEF _on_refund
<1>2. /\ wk.id \in All /\ (wk.view.st = "succeeded" => prov[wk.id].st \in {"succeeded", "reverted"})
      /\ RowInv(db, prov) /\ SumsRow(db)
  BY <1>1 DEF IInv, WkInv, SumsInv
<1>3. wk.view.st = "succeeded" /\ db.refund[wk.id].status \in {"APPROVED", "PENDING"} => db.pay \in Bookable
  BY <1>1, <1>2, BookableWhenBooked
<1>4. SumsRow(db')
  BY <1>1, <1>2, <1>3, ApplySums
<1> QED BY <1>1, <1>4, FreeSums DEF PaymentFree

\* What was returned from the provider's panel counts for the sum, and asks for no signature.
LEMMA RecordOutsideAppSums == ASSUME IInv, SumsInv, _record_outside_app PROVE SumsInv'
<1> DEFINE row == [status |-> "APPROVED", amount |-> outside_amount, fault |-> FALSE, by |-> Nobody, signer |-> Nobody]
           e == [db EXCEPT !.refund[wk.id] = row]
<1>1. /\ wk.pc = "unknown" /\ PaymentFree /\ recordable
      /\ db' = apply_provider_refund(e, wk.id, wk.view.st) /\ tx' = tx
  BY DEF _record_outside_app
<1>2. /\ wk.id \in All /\ (wk.view.st = "succeeded" => prov[wk.id].st \in {"succeeded", "reverted"})
      /\ db.pay \in REFUNDABLE /\ db.refund[wk.id].status = "NONE" /\ db \in Row /\ SumsRow(db)
  BY <1>1 DEF IInv, WkInv, RowInv, recordable, SumsInv
<1>3. RowInv(e, prov) /\ e.pay = db.pay
  BY <1>1, <1>2, OutsideRow
<1>4. row.by = Nobody /\ row.status = "APPROVED" /\ row \in RefundRow
  <2>1. e.refund[wk.id] = row /\ e.refund[wk.id] \in RefundRow
    <3>1. e.refund = [db.refund EXCEPT ![wk.id] = row]
      BY <1>2 DEF Row
    <3>2. e.refund[wk.id] = row
      BY <3>1, <1>2, RowFields
    <3> HIDE DEF e
    <3> QED BY <3>2, <1>2, <1>3, RowFields DEF RowInv
  <2> QED BY <2>1
<1> HIDE DEF row
<1>5. SumsRow(e)
  BY <1>2, <1>4, WrittenSums DEF Small
<1> HIDE DEF e
<1>6. e.pay \in Bookable
  BY <1>2, <1>3 DEF Bookable, REFUNDABLE, PAYMENT_CONFIRMED
<1>7. SumsRow(db')
  BY <1>1, <1>2, <1>3, <1>5, <1>6, ApplySums
<1> QED BY <1>1, <1>7, FreeSums DEF PaymentFree

\* A chargeback is counted by the ledger alone.
LEMMA SyncSums == ASSUME IInv, SumsInv, sync_from_provider PROVE SumsInv'
<1> DEFINE new == db.dispute[wk.id] = "NONE"
           e == [db EXCEPT !.dispute[wk.id] = wk.st, !.pay = IF new /\ @ \in REFUNDABLE THEN "DISPUTED" ELSE @]
<1>1. /\ wk.pc = "dispute" /\ tx' = tx
      /\ \/ db' = e
         \/ e.pay = "DISPUTED" /\ db' = mark_dispute_closed(e)
         \/ e.pay = "DISPUTED" /\ \E reversed \in BOOLEAN : db' = charge_back(e, bank[wk.id].amount, reversed)
  BY DEF sync_from_provider
<1>2. wk.id \in Disputes /\ wk.st \in DisputeStatus \cup {"NONE"} /\ bank[wk.id].amount \in Nat /\ RowInv(db, prov)
  BY <1>1, CapturedPos DEF IInv, WkInv, TypeOK, Job, Cents
<1>3. e.refund = db.refund /\ e.refunded = db.refunded
  BY <1>2 DEF RowInv, Row
<1> HIDE DEF new
<1>4. RowInv(e, prov)
  BY <1>2, DisputedRow
<1> HIDE DEF e
<1>5. db'.refund = e.refund /\ db'.refunded = e.refunded
  <2>1. CASE e.pay = "DISPUTED" /\ db' = mark_dispute_closed(e)
    BY <2>1, <1>4, ClosedRow
  <2>2. CASE e.pay = "DISPUTED" /\ \E reversed \in BOOLEAN : db' = charge_back(e, bank[wk.id].amount, reversed)
    BY <2>2, <1>2, <1>4, ChargeBackRow
  <2> QED BY <2>1, <2>2, <1>1
<1> QED BY <1>1, <1>3, <1>5, RefundsSame

\* The other events and what happens outside touch neither the refunds nor the transaction.
LEMMA OtherEventsSums ==
  ASSUME IInv, SumsInv,
         \/ \E r \in All : webhook_fetch(r) \/ provider_step(r) \/ refund_outside_app(r)
         \/ \E c \in Disputes : dispute_fetch(c) \/ submit_evidence(c) \/ open_dispute(c) \/ close_dispute(c)
         \/ _find \/ webhook_refused \/ webhook_crashes
  PROVE  SumsInv'
<1>1. CASE \E c \in Disputes : submit_evidence(c)
  <2>1. PICK c \in Disputes : db' = [db EXCEPT !.dispute[c] = "UNDER_REVIEW"] /\ tx' = tx
    BY <1>1 DEF submit_evidence
  <2>2. db'.refund = db.refund /\ db'.refunded = db.refunded
    BY <2>1 DEF IInv, TypeOK, Row
  <2> QED BY <2>1, <2>2, RefundsSame
<1>2. CASE ~ \E c \in Disputes : submit_evidence(c)
  <2>1. db' = db /\ tx' = tx
    BY <1>2 DEF webhook_fetch, provider_step, refund_outside_app, dispute_fetch, open_dispute, close_dispute,
                _find, webhook_refused, webhook_crashes
  <2> QED BY <2>1, RefundsSame
<1> QED BY <1>1, <1>2

LEMMA SumsNext == ASSUME IInv, SumsInv, [Next]_vars PROVE SumsInv'
<1>1. CASE Refunding
  <2>1. CASE abort
    BY <2>1, FreeSums DEF abort, NoTx, SumsInv
  <2> QED BY <1>1, <2>1, RequestByClientSums, CreationSums, RetryApprovedSums, RejectSums, ApproveSums, CommitSums
          DEF Refunding
<1>2. CASE OrderSteps
  BY <1>2, OrderSums
<1>3. CASE Events
  BY <1>3, OnRefundSums, RecordOutsideAppSums, SyncSums, OtherEventsSums DEF Events
<1>4. CASE External
  BY <1>4, OtherEventsSums DEF External
<1>5. CASE UNCHANGED vars
  BY <1>5, RefundsSame DEF vars
<1> QED BY <1>1, <1>2, <1>3, <1>4, <1>5 DEF Next

LEMMA SumsInit == ASSUME Init PROVE SumsInv
<1>1. /\ db.refunded = 0 /\ tx.op = "none" /\ \A r \in All : db.refund[r].status = "NONE"
  BY DEF Init, NoTx, NoRefund
<1>2. Succeeded(db) = {} /\ Unsigned(db) = {}
  BY <1>1 DEF Succeeded, Unsigned
<1> QED BY <1>1, <1>2, SumOfNone, AmountsAssumption DEF SumsInv, SumsRow, TxSums

LEMMA SumsAlways == Spec => []SumsInv
<1>1. Init => SumsInv
  BY SumsInit
<1>2. IInv /\ SumsInv /\ [Next]_vars => SumsInv'
  BY SumsNext
<1> QED BY <1>1, <1>2, Invariance, PTL DEF Spec

\* payments.refunded_cents is the sum of the refunds booked as succeeded, for any number of them:
\* the cap of refunds._succeed never hides a difference.
THEOREM RefundedSumsUp == Spec => []RefundedIsSum
<1>1. SumsInv => RefundedIsSum
  BY DEF SumsInv, SumsRow, RefundedIsSum, AmountSum, Succeeded
<1> QED BY <1>1, SumsAlways, PTL

\* However finance splits what it returns of one payment, and whatever is refunded in between, what
\* it returned without a high signature is at most the threshold (refunds.needs_high_approval).
THEOREM BigReturnsSigned == Spec => []BigRefundsSigned
<1>1. SumsInv => BigRefundsSigned
  BY DEF SumsInv, SumsRow, BigRefundsSigned, AmountSum, Unsigned
<1> QED BY <1>1, SumsAlways, PTL
=============================================================================
