---------------------------- MODULE CommissionProofs ----------------------------
(***************************************************************************)
(* What a charge is split into, for every price, rule, rate and discount;  *)
(* and which rule is in force, for every history of rules.                 *)
(***************************************************************************)
EXTENDS CommissionRules, FiniteSetTheorems, WellFoundedInduction, TLAPS

LEMMA DivNat == \A n \in Nat, d \in Nat \ {0} : n \div d \in Nat
  BY SMT

LEMMA ApplyBpNat == \A a \in Nat, r \in Nat : apply_bp(a, r) \in Nat
<1> SUFFICES ASSUME NEW a \in Nat, NEW r \in Nat PROVE apply_bp(a, r) \in Nat
  OBVIOUS
<1>1. a * r \in Nat
  BY SMT
<1>2. a * r * 2 + BP \in Nat /\ 2 * BP \in Nat \ {0}
  BY <1>1 DEF BP
<1>3. QED
  BY <1>2, DivNat DEF apply_bp

LEMMA HalfUpBelow ==
  ASSUME NEW t \in Nat, NEW r \in Nat
  PROVE  _div_half_up(t * BP, BP + r) \in 0..t
<1> DEFINE d == BP + r
           n == t * BP * 2 + d
<1>1. d \in Nat \ {0} /\ n \in Nat
  BY DEF BP
<1>2. t * r \in Nat
  BY SMT
<1>3. n < (t + 1) * (2 * d)
  BY <1>2 DEF BP
<1>4. n \div (2 * d) \in Nat
  BY <1>1, DivNat
<1>5. (2 * d) * (n \div (2 * d)) <= n
  BY <1>1, SMT
<1>6. n \div (2 * d) <= t
  BY <1>1, <1>3, <1>4, <1>5, SMT
<1>7. QED
  BY <1>4, <1>6 DEF _div_half_up

LEMMA CommissionNat ==
  ASSUME NEW x, valid_terms(x), NEW price \in Nat
  PROVE  commission(x, price) \in Nat
<1>1. x.rate \in Nat /\ x.fixed \in Nat /\ x.min \in Nat \cup {None} /\ x.max \in Nat \cup {None}
  BY DEF valid_terms
<1>2. apply_bp(price, x.rate) \in Nat
  BY <1>1, ApplyBpNat
<1>3. raw_commission(x, price) \in Nat
  BY <1>1, <1>2 DEF raw_commission, at_least, at_most, None
<1>4. QED
  BY <1>3 DEF commission, at_most, None

\* What \div is.
LEMMA DivIs ==
  ASSUME NEW n \in Nat, NEW d \in Nat \ {0}
  PROVE  n \div d \in Nat /\ d * (n \div d) <= n /\ n < d * (n \div d) + d
BY SMT

\* commission_tax_bp is at most 100 %, so what two roundings move is less than two cents.
LEMMA VatWithinACent ==
  ASSUME NEW n \in Nat, NEW r \in 0..BP
  PROVE  LET left == _div_half_up(n * BP, BP + r) IN n - left - apply_bp(left, r) \in -1..1
<1> DEFINE d == BP + r
           left == _div_half_up(n * BP, d)
           y == left * r
           v == apply_bp(left, r)
<1>1. d \in Nat \ {0} /\ r \in Nat
  BY DEF BP
<1>2. left \in Nat /\ 2 * d * left <= n * BP * 2 + d /\ n * BP * 2 + d < 2 * d * left + 2 * d
  <2>1. n * BP * 2 + d \in Nat /\ 2 * d \in Nat \ {0}
    BY <1>1 DEF BP
  <2>2. left = (n * BP * 2 + d) \div (2 * d)
    BY DEF _div_half_up
  <2> HIDE DEF d, left
  <2> QED BY <2>1, <2>2, DivIs
<1> HIDE DEF left
<1>3. y \in Nat /\ 2 * d * left = 2 * BP * left + 2 * y
  BY <1>1, <1>2, SMT DEF BP
<1>4. v \in Nat /\ 2 * BP * v <= y * 2 + BP /\ y * 2 + BP < 2 * BP * v + 2 * BP
  <2>1. y * 2 + BP \in Nat /\ 2 * BP \in Nat \ {0}
    BY <1>3 DEF BP
  <2>2. v = (y * 2 + BP) \div (2 * BP)
    BY DEF apply_bp
  <2> HIDE DEF y, v
  <2> QED BY <2>1, <2>2, DivIs
<1> HIDE DEF y, v
<1>5. n - left - v \in -1..1
  <2> DEFINE z == 2 * d * left
             k == n - left - v
  <2>1. /\ z <= n * BP * 2 + d /\ n * BP * 2 + d < z + 2 * d /\ z = 2 * BP * left + 2 * y
        /\ d = BP + r /\ r <= BP /\ k = n - left - v /\ k \in Int
    BY <1>2, <1>3, <1>4
  <2> HIDE DEF z, k, d
  <2>2. k < 2 /\ k > -2
    BY <1>1, <1>2, <1>3, <1>4, <2>1, SMT DEF BP
  <2> QED BY <2>1, <2>2 DEF k
<1> QED BY <1>5 DEF left, v

\* A dearer service makes a dearer charge.
LEMMA ChargeGrows ==
  ASSUME NEW r \in Nat, NEW p \in Nat, NEW q \in Nat, p < q
  PROVE  charge_of(p, r) \in Nat /\ charge_of(q, r) \in Nat /\ charge_of(p, r) < charge_of(q, r)
<1> DEFINE x == p * r
           y == q * r
<1>1. x \in Nat /\ y \in Nat /\ x <= y
  BY SMT
<1> HIDE DEF x, y
<1>2. (x * 2 + BP) \div (2 * BP) <= (y * 2 + BP) \div (2 * BP)
  BY <1>1 DEF BP
<1>3. apply_bp(p, r) <= apply_bp(q, r) /\ apply_bp(p, r) \in Nat /\ apply_bp(q, r) \in Nat
  BY <1>2, ApplyBpNat DEF apply_bp, x, y
<1> QED BY <1>3 DEF charge_of

\* Any set of numbers that is not empty has a least one.
LEMMA Least ==
  ASSUME NEW T \in SUBSET Nat, T # {}
  PROVE  \E x \in T : \A y \in T : x <= y
<1> DEFINE R == OpToRel(<, Nat)
<1>1. IsWellFoundedOn(R, Nat)
  BY NatLessThanWellFounded
<1>2. \A x, y \in Nat : x < y => <<x, y>> \in R
  BY DEF OpToRel
<1> HIDE DEF R
<1>3. PICK x \in T : \A y \in T : ~ (<<y, x>> \in R)
  BY <1>1, WFMin
<1>4. \A y \in T : ~ (y < x)
  BY <1>2, <1>3
<1> QED BY <1>4

\* price_for_charge finds the price a charge was made of: the first loop stops at it or below, and
\* the second goes up to it.
LEMMA PriceOfCharge ==
  ASSUME NEW price \in Nat, NEW r \in Nat
  PROVE  price_for_charge(charge_of(price, r), r) = price
<1> DEFINE c == charge_of(price, r)
           first == (c * BP) \div (BP + r)
           Down(f) == [p \in 0..first |-> IF p > 0 /\ charge_of(p, r) > c THEN f[p - 1] ELSE p]
           Up(f) == [p \in 0..c |-> IF p < c /\ charge_of(p + 1, r) <= c THEN f[p + 1] ELSE p]
           down == CHOOSE f : f = Down(f)
           up == CHOOSE f : f = Up(f)
<1>1. price_for_charge(c, r) = up[down[first]]
  BY DEF price_for_charge
<1>2. c \in Nat /\ price <= c
  <2>1. apply_bp(price, r) \in Nat
    BY ApplyBpNat
  <2> QED BY <2>1 DEF charge_of
<1>3. first \in Nat
  BY <1>2, DivNat DEF BP
<1>4. \A p \in Nat : charge_of(p, r) <= c <=> p <= price
  <2> SUFFICES ASSUME NEW p \in Nat PROVE charge_of(p, r) <= c <=> p <= price
    OBVIOUS
  <2>1. charge_of(p, r) \in Nat
    BY ApplyBpNat DEF charge_of
  <2>2. CASE p < price
    BY <2>1, <2>2, <1>2, ChargeGrows
  <2>3. CASE p = price
    BY <2>1, <2>3, <1>2
  <2>4. CASE p > price
    BY <2>1, <2>4, <1>2, ChargeGrows
  <2> QED BY <2>2, <2>3, <2>4
<1>5. \A p \in Nat : charge_of(p, r) \in Nat
  BY ApplyBpNat DEF charge_of
<1> HIDE DEF c, first
<1>6. down = Down(down)
  <2> DEFINE f == [p \in 0..first |-> IF p <= price THEN p ELSE price]
  <2>1. ASSUME NEW p \in 0..first PROVE f[p] = IF p > 0 /\ charge_of(p, r) > c THEN f[p - 1] ELSE p
    <3>1. p > 0 /\ charge_of(p, r) > c <=> p > price
      BY <1>2, <1>3, <1>4, <1>5
    <3>2. CASE p <= price
      BY <3>1, <3>2, <1>3
    <3>3. CASE p > price
      <4>1. p - 1 \in 0..first /\ p - 1 >= price
        BY <3>3, <1>3
      <4> QED BY <4>1, <3>1, <3>3, <1>3
    <3> QED BY <3>2, <3>3, <1>3
  <2>2. f = Down(f)
    BY <2>1
  <2> HIDE DEF f
  <2> QED BY <2>2
<1>7. up = Up(up)
  <2> DEFINE f == [p \in 0..c |-> IF p <= price THEN price ELSE p]
  <2>1. ASSUME NEW p \in 0..c PROVE f[p] = IF p < c /\ charge_of(p + 1, r) <= c THEN f[p + 1] ELSE p
    <3>1. p < c /\ charge_of(p + 1, r) <= c <=> p < price
      BY <1>2, <1>4, <1>5
    <3>2. CASE p < price
      <4>1. p + 1 \in 0..c /\ p + 1 <= price
        BY <3>2, <1>2
      <4> QED BY <4>1, <3>1, <3>2, <1>2
    <3>3. CASE p >= price
      BY <3>1, <3>3, <1>2
    <3> QED BY <3>2, <3>3, <1>2
  <2>2. f = Up(f)
    BY <2>1
  <2> HIDE DEF f
  <2> QED BY <2>2
<1> HIDE DEF down, up
<1>8. down[first] \in Nat /\ down[first] <= price
  <2> DEFINE T == {p \in 0..first : ~(down[p] \in Nat /\ down[p] <= price)}
  <2>1. T \in SUBSET Nat /\ \A p : p \in T <=> p \in 0..first /\ ~(down[p] \in Nat /\ down[p] <= price)
    BY <1>3
  <2> SUFFICES ASSUME T # {} PROVE FALSE
    BY <2>1, <1>3
  <2> HIDE DEF T
  <2>2. PICK p \in T : \A q \in T : p <= q
    BY <2>1, Least
  <2>3. p \in 0..first /\ p \in Nat /\ down[p] = IF p > 0 /\ charge_of(p, r) > c THEN down[p - 1] ELSE p
    BY <2>1, <2>2, <1>6
  <2>4. CASE p > 0 /\ charge_of(p, r) > c
    <3>1. p - 1 \in 0..first /\ p - 1 \notin T
      BY <2>2, <2>3, <2>4, <2>1, <1>3
    <3> QED BY <3>1, <2>1, <2>2, <2>3, <2>4
  <2>5. CASE ~(p > 0 /\ charge_of(p, r) > c)
    BY <2>1, <2>2, <2>3, <2>5, <1>2, <1>4, <1>5
  <2> QED BY <2>4, <2>5
<1>9. \A p \in 0..price : up[p] = price
  <2> DEFINE T == {k \in 0..price : up[price - k] # price}
  <2>1. T \in SUBSET Nat /\ \A k : k \in T <=> k \in 0..price /\ up[price - k] # price
    OBVIOUS
  <2>2. ASSUME T = {}, NEW p \in 0..price PROVE up[p] = price
    <3>1. price - p \in 0..price /\ price - (price - p) = p
      OBVIOUS
    <3> HIDE DEF T
    <3> QED BY <2>1, <2>2, <3>1
  <2> SUFFICES ASSUME T # {} PROVE FALSE
    BY <2>2
  <2> HIDE DEF T
  <2>3. PICK k \in T : \A q \in T : k <= q
    BY <2>1, Least
  <2> DEFINE p == price - k
  <2>4. k \in 0..price /\ p \in 0..price /\ p \in 0..c /\ up[p] # price
    BY <2>1, <2>3, <1>2
  <2>5. up[p] = IF p < c /\ charge_of(p + 1, r) <= c THEN up[p + 1] ELSE p
    BY <2>4, <1>7
  <2>6. CASE k = 0
    <3>1. p = price /\ charge_of(p + 1, r) > c
      BY <2>4, <2>6, <1>2, <1>4, <1>5
    <3> QED BY <3>1, <2>4, <2>5, <1>2, <1>5
  <2>7. CASE k > 0
    <3>1. k - 1 \in 0..price /\ k - 1 \notin T /\ price - (k - 1) = p + 1 /\ p + 1 \in Nat /\ p + 1 <= price /\ p < c
      BY <2>3, <2>4, <2>7, <1>2
    <3>2. up[p + 1] = price
      BY <3>1, <2>1
    <3>3. charge_of(p + 1, r) <= c
      BY <3>1, <1>4
    <3> QED BY <3>1, <3>2, <3>3, <2>4, <2>5
  <2> QED BY <2>4, <2>6, <2>7
<1>10. up[down[first]] = price
  BY <1>8, <1>9
<1> QED BY <1>1, <1>10 DEF c

\* It is the largest price whose charge fits.
LEMMA LargestThatFits ==
  ASSUME NEW price \in Nat, NEW r \in Nat
  PROVE  LET c == charge_of(price, r)
             fits == {p \in 0..c : charge_of(p, r) <= c}
         IN  price = CHOOSE p \in fits : \A q \in fits : q <= p
<1> DEFINE c == charge_of(price, r)
           fits == {p \in 0..c : charge_of(p, r) <= c}
<1>1. c \in Nat /\ price \in 0..c
  <2>1. apply_bp(price, r) \in Nat
    BY ApplyBpNat
  <2> QED BY <2>1 DEF charge_of
<1>2. price \in fits
  BY <1>1
<1>3. \A q \in fits : q \in Nat /\ q <= price
  <2> SUFFICES ASSUME NEW q \in fits, q > price PROVE FALSE
    BY <1>1
  <2>1. q \in Nat /\ charge_of(q, r) <= c
    BY <1>1
  <2> QED BY <2>1, <1>1, ChargeGrows
<1> HIDE DEF fits
<1>4. \A p \in fits : (\A q \in fits : q <= p) => p = price
  BY <1>2, <1>3
<1>5. price = CHOOSE p \in fits : \A q \in fits : q <= p
  BY <1>2, <1>3, <1>4
<1> QED BY <1>5 DEF fits

LEMMA SplitOfCharge ==
  ASSUME NEW price \in Int, NEW x, valid_terms(x), NEW t, valid_rates(t), NEW discount \in Nat,
         compute(price, x, t, discount).ok
  PROVE  LET s == compute(price, x, t, discount) IN
         /\ s.technician + s.commission + s.tax + s.isr + s.iva = s.gross - discount
         /\ s.technician >= 0 /\ s.commission >= 0 /\ s.tax >= 0 /\ s.isr >= 0 /\ s.iva >= 0
         /\ s.technician = compute(price, x, t, 0).technician
         /\ s.tax - apply_bp(s.commission, t.commission) \in -1..1
         /\ price \in Nat /\ s.gross = charge_of(price, t.service)
<1> DEFINE rs == t.service
           rc == t.commission
           ri == t.isr
           rv == t.iva
           gross == price + apply_bp(price, rs)
           full == commission(x, price)
           vat == apply_bp(full, rc)
           fee == full + vat
           left == _div_half_up((fee - discount) * BP, BP + rc)
           isr == apply_bp(price, ri)
           iva == apply_bp(price, rv)
           kept == IF discount = 0 THEN full ELSE left
           tax == fee - discount - kept
           technician == gross - fee - isr - iva
<1>1. rs \in Nat /\ rc \in Nat /\ ri \in Nat /\ rv \in Nat /\ rc \in 0..BP
  <2>1. rs \in 0..BP /\ rc \in 0..BP /\ ri \in 0..BP /\ rv \in 0..BP
    BY DEF valid_rates
  <2>2. 0..BP \subseteq Nat
    BY DEF BP
  <2> HIDE DEF rs, rc, ri, rv
  <2> QED BY <2>1, <2>2
<1> HIDE DEF rs, rc, ri, rv, gross, full, vat, fee, left, isr, iva, kept, tax, technician
<1>2. price \in Nat /\ price > 0 /\ (discount > 0 => ~(discount > fee))
  <2>1. SUFFICES ASSUME ~(price > 0 /\ (discount > 0 => ~(discount > fee)))
                 PROVE  compute(price, x, t, discount) = Refused
    BY DEF Refused
  <2>2. price <= 0 \/ (discount > 0 /\ discount > fee)
    BY <2>1
  <2>3. QED
    BY <2>2 DEF compute, fee, full, vat, rc
<1>3. full \in Nat
  BY <1>2, CommissionNat DEF full
<1>4. vat \in Nat /\ isr \in Nat /\ iva \in Nat /\ apply_bp(price, rs) \in Nat
  BY <1>1, <1>2, <1>3, ApplyBpNat DEF vat, isr, iva
<1>5. gross \in Nat /\ fee \in Nat /\ fee >= full /\ technician \in Int
  BY <1>2, <1>3, <1>4 DEF gross, fee, technician
<1>6. discount > 0 => left \in 0..(fee - discount)
  <2>1. SUFFICES ASSUME discount > 0 PROVE left \in 0..(fee - discount)
    OBVIOUS
  <2>2. fee - discount \in Nat
    BY <1>2, <1>5, <2>1
  <2>3. QED
    BY <1>1, <2>2, HalfUpBelow DEF left
<1>7. kept \in Nat /\ tax \in Nat
  <2>1. CASE discount = 0
    BY <2>1, <1>3, <1>5 DEF kept, tax
  <2>2. CASE discount > 0
    BY <2>2, <1>2, <1>5, <1>6 DEF kept, tax
  <2>3. QED
    BY <2>1, <2>2
<1> DEFINE k == IF discount = 0 THEN [commission |-> full, tax |-> fee - full] ELSE discounted(fee, discount, rc)
<1>8. k.commission = kept /\ k.tax = tax
  BY <1>3, <1>5 DEF discounted, left, kept, tax
<1> HIDE DEF k
<1>9. gross - discount - k.commission - k.tax - isr - iva = technician
  BY <1>4, <1>5, <1>7, <1>8 DEF technician, tax
<1>10. compute(price, x, t, discount) =
         IF price <= 0 \/ discount < 0 \/ (discount > 0 /\ discount > fee)
            \/ gross - discount - k.commission - k.tax - isr - iva < 0 THEN Refused
         ELSE [ok |-> TRUE, gross |-> gross, commission |-> k.commission, tax |-> k.tax, isr |-> isr, iva |-> iva,
               technician |-> gross - discount - k.commission - k.tax - isr - iva]
  BY Zenon DEF compute, k, gross, full, vat, fee, isr, iva, rs, rc, ri, rv
<1>11. technician >= 0
  <2>1. SUFFICES ASSUME technician < 0 PROVE compute(price, x, t, discount) = Refused
    BY <1>5 DEF Refused
  <2>2. QED
    BY <1>9, <1>10, <2>1
<1>12. compute(price, x, t, discount) =
         [ok |-> TRUE, gross |-> gross, commission |-> kept, tax |-> tax, isr |-> isr, iva |-> iva,
          technician |-> technician]
  <2>1. ~(price <= 0 \/ discount < 0 \/ (discount > 0 /\ discount > fee) \/ technician < 0)
    BY <1>2, <1>5, <1>11
  <2>2. QED
    BY <2>1, <1>8, <1>9, <1>10, Zenon
<1>13. compute(price, x, t, 0).technician = technician
  <2> DEFINE p == [commission |-> full, tax |-> fee - full]
  <2>1. gross - 0 - p.commission - p.tax - isr - iva = technician
    BY <1>3, <1>4, <1>5 DEF technician
  <2> HIDE DEF p
  <2>2. compute(price, x, t, 0) =
          IF price <= 0 \/ 0 < 0 \/ (0 > 0 /\ 0 > fee)
             \/ gross - 0 - p.commission - p.tax - isr - iva < 0 THEN Refused
          ELSE [ok |-> TRUE, gross |-> gross, commission |-> p.commission, tax |-> p.tax, isr |-> isr, iva |-> iva,
                technician |-> gross - 0 - p.commission - p.tax - isr - iva]
    BY Zenon DEF compute, p, gross, full, vat, fee, isr, iva, rs, rc, ri, rv
  <2>3. ~(price <= 0 \/ 0 < 0 \/ (0 > 0 /\ 0 > fee) \/ technician < 0)
    BY <1>2, <1>5, <1>11
  <2>4. QED
    BY <2>1, <2>2, <2>3
<1>14. technician + kept + tax + isr + iva = gross - discount
  BY <1>4, <1>5, <1>7 DEF technician, tax
<1>15. kept >= 0 /\ tax >= 0 /\ isr >= 0 /\ iva >= 0
  BY <1>4, <1>7
<1>16. tax - apply_bp(kept, rc) \in -1..1
  <2>1. CASE discount = 0
    BY <2>1, <1>3, <1>4 DEF kept, tax, fee, vat
  <2>2. CASE discount > 0
    <3>1. fee - discount \in Nat
      BY <1>2, <1>5, <2>2
    <3>2. (fee - discount) - left - apply_bp(left, rc) \in -1..1
      BY <1>1, <3>1, VatWithinACent DEF left
    <3> QED BY <2>2, <3>2 DEF kept, tax
  <2> QED BY <2>1, <2>2
<1>17. gross = charge_of(price, rs)
  BY DEF gross, charge_of
<1>18. QED
  BY <1>2, <1>11, <1>12, <1>13, <1>14, <1>15, <1>16, <1>17 DEF rc, rs

\* A quote is what compute says of some price, rule, rates and discount.
QuoteIsComputed ==
  \/ quote = [price |-> 0, split |-> Refused]
  \/ \E price \in Prices, x \in Terms, taxes \in Rates, discount \in Discounts :
       quote = [price |-> price, terms |-> x, taxes |-> taxes, discount |-> discount,
                split |-> compute(price, x, taxes, discount)]

LEMMA QuoteInit == CommissionInit => QuoteIsComputed
  BY DEF CommissionInit, QuoteIsComputed

LEMMA QuoteStep == QuoteIsComputed /\ [CommissionNext]_quote => QuoteIsComputed'
  BY DEF QuoteIsComputed, CommissionNext, quotes

LEMMA ComputedAddsUp == QuoteIsComputed => SplitAddsUp
<1> SUFFICES ASSUME QuoteIsComputed PROVE SplitAddsUp
  OBVIOUS
<1>1. CASE quote = [price |-> 0, split |-> Refused]
  BY <1>1 DEF SplitAddsUp, Refused
<1>2. ASSUME NEW price \in Prices, NEW x \in Terms, NEW taxes \in Rates, NEW discount \in Discounts,
             quote = [price |-> price, terms |-> x, taxes |-> taxes, discount |-> discount,
                      split |-> compute(price, x, taxes, discount)]
      PROVE  SplitAddsUp
  <2>1. price \in Int /\ valid_terms(x) /\ valid_rates(taxes) /\ discount \in Nat
    BY CommissionAssumption
  <2>2. quote.price = price /\ quote.terms = x /\ quote.taxes = taxes /\ quote.discount = discount
        /\ quote.split = compute(price, x, taxes, discount)
    BY <1>2
  <2>3. QED
    BY <2>1, <2>2, SplitOfCharge DEF SplitAddsUp
<1>3. QED
  BY <1>1, <1>2 DEF QuoteIsComputed

LEMMA ComputedIsExact == QuoteIsComputed => SplitIsExact
<1> SUFFICES ASSUME QuoteIsComputed, quote.split.ok
             PROVE  LET s == quote.split
                        fits == {p \in 0..s.gross : charge_of(p, quote.taxes.service) <= s.gross} IN
                    /\ s.tax - apply_bp(s.commission, quote.taxes.commission) \in -1..1
                    /\ price_for_charge(s.gross, quote.taxes.service) = CHOOSE p \in fits : \A q \in fits : q <= p
  BY ComputedAddsUp DEF SplitIsExact
<1>1. PICK price \in Prices, x \in Terms, taxes \in Rates, discount \in Discounts :
        quote = [price |-> price, terms |-> x, taxes |-> taxes, discount |-> discount,
                 split |-> compute(price, x, taxes, discount)]
  BY DEF QuoteIsComputed, Refused
<1> DEFINE s == compute(price, x, taxes, discount)
           r == taxes.service
<1>2. price \in Int /\ valid_terms(x) /\ valid_rates(taxes) /\ discount \in Nat
  BY CommissionAssumption
<1>3. quote.split = s /\ quote.taxes = taxes /\ s.ok
  BY <1>1
<1>4. /\ s.tax - apply_bp(s.commission, taxes.commission) \in -1..1
      /\ price \in Nat /\ s.gross = charge_of(price, r)
  BY <1>2, <1>3, SplitOfCharge
<1>5. r \in Nat
  <2>1. r \in 0..BP
    BY <1>2 DEF valid_rates
  <2> HIDE DEF r
  <2> QED BY <2>1 DEF BP
<1> HIDE DEF s, r
<1> DEFINE c == s.gross
           fits == {p \in 0..c : charge_of(p, r) <= c}
<1>6. price_for_charge(c, r) = price
  BY <1>4, <1>5, PriceOfCharge
<1>7. price = CHOOSE p \in fits : \A q \in fits : q <= p
  BY <1>4, <1>5, LargestThatFits
<1> QED BY <1>3, <1>4, <1>6, <1>7 DEF r

\* Whatever the price, the rule, the rates and the discount, the parts of a charge add up to it,
\* none is negative, and the technician gets what they would without the platform's discount.
THEOREM ChargesAddUp == CommissionSpec => []SplitAddsUp
  BY QuoteInit, QuoteStep, ComputedAddsUp, PTL DEF CommissionSpec

\* compute and price_for_charge: the discount leaves the VAT of the commission within a cent of its
\* rate, and the two loops that a partial capture goes through end, for any amount, at the price
\* the charge was made of, the largest whose charge fits.
THEOREM ChargesAreExact == CommissionSpec => []SplitIsExact
  BY QuoteInit, QuoteStep, ComputedIsExact, PTL DEF CommissionSpec

-------------------------------------------------------------------------------
(* The rules over time                                                     *)

Rule == [scope : Scopes, terms : Terms, from : Times, to : Times \cup {None}, until : Times \cup {None}]

\* Two rules of a scope are in force one after the other.
before(r, q) == r.to # None /\ r.to <= q.from
Disjoint == \A r, q \in rules : r.scope = q.scope /\ r # q => before(r, q) \/ before(q, r)

\* While no GLOBAL rule was given an end, one of them is in force at any time.
Endless(rs) == \A r \in rs : r.scope = "GLOBAL" => r.until = None
Covered(rs) == \A at \in Times : \E r \in rs : r.scope = "GLOBAL" /\ in_force(r, at)

RulesInv == /\ rules \subseteq Rule /\ IsFiniteSet(rules) /\ Cardinality(rules) <= MaxRules /\ now \in Times
            /\ Disjoint /\ (Endless(rules) => Covered(rules))
            /\ making \in [Managers -> Made \cup {NoRule}]

LEMMA ScopeNames == Scopes = {"PROMOTION", "TECHNICIAN", "CATEGORY", "GLOBAL"}
<1>1. PRECEDENCE[1] = "PROMOTION" /\ PRECEDENCE[2] = "TECHNICIAN" /\ PRECEDENCE[3] = "CATEGORY" /\ PRECEDENCE[4] = "GLOBAL"
  BY DEF PRECEDENCE
<1>2. 1..4 = {1, 2, 3, 4}
  OBVIOUS
<1>3. QED
  BY <1>1, <1>2 DEF Scopes

LEMMA TimesAreNat == Times \subseteq Nat /\ None \notin Times /\ 0 \in Times /\ Times \cup {None} \subseteq Int
  BY RulesAssumption DEF Times, None

\* What closed leaves of a rule: all but its end, which is never later.
LEMMA ClosedRule ==
  ASSUME NEW r \in Rule, NEW w \in Made, NEW c, c = closed(r, w)
  PROVE  /\ c \in Rule /\ c.scope = r.scope /\ c.from = r.from /\ c.until = r.until
         /\ c = r \/ (c.to = w.from /\ r.scope = w.scope /\ (r.to = None \/ r.to > w.from))
<1>1. CASE r \in locked(w)
  <2>1. c = [r EXCEPT !.to = w.from] /\ r.scope = w.scope /\ (r.to = None \/ r.to > w.from)
    BY <1>1 DEF closed, locked, same_scope
  <2>2. c \in Rule /\ c.scope = r.scope /\ c.from = r.from /\ c.until = r.until /\ c.to = w.from
    BY <2>1 DEF Rule, Made
  <2>3. QED
    BY <2>1, <2>2
<1>2. CASE r \notin locked(w)
  BY <1>2 DEF closed
<1>3. QED
  BY <1>1, <1>2

\* An earlier end keeps rules apart.
LEMMA EarlierEnd ==
  ASSUME NEW r \in Rule, NEW q \in Rule, NEW c \in Rule, NEW d \in Rule, before(r, q),
         c.from = r.from, d.from = q.from, c.to = r.to \/ (c.to # None /\ c.to <= r.to)
  PROVE  before(c, d)
<1>1. r.to \in Int /\ c.to \in Int /\ q.from \in Int
  BY TimesAreNat DEF Rule
<1>2. QED
  BY <1>1 DEF before

LEMMA RulesInitInv == RulesInit => RulesInv
<1> SUFFICES ASSUME RulesInit PROVE RulesInv
  OBVIOUS
<1> DEFINE g == [scope |-> "GLOBAL", terms |-> Seed, from |-> 0, to |-> None, until |-> None]
<1>1. rules = {g} /\ now = 0 /\ making \in [Managers -> Made \cup {NoRule}]
  BY DEF RulesInit
<1>2. g \in Rule
  BY RulesAssumption, ScopeNames, TimesAreNat DEF Rule
<1>3. \A at \in Times : in_force(g, at)
  BY TimesAreNat DEF in_force
<1>4. g.scope = "GLOBAL"
  OBVIOUS
<1> HIDE DEF g
<1>5. IsFiniteSet(rules) /\ Cardinality(rules) = 1
  BY <1>1, FS_Singleton
<1>6. Cardinality(rules) <= MaxRules
  BY <1>5, RulesAssumption
<1>7. Disjoint /\ Covered(rules)
  BY <1>1, <1>3, <1>4 DEF Disjoint, Covered
<1>8. QED
  BY <1>1, <1>2, <1>5, <1>6, <1>7, TimesAreNat DEF RulesInv

LEMMA InsertKeeps ==
  ASSUME RulesInv, NEW m \in Managers, insert_rule(m)
  PROVE  RulesInv'
<1> DEFINE w == making[m]
           new == [scope |-> w.scope, terms |-> w.terms, from |-> w.from, to |-> w.to, until |-> w.to]
           kept == {closed(r, w) : r \in rules}
<1>0. /\ rules \subseteq Rule /\ IsFiniteSet(rules) /\ now \in Times /\ Disjoint /\ (Endless(rules) => Covered(rules))
      /\ making \in [Managers -> Made \cup {NoRule}] /\ w \in Made
  BY DEF RulesInv, insert_rule
<1>1. /\ rules' = kept \cup {new} /\ now' = now /\ Cardinality(rules) < MaxRules
      /\ making' = [making EXCEPT ![m] = NoRule] /\ \A r \in kept : ~overlaps(r, new)
  BY DEF insert_rule, ex_commission_rules_no_overlap
<1>2. new \in Rule /\ new.scope = w.scope /\ new.from = w.from /\ new.to = w.to /\ new.until = w.to
  BY <1>0 DEF Rule, Made
<1>a. w.from \in Times /\ w.to \in Times \cup {None}
  BY <1>0 DEF Made
<1> HIDE DEF new, w
<1>3. \A c \in kept : \E r \in rules : c = closed(r, w) /\ c \in Rule
  BY <1>0, ClosedRule
<1>4. IsFiniteSet(kept) /\ Cardinality(kept) <= Cardinality(rules)
  <2> DEFINE f == [r \in rules |-> closed(r, w)]
  <2>1. f \in Surjection(rules, kept)
    BY DEF Surjection
  <2>2. QED
    BY <1>0, <2>1, FS_Surjection
<1> HIDE DEF kept
<1>5. IsFiniteSet(rules') /\ Cardinality(rules') <= MaxRules
  <2>1. Cardinality(rules) \in Nat /\ Cardinality(kept) \in Nat
    BY <1>0, <1>4, FS_CardinalityType
  <2>2. IsFiniteSet(rules') /\ Cardinality(rules') <= Cardinality(kept) + 1
    BY <1>1, <1>4, <2>1, FS_AddElement
  <2>3. Cardinality(rules') \in Nat
    BY <2>2, FS_CardinalityType
  <2>4. QED
    BY <1>1, <1>4, <2>1, <2>2, <2>3, RulesAssumption
<1>6. ASSUME NEW c \in kept, c.scope = w.scope PROVE before(c, new) \/ before(new, c)
  <2>1. c \in Rule /\ ~overlaps(c, new)
    BY <1>1, <1>3, <1>6
  <2>2. {c.from, c.to, new.from, new.to} \subseteq Int
    BY <1>2, <2>1, TimesAreNat DEF Rule
  <2>3. QED
    BY <1>2, <1>6, <2>1, <2>2 DEF overlaps, before
<1>7. ASSUME NEW c \in kept, NEW d \in kept, c.scope = d.scope, c # d PROVE before(c, d) \/ before(d, c)
  <2>1. PICK r \in rules : c = closed(r, w) /\ c \in Rule
    BY <1>3
  <2>2. PICK q \in rules : d = closed(q, w) /\ d \in Rule
    BY <1>3
  <2>3. r # q /\ r \in Rule /\ q \in Rule
    BY <1>0, <1>7, <2>1, <2>2
  <2>4. /\ c.scope = r.scope /\ c.from = r.from /\ (c.to = r.to \/ (c.to = w.from /\ (r.to = None \/ r.to > w.from)))
        /\ d.scope = q.scope /\ d.from = q.from /\ (d.to = q.to \/ (d.to = w.from /\ (q.to = None \/ q.to > w.from)))
    BY <1>0, <2>1, <2>2, <2>3, ClosedRule
  <2>5. r.to \in Int /\ q.to \in Int /\ w.from \in Int /\ w.from # None
    BY <1>a, <2>3, TimesAreNat DEF Rule
  <2>6. before(r, q) \/ before(q, r)
    BY <1>0, <1>7, <2>3, <2>4 DEF Disjoint
  <2>7. CASE before(r, q)
    <3>1. c.to = r.to \/ (c.to # None /\ c.to <= r.to)
      BY <2>4, <2>5, <2>7 DEF before
    <3>2. QED
      BY <2>1, <2>2, <2>3, <2>4, <2>7, <3>1, EarlierEnd
  <2>8. CASE before(q, r)
    <3>1. d.to = q.to \/ (d.to # None /\ d.to <= q.to)
      BY <2>4, <2>5, <2>8 DEF before
    <3>2. QED
      BY <2>1, <2>2, <2>3, <2>4, <2>8, <3>1, EarlierEnd
  <2>9. QED
    BY <2>6, <2>7, <2>8
<1>8. Disjoint'
  BY <1>1, <1>2, <1>6, <1>7 DEF Disjoint
<1>9. Endless(rules') => Covered(rules')
  <2> SUFFICES ASSUME Endless(rules'), NEW at \in Times
               PROVE  \E r \in rules' : r.scope = "GLOBAL" /\ in_force(r, at)
    BY DEF Covered
  <2>1. Endless(rules)
    <3> SUFFICES ASSUME NEW r \in rules, r.scope = "GLOBAL" PROVE r.until = None
      BY DEF Endless
    <3> DEFINE c == closed(r, w)
    <3>1. c \in rules'
      BY <1>1 DEF kept
    <3>2. c.scope = r.scope /\ c.until = r.until
      BY <1>0, ClosedRule
    <3> HIDE DEF c
    <3>3. QED
      BY <3>1, <3>2 DEF Endless
  <2>2. PICK r \in rules : r.scope = "GLOBAL" /\ in_force(r, at)
    BY <1>0, <2>1 DEF Covered
  <2> DEFINE c == closed(r, w)
  <2>3. c \in rules'
    BY <1>1 DEF kept
  <2>4. /\ c.scope = r.scope /\ c.from = r.from
        /\ c = r \/ (c.to = w.from /\ r.scope = w.scope /\ (r.to = None \/ r.to > w.from))
    BY <1>0, ClosedRule
  <2> HIDE DEF c
  <2>5. CASE c = r
    BY <2>2, <2>3, <2>5
  <2>6. CASE c.to = w.from /\ r.scope = w.scope /\ w.from > at
    BY <2>2, <2>3, <2>4, <2>6 DEF in_force
  <2>7. CASE c.to = w.from /\ r.scope = w.scope /\ ~(w.from > at)
    <3>1. new.scope = "GLOBAL" /\ new \in rules' /\ new.until = None
      BY <1>1, <1>2, <2>2, <2>7 DEF Endless
    <3>2. in_force(new, at)
      BY <1>2, <1>a, <2>7, <3>1, TimesAreNat DEF in_force
    <3>3. QED
      BY <3>1, <3>2
  <2>8. QED
    BY <2>4, <2>5, <2>6, <2>7
<1>10. rules' \subseteq Rule
  BY <1>1, <1>2, <1>3
<1>11. making' \in [Managers -> Made \cup {NoRule}]
  BY <1>0, <1>1
<1>12. QED
  BY <1>0, <1>1, <1>5, <1>8, <1>9, <1>10, <1>11 DEF RulesInv

LEMMA CloseKeeps ==
  ASSUME RulesInv, NEW r \in rules, NEW to \in Times, close_rule(r, to)
  PROVE  RulesInv'
<1> DEFINE c == [r EXCEPT !.to = to]
<1>0. rules \subseteq Rule /\ IsFiniteSet(rules) /\ now \in Times /\ Disjoint /\ (Endless(rules) => Covered(rules))
      /\ Cardinality(rules) <= MaxRules /\ r \in Rule /\ making \in [Managers -> Made \cup {NoRule}]
  BY DEF RulesInv
<1>1. /\ rules' = (rules \ {r}) \cup {c} /\ now' = now /\ making' = making /\ r.scope # "GLOBAL" /\ (r.to = None \/ to <= r.to)
  BY DEF close_rule, commission_rule_guard
<1>2. c \in Rule /\ c.scope = r.scope /\ c.from = r.from /\ c.to = to
  BY <1>0 DEF Rule
<1> HIDE DEF c
<1>3. IsFiniteSet(rules') /\ Cardinality(rules') <= MaxRules
  <2>1. IsFiniteSet(rules \ {r}) /\ Cardinality(rules \ {r}) = Cardinality(rules) - 1 /\ Cardinality(rules) \in Nat
    BY <1>0, FS_RemoveElement, FS_CardinalityType
  <2>2. IsFiniteSet(rules') /\ (Cardinality(rules') = Cardinality(rules \ {r})
                                \/ Cardinality(rules') = Cardinality(rules \ {r}) + 1)
    BY <1>1, <2>1, FS_AddElement
  <2>3. QED
    BY <1>0, <2>1, <2>2, RulesAssumption
<1>4. ASSUME NEW q \in rules \ {r}, q.scope = r.scope PROVE before(q, c) \/ before(c, q)
  <2>1. q \in Rule /\ (before(q, r) \/ before(r, q))
    BY <1>0, <1>4 DEF Disjoint
  <2>2. r.to \in Int /\ to \in Int /\ to # None
    BY <1>0, TimesAreNat DEF Rule
  <2>3. CASE before(q, r)
    BY <1>2, <2>3 DEF before
  <2>4. CASE before(r, q)
    <3>1. c.to # None /\ c.to <= r.to
      BY <1>1, <1>2, <2>2, <2>4 DEF before
    <3>2. QED
      BY <1>0, <1>2, <2>1, <2>4, <3>1, EarlierEnd
  <2>5. QED
    BY <2>1, <2>3, <2>4
<1>5. Disjoint'
  BY <1>0, <1>1, <1>2, <1>4 DEF Disjoint
<1>6. Endless(rules') => Covered(rules')
  BY <1>0, <1>1, <1>2 DEF Endless, Covered
<1>7. QED
  BY <1>0, <1>1, <1>2, <1>3, <1>5, <1>6 DEF RulesInv

\* Beginning to create a rule, and giving it up, change no rule.
LEMMA MakingKeeps ==
  ASSUME RulesInv, NEW m \in Managers,
         \/ create_fails(m)
         \/ \E scope \in RuleScopes, x \in Proposed, from \in Times, to \in Times \cup {None} :
              create_rule(m, scope, x, from, to)
  PROVE  RulesInv'
<1>0. making \in [Managers -> Made \cup {NoRule}] /\ rules \subseteq Rule
  BY DEF RulesInv
<1>1. UNCHANGED <<rules, now>>
  BY DEF create_fails, create_rule
<1>2. \E v \in Made \cup {NoRule} : making' = [making EXCEPT ![m] = v]
  <2>1. CASE create_fails(m)
    BY <2>1 DEF create_fails
  <2>2. ASSUME NEW scope \in RuleScopes, NEW x \in Proposed, NEW from \in Times, NEW to \in Times \cup {None},
               create_rule(m, scope, x, from, to)
        PROVE  \E v \in Made : making' = [making EXCEPT ![m] = v]
    <3> DEFINE found == {r.from : r \in same_scope(scope, from)}
               v == [scope |-> scope, terms |-> x, from |-> from, to |-> to, found |-> found]
    <3>1. found \subseteq Times
      BY <1>0 DEF same_scope, Rule
    <3> HIDE DEF found
    <3>2. v \in Made
      BY <3>1, RulesAssumption DEF Made
    <3>3. making' = [making EXCEPT ![m] = v]
      BY <2>2 DEF create_rule, found
    <3>4. QED
      BY <3>2, <3>3
  <2>3. QED
    BY <2>1, <2>2
<1>3. making' \in [Managers -> Made \cup {NoRule}]
  BY <1>0, <1>2
<1>4. QED
  BY <1>1, <1>3 DEF RulesInv, Disjoint

LEMMA RulesStep == RulesInv /\ [RulesNext]_ruleVars => RulesInv'
<1> SUFFICES ASSUME RulesInv, [RulesNext]_ruleVars PROVE RulesInv'
  OBVIOUS
<1>1. CASE UNCHANGED ruleVars
  BY <1>1 DEF ruleVars, RulesInv, Disjoint
<1>2. CASE time_goes_by
  BY <1>2, RulesAssumption DEF time_goes_by, RulesInv, Disjoint, Times
<1>3. QED
  BY <1>1, <1>2, MakingKeeps, InsertKeeps, CloseKeeps DEF RulesNext

\* At most one rule of a scope is in force at a time.
LEMMA OneInForce ==
  ASSUME RulesInv, NEW at \in Times, NEW scope
  PROVE  Cardinality({r \in Applicable(at) : r.scope = scope}) <= 1
         /\ ({r \in Applicable(at) : r.scope = scope} # {} => Cardinality({r \in Applicable(at) : r.scope = scope}) = 1)
<1> DEFINE s == {r \in Applicable(at) : r.scope = scope}
<1>1. ASSUME NEW r \in s, NEW q \in s PROVE r = q
  <2>1. r \in rules /\ q \in rules /\ r.scope = q.scope /\ in_force(r, at) /\ in_force(q, at)
    BY <1>1 DEF Applicable
  <2>2. r \in Rule /\ q \in Rule
    BY <2>1 DEF RulesInv
  <2>3. r.to \in Int /\ q.to \in Int /\ r.from \in Int /\ q.from \in Int /\ at \in Int
    BY <2>2, TimesAreNat DEF Rule
  <2>4. ~before(r, q) /\ ~before(q, r)
    BY <2>1, <2>3 DEF before, in_force
  <2>5. QED
    BY <2>1, <2>4 DEF RulesInv, Disjoint
<1> HIDE DEF s
<1>2. CASE s = {}
  BY <1>2, FS_EmptySet DEF s
<1>3. CASE s # {}
  <2>1. PICK r \in s : TRUE
    BY <1>3
  <2>2. s = {r}
    BY <1>1, <2>1
  <2>3. Cardinality(s) = 1
    BY <2>2, FS_Singleton
  <2>4. QED
    BY <2>3 DEF s
<1>4. QED
  BY <1>2, <1>3

LEMMA InForceHolds == RulesInv => RuleInForce
<1> SUFFICES ASSUME RulesInv PROVE RuleInForce
  OBVIOUS
<1>1. \A at \in Times, scope \in Scopes : Cardinality({r \in Applicable(at) : r.scope = scope}) <= 1
  BY OneInForce
<1>2. ASSUME Endless(rules), NEW at \in Times PROVE Cardinality(resolve_rule(at)) = 1
  <2> DEFINE of(i) == {r \in Applicable(at) : r.scope = PRECEDENCE[i]}
             found == {i \in 1..4 : of(i) # {}}
             first == CHOOSE i \in found : \A j \in found : i <= j
  <2>1. PICK r \in rules : r.scope = "GLOBAL" /\ in_force(r, at)
    BY <1>2 DEF RulesInv, Covered
  <2>2. PRECEDENCE[4] = "GLOBAL"
    BY DEF PRECEDENCE
  <2>3. r \in of(4)
    BY <2>1, <2>2 DEF Applicable
  <2>4. 4 \in found
    BY <2>3
  <2>5. resolve_rule(at) = IF found = {} THEN {} ELSE of(first)
    BY DEF resolve_rule
  <2>6. \A i \in found : of(i) # {} /\ i \in 1..4
    OBVIOUS
  <2> HIDE DEF found
  <2>7. \E i \in found : \A j \in found : i <= j
    <3>1. CASE 1 \in found
      BY <2>6, <3>1
    <3>2. CASE 1 \notin found /\ 2 \in found
      BY <2>6, <3>2
    <3>3. CASE 1 \notin found /\ 2 \notin found /\ 3 \in found
      BY <2>6, <3>3
    <3>4. CASE 1 \notin found /\ 2 \notin found /\ 3 \notin found
      BY <2>4, <2>6, <3>4
    <3>5. QED
      BY <3>1, <3>2, <3>3, <3>4
  <2>8. first \in found
    BY <2>7
  <2>9. resolve_rule(at) = of(first) /\ of(first) # {}
    BY <2>5, <2>6, <2>8
  <2> HIDE DEF first
  <2>10. QED
    BY <1>2, <2>9, OneInForce
<1>3. QED
  BY <1>1, <1>2 DEF RuleInForce, Endless

\* Every rule has its type and no more are kept than were created.
THEOREM RulesTyped == RulesSpec => []RulesTypeOK
<1>1. RulesInv => RulesTypeOK
  BY DEF RulesInv, RulesTypeOK, Rule
<1>2. QED
  BY <1>1, RulesInitInv, RulesStep, PTL DEF RulesSpec

\* create_rule, close_rule and resolve_rule: for every history of rules, with any terms and dates
\* and any number of managers at once, at most one rule of a scope is in force at a time, because
\* the exclusion constraint refuses what the managers' queries do not see; and while no GLOBAL rule
\* was given an end, resolve_rule finds one: an end is only written together with what follows it.
THEOREM OneRuleInForce == RulesSpec => []RuleInForce
<1>1. QED
  BY InForceHolds, RulesInitInv, RulesStep, PTL DEF RulesSpec
=============================================================================
