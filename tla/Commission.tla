------------------------------- MODULE Commission -------------------------------
(***************************************************************************)
(* The commission engine: how a price becomes a charge and its split, in   *)
(* integer cents.  CommissionRules has the rules and which of them applies.*)
(*                                                                         *)
(*   quote  the charge computed: its inputs and its breakdown              *)
(***************************************************************************)
EXTENDS Integers

CONSTANTS
  Terms,           \* RuleTerms a manager may propose
  Rates,           \* TaxRates
  Prices,          \* prices a charge is computed for, in cents
  Discounts,       \* platform discounts
  ProviderRate,    \* PROVIDER_FEE_RATE_BP
  ProviderFixed,   \* PROVIDER_FEE_FIXED_CENTS
  MinService,      \* PAYMENT_MIN_SERVICE_CENTS
  MaxService       \* PAYMENT_MAX_SERVICE_CENTS

VARIABLE quote

BP == 10000
None == -1        \* an optional amount or date that is absent
Types == {"PERCENT", "FIXED", "PERCENT_PLUS_FIXED"}

\* create_rule refuses the others.
valid_terms(x) ==
  /\ x.type \in Types /\ x.rate \in Nat /\ x.rate <= BP /\ x.fixed \in Nat
  /\ x.min \in Nat \cup {None} /\ x.max \in Nat \cup {None}
  /\ x.max = None \/ x.max >= (IF x.min = None THEN 0 ELSE x.min)
  /\ (x.type = "PERCENT" => x.fixed = 0) /\ (x.type = "FIXED" => x.rate = 0)

\* Settings bounds TAX_IVA_BP and the WITHHOLDING_* rates to 100 % (app/core/config.py).
valid_rates(t) == {t.service, t.commission, t.isr, t.iva} \subseteq 0..BP

ASSUME CommissionAssumption == /\ \A x \in Terms : valid_terms(x)
                               /\ \A x \in Rates : valid_rates(x)
                               /\ Prices \subseteq Int /\ Discounts \subseteq Nat

-------------------------------------------------------------------------------
(* Cents                                                                   *)

\* Half a cent rounds up.
apply_bp(amount, rate) == (amount * rate * 2 + BP) \div (2 * BP)
_div_half_up(n, d) == (n * 2 + d) \div (2 * d)
at_least(value, bound) == IF bound # None /\ value < bound THEN bound ELSE value
at_most(value, bound) == IF bound # None /\ value > bound THEN bound ELSE value

raw_commission(x, price) ==
  at_most(at_least((IF x.type = "FIXED" THEN 0 ELSE apply_bp(price, x.rate))
                   + (IF x.type = "PERCENT" THEN 0 ELSE x.fixed), x.min), x.max)
commission(x, price) == at_most(raw_commission(x, price), price)

\* Mutant: the VAT of what is left of the commission is rounded on its own.
discounted_separately(fee, discount, rate) ==
  LET left == _div_half_up((fee - discount) * BP, BP + rate) IN
  [commission |-> left, tax |-> apply_bp(left, rate)]

\* Commission and its VAT go down by exactly the discount.
discounted(fee, discount, rate) ==
  LET left == _div_half_up((fee - discount) * BP, BP + rate) IN
  [commission |-> left, tax |-> fee - discount - left]

Refused == [ok |-> FALSE, gross |-> 0, commission |-> 0, tax |-> 0, isr |-> 0, iva |-> 0, technician |-> 0]
compute(price, x, taxes, discount) ==
  LET gross == price + apply_bp(price, taxes.service)
      full == commission(x, price)
      fee == full + apply_bp(full, taxes.commission)
      kept == IF discount = 0 THEN [commission |-> full, tax |-> fee - full]
              ELSE discounted(fee, discount, taxes.commission)
      isr == apply_bp(price, taxes.isr)
      iva == apply_bp(price, taxes.iva)
      technician == gross - discount - kept.commission - kept.tax - isr - iva IN
  IF price <= 0 \/ discount < 0 \/ (discount > 0 /\ discount > fee) \/ technician < 0 THEN Refused
  ELSE [ok |-> TRUE, gross |-> gross, commission |-> kept.commission, tax |-> kept.tax, isr |-> isr, iva |-> iva,
        technician |-> technician]

\* The loops of price_for_charge: down to a price that fits, then up to the last that does.
charge_of(price, rate) == price + apply_bp(price, rate)
price_for_charge(charge, rate) ==
  LET first == (charge * BP) \div (BP + rate)
      down[p \in 0..first] == IF p > 0 /\ charge_of(p, rate) > charge THEN down[p - 1] ELSE p
      up[p \in 0..charge] == IF p < charge /\ charge_of(p + 1, rate) <= charge THEN up[p + 1] ELSE p IN
  up[down[first]]

provider_cost_cents(price, taxes) ==
  LET fee == apply_bp(charge_of(price, taxes.service), ProviderRate) + ProviderFixed IN
  fee + apply_bp(fee, taxes.commission)

\* The prices of the range next to its ends and to the breaks of the commission.
uncovered_prices(x, taxes) ==
  LET rate == IF x.type = "FIXED" THEN 0 ELSE x.rate
      fixed == IF x.type = "PERCENT" THEN 0 ELSE x.fixed
      points == {MinService, MaxService}
                \cup {((b - fixed) * BP) \div rate : b \in {b \in {x.min, x.max} : rate > 0 /\ b # None /\ b > fixed}}
                \cup {(fixed * BP) \div (BP - rate) : r \in {r \in {rate} : r < BP}} IN
  {p \in UNION {{q - 1, q, q + 1} : q \in points} \cap (MinService..MaxService) :
     commission(x, p) < provider_cost_cents(p, taxes)}

-------------------------------------------------------------------------------
quotes(price, x, taxes, discount) ==
  /\ quote.price = 0
  /\ quote' = [price |-> price, terms |-> x, taxes |-> taxes, discount |-> discount,
               split |-> compute(price, x, taxes, discount)]

CommissionInit == quote = [price |-> 0, split |-> Refused]
CommissionNext == \E price \in Prices, x \in Terms, taxes \in Rates, discount \in Discounts :
                    quotes(price, x, taxes, discount)
CommissionSpec == CommissionInit /\ [][CommissionNext]_quote

CommissionTypeOK == quote.price \in {0} \cup Prices

\* Breakdown.check: no cent is lost and nobody's part is negative; and the technician gets what
\* they would without the platform's discount.
SplitAddsUp ==
  quote.split.ok =>
    LET s == quote.split IN
    /\ s.technician + s.commission + s.tax + s.isr + s.iva = s.gross - quote.discount
    /\ s.technician >= 0 /\ s.commission >= 0 /\ s.tax >= 0 /\ s.isr >= 0 /\ s.iva >= 0
    /\ s.technician = compute(quote.price, quote.terms, quote.taxes, 0).technician

\* A charge adds up; a discount leaves the VAT of the commission within a cent of its rate; and
\* the price of the charge, which a partial capture recomputes, is the largest that fits it.
SplitIsExact ==
  /\ SplitAddsUp
  /\ quote.split.ok =>
       LET s == quote.split
           fits == {p \in 0..s.gross : charge_of(p, quote.taxes.service) <= s.gross} IN
       /\ s.tax - apply_bp(s.commission, quote.taxes.commission) \in -1..1
       /\ price_for_charge(s.gross, quote.taxes.service) = CHOOSE p \in fits : \A q \in fits : q <= p
================================================================================
