------------------------------- MODULE Pricing -------------------------------
(***************************************************************************)
(* The fee engine of migrations/0007_merchant_pricing.sql: what a pricing  *)
(* rule is, which rules set_merchant_pricing accepts, and the fee that     *)
(* quote_merchant_pricing computes from a rule.  Amounts are integer       *)
(* centavos; the SQL computes in numeric and rounds once.                  *)
(***************************************************************************)
EXTENDS Integers

\* The operations a pricing version prices, one rule each.
Kinds == {"pix_in", "transfer", "withdrawal"}
OutboundKinds == {"transfer", "withdrawal"}

\* A rule without a maximum.  A null minimum is the minimum 0: no fee is
\* negative, so greatest(fee, 0) changes nothing.
NoMax == -1

Rule == [fixed: Nat, bps: Nat, min: Nat, max: Nat \cup {NoMax}]

\* The checks of validatePricingRule, repeated by set_merchant_pricing and
\* by the constraints of merchant_pricing_rules.
ValidRule(rule) ==
    /\ rule \in Rule
    /\ rule.bps <= 10000
    /\ rule.max # NoMax => rule.min <= rule.max

\* A pricing version defines exactly the three operations.
ValidTable(table) == table \in [Kinds -> Rule] /\ \A k \in Kinds : ValidRule(table[k])

ZeroRule == [fixed |-> 0, bps |-> 0, min |-> 0, max |-> NoMax]

\* The version every merchant starts with (initialize_merchant_pricing).
ZeroTable == [k \in Kinds |-> ZeroRule]

\* round(amount * bps / 10000): numeric rounding, half away from zero.
PercentFee(amount, bps) == (amount * bps + 5000) \div 10000

\* fee_value of quote_merchant_pricing: fixed part plus percentage, raised to
\* the minimum, then lowered to the maximum.
QuoteFee(rule, amount) ==
    LET raw    == rule.fixed + PercentFee(amount, rule.bps)
        raised == IF raw < rule.min THEN rule.min ELSE raw
    IN  IF rule.max # NoMax /\ raised > rule.max THEN rule.max ELSE raised
=============================================================================
