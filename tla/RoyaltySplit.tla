---------------------------- MODULE RoyaltySplit ----------------------------
(***************************************************************************)
(* The revenue split of one order line: platform fee and creator royalty,  *)
(* in integer cents, on the CREATOR's plan tier.                           *)
(* services/api/src/modules/royalties/split.ts and                         *)
(* packages/world-schema/src/enums.ts.                                     *)
(***************************************************************************)
EXTENDS Integers

Tiers == {"STARTER", "CREATOR", "PRO", "STUDIO", "ENTERPRISE"}

\* PLAN[tier].feePct.
FeePct ==
  [STARTER |-> 20, CREATOR |-> 15, PRO |-> 12, STUDIO |-> 10, ENTERPRISE |-> 10]

\* Math.round(n / 100) of a non-negative integer n: halves round up.
RoundedHundredth(n) == (n + 50) \div 100

FeeCents(gross, tier) == RoundedHundredth(gross * FeePct[tier])

RoyaltyCents(gross, tier) == gross - FeeCents(gross, tier)
=============================================================================
