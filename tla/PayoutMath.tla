----------------------------- MODULE PayoutMath -----------------------------
(***************************************************************************)
(* The sums of performance-math.ts.  Money is in cents and rates are in    *)
(* per cent, so that a result rounded to two decimals, half up, is a       *)
(* rounded integer quotient.                                               *)
(***************************************************************************)
EXTENDS Integers

RoundedQuotient(a, b) == (2 * a + b) \div (2 * b)

EligibleExcess(balance, floor) == IF balance > floor THEN balance - floor ELSE 0

(* The gross base that yields a net sum at a split: of a cap, of a request. *)
GrossOf(net, split) == RoundedQuotient(100 * net, split)

Least(a, b) == IF a <= b THEN a ELSE b

(* A wrong ApprovedGross: the cap is not applied.                           *)
UncappedGross(excess, requested, cap) == Least(excess, requested)
(* Another: the trader gets what is there, not what was asked for.          *)
GenerousGross(excess, requested, cap) == Least(excess, cap)

ApprovedGross(excess, requested, cap) == Least(excess, Least(requested, cap))

TraderNet(gross, split) == RoundedQuotient(gross * split, 100)

WaribaShare(gross, split) == gross - TraderNet(gross, split)
=============================================================================
