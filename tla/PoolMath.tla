-------------------------------- MODULE PoolMath --------------------------------
(***************************************************************************)
(* The arithmetic of one pool, floored and rounded up where the contracts  *)
(* do: PoolPriceMath.sol (price.ts floors the same), FullRangeLiquidity.sol*)
(* and the two formulas of Uniswap's SqrtPriceMath under it.  The scales   *)
(* are parameters; 2^96 and 10^18 leave no room for TLC's integers.        *)
(***************************************************************************)
EXTENDS Integers

CONSTANTS Q96, Unit,        \* fixed points: of square roots, of prices
          One,              \* 100% in fee units (pips)
          Lowest, Highest   \* the square root prices at the position's ends

ASSUME ScaleAssumption ==
    /\ {Q96, Unit, One, Lowest, Highest} \subseteq Nat \ {0}
    /\ Lowest < Highest

CeilDiv(a, b) == (a + b - 1) \div b
Smallest(a, b) == IF a < b THEN a ELSE b

-----------------------------------------------------------------------------
(* PoolPriceMath.sol                                                       *)

rwaPriceE18(x, rwa0) ==
    IF rwa0 THEN (((x * x) \div Q96) * Unit) \div Q96 ELSE (((Q96 * Q96) \div x) * Unit) \div x

gapPips(price, reference) ==
    LET gap == IF price > reference THEN price - reference ELSE reference - price
    IN IF gap >= reference THEN One ELSE (gap * One) \div reference

\* The bisection of the deployment script: low stays on the wanted price's side.
sqrtPriceAtE18(price, rwa0, min, max) ==
    LET beyond(x) == IF rwa0 THEN rwaPriceE18(x, rwa0) > price ELSE rwaPriceE18(x, rwa0) < price
        between[range \in (min..max) \X (min..max)] ==
          LET low == range[1]
              high == range[2]
              mid == (low + high) \div 2
          IN IF high - low <= 1 THEN low
             ELSE IF beyond(mid) THEN between[<<low, mid>>] ELSE between[<<mid, high>>]
    IN between[<<min, max>>]

-----------------------------------------------------------------------------
(* SqrtPriceMath: what liquidity is worth between two prices a < b         *)

Amount0(a, b, liquidity, up) ==
    LET scaled == liquidity * Q96 * (b - a)
    IN IF up THEN CeilDiv(CeilDiv(scaled, b), a) ELSE (scaled \div b) \div a
Amount1(a, b, liquidity, up) ==
    IF up THEN CeilDiv(liquidity * (b - a), Q96) ELSE (liquidity * (b - a)) \div Q96

(* FullRangeLiquidity.sol                                                  *)

amountsForLiquidity(x, liquidity, up) ==
    IF x < Lowest THEN <<Amount0(Lowest, Highest, liquidity, up), 0>>
    ELSE IF x < Highest
    THEN <<Amount0(x, Highest, liquidity, up), Amount1(Lowest, x, liquidity, up)>>
    ELSE <<0, Amount1(Lowest, Highest, liquidity, up)>>

FromAmount0(a, b, amount) == (amount * ((a * b) \div Q96)) \div (b - a)
FromAmount1(a, b, amount) == (amount * Q96) \div (b - a)
liquidityForAmounts(x, amount) ==
    IF x <= Lowest THEN FromAmount0(Lowest, Highest, amount[1])
    ELSE IF x < Highest
    THEN Smallest(FromAmount0(x, Highest, amount[1]), FromAmount1(Lowest, x, amount[2]))
    ELSE FromAmount1(Lowest, Highest, amount[2])

===============================================================================
