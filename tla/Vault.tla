--------------------------------- MODULE Vault ---------------------------------
(***************************************************************************)
(* RwaLiquidityVault.sol: one full-range position, and shares of it.       *)
(*                                                                         *)
(* Each action is one transaction that succeeded; the caller's maxima,     *)
(* minima, price band and deadline decide only whether it reverts, and a   *)
(* call that reverts is no step.  The pool's price x is whatever the       *)
(* traders left it at, and mayAdd whether the hook lets liquidity in: here *)
(* both are free, in Lp they are the hook's.                               *)
(***************************************************************************)
EXTENDS PoolMath, FiniteSets

CONSTANTS Accounts, Dead,   \* who holds shares; the address of the locked ones
          MinShares         \* MINIMUM_SHARES

ASSUME VaultAssumption == MinShares \in Nat \ {0} /\ Dead \notin Accounts

VARIABLES vault,    \* [supply, liquidity, idle, fees]: fees are the position's, not yet collected
          shares,   \* balanceOf
          allow     \* [enabled, accounts]

vaultVars == <<vault, shares, allow>>
Tokens == 1..2
Pair == [Tokens -> Nat]
Plus(p, q) == [i \in Tokens |-> p[i] + q[i]]
Nothing == [i \in Tokens |-> 0]

VaultInit ==
    /\ vault = [supply |-> 0, liquidity |-> 0, idle |-> Nothing, fees |-> Nothing]
    /\ shares = [a \in Accounts \cup {Dead} |-> 0]
    /\ allow = [enabled |-> FALSE, accounts |-> {}]

-----------------------------------------------------------------------------
(* Parts of the supply                                                     *)

\* _collectFees, then balanceOfSelf: everything that lies idle.
Idle == Plus(vault.idle, vault.fees)
\* Mutant of Share: what a depositor pays is rounded down.
ShareDown(amount, s) == (amount * s) \div vault.supply
Share(amount, s) == CeilDiv(amount * s, vault.supply)
Part(amount, s) == (amount * s) \div vault.supply

PreviewIdle == Idle
previewDeposit(x, s) ==
    IF vault.supply = 0 THEN amountsForLiquidity(x, s, TRUE)
    ELSE Plus(amountsForLiquidity(x, Share(vault.liquidity, s), TRUE),
              [i \in Tokens |-> Share(PreviewIdle[i], s)])
previewWithdraw(x, s) ==
    IF vault.supply = 0 THEN Nothing
    ELSE Plus(amountsForLiquidity(x, Part(vault.liquidity, s), FALSE),
              [i \in Tokens |-> Part(PreviewIdle[i], s)])
totalAmounts(x) == Plus(amountsForLiquidity(x, vault.liquidity, FALSE), Idle)

Fits(cost, max) == \A i \in Tokens : cost[i] <= max[i]
HeldBack(amount) == [i \in Tokens |-> IF amount[i] = 0 THEN 0 ELSE amount[i] - 1]
\* The bisection for the largest share count whose cost fits.
sharesForAmounts(x, max) ==
    LET first == liquidityForAmounts(x, HeldBack(max))
        top == (liquidityForAmounts(x, max) * vault.supply) \div vault.liquidity
        between[range \in (0..top) \X (0..top)] ==
          LET lo == range[1]
              hi == range[2]
              mid == hi - (hi - lo) \div 2
          IN IF lo >= hi THEN lo
             ELSE IF Fits(previewDeposit(x, mid), max) THEN between[<<mid, hi>>]
             ELSE between[<<lo, mid - 1>>]
    IN IF vault.supply = 0 THEN IF first > MinShares THEN first ELSE 0
       ELSE between[<<0, top>>]

-----------------------------------------------------------------------------
(* The allowlist on mints and transfers; burns are never blocked           *)

Listed(a) == allow.enabled => a \in allow.accounts

-----------------------------------------------------------------------------
(* Deposits, withdrawals, the operator                                     *)

\* Mutant of Minted: the locked shares are minted on top.
MintedWhole(s) == s
Minted(s) == s - MinShares

\* What either takes, to the unit; what a withdrawal pays.
DepositCost(x, s) ==
    IF vault.supply = 0
    THEN [i \in Tokens |-> amountsForLiquidity(x, s, TRUE)[i] - vault.fees[i]]
    ELSE Plus(amountsForLiquidity(x, Share(vault.liquidity, s), TRUE),
              [i \in Tokens |-> Share(Idle[i], s)])
WithdrawPays(x, s) ==
    Plus(amountsForLiquidity(x, Part(vault.liquidity, s), FALSE),
         [i \in Tokens |-> Part(Idle[i], s)])

\* Fees a position has before there are shares are set off against the price (a larger fee
\* than price reverts).
FirstDeposit(from, to, s, x, mayAdd) ==
    /\ vault.supply = 0 /\ s > MinShares /\ mayAdd
    /\ Listed(from) /\ Listed(to)
    /\ Fits(vault.fees, amountsForLiquidity(x, s, TRUE))
    /\ vault' = [vault EXCEPT !.supply = s, !.liquidity = @ + s, !.fees = Nothing]
    /\ shares' = [shares EXCEPT ![Dead] = @ + MinShares, ![to] = @ + Minted(s)]
    /\ UNCHANGED allow

LaterDeposit(from, to, s, x, mayAdd) ==
    /\ vault.supply > 0 /\ s > 0 /\ mayAdd
    /\ Listed(from) /\ Listed(to)
    /\ vault' = [supply |-> vault.supply + s,
                 liquidity |-> vault.liquidity + Share(vault.liquidity, s),
                 idle |-> [i \in Tokens |-> Idle[i] + Share(Idle[i], s)],
                 fees |-> Nothing]
    /\ shares' = [shares EXCEPT ![to] = @ + s]
    /\ UNCHANGED allow

\* Never asks the hook: a halted pool locks nothing in.
Withdraw(from, s) ==
    /\ s > 0 /\ s <= shares[from]
    /\ vault' = [supply |-> vault.supply - s,
                 liquidity |-> vault.liquidity - Part(vault.liquidity, s),
                 idle |-> [i \in Tokens |-> Idle[i] - Part(Idle[i], s)],
                 fees |-> Nothing]
    /\ shares' = [shares EXCEPT ![from] = @ - s]
    /\ UNCHANGED allow

\* Adds what the idle balances pay for, one wei of each held back.
Compounded(x) == liquidityForAmounts(x, HeldBack(Idle))
CompoundCost(x) == amountsForLiquidity(x, Compounded(x), TRUE)
Compound(x, mayAdd) ==
    /\ Compounded(x) > 0 => mayAdd
    /\ Fits(CompoundCost(x), Idle)
    /\ vault' = [vault EXCEPT !.liquidity = @ + Compounded(x), !.fees = Nothing,
                   !.idle = [i \in Tokens |->
                              Idle[i] - (IF Compounded(x) > 0 THEN CompoundCost(x)[i] ELSE 0)]]
    /\ UNCHANGED <<shares, allow>>

Transfer(from, to, s) ==
    /\ from # to /\ s \in 1 .. shares[from]
    /\ Listed(from) /\ Listed(to)
    /\ shares' = [shares EXCEPT ![from] = @ - s, ![to] = @ + s]
    /\ UNCHANGED <<vault, allow>>

SetAllowlistEnabled(enabled) ==
    allow' = [allow EXCEPT !.enabled = enabled] /\ UNCHANGED <<vault, shares>>
SetAllowed(a, allowed) ==
    /\ allow' = [allow EXCEPT !.accounts = IF allowed THEN @ \cup {a} ELSE @ \ {a}]
    /\ UNCHANGED <<vault, shares>>

\* A swap pays the position its part of the fee; anyone may send the vault tokens.
Earn(fees) ==
    /\ vault' = [vault EXCEPT !.fees = IF vault.liquidity = 0 THEN @ ELSE Plus(@, fees)]
    /\ UNCHANGED <<shares, allow>>
Donate(amount) ==
    vault' = [vault EXCEPT !.idle = Plus(@, amount)] /\ UNCHANGED <<shares, allow>>

\* Whatever moves a share: with the price and the hook's answer of that moment.
VaultStep(x, mayAdd) ==
    \/ \E from \in Accounts, to \in Accounts, s \in Nat :
         FirstDeposit(from, to, s, x, mayAdd) \/ LaterDeposit(from, to, s, x, mayAdd)
    \/ \E from \in Accounts, s \in Nat : Withdraw(from, s)
    \/ Compound(x, mayAdd)
    \/ \E from \in Accounts, to \in Accounts, s \in Nat : Transfer(from, to, s)
    \/ \E b \in BOOLEAN : SetAllowlistEnabled(b) \/ (\E a \in Accounts : SetAllowed(a, b))
    \/ \E amount \in Pair : Earn(amount) \/ Donate(amount)
VaultSpec == VaultInit /\ [][\E x \in Nat \ {0}, mayAdd \in BOOLEAN : VaultStep(x, mayAdd)]_vaultVars

-----------------------------------------------------------------------------
(* Properties                                                              *)

VaultTypes ==
    /\ vault \in [supply : Nat, liquidity : Nat, idle : Pair, fees : Pair]
    /\ shares \in [Accounts \cup {Dead} -> Nat]
    /\ allow \in [enabled : BOOLEAN, accounts : SUBSET Accounts]

\* Each single share, as a pair of its holder and a number.
Singles == UNION {{a} \X (1 .. shares[a]) : a \in Accounts \cup {Dead}}
SharesAddUp == IsFiniteSet(Singles) /\ Cardinality(Singles) = vault.supply

\* The balances add up to the supply, a share starts as one unit of liquidity and only ever gains,
\* and the locked ones stay: once there are shares the supply never returns to zero, whoever
\* leaves (VaultInvariants.t.sol:123-137, RwaLiquidityVault.sol:37).
Backed ==
    /\ SharesAddUp
    /\ vault.liquidity >= vault.supply
    /\ vault.supply > 0 => shares[Dead] >= MinShares

\* Whoever deposits, withdraws, trades or sends tokens, and however the amounts round: the
\* liquidity behind a share, and the idle tokens behind it, never shrink.  The operator may turn
\* idle tokens into liquidity (RwaLiquidityVault.sol:27: "value-neutral for the other holders at
\* any pool price").
KeepsValue ==
    LET claim(v, i) == v.idle[i] + v.fees[i]
    IN vault.supply > 0 =>
         /\ vault'.supply > 0
         /\ vault'.liquidity * vault.supply >= vault.liquidity * vault'.supply
         /\ vault'.supply # vault.supply =>
              \A i \in Tokens : claim(vault', i) * vault.supply >= claim(vault, i) * vault'.supply
SharesKeepValue == [][KeepsValue]_vaultVars

===============================================================================
