----------------------------------- MODULE Lp -----------------------------------
(***************************************************************************)
(* The pool, its hook and the vault together: the vault acts at the price  *)
(* the traders left and asks the hook to add liquidity; a swap pays the    *)
(* vault.  What is examined differs from one start to another (Foci): all  *)
(* instants of the calendar, the hook through the deployment and changes   *)
(* of the token, the vault under many deposits.                            *)
(***************************************************************************)
EXTENDS SessionHook, Vault

CONSTANTS Foci,     \* [start, fees, script, days, hook, vault]: an instant, the schedule unless
                    \* the script runs, whether any day may come next, steps
          Days,     \* the instants of all days
          Sizes,    \* numbers of shares
          Fees,     \* what a swap may earn the position, a donor send
          Amounts   \* what a depositor may have of each token

ASSUME LpAssumption ==
    /\ \A focus \in Foci :
         focus.start \in Nat /\ (~focus.script => focus.fees \in FeeSchedule /\ ValidFees(focus.fees))
    /\ Days \subseteq Nat
    /\ Sizes \subseteq Nat /\ Fees \subseteq Pair /\ Amounts \subseteq Nat

VARIABLES left      \* whether a day may be picked; the steps the hook's and the vault's actors have

lpVars == <<hookVars, vaultVars, left>>

Ready(f) ==
    /\ pool = [created |-> TRUE, halted |-> FALSE, gate |-> "vault", fees |-> f, rwa0 |-> TRUE,
               bStock |-> FALSE, sqrtP |-> sqrtPriceAtE18(Worth, TRUE, MinSqrtPrice, MaxSqrtPrice)]
    /\ deploy = Len(Steps)

LpInit ==
    /\ VaultInit
    /\ \E focus \in Foci :
         /\ HookStart(focus.start, ~focus.script)
         /\ IF focus.script THEN pool = NoPool /\ deploy = 1 ELSE Ready(focus.fees)
         /\ left = [days |-> IF focus.days THEN "all" ELSE "none", hook |-> focus.hook, vault |-> focus.vault]

Bound == 1..4   \* balances in reach of a transaction
Vaults ==
    LET x == pool.sqrtP IN
    \/ \E from \in Accounts, to \in Accounts, s \in Sizes :
         FirstDeposit(from, to, s, x, MayAdd) \/ LaterDeposit(from, to, s, x, MayAdd)
    \/ \E from \in Accounts, s \in Bound : Withdraw(from, s)
    \/ Compound(x, MayAdd)
    \/ \E from \in Accounts, to \in Accounts, s \in Sizes : Transfer(from, to, s)
    \/ \E b \in BOOLEAN : SetAllowlistEnabled(b) \/ (\E a \in Accounts : SetAllowed(a, b))
    \/ \E amount \in Fees : Donate(amount)

LpNext ==
    \/ Deploy /\ UNCHANGED <<vaultVars, left>>
    \/ /\ left.days = "all" /\ left' = [left EXCEPT !.days = "picked"]
       /\ (\E t \in Days : Tick(t)) /\ UNCHANGED vaultVars
    \/ /\ left.hook > 0 /\ left' = [left EXCEPT !.hook = @ - 1]
       /\ HookNext /\ UNCHANGED vaultVars
    \/ /\ left.vault > 0 /\ left' = [left EXCEPT !.vault = @ - 1]
       /\ pool.created
       /\ \/ Vaults /\ UNCHANGED hookVars
          \/ \E z \in BOOLEAN, x \in SqrtPrices, amount \in Fees :
               Swap(z, x) /\ Earn(amount)
LpSpec == LpInit /\ [][LpNext]_lpVars

-----------------------------------------------------------------------------
(* Properties                                                              *)

\* The on-chain calendar is the twin of the agent's (NyseMarketCalendar.sol:9): at
\* every minute where a session of any day begins or ends, and where the clocks change.
CalendarsAgree == left.days = "picked" =>
    \A session \in {usSession(now)} :
      SessionAt(Deployed, now) =
        [session |-> session,
         openedAt |-> IF session = "regular"
                      THEN newYorkTimeOn(newYorkParts(now).date, OpenMinutes) ELSE 0]

\* A plan is due again two minutes after an open the contract calls one too, on the first
\* session day at least a day, or a week, of New York dates later: never twice a day, and no
\* shorter week when the clocks change (schedule.ts:4).  Weekly plans: while the tables last.
DueNext == left.days = "picked" =>
    LET next(due, from, day) ==
          /\ due # NoSession
          /\ SessionAt(Deployed, due).openedAt = due - OpenSettle
          /\ from <= day
          /\ \A d \in from .. day - 1 :
               SessionAt(Deployed, UtcOf(d, OpenMinutes)).session # "regular"
    IN \A c \in {"daily", "weekly"} :
         \A from \in {DayOf(now) + (IF c = "weekly" THEN 7 ELSE 1)} :
           CivilFromDays(from + 7).y \in KnownYears =>
             \A due \in {nextDue(c, now)} : next(due, from, DayOf(due))

\* The previews keep their word although swaps pay the position and donors the vault between any
\* two transactions: a deposit takes no more than previewDeposit said, a withdrawal pays what
\* previewWithdraw said, the bisection finds the largest share count that fits, compounding can
\* always pay, and costs the holders at most one unit of each token in rounding.
PreviewTrue == pool.created =>
    LET x == pool.sqrtP
        top(max) == IF vault.supply = 0 THEN liquidityForAmounts(x, max)
                    ELSE (liquidityForAmounts(x, max) * vault.supply) \div vault.liquidity
        after == Plus(amountsForLiquidity(x, vault.liquidity + Compounded(x), FALSE),
                      [i \in Tokens |-> Idle[i] - CompoundCost(x)[i]])
    IN /\ \A s \in Sizes : Fits(DepositCost(x, s), previewDeposit(x, s))
       /\ vault.supply > 0 => \A s \in 1 .. vault.supply : WithdrawPays(x, s) = previewWithdraw(x, s)
       /\ \A max \in [Tokens -> Amounts] :
            LET s == sharesForAmounts(x, max)
            IN /\ s > 0 => s \in 1 .. top(max) /\ Fits(previewDeposit(x, s), max)
               /\ vault.supply > 0 =>
                    \A more \in s + 1 .. top(max) : ~Fits(previewDeposit(x, more), max)
       /\ Fits(CompoundCost(x), Idle)
       /\ \A i \in Tokens : after[i] + 1 >= totalAmounts(x)[i]

\* The two calendars agree, and the due time is the next open they both know.
CalendarTrue == CalendarsAgree /\ DueNext

\* What a trader or a depositor is told is what the contracts do: a reference that is true,
\* a fee within its bounds, a preview that is kept.
TermsTrue == ReferenceTrue /\ FeeFair /\ PreviewTrue

===============================================================================
