------------------------------ MODULE SessionHook ------------------------------
(***************************************************************************)
(* RwaSessionHook.sol with what it reads: the calendar, the token's        *)
(* multiplier, and KeeperReferenceOracle.sol; and DeployRwaLp.s.sol, which *)
(* puts them together for one pool.                                        *)
(*                                                                         *)
(* The owner, the guardian, the issuer, reporters and traders act between  *)
(* any two blocks.  Every action is one transaction (or one view at one    *)
(* block); a call that reverts is no step.                                 *)
(***************************************************************************)
EXTENDS Calendar, PoolMath, Sequences

CONSTANTS Schedules,       \* fee schedules the owner may try
          Instants,        \* the minutes at which something happens
          Multipliers,     \* shares per token, what a change may set
          Worth,           \* what one token is worth, whatever its multiplier
          Quiet,           \* an issuer schedules no next change so soon after the last
          SqrtPrices,      \* the prices traders move the pool to
          MinSqrtPrice, MaxSqrtPrice,   \* the ends of the deployment's bisection
          MaxFeeCap, MaxOpeningRamp, MaxReferenceAge, MaxCorporateActionWindow,
          MaxReportDelay

FeeSchedule == [regularFee : Nat, extendedFee : Nat, closedFee : Nat, maxFee : Nat,
                openingRamp : Nat, gapCaptureBps : Nat, maxReferenceAge : Nat,
                corporateActionWindow : Nat]

\* A token is worth what its shares are, whatever their number; a change is old to the issuer
\* only when every reference from before it is too old for the hook.
ASSUME HookAssumption ==
    /\ Schedules \subseteq FeeSchedule
    /\ Instants \subseteq Nat
    /\ Multipliers \subseteq Nat \ {0}
    /\ Worth \in Nat /\ \A m \in Multipliers \cup {1} : (Worth \div m) * m = Worth
    /\ {MaxFeeCap, MaxReferenceAge, Quiet} \subseteq Nat /\ MaxReferenceAge <= Quiet
    /\ SqrtPrices \subseteq Nat \ {0}
    /\ MinSqrtPrice \in Nat \ {0} /\ MaxSqrtPrice \in Nat /\ MinSqrtPrice <= MaxSqrtPrice

VARIABLES now, table,
          token,       \* [mult, next, at, broken]
          seen,        \* the multiplier at each instant that was reached
          oracle,      \* [source, share, at, mult]: multiplierSource and latest
          hook,        \* [quote, source]: isQuoteToken, whether referenceSource is set
          pool,        \* [created, halted, gate, fees, rwa0, sqrtP]
          deploy       \* the script's next step

hookVars == <<now, table, token, seen, oracle, hook, pool, deploy>>

Gates == {"none", "hook", "vault", "other"}
Sources == {"Disabled", "Reported", "BStockOnChain"}

-----------------------------------------------------------------------------
(* The token: a bStocks multiplier and its scheduled change                *)

MultiplierAt(t) == IF token.at # 0 /\ t >= token.at THEN token.next ELSE token.mult
\* uiMultiplier() and effectiveAt() as KeeperReferenceOracle gets them.
OnChainMultiplier == IF token.broken THEN 0 ELSE MultiplierAt(now)
\* Mutant of ChangedSince: a change is looked for only before it takes effect.
ChangeAhead(observedAt) == ~token.broken /\ observedAt < token.at /\ token.at > now
ChangedSince(observedAt) == ~token.broken /\ observedAt < token.at /\ token.at <= now

-----------------------------------------------------------------------------
(* KeeperReferenceOracle.sol                                               *)

NoReference == [price |-> 0, at |-> 0]
referencePrice ==
    IF \/ oracle.source = "Disabled" \/ oracle.at = 0
       \/ /\ oracle.source = "BStockOnChain"
          /\ OnChainMultiplier # oracle.mult \/ ChangedSince(oracle.at)
    THEN NoReference ELSE [price |-> oracle.share * oracle.mult, at |-> oracle.at]

\* A reporter saw the share's price at one instant, and some multiplier.
Post(at, mult) ==
    /\ oracle.source # "Disabled"
    /\ oracle.at < at /\ now - at <= MaxReportDelay
    /\ oracle.source = "BStockOnChain" => mult = OnChainMultiplier /\ ~ChangedSince(at)
    /\ oracle' = [oracle EXCEPT !.share = Worth \div seen[at], !.at = at, !.mult = mult]
    /\ UNCHANGED <<now, table, token, seen, hook, pool, deploy>>

-----------------------------------------------------------------------------
(* RwaSessionHook.sol: the fee                                             *)

\* _validateFees
ValidFees(f) ==
    /\ f.regularFee <= f.extendedFee /\ f.extendedFee <= f.closedFee
    /\ f.closedFee <= f.maxFee /\ f.maxFee <= MaxFeeCap
    /\ f.openingRamp <= MaxOpeningRamp /\ f.gapCaptureBps <= 10000
    /\ f.maxReferenceAge <= MaxReferenceAge
    /\ f.corporateActionWindow <= MaxCorporateActionWindow

InCorporateActionWindow ==
    LET window == pool.fees.corporateActionWindow
    IN /\ pool.bStock /\ window > 0
       /\ \/ token.broken
          \/ token.at # 0 /\ token.at - now <= window /\ now - token.at <= window

\* The hook's own reading of the source: an answer that is from the future or too old is none.
Reference ==
    IF /\ hook.source /\ referencePrice.price # 0
       /\ referencePrice.at <= now /\ now - referencePrice.at <= pool.fees.maxReferenceAge
    THEN referencePrice ELSE NoReference

\* _gapSurcharge: a share of the gap, from the side that closes it.
GapSurcharge(zeroForOne) ==
    LET sellsRwa == zeroForOne = pool.rwa0
        against(r, price) == IF r = NoReference \/ (price > r.price) # sellsRwa THEN 0
                             ELSE (gapPips(price, r.price) * pool.fees.gapCaptureBps) \div 10000
    IN against(Reference, rwaPriceE18(pool.sqrtP, pool.rwa0))

\* From closedFee at the bell to regularFee at the end of the ramp.
RampFee(sinceOpen) ==
    LET f == pool.fees
    IN IF sinceOpen >= f.openingRamp THEN f.regularFee
       ELSE f.closedFee - ((f.closedFee - f.regularFee) * sinceOpen) \div f.openingRamp

Capped(fee) == IF fee > pool.fees.maxFee THEN pool.fees.maxFee ELSE fee

\* _fee, and why
Fee(zeroForOne) ==
    LET regular(sinceOpen, surcharge) ==
          IF surcharge > 0
          THEN [fee |-> Capped(RampFee(sinceOpen) + surcharge), reason |-> "ReferenceGap"]
          ELSE [fee |-> RampFee(sinceOpen),
                reason |-> IF sinceOpen < pool.fees.openingRamp THEN "OpeningRamp" ELSE "Regular"]
        in(s) ==
          CASE s.session \in {"pre", "post"} -> [fee |-> pool.fees.extendedFee, reason |-> "Extended"]
            [] s.session = "regular" -> regular(now - s.openedAt, GapSurcharge(zeroForOne))
            [] OTHER -> [fee |-> pool.fees.closedFee, reason |-> "Closed"]
    IN IF InCorporateActionWindow
       THEN [fee |-> pool.fees.closedFee, reason |-> "CorporateAction"] ELSE in(SessionAt(table, now))

\* beforeAddLiquidity, for the vault; removing liquidity never asks the hook.
MayAdd == pool.created /\ ~pool.halted /\ pool.gate \in {"none", "vault"}

\* status.ts: what a reader is shown of the reference the hook uses.
StatusFresh ==
    LET fresh(r) == r.price # 0 /\ now - r.at <= pool.fees.maxReferenceAge /\ r.at <= now
    IN hook.source /\ fresh(referencePrice)

-----------------------------------------------------------------------------
(* Traders, the guardian, the owner, the issuer, time                      *)

\* beforeSwap: the price moves the way of the trade.
Swap(zeroForOne, x) ==
    /\ pool.created /\ ~pool.halted
    /\ IF zeroForOne THEN x < pool.sqrtP ELSE x > pool.sqrtP
    /\ pool' = [pool EXCEPT !.sqrtP = x]
    /\ UNCHANGED <<now, table, token, seen, oracle, hook, deploy>>

Pool(changed) ==
    pool.created /\ pool' = changed /\ UNCHANGED <<now, table, token, seen, oracle, hook, deploy>>
SetHalted(halted) == Pool([pool EXCEPT !.halted = halted])
SetFeeSchedule(f) == ValidFees(f) /\ Pool([pool EXCEPT !.fees = f])
SetLiquidityGate(gate) == Pool([pool EXCEPT !.gate = gate])

SetQuoteToken(allowed) ==
    hook' = [hook EXCEPT !.quote = allowed] /\ UNCHANGED <<now, table, token, seen, oracle, pool>>
SetReferenceSource(set) ==
    hook' = [hook EXCEPT !.source = set] /\ UNCHANGED <<now, table, token, seen, oracle, pool>>
\* A token without the getters is refused.
ConfigureToken(source) ==
    /\ source = "BStockOnChain" => ~token.broken
    /\ oracle' = [oracle EXCEPT !.source = source]
    /\ UNCHANGED <<now, table, token, seen, hook, pool>>

\* calendar.setDays for today; setYearCovered.
MarkToday(kind) ==
    LET date == CivilFromDays(DayOf(now))
    IN table' = SetDay(table, Ymd(date.y, date.m, date.d), kind)
Uncover(year) == table' = [table EXCEPT !.covered = @ \ {year}]
OwnerSetsCalendar ==
    /\ (\E kind \in {"Normal", "Holiday", "EarlyClose"} : MarkToday(kind)) \/ Uncover(2026)
    /\ UNCHANGED <<now, token, seen, oracle, hook, pool, deploy>>

\* A change is scheduled for a later instant; what is in force stays until then.
ScheduleChange(mult, at) ==
    /\ ~token.broken /\ now < at
    /\ token.at # 0 /\ token.at <= now => now - token.at >= Quiet
    /\ token' = [token EXCEPT !.mult = MultiplierAt(now), !.next = mult, !.at = at]
    /\ UNCHANGED <<now, table, seen, oracle, hook, pool, deploy>>
Break ==
    /\ token' = [token EXCEPT !.broken = ~@]
    /\ UNCHANGED <<now, table, seen, oracle, hook, pool, deploy>>

Tick(t) ==
    /\ t > now /\ now' = t
    /\ seen' = [i \in DOMAIN seen \cup {t} |-> IF i = t THEN MultiplierAt(t) ELSE seen[i]]
    /\ UNCHANGED <<table, token, oracle, hook, pool, deploy>>

-----------------------------------------------------------------------------
(* DeployRwaLp.s.sol: one transaction after the other                      *)

Steps == <<"quote", "source", "token", "pool", "vault", "done">>
NoPool == [created |-> FALSE]
HookStart(start, wired) ==
    /\ now = start /\ table = Deployed
    /\ token = [mult |-> 1, next |-> 1, at |-> 0, broken |-> FALSE]
    /\ seen = [i \in {start} |-> 1]
    /\ oracle = [source |-> "Disabled", share |-> 0, at |-> 0, mult |-> 0]
    /\ hook = [quote |-> wired, source |-> wired]

\* createPool: closed to liquidity until the vault exists.
CreatePool(f, rwa0, x, bStock) ==
    /\ ~pool.created /\ hook.quote /\ ValidFees(f)
    /\ bStock => ~token.broken
    /\ pool' = [created |-> TRUE, halted |-> FALSE, gate |-> "hook", fees |-> f, rwa0 |-> rwa0,
                bStock |-> bStock, sqrtP |-> x]
    /\ UNCHANGED <<now, table, token, seen, oracle, hook>>

Deploy ==
    /\ deploy < Len(Steps) /\ deploy' = deploy + 1
    /\ CASE Steps[deploy] = "quote" -> SetQuoteToken(TRUE)
         [] Steps[deploy] = "source" -> SetReferenceSource(TRUE)
         [] Steps[deploy] = "token" -> \E source \in Sources \ {"Disabled"} : ConfigureToken(source)
         [] Steps[deploy] = "pool" ->
              \E f \in Schedules, rwa0 \in BOOLEAN :
                 CreatePool(f, rwa0, sqrtPriceAtE18(Worth, rwa0, MinSqrtPrice, MaxSqrtPrice),
                            oracle.source = "BStockOnChain")
         [] Steps[deploy] = "vault" ->
              /\ pool' = [pool EXCEPT !.gate = "vault"]
              /\ UNCHANGED <<now, table, token, seen, oracle, hook>>

HookNext ==
    \/ \E z \in BOOLEAN, x \in SqrtPrices : Swap(z, x)
    \/ \E h \in BOOLEAN : SetHalted(h)
    \/ \E f \in Schedules : SetFeeSchedule(f)
    \/ \E g \in Gates : SetLiquidityGate(g)
    \/ \E b \in BOOLEAN : (SetQuoteToken(b) \/ SetReferenceSource(b)) /\ UNCHANGED deploy
    \/ \E s \in Sources : ConfigureToken(s) /\ UNCHANGED deploy
    \/ OwnerSetsCalendar
    \/ \E m \in Multipliers, at \in Instants : ScheduleChange(m, at)
    \/ Break
    \/ \E t \in Instants : Tick(t)
    \/ \E at \in DOMAIN seen, m \in Multipliers : Post(at, m)

-----------------------------------------------------------------------------
(* Properties                                                              *)

\* A share price from before a change is never combined with the multiplier after it: a
\* reference the hook charges by is what the token is worth (KeeperReferenceOracle.sol:16).
ReferenceTrue == pool.created /\ oracle.source = "BStockOnChain" =>
    Reference.price \in {0, Worth}

\* Whatever the source, the issuer and the owner do, a swap pays at least its session's fee
\* and at most maxFee, itself at most 5%; the two directions differ only by a surcharge, which
\* only the one that closes the gap pays, and by a reference that readers are shown as fresh.
FeeFair == pool.created =>
    LET f == pool.fees
        floor(s) == CASE s = "regular" -> f.regularFee
                      [] s \in {"pre", "post"} -> f.extendedFee
                      [] OTHER -> f.closedFee
        fair(fee, surcharged) ==
          /\ \A z \in BOOLEAN : fee[z].fee <= f.maxFee
          /\ surcharged # BOOLEAN /\ (fee[TRUE] # fee[FALSE] => surcharged # {})
          /\ surcharged # {} => StatusFresh
          /\ \A z \in surcharged : (rwaPriceE18(pool.sqrtP, pool.rwa0) > Reference.price) =
                                   (z = pool.rwa0)
    IN /\ f.maxFee <= MaxFeeCap
       /\ \A fee \in {[z \in BOOLEAN |-> Fee(z)]} :
            /\ fair(fee, {z \in BOOLEAN : fee[z].reason = "ReferenceGap"})
            /\ \A least \in {floor(SessionAt(table, now).session)}, z \in BOOLEAN : least <= fee[z].fee

===============================================================================
