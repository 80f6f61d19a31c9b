-------------------------------- MODULE Decide --------------------------------
(***************************************************************************)
(* The pure step of a cycle: decideCycle of packages/core/src/decide.ts,   *)
(* with the plan settings an operator may choose (limits.ts) and the caps  *)
(* that bind them (planCaps of cycle.ts).                                  *)
(*                                                                         *)
(* Amounts are naturals in a unit small enough that halves round.  A       *)
(* reading that the code only compares is the outcome of the comparison:   *)
(* a price gap is "low" or "high", an impact "low", "high" or "unknown",   *)
(* and a quote has expired (MAX_QUOTE_AGE_MS) or not.  A retry is at the    *)
(* next open, at the venue's own time, half an hour later, or the next slot.*)
(* The copy of an outcome (its why) is left out.                           *)
(***************************************************************************)
EXTENDS Naturals, Sequences, FiniteSets

CONSTANTS MinBuy,      \* the minimum-buy cap
          MaxPerTx,    \* the cap on one transaction
          DailyCap,    \* the cap on a day
          VenueMin,    \* the smallest order of each issuer's venue; 0: none
          MaxRequotes  \* MAX_REQUOTES

ASSUME CapAssumption == /\ {MinBuy, MaxPerTx, DailyCap, MaxRequotes} \subseteq Nat
                        /\ 0 < MinBuy /\ MinBuy <= MaxPerTx /\ MaxPerTx <= DailyCap

Issuers == DOMAIN VenueMin
ASSUME VenueAssumption == \A issuer \in Issuers : VenueMin[issuer] \in Nat

Smaller(a, b) == IF a <= b THEN a ELSE b
Less(a, b) == IF a > b THEN a - b ELSE 0

-----------------------------------------------------------------------------
(* Settings (changePlanSettings) and caps (planCaps)                       *)

\* What changePlanSettings accepts: minimum buy <= per buy <= per-transaction
\* cap, per buy <= per day <= daily cap, and a safe plan's contribution is
\* enough for a buy.
SettingsRun(plan) ==
    /\ MinBuy <= plan.perBuy /\ plan.perBuy <= MaxPerTx
    /\ plan.perBuy <= plan.perDay /\ plan.perDay <= DailyCap
    /\ plan.mode = "safe" => MinBuy <= plan.contribution

PerBuyLimit(plan) == Smaller(plan.perBuy, MaxPerTx)

-----------------------------------------------------------------------------
(* The decision                                                            *)

Done(outcome, reason, retry) ==
    [kind |-> "done", outcome |-> outcome, reason |-> reason, retry |-> retry]
Skip(reason) == Done("SKIPPED", reason, "slot")
Defer(reason, retry) == Done("DEFERRED", reason, retry)
AtOpen(reason) == Defer(reason, "open")
Later(reason) == Defer(reason, "later")
Failure(code) == Done("FAILED", code, "slot")
AskQuote(issuer, spend) == [kind |-> "quote", issuer |-> issuer, spend |-> spend]
Raise == [kind |-> "throw"]

\* interestUnits: what the position holds above the principal, never negative.
Interest(plan, pos) == IF plan.mode = "yield" THEN Less(pos.underlying, plan.principal) ELSE 0
Available(plan, pos) ==
    IF plan.mode = "yield" THEN Interest(plan, pos) + pos.harvested ELSE 0
Budget(plan, pos) == Available(plan, pos) + plan.contribution

\* Off hours an anytime plan buys at half its limit.
MaxBuy(in) == IF in.regular THEN PerBuyLimit(in.plan) ELSE PerBuyLimit(in.plan) \div 2
PlannedSpend(in) ==
    Smaller(Budget(in.plan, in.pos), Smaller(MaxBuy(in), in.remaining))

\* A quote that rules its issuer out for this cycle.
Excludes(quote) == \/ quote.error \in {"no_liquidity", "venue_minimum", "next_issuer"}
                   \/ quote.error = "none" /\ quote.mode = "RFQ"
Excluded(in) == {in.quotes[i].issuer : i \in {j \in DOMAIN in.quotes : Excludes(in.quotes[j])}}

\* The candidates in the plan's order of preference, and what each one's
\* status makes of it: "buy", or the reason it is passed over.
Verdict(in, issuer) ==
    LET status == in.market[issuer].status IN
    CASE issuer \in Excluded(in)  -> "excluded"
      [] issuer \notin Excluded(in) /\ status = "TRADING" ->
            IF PlannedSpend(in) < VenueMin[issuer] THEN "venue_minimum" ELSE "buy"
      [] OTHER -> status   \* UNAVAILABLE, CORPORATE, CLOSED or OTHER
Listed(in) == SelectSeq(in.plan.prefer, LAMBDA issuer : issuer \in DOMAIN in.market)
Before(in, issuer) ==  \* the candidates looked at before this one
    LET list == Listed(in) IN
    {list[i] : i \in {j \in DOMAIN list : \A k \in DOMAIN list : list[k] = issuer => j < k}}
\* The loop ends at the first candidate to buy, or under a corporate action.
Stops(in) == {issuer \in DOMAIN in.market :
                /\ \E i \in DOMAIN Listed(in) : Listed(in)[i] = issuer
                /\ Verdict(in, issuer) \in {"buy", "CORPORATE"}
                /\ \A b \in Before(in, issuer) : Verdict(in, b) \notin {"buy", "CORPORATE"}}
Passed(in, verdict) == {i \in DOMAIN Listed(in) : Verdict(in, Listed(in)[i]) = verdict}

\* No candidate can be bought: wait for the session, for the status, or say
\* which limit keeps the buy below the venue's minimum.
NoneChosen(in) ==
    LET small == {VenueMin[Listed(in)[i]] : i \in Passed(in, "venue_minimum")}
        least == CHOOSE m \in small : \A n \in small : m <= n
        Capped(limit) == IF in.plan.mode = "safe"
                         THEN Smaller(limit, in.plan.contribution) ELSE limit
        first == Listed(in)[CHOOSE i \in Passed(in, "CLOSED") :
                                \A j \in Passed(in, "CLOSED") : i <= j]
    IN CASE Passed(in, "CLOSED") # {} ->
              Defer("market_closed", IF in.market[first].opens THEN "venue" ELSE "later")
         [] Passed(in, "CLOSED") = {} /\ Passed(in, "UNAVAILABLE") # {} ->
              Later("data_unavailable")
         [] Passed(in, "CLOSED") = {} /\ Passed(in, "UNAVAILABLE") = {} /\ small # {} ->
              IF Capped(MaxBuy(in)) < least
              THEN IF Capped(PerBuyLimit(in.plan)) >= least
                   THEN AtOpen("market_closed") ELSE Skip("below_min")
              ELSE IF Budget(in.plan, in.pos) < least THEN Skip("below_min")
                                                      ELSE Skip("daily_cap")
         [] OTHER -> Skip("no_instrument")

\* The quote step of the chosen issuer: its last quote decides.
Own(in, issuer) == {i \in DOMAIN in.quotes : in.quotes[i].issuer = issuer}
LastOwn(in, issuer) ==
    in.quotes[CHOOSE i \in Own(in, issuer) : \A j \in Own(in, issuer) : j <= i]
Halvings(in, issuer) == Cardinality({i \in Own(in, issuer) : in.quotes[i].impact = "high"})
Execute(in, last) ==  \* interest pays first: harvested, then from the position
    LET used == Smaller(last.spend, Available(in.plan, in.pos)) IN
    [kind |-> "execute", issuer |-> last.issuer, spend |-> last.spend,
     redeem |-> Less(used, in.pos.harvested), interest |-> used]

OnError(in, last) ==
    IF last.error \in {"off_hours", "market_closed"}
    THEN IF in.regular THEN Later("market_closed") ELSE AtOpen("market_closed")
    ELSE Failure(last.error)
OnImpact(in, last) ==
    LET half == last.spend \div 2 IN
    IF Halvings(in, last.issuer) <= MaxRequotes /\ half >= MinBuy /\ half >= VenueMin[last.issuer]
    THEN AskQuote(last.issuer, half) ELSE Later("quote_impact")
OnQuote(in, issuer) ==
    LET last == LastOwn(in, issuer)
    IN IF Own(in, issuer) = {} THEN AskQuote(issuer, PlannedSpend(in))
       ELSE IF last.error # "none" THEN OnError(in, last)
       ELSE IF ~last.complete THEN Failure("QUOTE_INCOMPLETE")
       ELSE IF last.spend > PlannedSpend(in) THEN AskQuote(issuer, PlannedSpend(in))
       ELSE IF last.impact = "unknown" THEN Later("data_unavailable")
       ELSE IF last.impact = "high" THEN OnImpact(in, last)
       ELSE IF last.expired THEN AskQuote(issuer, last.spend)
       ELSE Execute(in, last)
Chosen(in, issuer) ==
    IF Verdict(in, issuer) = "CORPORATE" THEN Skip("corporate_action")
    ELSE IF in.regular /\ in.market[issuer].gap = "high" THEN Later("price_gap")
    ELSE OnQuote(in, issuer)

\* DUE (a cycle is only opened when it is), GUARDIAN, WINDOW, BUDGET, then
\* ASSET, PRICE and QUOTE.
DecideCycle(in) ==
    IF in.blocked THEN Skip("guardian")
    ELSE IF in.plan.window = "regular_session" /\ ~in.regular THEN AtOpen("market_closed")
    ELSE IF PerBuyLimit(in.plan) < MinBuy THEN Raise
    ELSE IF MaxBuy(in) < MinBuy THEN AtOpen("market_closed")
    ELSE IF in.plan.mode = "yield" /\ in.plan.principal = 0 THEN Raise
    ELSE IF Budget(in.plan, in.pos) < MinBuy THEN Skip("below_min")
    ELSE IF in.remaining < MinBuy THEN Skip("daily_cap")
    ELSE IF Stops(in) = {} THEN NoneChosen(in)
    ELSE Chosen(in, CHOOSE issuer \in Stops(in) : TRUE)

===============================================================================
