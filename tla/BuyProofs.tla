------------------------------- MODULE BuyProofs -------------------------------
(***************************************************************************)
(* One cycle's rounds, for any plans, caps and venue minimums, any rates,  *)
(* and any answers of the Web3 API.                                        *)
(*                                                                         *)
(* DecisionIs is the lemma about the pure step: for any fit input,         *)
(* DecideCycle asks for a quote only of an amount that can be ordered, and *)
(* decides to buy only within the plan's limits, what a low-impact quote   *)
(* was for, redeeming no more than lies above the principal (Sound).       *)
(*                                                                         *)
(* A decision is kept over many awaits, in which the interest, the session *)
(* and the quotes move.  Bought and Redeemed say what is still true of it  *)
(* where the cycle stands: the interest it redeems lies above the          *)
(* principal at the rate of the decision, so at the rate read later, so at *)
(* the one the burn is mined at (rates only rise), and redeemLimit bounds  *)
(* the burn by the rate read (BurnIs).  Memory is why a later round may    *)
(* decide without reading the row again, Approved why no allowance is      *)
(* larger than the reserved spend.  Swapped (a swap ends the cycle) makes  *)
(* what SwapBounded says of a swap hold where it is signed and stay true.  *)
(*                                                                         *)
(* Steps that sign no swap and move no token are Calm: they keep all that  *)
(* does not depend on where the cycle stands (Quiet), and end it (Ending), *)
(* take it to its next round (Again) or on with its buy (StillBuying).     *)
(*                                                                         *)
(* Of the constants it is assumed that the caps are ordered, and that a    *)
(* position is at first worth the plan's principal but for the rounding of *)
(* its deposits (PositionAssumption).                                      *)
(***************************************************************************)
EXTENDS Buy, TLAPS, Integers

-----------------------------------------------------------------------------
(* What a decision may be                                                  *)

Errors == {"none", "no_liquidity", "market_closed", "other"}
QuoteType == [issuer : Issuers, spend : Nat, error : Errors, impact : {"low", "high", "unknown"},
              complete : BOOLEAN, mode : {"SWAP", "RFQ"}, expired : BOOLEAN]
Reasons == Errors \cup {"guardian", "market_closed", "below_min", "daily_cap", "data_unavailable",
    "no_instrument", "corporate_action", "price_gap", "quote_impact", "QUOTE_INCOMPLETE"}
Retries == {"slot", "open", "later", "venue"}
Decisions ==
    [kind : {"done"}, outcome : {"SKIPPED", "DEFERRED", "FAILED"}, reason : Reasons, retry : Retries]
    \cup [kind : {"throw"}]
    \cup [kind : {"quote"}, issuer : Issuers, spend : Nat]
    \cup [kind : {"execute"}, issuer : Issuers, spend : Nat, redeem : Nat, interest : Nat]

\* Not below the minimum buy, nor the venue's.
Orderable(issuer, spend) == MinBuy <= spend /\ VenueMin[issuer] <= spend
\* Each issuer with a quote has a last one.
LastKnown(quotes) ==
    \A i \in DOMAIN quotes : \E j \in DOMAIN quotes :
        /\ quotes[j].issuer = quotes[i].issuer
        /\ \A k \in DOMAIN quotes : quotes[k].issuer = quotes[i].issuer => k <= j
\* A quote of low impact, in a mode we sign, for this buy.
QuotedFor(quotes, issuer, spend) ==
    \E i \in DOMAIN quotes : /\ quotes[i].issuer = issuer /\ quotes[i].spend = spend
                             /\ quotes[i].impact = "low" /\ quotes[i].mode = "SWAP"

InputOk(in) ==
    /\ in.plan \in Plans /\ SettingsRun(in.plan)
    /\ in.market \in Markets /\ in.regular \in BOOLEAN /\ in.remaining \in Nat
    /\ in.quotes \in Seq(QuoteType) /\ LastKnown(in.quotes)
    /\ \A i \in DOMAIN in.quotes : Orderable(in.quotes[i].issuer, in.quotes[i].spend)
    /\ in.pos.underlying \in Nat /\ in.pos.harvested \in Nat

\* A quote or a buy is of an amount that can be ordered; a buy is within the plan's limits and a
\* quote's, and redeems no more than the position holds above the principal.
Sound(in, d) ==
    /\ d \in Decisions
    /\ d.kind = "quote" => Orderable(d.issuer, d.spend)
    /\ d.kind = "execute" =>
         /\ Orderable(d.issuer, d.spend)
         /\ d.spend <= in.plan.perBuy /\ d.spend <= MaxPerTx
         /\ QuotedFor(in.quotes, d.issuer, d.spend)
         /\ d.redeem > 0 => /\ in.plan.mode = "yield"
                            /\ in.plan.principal + d.redeem <= in.pos.underlying

-----------------------------------------------------------------------------
(* The inductive invariant                                                 *)

Pcs == {"open", "decide", "quote", "reserve", "act", "redeem", "build", "sendRedeem", "approve",
        "sendApproval", "swap", "simulate", "sign", "end"}
Buying == {"reserve", "act", "redeem", "build", "sendRedeem", "approve", "sendApproval", "swap",
           "simulate", "sign"}
Paid == Buying \ {"reserve", "act"}
Harvest == {"redeem", "build", "sendRedeem"}
In(pcs) == run.pc \in pcs

RunType ==
    [pc : Pcs, mode : {"live", "simulate"}, round : Nat, quotes : Seq(QuoteType), remaining : Nat,
     blocked : BOOLEAN, reserved : Nat, redeemDone : BOOLEAN, redeemOk : BOOLEAN,
     approval : {None, "existing", "simulated", "sent"}, vt : Nat, harvested : Nat,
     mined : BOOLEAN, decision : Decisions, read : Nat, burn : Nat, outcome : Outcomes,
     confirmed : [issuer : Issuers \cup {None}, spend : Nat]]
SignedType == [kind : {"redeem", "approve", "swap"}, amount : Nat, issuer : Issuers \cup {None}]

Types ==
    /\ plan \in Plans /\ SettingsRun(plan) /\ market \in Markets /\ regular \in BOOLEAN
    /\ rate \in Nat /\ 2 <= rate /\ held \in Nat /\ allowed \in Nat /\ left \in Nat
    /\ db \in [vtokens : Nat, harvested : Nat]
    /\ run \in RunType /\ signed \in Seq(SignedType)

\* The row, the chain and what cycleBody remembers.
Memory ==
    /\ db.vtokens = held
    /\ ~In({"open", "end"}) => run.vt = held /\ run.harvested = db.harvested
\* Every quote was asked for an amount that can be ordered.
Quoted ==
    /\ \A i \in DOMAIN run.quotes : Orderable(run.quotes[i].issuer, run.quotes[i].spend)
    /\ LastKnown(run.quotes)
    /\ In({"quote"}) => run.decision.kind = "quote" /\ Orderable(run.decision.issuer, run.decision.spend)
\* What is being bought was decided, quoted, confirmed and reserved.
Bought ==
    /\ In(Buying) =>
         /\ run.decision.kind = "execute"
         /\ Orderable(run.decision.issuer, run.decision.spend)
         /\ run.decision.spend <= plan.perBuy /\ run.decision.spend <= MaxPerTx
         /\ QuotedFor(run.quotes, run.decision.issuer, run.decision.spend)
         /\ ConfirmedOnly(run.decision)
    /\ In({"reserve"}) => run.reserved = 0
    /\ Live /\ In(Buying \ {"reserve"}) => run.reserved > 0
    /\ Live /\ In(Paid) => run.decision.spend <= run.reserved
    /\ In({"end"}) /\ run.outcome \in {"SIMULATED", "SIMULATED failed"} => run.decision.kind = "execute"
\* The interest to redeem lies above the principal at the rate of the decision, and so at any
\* later one; the calldata to sign passed redeemLimit.
Redeemed ==
    /\ In({"reserve", "act"} \cup Harvest) /\ run.decision.redeem > 0 =>
         plan.mode = "yield" /\ plan.principal + run.decision.redeem <= run.vt * rate
    /\ In(Harvest) => run.decision.redeem > 0
    /\ In({"build", "sendRedeem"}) =>
         /\ 2 <= run.read /\ run.read <= rate
         /\ plan.principal + run.decision.redeem <= run.vt * run.read
    /\ In({"sendRedeem"}) => Live /\ BurnOk(run.burn)
\* An approval to sign is exactly the spend; a swap is signed only under one.
Approved ==
    /\ In({"sendApproval"}) => Live /\ run.read = run.decision.spend
    /\ In({"sign"}) => Live /\ Covered
    /\ ~Live => allowed <= MinBuy
    /\ AllowanceExact
\* A swap is the last thing signed.
Swapped == Swaps # {} => In({"end"}) /\ Live

BuyInv ==
    /\ Types /\ Memory /\ Quoted /\ Bought /\ Redeemed /\ Approved /\ Swapped /\ SwapBounded
    /\ PrincipalKept

-----------------------------------------------------------------------------
(* Lemmas about DecideCycle                                                *)

LEMMA SmallerIs ==
  ASSUME NEW a \in Nat, NEW b \in Nat
  PROVE  Smaller(a, b) \in Nat /\ Smaller(a, b) <= a /\ Smaller(a, b) <= b
  BY DEF Smaller

LEMMA LessIs ==
  ASSUME NEW a \in Nat, NEW b \in Nat
  PROVE  Less(a, b) \in Nat /\ (Less(a, b) > 0 => Less(a, b) = a - b) /\ (a <= b + Less(a, b))
  BY DEF Less

LEMMA HalfIs ==
  ASSUME NEW a \in Nat
  PROVE  a \div 2 \in Nat /\ a \div 2 <= a
  OBVIOUS

LEMMA PlanFields ==
  ASSUME NEW p \in Plans
  PROVE  /\ p.mode \in {"safe", "yield"} /\ p.contribution \in Nat /\ p.principal \in Nat
         /\ p.perBuy \in Nat
  BY PlansAssumption

\* What may be spent: within the plan's limit and the transaction cap, also off hours.
LEMMA SpendIs ==
  ASSUME NEW in, InputOk(in)
  PROVE  /\ Available(in.plan, in.pos) \in Nat /\ PlannedSpend(in) \in Nat
         /\ Budget(in.plan, in.pos) \in Nat /\ MaxBuy(in) \in Nat
         /\ PlannedSpend(in) <= in.plan.perBuy /\ PlannedSpend(in) <= MaxPerTx
         /\ Budget(in.plan, in.pos) >= MinBuy /\ MaxBuy(in) >= MinBuy /\ in.remaining >= MinBuy
              => PlannedSpend(in) >= MinBuy
         /\ in.plan.mode # "yield" => Available(in.plan, in.pos) = 0
         /\ in.plan.mode = "yield" => Available(in.plan, in.pos) =
              Less(in.pos.underlying, in.plan.principal) + in.pos.harvested
  <1>1. /\ in.plan.mode \in {"safe", "yield"} /\ in.plan.contribution \in Nat
        /\ in.plan.principal \in Nat /\ in.plan.perBuy \in Nat /\ in.remaining \in Nat
        /\ in.pos.underlying \in Nat /\ in.pos.harvested \in Nat
        /\ MaxPerTx \in Nat /\ MinBuy \in Nat
    BY PlanFields, CapAssumption DEF InputOk
  <1>2. /\ PerBuyLimit(in.plan) \in Nat /\ PerBuyLimit(in.plan) <= in.plan.perBuy
        /\ PerBuyLimit(in.plan) <= MaxPerTx
    BY <1>1, SmallerIs DEF PerBuyLimit
  <1>3. /\ MaxBuy(in) \in Nat /\ MaxBuy(in) <= in.plan.perBuy /\ MaxBuy(in) <= MaxPerTx
    BY <1>1, <1>2, HalfIs DEF MaxBuy
  <1>4. /\ Less(in.pos.underlying, in.plan.principal) \in Nat
    BY <1>1, LessIs
  <1>5. /\ Available(in.plan, in.pos) \in Nat
        /\ in.plan.mode # "yield" => Available(in.plan, in.pos) = 0
        /\ in.plan.mode = "yield" => Available(in.plan, in.pos) =
              Less(in.pos.underlying, in.plan.principal) + in.pos.harvested
    BY <1>1, <1>4 DEF Available, Interest
  <1>6. Budget(in.plan, in.pos) \in Nat
    BY <1>1, <1>5 DEF Budget
  <1>7. /\ Smaller(MaxBuy(in), in.remaining) \in Nat
        /\ Smaller(MaxBuy(in), in.remaining) <= MaxBuy(in)
        /\ MaxBuy(in) >= MinBuy /\ in.remaining >= MinBuy => Smaller(MaxBuy(in), in.remaining) >= MinBuy
    BY <1>1, <1>3 DEF Smaller
  <1>8. /\ PlannedSpend(in) \in Nat /\ PlannedSpend(in) <= Smaller(MaxBuy(in), in.remaining)
        /\ Budget(in.plan, in.pos) >= MinBuy /\ Smaller(MaxBuy(in), in.remaining) >= MinBuy
             => PlannedSpend(in) >= MinBuy
    BY <1>1, <1>6, <1>7 DEF PlannedSpend, Smaller
  <1>9. QED
    BY <1>1, <1>3, <1>5, <1>6, <1>7, <1>8

\* The four kinds of decision.
LEMMA DoneIs ==
  ASSUME NEW in
  PROVE  /\ \A outcome \in {"SKIPPED", "DEFERRED", "FAILED"}, reason \in Reasons, retry \in Retries :
              Sound(in, Done(outcome, reason, retry))
         /\ \A reason \in Reasons :
              /\ Sound(in, Skip(reason)) /\ Sound(in, AtOpen(reason)) /\ Sound(in, Later(reason))
              /\ Sound(in, Failure(reason))
              /\ \A retry \in Retries : Sound(in, Defer(reason, retry))
  <1>1. ASSUME NEW outcome \in {"SKIPPED", "DEFERRED", "FAILED"}, NEW reason \in Reasons,
               NEW retry \in Retries
        PROVE  Sound(in, Done(outcome, reason, retry))
    BY DEF Sound, Done, Decisions
  <1>2. {"slot", "open", "later"} \subseteq Retries
    BY DEF Retries
  <1>3. QED
    BY <1>1, <1>2 DEF Skip, AtOpen, Later, Failure, Defer

LEMMA AskIs ==
  ASSUME NEW in, NEW issuer \in Issuers, NEW spend \in Nat, Orderable(issuer, spend)
  PROVE  Sound(in, AskQuote(issuer, spend))
  BY DEF Sound, AskQuote, Decisions

LEMMA RaiseIs ==
  ASSUME NEW in
  PROVE  Sound(in, Raise)
  BY DEF Sound, Raise, Decisions

LEMMA NoneChosenIs ==
  ASSUME NEW in
  PROVE  Sound(in, NoneChosen(in))
  <1>1. NoneChosen(in) \in {Defer("market_closed", "venue"), Defer("market_closed", "later"),
          Later("data_unavailable"), AtOpen("market_closed"), Skip("below_min"), Skip("daily_cap"),
          Skip("no_instrument")}
    BY Zenon DEF NoneChosen
  <1>2. /\ {"market_closed", "data_unavailable", "below_min", "daily_cap", "no_instrument"} \subseteq Reasons
        /\ {"venue", "later"} \subseteq Retries
    BY DEF Reasons, Retries
  <1>3. QED
    BY <1>1, <1>2, DoneIs

\* The last quote of the issuer is one of its quotes.
LEMMA LastIs ==
  ASSUME NEW in, InputOk(in), NEW issuer, Own(in, issuer) # {}
  PROVE  \E i \in DOMAIN in.quotes : LastOwn(in, issuer) = in.quotes[i] /\ in.quotes[i].issuer = issuer
  <1>1. PICK i \in DOMAIN in.quotes : in.quotes[i].issuer = issuer
    BY DEF Own
  <1>2. \E j \in Own(in, issuer) : \A k \in Own(in, issuer) : k <= j
    BY <1>1 DEF InputOk, LastKnown, Own
  <1>3. PICK j \in Own(in, issuer) : j = CHOOSE m \in Own(in, issuer) : \A k \in Own(in, issuer) : k <= m
    BY <1>2
  <1>4. QED
    BY <1>3 DEF LastOwn, Own

\* The quote step of an issuer that no quote ruled out.
LEMMA OnQuoteIs ==
  ASSUME NEW in, InputOk(in), NEW issuer \in Issuers, issuer \notin Excluded(in),
         PlannedSpend(in) >= MinBuy, PlannedSpend(in) >= VenueMin[issuer]
  PROVE  Sound(in, OnQuote(in, issuer))
  <1>0. /\ PlannedSpend(in) \in Nat /\ MinBuy \in Nat /\ VenueMin[issuer] \in Nat
        /\ PlannedSpend(in) <= in.plan.perBuy /\ PlannedSpend(in) <= MaxPerTx /\ MaxPerTx \in Nat
        /\ in.plan.perBuy \in Nat
    BY SpendIs, CapAssumption, VenueAssumption, PlanFields DEF InputOk
  <1>1. Orderable(issuer, PlannedSpend(in))
    BY <1>0 DEF Orderable
  <1>2. CASE Own(in, issuer) = {}
    <2>1. OnQuote(in, issuer) = AskQuote(issuer, PlannedSpend(in))
      BY <1>2 DEF OnQuote
    <2>2. QED
      BY <1>0, <1>1, <2>1, AskIs
  <1>3. CASE Own(in, issuer) # {}
    <2> SUFFICES ASSUME NEW last, last = LastOwn(in, issuer)
                 PROVE  Sound(in, OnQuote(in, issuer))
      OBVIOUS
    <2>1. PICK i \in DOMAIN in.quotes : last = in.quotes[i] /\ in.quotes[i].issuer = issuer
      BY <1>3, LastIs
    <2>2. /\ last \in QuoteType /\ last.issuer = issuer /\ Orderable(last.issuer, last.spend)
      BY <2>1 DEF InputOk
    <2>3. /\ last.spend \in Nat /\ last.error \in Errors /\ last.complete \in BOOLEAN
          /\ last.impact \in {"low", "high", "unknown"} /\ last.mode \in {"SWAP", "RFQ"}
          /\ last.expired \in BOOLEAN
      BY <2>2 DEF QuoteType
    <2>4. last.error = "none" => last.mode = "SWAP"
      BY <2>1, <2>3 DEF Excluded, Excludes
    <2>5. CASE last.error # "none"
      <3>1. OnQuote(in, issuer) = OnError(in, last)
        BY <1>3, <2>5 DEF OnQuote
      <3>2. last.error \in Reasons /\ "market_closed" \in Reasons
        BY <2>3 DEF Reasons
      <3>3. Sound(in, OnError(in, last))
        BY <3>2, DoneIs DEF OnError
      <3>4. QED
        BY <3>1, <3>3
    <2>6. CASE last.error = "none" /\ ~last.complete
      BY <1>3, <2>6, DoneIs DEF OnQuote, Reasons
    <2>7. CASE last.error = "none" /\ last.complete /\ last.spend > PlannedSpend(in)
      <3>1. OnQuote(in, issuer) = AskQuote(issuer, PlannedSpend(in))
        BY <1>3, <2>7 DEF OnQuote
      <3>2. QED
        BY <1>0, <1>1, <3>1, AskIs
    <2>8. CASE last.error = "none" /\ last.complete /\ ~(last.spend > PlannedSpend(in))
      <3>1. CASE last.impact = "unknown"
        BY <1>3, <2>8, <3>1, DoneIs DEF OnQuote, Reasons
      <3>2. CASE last.impact = "high"
        <4>1. OnQuote(in, issuer) = OnImpact(in, last)
          BY <1>3, <2>8, <3>2 DEF OnQuote
        <4>2. CASE OnImpact(in, last) = Later("quote_impact")
          BY <4>1, <4>2, DoneIs DEF Reasons
        <4>3. CASE OnImpact(in, last) # Later("quote_impact")
          <5>1. /\ OnImpact(in, last) = AskQuote(issuer, last.spend \div 2)
                /\ last.spend \div 2 >= MinBuy /\ last.spend \div 2 >= VenueMin[issuer]
            BY <2>2, <4>3 DEF OnImpact
          <5>2. last.spend \div 2 \in Nat
            BY <2>3, HalfIs
          <5>3. Orderable(issuer, last.spend \div 2)
            BY <1>0, <5>1, <5>2 DEF Orderable
          <5>4. QED
            BY <4>1, <5>1, <5>2, <5>3, AskIs
        <4>4. QED
          BY <4>2, <4>3
      <3>3. CASE last.impact = "low" /\ last.expired
        <4>1. OnQuote(in, issuer) = AskQuote(issuer, last.spend)
          BY <1>3, <2>8, <3>3 DEF OnQuote
        <4>2. QED
          BY <2>2, <2>3, <4>1, AskIs
      <3>4. CASE last.impact = "low" /\ ~last.expired
        <4>1. OnQuote(in, issuer) = Execute(in, last)
          BY <1>3, <2>8, <3>4 DEF OnQuote
        <4> SUFFICES ASSUME NEW used, used = Smaller(last.spend, Available(in.plan, in.pos)),
                            NEW redeem, redeem = Less(used, in.pos.harvested)
                     PROVE  Sound(in, OnQuote(in, issuer))
          OBVIOUS
        <4>2. Execute(in, last) = [kind |-> "execute", issuer |-> issuer, spend |-> last.spend,
                                   redeem |-> redeem, interest |-> used]
          BY <2>2 DEF Execute
        <4>3. /\ used \in Nat /\ used <= Available(in.plan, in.pos)
              /\ in.pos.harvested \in Nat /\ in.pos.underlying \in Nat /\ in.plan.principal \in Nat
              /\ Available(in.plan, in.pos) \in Nat
          BY <2>3, SpendIs, SmallerIs, PlanFields DEF InputOk
        <4>4. redeem \in Nat /\ (redeem > 0 => redeem = used - in.pos.harvested)
          BY <4>3, LessIs
        <4>5. ASSUME redeem > 0
              PROVE  in.plan.mode = "yield" /\ in.plan.principal + redeem <= in.pos.underlying
          <5>1. redeem = used - in.pos.harvested /\ used > 0
            BY <4>3, <4>4, <4>5
          <5>2. in.plan.mode = "yield"
            BY <4>3, <5>1, SpendIs
          <5>3. redeem <= Less(in.pos.underlying, in.plan.principal)
            <6>1. Available(in.plan, in.pos) = Less(in.pos.underlying, in.plan.principal) + in.pos.harvested
              BY <5>2, SpendIs
            <6>2. Less(in.pos.underlying, in.plan.principal) \in Nat
              BY <4>3, LessIs
            <6>3. QED
              BY <4>3, <5>1, <6>1, <6>2
          <5>4. /\ Less(in.pos.underlying, in.plan.principal) \in Nat
                /\ Less(in.pos.underlying, in.plan.principal) > 0 =>
                     Less(in.pos.underlying, in.plan.principal) = in.pos.underlying - in.plan.principal
            BY <4>3, LessIs
          <5>5. QED
            BY <4>3, <4>4, <4>5, <5>2, <5>3, <5>4
        <4>6. QuotedFor(in.quotes, issuer, last.spend)
          BY <2>1, <2>4, <2>8, <3>4 DEF QuotedFor
        <4>7. last.spend <= PlannedSpend(in)
          BY <1>0, <2>3, <2>8
        <4>8. Execute(in, last) \in Decisions
          BY <2>3, <4>2, <4>3, <4>4 DEF Decisions
        <4>9. last.spend <= in.plan.perBuy /\ last.spend <= MaxPerTx
          BY <1>0, <2>3, <4>7
        <4>10. Sound(in, Execute(in, last))
          BY <2>2, <4>2, <4>4, <4>5, <4>6, <4>8, <4>9 DEF Sound
        <4>11. QED
          BY <4>1, <4>10
      <3>5. QED
        BY <2>3, <3>1, <3>2, <3>3, <3>4
    <2>9. QED
      BY <2>3, <2>5, <2>6, <2>7, <2>8
  <1>4. QED
    BY <1>2, <1>3

\* Whatever decideCycle is given, what it returns is sound.
LEMMA DecisionIs ==
  ASSUME NEW in, InputOk(in)
  PROVE  Sound(in, DecideCycle(in))
  <1>0. /\ PlannedSpend(in) \in Nat /\ MaxBuy(in) \in Nat /\ Budget(in.plan, in.pos) \in Nat
        /\ in.remaining \in Nat /\ MinBuy \in Nat
    BY SpendIs, CapAssumption DEF InputOk
  <1>1. \/ DecideCycle(in) \in {Raise, Skip("guardian"), AtOpen("market_closed"), Skip("below_min"),
                                Skip("daily_cap"), NoneChosen(in)}
        \/ /\ PlannedSpend(in) >= MinBuy /\ Stops(in) # {}
           /\ DecideCycle(in) = Chosen(in, CHOOSE issuer \in Stops(in) : TRUE)
    BY <1>0, SpendIs DEF DecideCycle
  <1>2. CASE DecideCycle(in) \in {Raise, Skip("guardian"), AtOpen("market_closed"), Skip("below_min"),
                                  Skip("daily_cap"), NoneChosen(in)}
    BY <1>2, RaiseIs, DoneIs, NoneChosenIs DEF Reasons
  <1>3. CASE /\ PlannedSpend(in) >= MinBuy /\ Stops(in) # {}
             /\ DecideCycle(in) = Chosen(in, CHOOSE issuer \in Stops(in) : TRUE)
    <2>1. PICK issuer \in Stops(in) : DecideCycle(in) = Chosen(in, issuer)
      BY <1>3
    <2>2. /\ issuer \in DOMAIN in.market /\ issuer \in Issuers
          /\ Verdict(in, issuer) \in {"buy", "CORPORATE"}
          /\ in.market[issuer].status \in {"TRADING", "UNAVAILABLE", "CORPORATE", "CLOSED", "OTHER"}
      BY MarketsAssumption DEF Stops, InputOk
    <2>3. CASE Verdict(in, issuer) = "CORPORATE"
      BY <2>1, <2>3, DoneIs DEF Chosen, Reasons
    <2>4. CASE Verdict(in, issuer) # "CORPORATE" /\ in.regular /\ in.market[issuer].gap = "high"
      BY <2>1, <2>4, DoneIs DEF Chosen, Reasons
    <2>5. CASE Verdict(in, issuer) # "CORPORATE" /\ ~(in.regular /\ in.market[issuer].gap = "high")
      <3>1. DecideCycle(in) = OnQuote(in, issuer)
        BY <2>1, <2>5 DEF Chosen
      <3>2. Verdict(in, issuer) = "buy"
        BY <2>2, <2>5
      <3>3. issuer \notin Excluded(in) /\ ~(PlannedSpend(in) < VenueMin[issuer])
        BY <2>2, <3>2 DEF Verdict
      <3>4. VenueMin[issuer] \in Nat
        BY <2>2, VenueAssumption
      <3>5. QED
        BY <1>0, <1>3, <2>2, <3>1, <3>3, <3>4, OnQuoteIs
    <2>6. QED
      BY <2>3, <2>4, <2>5
  <1>4. QED
    BY <1>1, <1>2, <1>3

-----------------------------------------------------------------------------
(* Lemmas about the run                                                    *)

LEMMA RunFields ==
  ASSUME NEW r \in RunType
  PROVE  /\ r.pc \in Pcs /\ r.mode \in {"live", "simulate"} /\ r.quotes \in Seq(QuoteType)
         /\ r.remaining \in Nat /\ r.reserved \in Nat /\ r.vt \in Nat /\ r.harvested \in Nat
         /\ r.decision \in Decisions /\ r.read \in Nat /\ r.burn \in Nat /\ r.round \in Nat
         /\ r.confirmed \in [issuer : Issuers \cup {None}, spend : Nat] /\ r.outcome \in Outcomes
         /\ r.mined \in BOOLEAN
  BY DEF RunType

\* What most steps leave alone.
Same(r) ==
    /\ r.mode = run.mode /\ r.quotes = run.quotes /\ r.decision = run.decision
    /\ r.reserved = run.reserved /\ r.confirmed = run.confirmed
    /\ r.vt = run.vt /\ r.harvested = run.harvested
Reading(r) == r.read = run.read /\ r.burn = run.burn

\* The cycle goes on elsewhere, or to its next round.
LEMMA Goes ==
  ASSUME run \in RunType, NEW pc \in Pcs, NEW r, r = [run EXCEPT !.pc = pc]
  PROVE  r \in RunType /\ r.pc = pc /\ Same(r) /\ Reading(r) /\ r.outcome = run.outcome
  <1>1. r \in RunType
    BY Zenon DEF RunType
  <1>2. QED
    BY <1>1 DEF RunType, Same, Reading

LEMMA Rounds ==
  ASSUME run \in RunType, NEW r, r = Round(run)
  PROVE  r \in RunType /\ r.pc = "decide" /\ Same(r)
  <1>1. run.round \in Nat /\ run.round + 1 \in Nat /\ "decide" \in Pcs
    BY RunFields DEF Pcs
  <1>2. PICK n \in Nat : n = run.round + 1
    BY <1>1
  <1>3. r = [run EXCEPT !.pc = "decide", !.round = n]
    BY <1>2 DEF Round
  <1>4. r \in RunType
    BY <1>1, <1>3, Zenon DEF RunType
  <1>5. QED
    BY <1>3, <1>4 DEF RunType, Same

LEMMA Finishes ==
  ASSUME run \in RunType, NEW outcome \in Outcomes, NEW r,
         \/ r = Finished(run, outcome)
         \/ r = Finished([run EXCEPT !.mined = TRUE], outcome)
  PROVE  r \in RunType /\ r.pc = "end" /\ Same(r) /\ r.outcome = outcome
  <1>0. "end" \in Pcs
    BY DEF Pcs
  <1>1. CASE r = Finished(run, outcome)
    <2>1. r = [run EXCEPT !.pc = "end", !.outcome = outcome]
      BY <1>1 DEF Finished
    <2>2. r \in RunType
      BY <1>0, <2>1, Zenon DEF RunType
    <2>3. QED
      BY <2>1, <2>2 DEF RunType, Same
  <1>2. CASE r = Finished([run EXCEPT !.mined = TRUE], outcome)
    <2>1. PICK b \in BOOLEAN : b = TRUE
      OBVIOUS
    <2>2. [run EXCEPT !.mined = b] \in RunType
      BY Zenon DEF RunType
    <2>3. PICK s \in RunType : s = [run EXCEPT !.mined = TRUE]
      BY <2>1, <2>2
    <2>4. r = [s EXCEPT !.pc = "end", !.outcome = outcome]
      BY <1>2, <2>3 DEF Finished
    <2>5. r \in RunType
      BY <1>0, <2>4, Zenon DEF RunType
    <2>6. Same(s)
      BY <2>3 DEF RunType, Same
    <2>7. QED
      BY <2>4, <2>5, <2>6 DEF RunType, Same
  <1>3. QED
    BY <1>1, <1>2

LEMMA Fails ==
  ASSUME run \in RunType, NEW funds \in {"none", "gas_only"}, NEW r, r = Failed(run, funds)
  PROVE  r \in RunType /\ r.pc = "end" /\ Same(r) /\ r.outcome \notin {"SIMULATED", "SIMULATED failed"}
  <1>1. {"FAILED gas_only", "FAILED none"} \subseteq Outcomes
    BY DEF Outcomes
  <1>2. QED
    BY <1>1, Finishes DEF Failed

LEMMA NotConfirmedEnds ==
  ASSUME run \in RunType, NotConfirmed
  PROVE  run' \in RunType /\ run'.pc = "end" /\ Same(run')
         /\ run'.outcome \notin {"SIMULATED", "SIMULATED failed"}
  <1>1. "awaiting" \in Outcomes
    BY DEF Outcomes
  <1>2. CASE run' = Finished(run, "awaiting")
    BY <1>1, <1>2, Finishes
  <1>3. CASE run' \in {Failed(run, "gas_only"), Failed(run, "none")}
    BY <1>3, Fails
  <1>4. QED
    BY <1>2, <1>3 DEF NotConfirmed

\* What is signed is appended; only a swap is a swap.
LEMMA SignedIs ==
  ASSUME signed \in Seq(SignedType), NEW kind \in {"redeem", "approve", "swap"}, NEW amount \in Nat,
         NEW issuer \in Issuers \cup {None}, Sign(kind, amount, issuer)
  PROVE  /\ signed' \in Seq(SignedType)
         /\ kind # "swap" => Swaps' = Swaps
         /\ kind = "swap" => \A s \in Swaps' : s \in Swaps \/ (s.amount = amount /\ s.issuer = issuer)
         /\ Shortfalls \subseteq Shortfalls'
         /\ kind = "redeem" => 2 + PartPerMillion(amount) \in Shortfalls'
  <1> DEFINE t == [kind |-> kind, amount |-> amount, issuer |-> issuer]
  <1>1. t \in SignedType /\ t.kind = kind /\ t.amount = amount /\ t.issuer = issuer
    BY DEF SignedType
  <1> HIDE DEF t
  <1>2. signed' = Append(signed, t)
    BY DEF Sign, t
  <1>3. /\ signed' \in Seq(SignedType) /\ Len(signed') = Len(signed) + 1
        /\ \A i \in DOMAIN signed : signed'[i] = signed[i]
        /\ signed'[Len(signed) + 1] = t
        /\ DOMAIN signed' = DOMAIN signed \cup {Len(signed) + 1}
    BY <1>1, <1>2
  <1>4. \A s \in Swaps : s \in Swaps'
    BY <1>3 DEF Swaps
  <1>5. \A s \in Swaps' : s \in Swaps \/ (s = t /\ kind = "swap")
    BY <1>1, <1>3 DEF Swaps
  <1>6. kind # "swap" => Swaps' = Swaps
    <2>1. ASSUME kind # "swap", NEW s
          PROVE  s \in Swaps <=> s \in Swaps'
      BY <1>4, <1>5, <2>1
    <2>2. ASSUME kind # "swap" PROVE Swaps' = Swaps
      BY <2>1, <2>2
    <2>3. QED
      BY <2>2
  <1>8. Shortfalls \subseteq Shortfalls' /\ (kind = "redeem" => 2 + PartPerMillion(amount) \in Shortfalls')
    BY <1>1, <1>3 DEF Shortfalls
  <1>7. QED
    BY <1>1, <1>3, <1>5, <1>6, <1>8

\* Nothing signed yet is a swap, before the end.
LEMMA NoSwapYet ==
  ASSUME Swapped, ~In({"end"})
  PROVE  Swaps = {}
  BY DEF Swapped

LEMMA DivIs ==
  ASSUME NEW a \in Nat, NEW r \in Nat, r > 0
  PROVE  a \div r \in Nat /\ (a \div r) * r <= a
  OBVIOUS

\* A product grows with its factors.
LEMMA Grows ==
  ASSUME NEW m \in Nat, NEW n \in Nat, NEW k \in Nat, m <= n
  PROVE  m * k <= n * k /\ k * m <= k * n /\ m * k \in Nat /\ n * k \in Nat
  <1>1. PICK d \in Nat : n = m + d
    <2>1. n - m \in Nat /\ n = m + (n - m)
      OBVIOUS
    <2>2. QED
      BY <2>1
  <1>2. n * k = m * k + d * k /\ d * k \in Nat /\ m * k \in Nat
    BY <1>1
  <1>3. k * m = m * k /\ k * n = n * k
    OBVIOUS
  <1>4. QED
    BY <1>2, <1>3

\* What the position may fall short of stays enough while no token leaves.
LEMMA PrincipalStays ==
  ASSUME PrincipalKept, signed \in Seq(SignedType), plan \in Plans, held \in Nat,
         UNCHANGED <<plan, held>>, rate \in Nat, rate' \in Nat, rate <= rate',
         Shortfalls \subseteq Shortfalls'
  PROVE  PrincipalKept'
  <1> SUFFICES ASSUME plan.mode = "yield"
               PROVE  \E short \in Shortfalls' : plan.principal <= (held + short) * rate'
    BY DEF PrincipalKept
  <1>1. PICK short \in Shortfalls : plan.principal <= (held + short) * rate
    BY DEF PrincipalKept
  <1>2. short \in Nat
    <2>1. \A i \in DOMAIN signed : signed[i].amount \in Nat
      <3>1. \A i \in DOMAIN signed : signed[i] \in SignedType
        OBVIOUS
      <3>2. \A s \in SignedType : s.amount \in Nat
        BY DEF SignedType
      <3>3. QED
        BY <3>1, <3>2
    <2>2. \A n \in Nat : 2 + PartPerMillion(n) \in Nat
      BY DEF PartPerMillion
    <2>3. \/ short = 2
          \/ \E i \in DOMAIN signed : short = 2 + PartPerMillion(signed[i].amount)
      BY DEF Shortfalls
    <2>4. CASE \E i \in DOMAIN signed : short = 2 + PartPerMillion(signed[i].amount)
      <3>1. PICK i \in DOMAIN signed : short = 2 + PartPerMillion(signed[i].amount)
        BY <2>4
      <3>2. PICK n \in Nat : n = signed[i].amount
        BY <2>1
      <3>3. QED
        BY <2>2, <3>1, <3>2
    <2>5. QED
      BY <2>3, <2>4
  <1>3. PICK m \in Nat, n \in Nat, k \in Nat : m = rate /\ n = rate' /\ k = held + short
    BY <1>2
  <1>4. k * m <= k * n /\ k * m \in Nat /\ k * n \in Nat
    BY <1>3, Grows
  <1>5. plan.principal \in Nat
    BY PlanFields
  <1>6. plan.principal <= (held + short) * rate'
    BY <1>1, <1>3, <1>4, <1>5
  <1>7. QED
    BY <1>1, <1>6

-----------------------------------------------------------------------------
(* What the steps have in common                                           *)

QuotesSound(quotes) ==
    /\ \A i \in DOMAIN quotes : Orderable(quotes[i].issuer, quotes[i].spend)
    /\ LastKnown(quotes)

\* A step that moves neither tokens nor rows and signs no swap.
Calm ==
    /\ UNCHANGED <<plan, market, held, allowed, db>>
    /\ regular' \in BOOLEAN /\ rate' \in Nat /\ rate <= rate' /\ left' \in Nat
    /\ signed' \in Seq(SignedType) /\ Swaps' = Swaps /\ Shortfalls \subseteq Shortfalls'
    /\ run' \in RunType /\ run'.mode = run.mode /\ run.reserved <= run'.reserved

LEMMA CalmIs ==
  ASSUME BuyInv, UNCHANGED <<plan, market, regular, rate, held, allowed, left, db, signed>>,
         run' \in RunType, run'.mode = run.mode, run'.reserved = run.reserved
  PROVE  Calm
  <1>1. run.reserved \in Nat
    BY RunFields DEF BuyInv, Types
  <1>2. Swaps' = Swaps /\ Shortfalls' = Shortfalls
    BY DEF Swaps, Shortfalls
  <1>3. QED
    BY <1>1, <1>2 DEF BuyInv, Types, Calm

LEMMA QuotesStay ==
  ASSUME BuyInv, run'.quotes = run.quotes
  PROVE  QuotesSound(run'.quotes)
  BY DEF BuyInv, Quoted, QuotesSound

LEMMA Quiet ==
  ASSUME BuyInv, ~In({"end"}), Calm
  PROVE  /\ Types' /\ db'.vtokens = held' /\ Swapped' /\ SwapBounded'
         /\ PrincipalKept' /\ AllowanceExact' /\ ((~Live)' => allowed' <= MinBuy)
  <1>1. Types' /\ db'.vtokens = held'
    <2>1. 2 <= rate'
      BY DEF BuyInv, Types, Calm
    <2>2. QED
      BY <2>1 DEF BuyInv, Types, Memory, Calm
  <1>2. Swaps' = {}
    BY NoSwapYet DEF BuyInv, Calm
  <1>3. Swapped' /\ SwapBounded'
    BY <1>2 DEF Swapped, SwapBounded
  <1>4. PrincipalKept'
    BY PrincipalStays DEF BuyInv, Types, Calm
  <1>5. AllowanceExact' /\ ((~Live)' => allowed' <= MinBuy)
    <2>1. allowed \in Nat /\ MinBuy \in Nat /\ run.reserved \in Nat /\ run'.reserved \in Nat
      BY RunFields, CapAssumption DEF BuyInv, Types, Calm
    <2>2. QED
      BY <2>1 DEF BuyInv, Approved, AllowanceExact, Live, Calm
  <1>6. QED
    BY <1>1, <1>3, <1>4, <1>5

\* The cycle ends without a swap.
LEMMA Ending ==
  ASSUME BuyInv, ~In({"end"}), Calm, QuotesSound(run'.quotes), run'.pc = "end",
         run'.outcome \in {"SIMULATED", "SIMULATED failed"} => run'.decision.kind = "execute"
  PROVE  BuyInv'
  <1>1. Memory' /\ Quoted'
    BY Quiet DEF Memory, Quoted, In, QuotesSound
  <1>2. Bought' /\ Redeemed'
    BY DEF Bought, Redeemed, In, Buying, Paid, Harvest
  <1>3. Approved'
    BY Quiet DEF Approved, In
  <1>4. QED
    BY <1>1, <1>2, <1>3, Quiet DEF BuyInv

\* It decides again.
LEMMA Again ==
  ASSUME BuyInv, ~In({"end"}), Calm, QuotesSound(run'.quotes), run'.pc = "decide",
         run'.vt = held, run'.harvested = db.harvested
  PROVE  BuyInv'
  <1>1. Memory' /\ Quoted'
    BY Quiet DEF Memory, Quoted, In, QuotesSound, Calm
  <1>2. Bought' /\ Redeemed'
    BY DEF Bought, Redeemed, In, Buying, Paid, Harvest
  <1>3. Approved'
    BY Quiet DEF Approved, In
  <1>4. QED
    BY <1>1, <1>2, <1>3, Quiet DEF BuyInv

\* The buy goes on to its next step.
LEMMA StillBuying ==
  ASSUME BuyInv, plan' = plan, run' \in RunType, Same(run'), In(Buying), In(Buying \ {"reserve"})',
         Live => run.reserved > 0,
         Live /\ In(Paid)' => run.decision.spend <= run.reserved
  PROVE  Bought'
  <1>1. ~In({"end"})' /\ ~In({"reserve"})' /\ In(Buying)'
    BY DEF In, Buying
  <1>2. run'.confirmed = run.confirmed /\ run'.decision = run.decision /\ run'.quotes = run.quotes
        /\ run'.reserved = run.reserved /\ run'.mode = run.mode
    BY DEF Same
  <1>3. /\ run.decision.kind = "execute"
        /\ Orderable(run.decision.issuer, run.decision.spend)
        /\ run.decision.spend <= plan.perBuy /\ run.decision.spend <= MaxPerTx
        /\ QuotedFor(run.quotes, run.decision.issuer, run.decision.spend)
        /\ ConfirmedOnly(run.decision)
    BY DEF BuyInv, Bought
  <1>4. (ConfirmedOnly(run.decision))'
    BY <1>2, <1>3 DEF ConfirmedOnly
  <1>5. (Live)' <=> Live
    BY <1>2 DEF Live
  <1>6. QED
    BY <1>1, <1>2, <1>3, <1>4, <1>5 DEF Bought, QuotedFor

-----------------------------------------------------------------------------
(* cycleBody                                                               *)

LEMMA OpenKeeps ==
  ASSUME BuyInv, Open
  PROVE  BuyInv'
  <1>0. ~In({"end"}) /\ UNCHANGED <<plan, market, regular, rate, held, allowed, left, db, signed>>
        /\ run \in RunType
    BY DEF Open, At, In, Local, BuyInv, Types
  <1>1. ASSUME NEW blocked \in BOOLEAN,
               Local([run EXCEPT !.pc = "decide", !.vt = db.vtokens, !.harvested = db.harvested,
                              !.blocked = blocked,
                              !.remaining = IF run.confirmed = NoBuy THEN left
                                            ELSE Smaller(left, run.confirmed.spend)])
        PROVE  BuyInv'
    <2>1. /\ left \in Nat /\ db.vtokens \in Nat /\ db.harvested \in Nat /\ run.confirmed.spend \in Nat
      BY <1>0, RunFields DEF BuyInv, Types
    <2>2. (IF run.confirmed = NoBuy THEN left ELSE Smaller(left, run.confirmed.spend)) \in Nat
      BY <2>1, SmallerIs
    <2>3. PICK n \in Nat, v \in Nat, h \in Nat :
            /\ n = IF run.confirmed = NoBuy THEN left ELSE Smaller(left, run.confirmed.spend)
            /\ v = db.vtokens /\ h = db.harvested
      BY <2>1, <2>2
    <2>4. run' = [run EXCEPT !.pc = "decide", !.vt = v, !.harvested = h, !.blocked = blocked,
                             !.remaining = n]
      BY <1>1, <2>3 DEF Local, Set
    <2>5. "decide" \in Pcs
      BY DEF Pcs
    <2>6. run' \in RunType
      BY <1>0, <2>4, <2>5, Zenon DEF RunType
    <2>7. /\ run'.mode = run.mode /\ run'.quotes = run.quotes /\ run'.reserved = run.reserved
          /\ run'.pc = "decide" /\ run'.vt = db.vtokens /\ run'.harvested = db.harvested
      BY <1>0, <2>3, <2>4 DEF RunType
    <2>8. Calm /\ QuotesSound(run'.quotes)
      BY <1>0, <2>6, <2>7, CalmIs, QuotesStay
    <2>9. QED
      BY <1>0, <2>7, <2>8, Again DEF BuyInv, Memory
  <1>2. CASE Local(Finished(run, "DEFERRED"))
    <2>1. run' = Finished(run, "DEFERRED") /\ "DEFERRED" \in Outcomes
      BY <1>2 DEF Local, Set, Outcomes
    <2>2. run' \in RunType /\ run'.pc = "end" /\ Same(run') /\ run'.outcome = "DEFERRED"
      BY <1>0, <2>1, Finishes
    <2>3. QED
      BY <1>0, <2>2, CalmIs, QuotesStay, Ending DEF Same
  <1>3. QED
    BY <1>1, <1>2 DEF Open

\* What the loop hands to decideCycle is fit for it.
LEMMA InputFits ==
  ASSUME BuyInv, At("decide")
  PROVE  InputOk(Input) /\ Input.plan = plan /\ Input.quotes = run.quotes
         /\ Input.pos.underlying = run.vt * rate
  <1>1. /\ run.vt \in Nat /\ rate \in Nat /\ run.harvested \in Nat /\ run.remaining \in Nat
        /\ run.quotes \in Seq(QuoteType)
    BY RunFields DEF BuyInv, Types
  <1>2. run.vt * rate \in Nat
    BY <1>1
  <1>3. /\ Input.plan = plan /\ Input.quotes = run.quotes /\ Input.market = market
        /\ Input.regular = regular /\ Input.remaining = run.remaining
        /\ Input.pos.underlying = run.vt * rate /\ Input.pos.harvested = run.harvested
    BY DEF Input
  <1>4. plan \in Plans /\ SettingsRun(plan) /\ market \in Markets /\ regular \in BOOLEAN
    BY DEF BuyInv, Types
  <1>5. LastKnown(run.quotes)
        /\ \A i \in DOMAIN run.quotes : Orderable(run.quotes[i].issuer, run.quotes[i].spend)
    BY DEF BuyInv, Quoted
  <1>6. QED
    BY <1>1, <1>2, <1>3, <1>4, <1>5 DEF InputOk

\* What Decide makes of a decision.
Deciding(d, r) ==
    \/ r = Failed(run, "none")
    \/ \E outcome \in {"thrown", "SKIPPED", "DEFERRED", "FAILED quote"} :
          r = Finished([run EXCEPT !.decision = d], outcome)
    \/ r = Failed([run EXCEPT !.decision = d], "none")
    \/ d.kind = "quote" /\ r = [[run EXCEPT !.decision = d] EXCEPT !.pc = "quote"]
    \/ /\ d.kind = "execute" /\ ConfirmedOnly(d)
       /\ \/ run.reserved = 0 /\ r = [[run EXCEPT !.decision = d] EXCEPT !.pc = "reserve"]
          \/ /\ Live => run.reserved > 0
             /\ r = [[run EXCEPT !.decision = d] EXCEPT !.pc = "act"]

LEMMA DecidingIs ==
  ASSUME BuyInv, Decide
  PROVE  \E d : d = DecideCycle(Input) /\ Sound(Input, d) /\ Deciding(d, run')
  <1>1. PICK d : d = DecideCycle(Input)
    OBVIOUS
  <1>2. Sound(Input, d)
    BY <1>1, InputFits, DecisionIs DEF Decide
  <1>3. d \in Decisions
    BY <1>2 DEF Sound
  <1>4. /\ d.kind \in {"done", "throw", "quote", "execute"}
        /\ d.kind = "done" => d.outcome \in {"SKIPPED", "DEFERRED", "FAILED"}
    BY <1>3 DEF Decisions
  <1>5. run.round \in Nat /\ RoundLimit \in Nat /\ run.reserved \in Nat
    BY RunFields, BoundsAssumption DEF BuyInv, Types, RoundLimit
  <1>6. run' = Failed(run, "none") \/ run' = Followed(d, [run EXCEPT !.decision = d])
    BY <1>1, <1>5 DEF Decide, Local, Set
  <1>7. ASSUME NEW r, r = Followed(d, [run EXCEPT !.decision = d])
        PROVE  Deciding(d, r)
    <2>1. CASE d.kind = "throw"
      BY <1>7, <2>1 DEF Followed, Deciding
    <2>2. CASE d.kind = "done"
      <3>1. r = Finished([run EXCEPT !.decision = d],
                         IF d.outcome = "FAILED" THEN "FAILED quote" ELSE d.outcome)
        BY <1>7, <2>2 DEF Followed
      <3>2. QED
        BY <1>4, <2>2, <3>1 DEF Deciding
    <2>3. CASE d.kind = "quote"
      BY <1>7, <2>3 DEF Followed, Deciding
    <2>4. CASE d.kind = "execute"
      <3>1. r = IF ~ConfirmedOnly(d) THEN Failed([run EXCEPT !.decision = d], "none")
                ELSE [[run EXCEPT !.decision = d]
                        EXCEPT !.pc = IF Live /\ run.reserved = 0 THEN "reserve" ELSE "act"]
        BY <1>7, <2>4 DEF Followed
      <3>2. CASE ~ConfirmedOnly(d)
        BY <3>1, <3>2 DEF Deciding
      <3>3. CASE ConfirmedOnly(d) /\ Live /\ run.reserved = 0
        BY <2>4, <3>1, <3>3 DEF Deciding
      <3>4. CASE ConfirmedOnly(d) /\ ~(Live /\ run.reserved = 0)
        <4>1. Live => run.reserved > 0
          BY <1>5, <3>4
        <4>2. r = [[run EXCEPT !.decision = d] EXCEPT !.pc = "act"]
          BY <3>1, <3>4
        <4>3. QED
          BY <2>4, <3>4, <4>1, <4>2 DEF Deciding
      <3>5. QED
        BY <3>2, <3>3, <3>4
    <2>5. QED
      BY <1>4, <2>1, <2>2, <2>3, <2>4
  <1>8. Deciding(d, run')
    BY <1>6, <1>7 DEF Deciding
  <1>9. QED
    BY <1>1, <1>2, <1>8

\* The run with its new decision.
LEMMA DecidedIs ==
  ASSUME run \in RunType, NEW d \in Decisions, NEW s, s = [run EXCEPT !.decision = d]
  PROVE  /\ s \in RunType /\ s.decision = d
         /\ s.mode = run.mode /\ s.quotes = run.quotes /\ s.reserved = run.reserved
         /\ s.confirmed = run.confirmed /\ s.vt = run.vt /\ s.harvested = run.harvested
  <1>1. s \in RunType
    BY Zenon DEF RunType
  <1>2. QED
    BY <1>1 DEF RunType

LEMMA Moves ==
  ASSUME NEW s \in RunType, NEW pc \in Pcs, NEW r, r = [s EXCEPT !.pc = pc]
  PROVE  /\ r \in RunType /\ r.pc = pc /\ r.decision = s.decision
         /\ r.mode = s.mode /\ r.quotes = s.quotes /\ r.reserved = s.reserved
         /\ r.confirmed = s.confirmed /\ r.vt = s.vt /\ r.harvested = s.harvested
  <1>1. r \in RunType
    BY Zenon DEF RunType
  <1>2. QED
    BY <1>1 DEF RunType

LEMMA Ended ==
  ASSUME NEW s \in RunType, NEW outcome \in Outcomes, NEW r, r = Finished(s, outcome)
  PROVE  /\ r \in RunType /\ r.pc = "end" /\ r.outcome = outcome
         /\ r.mode = s.mode /\ r.quotes = s.quotes /\ r.reserved = s.reserved
  <1>1. r = [s EXCEPT !.pc = "end", !.outcome = outcome] /\ "end" \in Pcs
    BY DEF Finished, Pcs
  <1>2. r \in RunType
    BY <1>1, Zenon DEF RunType
  <1>3. QED
    BY <1>1, <1>2 DEF RunType

LEMMA DecideKeeps ==
  ASSUME BuyInv, Decide
  PROVE  BuyInv'
  <1>0. ~In({"end"}) /\ UNCHANGED <<plan, market, regular, rate, held, allowed, left, db, signed>>
        /\ run \in RunType /\ run.pc = "decide"
    BY DEF Decide, At, In, Local, BuyInv, Types
  <1>1. PICK d : Sound(Input, d) /\ Deciding(d, run')
    BY DecidingIs
  <1>2. d \in Decisions
    BY <1>1 DEF Sound
  <1>3. /\ Input.plan = plan /\ Input.quotes = run.quotes /\ Input.pos.underlying = run.vt * rate
    BY InputFits DEF Decide
  <1>4. {"thrown", "SKIPPED", "DEFERRED", "FAILED quote", "FAILED gas_only", "FAILED none"}
           \subseteq Outcomes
        /\ {"end", "quote", "reserve", "act"} \subseteq Pcs
    BY DEF Outcomes, Pcs
  <1>5. CASE run' = Failed(run, "none")
    BY <1>0, <1>5, Fails, CalmIs, QuotesStay, Ending DEF Same
  <1>6. CASE \E outcome \in {"thrown", "SKIPPED", "DEFERRED", "FAILED quote", "FAILED gas_only",
                             "FAILED none"} : run' = Finished([run EXCEPT !.decision = d], outcome)
    <2>1. PICK outcome : /\ outcome \in {"thrown", "SKIPPED", "DEFERRED", "FAILED quote",
                                         "FAILED gas_only", "FAILED none"}
                         /\ run' = Finished([run EXCEPT !.decision = d], outcome)
      BY <1>6
    <2>2. outcome \in Outcomes
      BY <1>4, <2>1
    <2>5. PICK s : s = [run EXCEPT !.decision = d]
      OBVIOUS
    <2>6. s \in RunType /\ s.mode = run.mode /\ s.quotes = run.quotes /\ s.reserved = run.reserved
      BY <1>0, <1>2, <2>5, DecidedIs
    <2>7. run' = Finished(s, outcome)
      BY <2>1, <2>5
    <2>3. /\ run' \in RunType /\ run'.pc = "end" /\ run'.mode = run.mode /\ run'.quotes = run.quotes
          /\ run'.reserved = run.reserved /\ run'.outcome = outcome
      BY <2>2, <2>6, <2>7, Ended
    <2>4. QED
      BY <1>0, <2>1, <2>3, CalmIs, QuotesStay, Ending
  <1>7. CASE run' = Failed([run EXCEPT !.decision = d], "none")
    BY <1>6, <1>7 DEF Failed
  <1>8. ASSUME NEW pc \in {"quote", "reserve", "act"},
               run' = [[run EXCEPT !.decision = d] EXCEPT !.pc = pc],
               pc = "quote" => d.kind = "quote",
               pc # "quote" => d.kind = "execute" /\ ConfirmedOnly(d),
               pc = "act" => (Live => run.reserved > 0), pc = "reserve" => run.reserved = 0
        PROVE  BuyInv'
    <2> DEFINE s == [run EXCEPT !.decision = d]
    <2>0. /\ pc \in Pcs /\ s \in RunType /\ s.decision = d
          /\ s.mode = run.mode /\ s.quotes = run.quotes /\ s.reserved = run.reserved
          /\ s.confirmed = run.confirmed /\ s.vt = run.vt /\ s.harvested = run.harvested
      BY <1>0, <1>2, <1>4, DecidedIs
    <2>12. run' = [s EXCEPT !.pc = pc]
      BY <1>8
    <2> HIDE DEF s
    <2>1. /\ run' \in RunType /\ run'.pc = pc /\ run'.decision = d
          /\ run'.mode = run.mode /\ run'.quotes = run.quotes /\ run'.reserved = run.reserved
          /\ run'.confirmed = run.confirmed /\ run'.vt = run.vt /\ run'.harvested = run.harvested
      BY <2>0, <2>12, Moves
    <2>2. Types' /\ db'.vtokens = held' /\ Swapped' /\ SwapBounded' /\ PrincipalKept'
          /\ AllowanceExact' /\ ((~Live)' => allowed' <= MinBuy)
          /\ QuotesSound(run'.quotes)
      BY <1>0, <2>1, CalmIs, QuotesStay, Quiet
    <2>3. Memory'
      BY <1>0, <2>1, <2>2 DEF Memory, In, BuyInv
    <2>4. Quoted'
      BY <1>1, <1>8, <2>1, <2>2 DEF Quoted, In, Sound, QuotesSound
    <2>5. pc # "quote" =>
            /\ d.kind = "execute" /\ Orderable(d.issuer, d.spend)
            /\ d.spend <= plan.perBuy /\ d.spend <= MaxPerTx
            /\ QuotedFor(run.quotes, d.issuer, d.spend)
            /\ ConfirmedOnly(d)
            /\ d.redeem > 0 => (plan.mode = "yield" /\ plan.principal + d.redeem <= run.vt * rate)
      BY <1>1, <1>3, <1>8 DEF Sound
    <2>6. pc # "quote" => (ConfirmedOnly(run.decision))'
      BY <2>1, <2>5 DEF ConfirmedOnly
    <2>7. (Live)' <=> Live
      BY <2>1 DEF Live
    <2>8. Bought'
      BY <1>0, <1>8, <2>1, <2>5, <2>6, <2>7 DEF Bought, In, Buying, Paid, QuotedFor
    <2>9. Redeemed'
      BY <1>0, <2>1, <2>5 DEF Redeemed, In, Harvest
    <2>10. Approved'
      BY <2>1, <2>2 DEF Approved, In
    <2>11. QED
      BY <2>2, <2>3, <2>4, <2>8, <2>9, <2>10 DEF BuyInv
  <1>9. QED
    BY <1>1, <1>5, <1>6, <1>7, <1>8 DEF Deciding

\* What observeQuote returns.
LEMMA AnswerIs ==
  ASSUME BuyInv, At("quote"), NEW answer \in Answers
  PROVE  answer \in QuoteType /\ answer.issuer = run.decision.issuer
         /\ answer.spend = run.decision.spend /\ Orderable(answer.issuer, answer.spend)
  <1>1. run.decision \in Decisions /\ run.decision.kind = "quote"
        /\ Orderable(run.decision.issuer, run.decision.spend)
    BY RunFields DEF BuyInv, Types, Quoted, At, In
  <1>2. run.decision.issuer \in Issuers /\ run.decision.spend \in Nat
    BY <1>1 DEF Decisions
  <1>3. \A error \in Errors, impact \in {"low", "high", "unknown"}, complete \in BOOLEAN,
           mode \in {"SWAP", "RFQ"} :
          /\ Answer(error, impact, complete, mode) \in QuoteType
          /\ Answer(error, impact, complete, mode).issuer = run.decision.issuer
          /\ Answer(error, impact, complete, mode).spend = run.decision.spend
    BY <1>2 DEF Answer, QuoteType
  <1>4. \E error \in Errors, impact \in {"low", "high", "unknown"}, complete \in BOOLEAN,
           mode \in {"SWAP", "RFQ"} : answer = Answer(error, impact, complete, mode)
    BY DEF Answers, Errors
  <1>5. QED
    BY <1>1, <1>3, <1>4

\* The new quote is its issuer's last.
LEMMA QuotesGrow ==
  ASSUME NEW quotes \in Seq(QuoteType), QuotesSound(quotes), NEW answer \in QuoteType,
         Orderable(answer.issuer, answer.spend)
  PROVE  Append(quotes, answer) \in Seq(QuoteType) /\ QuotesSound(Append(quotes, answer))
  <1> DEFINE q == Append(quotes, answer)
  <1>1. /\ q \in Seq(QuoteType) /\ Len(quotes) \in Nat /\ DOMAIN quotes = 1 .. Len(quotes)
        /\ DOMAIN q = 1 .. Len(quotes) + 1 /\ q[Len(quotes) + 1] = answer
        /\ \A i \in 1 .. Len(quotes) : q[i] = quotes[i]
    OBVIOUS
  <1> HIDE DEF q
  <1>2. \A i \in DOMAIN q : Orderable(q[i].issuer, q[i].spend)
    <2>1. ASSUME NEW i \in DOMAIN q
          PROVE  Orderable(q[i].issuer, q[i].spend)
      <3>1. CASE i = Len(quotes) + 1
        BY <1>1, <3>1
      <3>2. CASE i \in 1 .. Len(quotes)
        BY <1>1, <3>2 DEF QuotesSound
      <3>3. QED
        BY <1>1, <3>1, <3>2
    <2>2. QED
      BY <2>1
  <1>3. ASSUME NEW i \in DOMAIN q
        PROVE  \E j \in DOMAIN q : q[j].issuer = q[i].issuer
                                   /\ \A k \in DOMAIN q : q[k].issuer = q[i].issuer => k <= j
    <2>1. CASE q[i].issuer = answer.issuer
      <3>1. /\ Len(quotes) + 1 \in DOMAIN q /\ q[Len(quotes) + 1].issuer = q[i].issuer
            /\ \A k \in DOMAIN q : k <= Len(quotes) + 1
        BY <1>1, <2>1
      <3>2. QED
        BY <3>1
    <2>2. CASE q[i].issuer # answer.issuer
      <3>1. i \in DOMAIN quotes
        BY <1>1, <2>2
      <3>2. PICK j \in DOMAIN quotes :
              /\ quotes[j].issuer = quotes[i].issuer
              /\ \A k \in DOMAIN quotes : quotes[k].issuer = quotes[i].issuer => k <= j
        BY <3>1 DEF QuotesSound, LastKnown
      <3>3. j \in DOMAIN q /\ q[j].issuer = q[i].issuer
        BY <1>1, <3>1, <3>2
      <3>4. ASSUME NEW k \in DOMAIN q, q[k].issuer = q[i].issuer
            PROVE  k <= j
        BY <1>1, <2>2, <3>1, <3>2, <3>4
      <3>5. QED
        BY <3>3, <3>4
    <2>3. QED
      BY <2>1, <2>2
  <1>4. QuotesSound(q)
    BY <1>2, <1>3 DEF QuotesSound, LastKnown
  <1>5. QED
    BY <1>1, <1>4 DEF q

LEMMA QuoteKeeps ==
  ASSUME BuyInv, Quote
  PROVE  BuyInv'
  <1>0. ~In({"end"}) /\ UNCHANGED <<plan, market, regular, rate, held, allowed, left, db, signed>>
        /\ run \in RunType /\ At("quote") /\ ~In({"open", "end"})
    BY DEF Quote, At, In, Local, BuyInv, Types
  <1>1. PICK answer \in Answers : run' = [Round(run) EXCEPT !.quotes = Append(@, answer)]
    BY DEF Quote, Local, Set
  <1>2. PICK r : r = Round(run)
    OBVIOUS
  <1>3. r \in RunType /\ r.pc = "decide" /\ Same(r)
    BY <1>0, <1>2, Rounds
  <1>4. run.quotes \in Seq(QuoteType) /\ QuotesSound(run.quotes)
    BY <1>0, RunFields DEF BuyInv, Quoted, QuotesSound
  <1>5. answer \in QuoteType /\ Orderable(answer.issuer, answer.spend)
    BY <1>0, AnswerIs
  <1>6. PICK q : q = Append(run.quotes, answer)
    OBVIOUS
  <1>7. q \in Seq(QuoteType) /\ QuotesSound(q)
    BY <1>4, <1>5, <1>6, QuotesGrow
  <1>8. run' = [r EXCEPT !.quotes = q]
    BY <1>1, <1>2, <1>3, <1>6 DEF Same
  <1>9. run' \in RunType
    BY <1>3, <1>7, <1>8, Zenon DEF RunType
  <1>10. /\ run'.pc = "decide" /\ run'.mode = run.mode /\ run'.reserved = run.reserved
         /\ run'.quotes = q /\ run'.vt = run.vt /\ run'.harvested = run.harvested
    BY <1>3, <1>8 DEF RunType, Same
  <1>11. Calm /\ QuotesSound(run'.quotes)
    BY <1>0, <1>7, <1>9, <1>10, CalmIs
  <1>12. run'.vt = held /\ run'.harvested = db.harvested
    BY <1>0, <1>10 DEF BuyInv, Memory
  <1>13. QED
    BY <1>0, <1>10, <1>11, <1>12, Again

LEMMA ReserveKeeps ==
  ASSUME BuyInv, Reserve
  PROVE  BuyInv'
  <1>0. ~In({"end"}) /\ UNCHANGED <<plan, market, regular, rate, held, allowed, db, signed>>
        /\ run \in RunType /\ run.pc = "reserve" /\ In({"reserve"}) /\ In(Buying)
        /\ ~In({"open", "end"})
    BY DEF Reserve, At, In, BuyInv, Types, Buying
  <1>1. /\ run.decision.kind = "execute" /\ run.decision \in Decisions
        /\ Orderable(run.decision.issuer, run.decision.spend)
        /\ run.decision.spend <= plan.perBuy /\ run.decision.spend <= MaxPerTx
        /\ QuotedFor(run.quotes, run.decision.issuer, run.decision.spend)
        /\ ConfirmedOnly(run.decision) /\ run.reserved = 0
    BY <1>0, RunFields DEF BuyInv, Bought
  <1>2. PICK n \in Nat : n = run.decision.spend
    BY <1>1 DEF Decisions
  <1>3. n > 0 /\ left \in Nat /\ Swaps' = Swaps /\ Shortfalls' = Shortfalls
    BY <1>0, <1>1, <1>2, CapAssumption DEF Orderable, BuyInv, Types, Swaps, Shortfalls
  <1>4. CASE left' = left - n /\ n <= left /\ run' = [run EXCEPT !.pc = "act", !.reserved = n]
    <2>1. "act" \in Pcs
      BY DEF Pcs
    <2>2. run' \in RunType
      BY <1>0, <1>2, <1>4, <2>1, Zenon DEF RunType
    <2>3. /\ run'.pc = "act" /\ run'.mode = run.mode /\ run'.quotes = run.quotes
          /\ run'.reserved = n /\ run'.decision = run.decision /\ run'.confirmed = run.confirmed
          /\ run'.vt = run.vt /\ run'.harvested = run.harvested
      BY <1>0, <1>4 DEF RunType
    <2>4. Calm
      BY <1>0, <1>1, <1>2, <1>3, <1>4, <2>2, <2>3 DEF Calm, BuyInv, Types
    <2>5. Types' /\ db'.vtokens = held' /\ Swapped' /\ SwapBounded'
          /\ PrincipalKept' /\ AllowanceExact' /\ ((~Live)' => allowed' <= MinBuy)
      BY <1>0, <2>4, Quiet
    <2>6. Memory' /\ Quoted'
      BY <1>0, <2>3, <2>5 DEF BuyInv, Memory, Quoted, In
    <2>7. (ConfirmedOnly(run.decision))'
      BY <1>1, <2>3 DEF ConfirmedOnly
    <2>8. Bought'
      BY <1>0, <1>1, <1>2, <1>3, <2>3, <2>7 DEF Bought, In, Buying, Paid, QuotedFor
    <2>9. Redeemed'
      BY <1>0, <2>3 DEF BuyInv, Redeemed, In, Harvest
    <2>10. Approved'
      BY <2>3, <2>5 DEF Approved, In
    <2>11. QED
      BY <2>5, <2>6, <2>8, <2>9, <2>10 DEF BuyInv
  <1>5. CASE run' = Finished(run, "SKIPPED") /\ left' = left
    <2>1. "SKIPPED" \in Outcomes
      BY DEF Outcomes
    <2>2. run' \in RunType /\ run'.pc = "end" /\ Same(run') /\ run'.outcome = "SKIPPED"
      BY <1>0, <1>5, <2>1, Finishes
    <2>3. QED
      BY <1>0, <1>5, <2>2, CalmIs, QuotesStay, Ending DEF Same
  <1>6. QED
    BY <1>2, <1>4, <1>5 DEF Reserve, Set

LEMMA ActKeeps ==
  ASSUME BuyInv, Act
  PROVE  BuyInv'
  <1>0. ~In({"end"}) /\ UNCHANGED <<plan, market, regular, rate, held, allowed, left, db, signed>>
        /\ run \in RunType /\ run.pc = "act" /\ In({"act"}) /\ In(Buying) /\ ~In({"open", "end"})
        /\ In(Buying \ {"reserve"})
    BY DEF Act, At, In, Local, BuyInv, Types, Buying
  <1>1. /\ Live => run.reserved > 0 
        /\ run.decision.kind = "execute" /\ run.decision \in Decisions
        /\ run.reserved \in Nat
    BY <1>0, RunFields DEF BuyInv, Bought
  <1>2. run.decision.spend \in Nat /\ run.decision.redeem \in Nat
    BY <1>1 DEF Decisions
  <1>3. CASE run' = Failed(run, "none")
    BY <1>0, <1>3, Fails, CalmIs, QuotesStay, Ending DEF Same
  <1>4. ASSUME NEW pc, pc \in {"redeem", "approve", "swap"}, pc = "redeem" => run.decision.redeem > 0,
               Live => run.decision.spend <= run.reserved, run' = [run EXCEPT !.pc = pc]
        PROVE  BuyInv'
    <2>0. pc \in Pcs
      BY <1>4 DEF Pcs
    <2>1. run' \in RunType /\ run'.pc = pc /\ Same(run') /\ Reading(run')
      BY <1>0, <1>4, <2>0, Goes
    <2>2. Types' /\ db'.vtokens = held' /\ Swapped' /\ SwapBounded'
          /\ PrincipalKept' /\ AllowanceExact' /\ ((~Live)' => allowed' <= MinBuy)
          /\ QuotesSound(run'.quotes)
      BY <1>0, <2>1, CalmIs, Quiet, QuotesStay DEF Same
    <2>3. Memory' /\ Quoted'
      BY <1>0, <1>4, <2>1, <2>2 DEF BuyInv, Memory, Quoted, In, Same, QuotesSound
    <2>4. In(Buying \ {"reserve"})'
      BY <1>4, <2>1 DEF In, Buying
    <2>5. Bought'
      BY <1>0, <1>1, <1>4, <2>1, <2>4, StillBuying
    <2>6. Redeemed'
      BY <1>0, <1>4, <2>1 DEF BuyInv, Redeemed, In, Harvest, Same
    <2>7. Approved'
      BY <1>4, <2>1, <2>2 DEF Approved, In
    <2>8. QED
      BY <2>2, <2>3, <2>5, <2>6, <2>7 DEF BuyInv
  <1>5. ~(run.reserved > 0 /\ run.decision.spend > run.reserved) =>
          /\ Live => run.decision.spend <= run.reserved
          /\ \E pc : /\ pc \in {"redeem", "approve", "swap"}
                     /\ pc = "redeem" => run.decision.redeem > 0
                     /\ run' = [run EXCEPT !.pc = pc]
    BY <1>1, <1>2 DEF Act, Local, Set
  <1>6. run.reserved > 0 /\ run.decision.spend > run.reserved => run' = Failed(run, "none")
    BY DEF Act, Local, Set
  <1>7. QED
    BY <1>3, <1>4, <1>5, <1>6

-----------------------------------------------------------------------------
(* redeemFromVenus                                                         *)

LEMMA ReadRateKeeps ==
  ASSUME BuyInv, ReadRate
  PROVE  BuyInv'
  <1>0. ~In({"end"}) /\ UNCHANGED <<plan, market, regular, rate, held, allowed, left, db, signed>>
        /\ run \in RunType /\ run.pc = "redeem" /\ In({"redeem"}) /\ In(Buying) /\ In(Paid)
        /\ In(Harvest) /\ ~In({"open", "end"}) /\ In(Buying \ {"reserve"})
    BY DEF ReadRate, At, In, Local, BuyInv, Types, Buying, Paid, Harvest
  <1>1. PICK n \in Nat : n = rate
    BY DEF BuyInv, Types
  <1>2. run' = [run EXCEPT !.pc = "build", !.read = n, !.redeemDone = TRUE]
    BY <1>1 DEF ReadRate, Local, Set
  <1>3. "build" \in Pcs /\ TRUE \in BOOLEAN
    BY DEF Pcs
  <1>4. run' \in RunType
    BY <1>0, <1>2, <1>3, Zenon DEF RunType
  <1>5. run'.pc = "build" /\ Same(run') /\ run'.read = rate
    BY <1>0, <1>1, <1>2 DEF RunType, Same
  <1>6. Types' /\ db'.vtokens = held' /\ Swapped' /\ SwapBounded'
        /\ PrincipalKept' /\ AllowanceExact' /\ ((~Live)' => allowed' <= MinBuy)
        /\ QuotesSound(run'.quotes)
    BY <1>0, <1>4, <1>5, CalmIs, Quiet, QuotesStay DEF Same
  <1>7. Memory' /\ Quoted'
    BY <1>0, <1>5, <1>6 DEF BuyInv, Memory, Quoted, In, Same, QuotesSound
  <1>8. In(Buying \ {"reserve"})' /\ (Live => run.reserved > 0 /\ run.decision.spend <= run.reserved)
    BY <1>0, <1>5 DEF In, Buying, BuyInv, Bought
  <1>9. Bought'
    BY <1>0, <1>4, <1>5, <1>8, StillBuying
  <1>10. Redeemed'
    <2>1. /\ run.decision.redeem > 0 /\ plan.mode = "yield"
          /\ plan.principal + run.decision.redeem <= run.vt * rate
      BY <1>0 DEF BuyInv, Redeemed, In
    <2>2. 2 <= rate /\ rate <= rate
      BY <1>1 DEF BuyInv, Types
    <2>3. QED
      BY <1>0, <1>5, <2>1, <2>2 DEF Redeemed, In, Harvest, Same
  <1>11. Approved'
    BY <1>5, <1>6 DEF Approved, In
  <1>12. QED
    BY <1>6, <1>7, <1>9, <1>10, <1>11 DEF BuyInv

LEMMA BuildRedeemKeeps ==
  ASSUME BuyInv, BuildRedeem
  PROVE  BuyInv'
  <1>0. ~In({"end"}) /\ UNCHANGED <<plan, market, regular, rate, held, allowed, left, db, signed>>
        /\ run \in RunType /\ run.pc = "build" /\ In({"build"}) /\ In(Buying) /\ In(Paid)
        /\ In(Harvest) /\ ~In({"open", "end"}) /\ In(Buying \ {"reserve"})
    BY DEF BuildRedeem, At, In, Local, BuyInv, Types, Buying, Paid, Harvest
  <1>1. CASE run' = Failed(run, "none")
    BY <1>0, <1>1, Fails, CalmIs, QuotesStay, Ending DEF Same
  <1>2. ASSUME NEW ok \in BOOLEAN, run' = [Round(run) EXCEPT !.redeemOk = ok]
        PROVE  BuyInv'
    <2>1. PICK r : r = Round(run)
      OBVIOUS
    <2>2. r \in RunType /\ r.pc = "decide" /\ Same(r)
      BY <1>0, <2>1, Rounds
    <2>3. run' = [r EXCEPT !.redeemOk = ok]
      BY <1>2, <2>1
    <2>4. run' \in RunType
      BY <2>2, <2>3, Zenon DEF RunType
    <2>5. run'.pc = "decide" /\ Same(run')
      BY <2>2, <2>3 DEF RunType, Same
    <2>6. run'.vt = held /\ run'.harvested = db.harvested
      BY <1>0, <2>5 DEF BuyInv, Memory, Same
    <2>7. QED
      BY <1>0, <2>4, <2>5, <2>6, CalmIs, QuotesStay, Again DEF Same
  <1>3. ASSUME NEW burn \in Nat, BurnOk(burn), Live,
               run' = [run EXCEPT !.pc = "sendRedeem", !.burn = burn]
        PROVE  BuyInv'
    <2>1. "sendRedeem" \in Pcs
      BY DEF Pcs
    <2>2. run' \in RunType
      BY <1>0, <1>3, <2>1, Zenon DEF RunType
    <2>3. run'.pc = "sendRedeem" /\ Same(run') /\ run'.read = run.read /\ run'.burn = burn
      BY <1>0, <1>3 DEF RunType, Same
    <2>4. Types' /\ db'.vtokens = held' /\ Swapped' /\ SwapBounded'
          /\ PrincipalKept' /\ AllowanceExact' /\ ((~Live)' => allowed' <= MinBuy)
          /\ QuotesSound(run'.quotes)
      BY <1>0, <2>2, <2>3, CalmIs, Quiet, QuotesStay DEF Same
    <2>5. Memory' /\ Quoted'
      BY <1>0, <2>3, <2>4 DEF BuyInv, Memory, Quoted, In, Same, QuotesSound
    <2>6. In(Buying \ {"reserve"})' /\ (Live => run.reserved > 0 /\ run.decision.spend <= run.reserved)
      BY <1>0, <2>3 DEF In, Buying, BuyInv, Bought
    <2>7. Bought'
      BY <1>0, <2>2, <2>3, <2>6, StillBuying
    <2>8. Redeemed'
      <3>1. run'.burn <= run'.vt /\ run'.burn <= RedeemLimit(run'.decision.redeem, run'.read)
        BY <1>3, <2>3 DEF BurnOk, Same
      <3>2. /\ run.decision.redeem > 0 /\ plan.mode = "yield" /\ 2 <= run.read /\ run.read <= rate
            /\ plan.principal + run.decision.redeem <= run.vt * run.read
            /\ plan.principal + run.decision.redeem <= run.vt * rate
        BY <1>0 DEF BuyInv, Redeemed, In, Harvest
      <3>3. QED
        BY <1>0, <1>3, <2>3, <3>1, <3>2 DEF Redeemed, In, Harvest, Same, Live, BurnOk
    <2>9. Approved'
      BY <2>3, <2>4 DEF Approved, In
    <2>10. QED
      BY <2>4, <2>5, <2>7, <2>8, <2>9 DEF BuyInv
  <1>4. \/ run' = Failed(run, "none")
        \/ \E ok \in BOOLEAN : run' = [Round(run) EXCEPT !.redeemOk = ok]
        \/ \E burn \in Nat : BurnOk(burn) /\ Live
                             /\ run' = [run EXCEPT !.pc = "sendRedeem", !.burn = burn]
    <2>1. CASE Local(Failed(run, "none"))
      BY <2>1 DEF Local, Set
    <2>2. ASSUME NEW burn \in 0 .. run.vt + MaxExcess, NEW ok \in BOOLEAN,
                 Local(IF ~BurnOk(burn) THEN Failed(run, "none")
                  ELSE IF ~Live THEN [Round(run) EXCEPT !.redeemOk = ok]
                  ELSE IF ~ok THEN Failed(run, "none")
                  ELSE [run EXCEPT !.pc = "sendRedeem", !.burn = burn])
          PROVE  \/ run' = Failed(run, "none")
                 \/ run' = [Round(run) EXCEPT !.redeemOk = ok]
                 \/ burn \in Nat /\ BurnOk(burn) /\ Live
                    /\ run' = [run EXCEPT !.pc = "sendRedeem", !.burn = burn]
      BY <2>2 DEF Local, Set
    <2>3. QED
      BY <2>1, <2>2 DEF BuildRedeem
  <1>5. QED
    BY <1>1, <1>2, <1>3, <1>4

\* The burn is worth less than the interest, two vTokens and a part per
\* million of itself, at the rate read and so at any later one.
LEMMA BurnIs ==
  ASSUME NEW redeem \in Nat, NEW r \in Nat, 2 <= r, NEW vt \in Nat, NEW burn \in Nat,
         NEW principal \in Nat, NEW now \in Nat, r <= now,
         burn <= vt, burn <= RedeemLimit(redeem, r), principal + redeem <= vt * r
  PROVE  vt - burn \in Nat /\ principal <= ((vt - burn) + (2 + PartPerMillion(burn))) * now
  <1>1. PICK w \in Nat : w = (redeem + r - 1) \div r /\ w * r <= redeem + r - 1
    <2>1. redeem + r - 1 \in Nat /\ r > 0
      OBVIOUS
    <2>2. (redeem + r - 1) \div r \in Nat /\ ((redeem + r - 1) \div r) * r <= redeem + r - 1
      BY <2>1, DivIs
    <2>3. QED
      BY <2>2
  <1>2. PICK x \in Nat : x = PartPerMillion(burn) /\ burn <= w + x + 1
    <2>1. burn <= w + PartPerMillion(w) + 1
      BY <1>1 DEF RedeemLimit
    <2>2. PartPerMillion(burn) \in Nat /\ (w <= burn => PartPerMillion(w) <= PartPerMillion(burn))
      BY DEF PartPerMillion
    <2>3. PartPerMillion(w) \in Nat
      BY DEF PartPerMillion
    <2>4. burn <= w + PartPerMillion(burn) + 1
      BY <2>1, <2>2, <2>3
    <2>5. QED
      BY <2>2, <2>4
  <1>3. PICK rest \in Nat : vt = rest + burn
    <2>1. vt - burn \in Nat /\ vt = (vt - burn) + burn
      OBVIOUS
    <2>2. QED
      BY <2>1
  <1>4. burn * r <= (w + x + 1) * r
    BY <1>2, Grows
  <1>5. /\ (w + x + 1) * r = w * r + x * r + r /\ w * r \in Nat /\ x * r \in Nat /\ burn * r \in Nat
    BY <1>1, <1>2
  <1>6. burn * r <= redeem + x * r + 2 * r - 1
    BY <1>1, <1>4, <1>5
  <1>7. vt * r = rest * r + burn * r /\ rest * r \in Nat
        /\ (rest + (2 + x)) * r = rest * r + 2 * r + x * r
    BY <1>2, <1>3
  <1>8. principal <= (rest + (2 + x)) * r
    BY <1>5, <1>6, <1>7
  <1>9. PICK k \in Nat : k = rest + (2 + x)
    BY <1>2, <1>3
  <1>10. k * r <= k * now /\ k * r \in Nat /\ k * now \in Nat
    BY Grows
  <1>11. vt - burn = rest
    BY <1>3
  <1>12. principal <= (rest + (2 + x)) * now
    BY <1>8, <1>9, <1>10
  <1>13. QED
    BY <1>2, <1>11, <1>12

LEMMA SendRedeemKeeps ==
  ASSUME BuyInv, SendRedeem
  PROVE  BuyInv'
  <1>0. ~In({"end"}) /\ UNCHANGED <<plan, market, regular, rate, allowed, left>>
        /\ run \in RunType /\ run.pc = "sendRedeem" /\ In({"sendRedeem"}) /\ In(Buying) /\ In(Paid)
        /\ In(Harvest) /\ ~In({"open", "end"}) /\ Sign("redeem", run.burn, None)
    BY DEF SendRedeem, At, In, BuyInv, Types, Buying, Paid, Harvest
  <1>1. /\ run.burn \in Nat /\ run.vt \in Nat /\ run.read \in Nat /\ rate \in Nat
        /\ run.decision.redeem \in Nat /\ plan.principal \in Nat /\ held \in Nat
        /\ db \in [vtokens : Nat, harvested : Nat] /\ signed \in Seq(SignedType)
        /\ run.reserved \in Nat /\ run.harvested \in Nat
    <2>1. run.decision.kind = "execute" /\ run.decision \in Decisions
      BY <1>0, RunFields DEF BuyInv, Bought
    <2>2. run.decision.redeem \in Nat
      BY <2>1 DEF Decisions
    <2>3. QED
      BY <1>0, <2>2, RunFields, PlanFields DEF BuyInv, Types
  <1>2. /\ 2 <= run.read /\ run.read <= rate /\ plan.mode = "yield"
        /\ plan.principal + run.decision.redeem <= run.vt * run.read
        /\ run.burn <= run.vt /\ run.burn <= RedeemLimit(run.decision.redeem, run.read)
    BY <1>0 DEF BuyInv, Redeemed, In, BurnOk
  <1>3. run.vt = held /\ db.vtokens = held /\ run.harvested = db.harvested
    BY <1>0 DEF BuyInv, Memory
  <1>4. held - run.burn \in Nat
        /\ plan.principal <= ((held - run.burn) + (2 + PartPerMillion(run.burn))) * rate
    <2>1. PICK redeem \in Nat, r \in Nat, vt \in Nat, burn \in Nat, principal \in Nat, now \in Nat :
            /\ redeem = run.decision.redeem /\ r = run.read /\ vt = run.vt /\ burn = run.burn
            /\ principal = plan.principal /\ now = rate
      BY <1>1
    <2>2. /\ 2 <= r /\ r <= now /\ principal + redeem <= vt * r /\ burn <= vt
          /\ burn <= RedeemLimit(redeem, r)
      BY <1>2, <2>1
    <2>3. vt - burn \in Nat /\ principal <= ((vt - burn) + (2 + PartPerMillion(burn))) * now
      BY <2>2, BurnIs
    <2>4. QED
      BY <1>3, <2>1, <2>3
  <1>5. signed' \in Seq(SignedType) /\ Swaps' = Swaps /\ Swaps = {}
        /\ Shortfalls \subseteq Shortfalls' /\ 2 + PartPerMillion(run.burn) \in Shortfalls'
    BY <1>0, <1>1, SignedIs, NoSwapYet DEF BuyInv
  <1>6. CASE NotConfirmed /\ UNCHANGED <<held, db>>
    <2>1. run' \in RunType /\ run'.pc = "end" /\ Same(run')
          /\ run'.outcome \notin {"SIMULATED", "SIMULATED failed"}
      BY <1>0, <1>6, NotConfirmedEnds
    <2>2. Calm
      <3>1. regular \in BOOLEAN /\ left \in Nat
        BY DEF BuyInv, Types
      <3>2. regular' \in BOOLEAN /\ left' \in Nat /\ rate' \in Nat /\ rate <= rate'
        BY <1>0, <1>1, <3>1
      <3>5. run'.reserved = run.reserved /\ run'.mode = run.mode
        BY <2>1 DEF Same
      <3>3. run.reserved <= run'.reserved /\ run'.mode = run.mode
        BY <1>1, <3>5
      <3>4. QED
        BY <1>0, <1>5, <1>6, <2>1, <3>2, <3>3 DEF Calm
    <2>3. QED
      BY <1>0, <2>1, <2>2, QuotesStay, Ending DEF Same
  <1>7. CASE /\ held' = held - run.burn
             /\ db' = [db EXCEPT !.harvested = @ + run.burn * rate, !.vtokens = Less(@, run.burn)]
             /\ run' = Remember(Round(run), run.burn, run.burn * rate)
    <2>1. PICK h \in Nat, v \in Nat : h = db.harvested + run.burn * rate /\ v = held - run.burn
      <3>1. run.burn * rate \in Nat /\ db.harvested \in Nat
        BY <1>1
      <3>2. QED
        BY <1>4, <3>1
    <2>2. Less(held, run.burn) = v
      BY <1>1, <1>4, <2>1 DEF Less
    <2>3. db' = [db EXCEPT !.harvested = h, !.vtokens = v] /\ held' = v
      BY <1>3, <1>7, <2>1, <2>2
    <2>4. db' \in [vtokens : Nat, harvested : Nat] /\ db'.vtokens = v /\ db'.harvested = h
      BY <1>1, <2>3
    <2>5. PICK r : r = Round(run)
      OBVIOUS
    <2>6. r \in RunType /\ r.pc = "decide" /\ Same(r)
      BY <1>0, <2>5, Rounds
    <2>7. run' = [r EXCEPT !.harvested = h, !.vt = v, !.mined = TRUE]
      BY <1>3, <1>7, <2>1, <2>2, <2>5, <2>6 DEF Remember, Same
    <2>8. PICK b \in BOOLEAN : b = TRUE
      OBVIOUS
    <2>9. run' \in RunType
      BY <2>6, <2>7, <2>8, Zenon DEF RunType
    <2>10. /\ run'.pc = "decide" /\ run'.mode = run.mode /\ run'.reserved = run.reserved
           /\ run'.quotes = run.quotes /\ run'.vt = v /\ run'.harvested = h
      BY <2>6, <2>7 DEF RunType, Same
    <2>11. Types'
      BY <1>0, <1>5, <2>3, <2>4, <2>9 DEF BuyInv, Types
    <2>12. Memory' /\ Quoted'
      BY <2>3, <2>4, <2>10, <1>0 DEF BuyInv, Memory, Quoted, In
    <2>13. Bought' /\ Redeemed'
      BY <2>10 DEF Bought, Redeemed, In, Buying, Paid, Harvest
    <2>14. Approved'
      BY <1>0, <2>10 DEF BuyInv, Approved, AllowanceExact, Live, In
    <2>15. Swapped' /\ SwapBounded'
      BY <1>5 DEF Swapped, SwapBounded
    <2>16. PrincipalKept'
      BY <1>0, <1>4, <1>5, <2>1, <2>3 DEF PrincipalKept
    <2>17. QED
      BY <2>11, <2>12, <2>13, <2>14, <2>15, <2>16 DEF BuyInv
  <1>8. QED
    BY <1>6, <1>7 DEF SendRedeem, Set

-----------------------------------------------------------------------------
(* ensureApproval and performSwap                                          *)

LEMMA BuildApprovalKeeps ==
  ASSUME BuyInv, BuildApproval
  PROVE  BuyInv'
  <1>0. ~In({"end"}) /\ UNCHANGED <<plan, market, regular, rate, held, allowed, left, db, signed>>
        /\ run \in RunType /\ run.pc = "approve" /\ In(Buying) /\ In(Paid)
        /\ ~In({"open", "end"}) /\ In(Buying \ {"reserve"})
    BY DEF BuildApproval, At, In, Local, BuyInv, Types, Buying, Paid
  <1>1. CASE run' = Failed(run, "none")
    BY <1>0, <1>1, Fails, CalmIs, QuotesStay, Ending DEF Same
  <1>2. ASSUME NEW how, how \in {"existing", "simulated"},
               run' = [Round(run) EXCEPT !.approval = how]
        PROVE  BuyInv'
    <2>1. PICK r : r = Round(run)
      OBVIOUS
    <2>2. r \in RunType /\ r.pc = "decide" /\ Same(r)
      BY <1>0, <2>1, Rounds
    <2>3. run' = [r EXCEPT !.approval = how] /\ how \in {None, "existing", "simulated", "sent"}
      BY <1>2, <2>1
    <2>4. run' \in RunType
      BY <2>2, <2>3, Zenon DEF RunType
    <2>5. run'.pc = "decide" /\ Same(run')
      BY <2>2, <2>3 DEF RunType, Same
    <2>6. run'.vt = held /\ run'.harvested = db.harvested
      BY <1>0, <2>5 DEF BuyInv, Memory, Same
    <2>7. QED
      BY <1>0, <2>4, <2>5, <2>6, CalmIs, QuotesStay, Again DEF Same
  <1>3. ASSUME NEW asked \in Nat, asked = run.decision.spend, Live,
               run' = [run EXCEPT !.pc = "sendApproval", !.read = asked]
        PROVE  BuyInv'
    <2>1. "sendApproval" \in Pcs
      BY DEF Pcs
    <2>2. run' \in RunType
      BY <1>0, <1>3, <2>1, Zenon DEF RunType
    <2>3. run'.pc = "sendApproval" /\ Same(run') /\ run'.read = asked
      BY <1>0, <1>3 DEF RunType, Same
    <2>4. Types' /\ db'.vtokens = held' /\ Swapped' /\ SwapBounded'
          /\ PrincipalKept' /\ AllowanceExact' /\ ((~Live)' => allowed' <= MinBuy)
          /\ QuotesSound(run'.quotes)
      BY <1>0, <2>2, <2>3, CalmIs, Quiet, QuotesStay DEF Same
    <2>5. Memory' /\ Quoted'
      BY <1>0, <2>3, <2>4 DEF BuyInv, Memory, Quoted, In, Same, QuotesSound
    <2>6. In(Buying \ {"reserve"})' /\ (Live => run.reserved > 0 /\ run.decision.spend <= run.reserved)
      BY <1>0, <2>3 DEF In, Buying, BuyInv, Bought
    <2>7. Bought'
      BY <1>0, <2>2, <2>3, <2>6, StillBuying
    <2>8. Redeemed'
      BY <2>3 DEF Redeemed, In, Harvest
    <2>9. Approved'
      BY <1>3, <2>3, <2>4 DEF Approved, In, Live, Same
    <2>10. QED
      BY <2>4, <2>5, <2>7, <2>8, <2>9 DEF BuyInv
  <1>4. \/ run' = Failed(run, "none")
        \/ \E how : how \in {"existing", "simulated"} /\ run' = [Round(run) EXCEPT !.approval = how]
        \/ \E asked \in Nat : asked = run.decision.spend /\ Live
                              /\ run' = [run EXCEPT !.pc = "sendApproval", !.read = asked]
    <2>1. CASE Local(Failed(run, "none"))
      BY <2>1 DEF Local, Set
    <2>2. CASE Local([Round(run) EXCEPT !.approval = "existing"])
      BY <2>2 DEF Local, Set
    <2>3. ASSUME NEW asked \in run.decision.spend .. run.decision.spend + MaxExcess,
                 NEW ok \in BOOLEAN,
                 Local(IF ~Exact(asked) \/ ~ok THEN Failed(run, "none")
                     ELSE IF ~Live THEN [Round(run) EXCEPT !.approval = "simulated"]
                     ELSE [run EXCEPT !.pc = "sendApproval", !.read = asked])
          PROVE  \/ run' = Failed(run, "none")
                 \/ run' = [Round(run) EXCEPT !.approval = "simulated"]
                 \/ asked \in Nat /\ asked = run.decision.spend /\ Live
                    /\ run' = [run EXCEPT !.pc = "sendApproval", !.read = asked]
      <3>1. run.decision.spend \in Nat
        BY <1>0, RunFields DEF BuyInv, Bought, Decisions
      <3>2. QED
        BY <2>3, <3>1 DEF Local, Set, Exact
    <2>4. QED
      BY <2>1, <2>2, <2>3 DEF BuildApproval
  <1>5. QED
    BY <1>1, <1>2, <1>3, <1>4

LEMMA SendApprovalKeeps ==
  ASSUME BuyInv, SendApproval
  PROVE  BuyInv'
  <1>0. ~In({"end"}) /\ UNCHANGED <<plan, market, regular, rate, held, left, db>>
        /\ run \in RunType /\ run.pc = "sendApproval" /\ In({"sendApproval"}) /\ In(Buying)
        /\ In(Paid) /\ ~In({"open", "end"}) /\ Sign("approve", run.read, None)
    BY DEF SendApproval, At, In, BuyInv, Types, Buying, Paid
  <1>1. Live /\ run.read = run.decision.spend /\ run.decision.spend <= run.reserved
        /\ run.read \in Nat /\ run.reserved \in Nat
    BY <1>0, RunFields DEF BuyInv, Approved, Bought
  <1>2. signed' \in Seq(SignedType) /\ Swaps' = Swaps /\ Swaps = {} /\ Shortfalls \subseteq Shortfalls'
    BY <1>0, <1>1, SignedIs, NoSwapYet DEF BuyInv, Types
  <1>3. CASE NotConfirmed /\ UNCHANGED allowed
    <2>1. run' \in RunType /\ run'.pc = "end" /\ Same(run')
          /\ run'.outcome \notin {"SIMULATED", "SIMULATED failed"}
      BY <1>0, <1>3, NotConfirmedEnds
    <2>2. Calm
      <3>1. regular' \in BOOLEAN /\ left' \in Nat /\ rate' \in Nat /\ rate <= rate'
        BY <1>0 DEF BuyInv, Types
      <3>2. run'.reserved = run.reserved /\ run'.mode = run.mode
        BY <2>1 DEF Same
      <3>3. run.reserved <= run'.reserved
        BY <1>1, <3>2
      <3>4. QED
        BY <1>0, <1>2, <1>3, <2>1, <3>1, <3>2, <3>3 DEF Calm
    <2>3. QED
      BY <1>0, <2>1, <2>2, QuotesStay, Ending DEF Same
  <1>4. CASE allowed' = run.read /\ run' = [Round(run) EXCEPT !.approval = "sent", !.mined = TRUE]
    <2>1. PICK r : r = Round(run)
      OBVIOUS
    <2>2. r \in RunType /\ r.pc = "decide" /\ Same(r)
      BY <1>0, <2>1, Rounds
    <2>3. PICK b \in BOOLEAN, how \in {None, "existing", "simulated", "sent"} : b = TRUE /\ how = "sent"
      OBVIOUS
    <2>4. run' = [r EXCEPT !.approval = how, !.mined = b]
      BY <1>4, <2>1, <2>3
    <2>5. run' \in RunType
      BY <2>2, <2>4, Zenon DEF RunType
    <2>6. /\ run'.pc = "decide" /\ run'.mode = run.mode /\ run'.reserved = run.reserved
          /\ run'.quotes = run.quotes /\ run'.vt = run.vt /\ run'.harvested = run.harvested
      BY <2>2, <2>4 DEF RunType, Same
    <2>7. Types'
      BY <1>0, <1>1, <1>2, <1>4, <2>5 DEF BuyInv, Types
    <2>8. Memory' /\ Quoted'
      BY <1>0, <2>6 DEF BuyInv, Memory, Quoted, In
    <2>9. Bought' /\ Redeemed'
      BY <2>6 DEF Bought, Redeemed, In, Buying, Paid, Harvest
    <2>10. Approved'
      BY <1>1, <1>4, <2>6 DEF Approved, AllowanceExact, Live, In
    <2>11. Swapped' /\ SwapBounded'
      BY <1>2 DEF Swapped, SwapBounded
    <2>12. PrincipalKept'
      <3>1. rate \in Nat /\ rate <= rate
        BY DEF BuyInv, Types
      <3>2. QED
        BY <1>0, <1>2, <3>1, PrincipalStays DEF BuyInv, Types
    <2>13. QED
      BY <2>7, <2>8, <2>9, <2>10, <2>11, <2>12 DEF BuyInv
  <1>5. QED
    BY <1>3, <1>4 DEF SendApproval, Set

\* Quotes that only grew older are still of the same amounts and issuers.
LEMMA AgedIs ==
  ASSUME NEW quotes \in Seq(QuoteType), QuotesSound(quotes), NEW q,
         q \in [DOMAIN quotes -> QuoteType],
         \A i \in DOMAIN quotes : /\ q[i].issuer = quotes[i].issuer /\ q[i].spend = quotes[i].spend
                                  /\ q[i].impact = quotes[i].impact /\ q[i].mode = quotes[i].mode
  PROVE  /\ q \in Seq(QuoteType) /\ QuotesSound(q)
         /\ \A issuer, spend : QuotedFor(quotes, issuer, spend) => QuotedFor(q, issuer, spend)
  <1>1. Len(quotes) \in Nat /\ DOMAIN quotes = 1 .. Len(quotes) /\ DOMAIN q = DOMAIN quotes
    OBVIOUS
  <1>2. q \in Seq(QuoteType)
    BY <1>1
  <1>3. \A i \in DOMAIN q : Orderable(q[i].issuer, q[i].spend)
    BY <1>1 DEF QuotesSound
  <1>4. LastKnown(q)
    <2>1. LastKnown(quotes)
      BY DEF QuotesSound
    <2>2. QED
      BY <1>1, <2>1 DEF LastKnown
  <1>5. \A issuer, spend : QuotedFor(quotes, issuer, spend) => QuotedFor(q, issuer, spend)
    BY <1>1 DEF QuotedFor
  <1>6. QED
    BY <1>2, <1>3, <1>4, <1>5 DEF QuotesSound

\* A requote ages one.
LEMMA RequotedIs ==
  ASSUME BuyInv, In(Buying), NEW r, r = Requoted
  PROVE  /\ r \in RunType /\ r.pc = "decide" /\ r.mode = run.mode /\ r.reserved = run.reserved
         /\ r.vt = run.vt /\ r.harvested = run.harvested /\ QuotesSound(r.quotes)
  <1>0. run \in RunType /\ run.quotes \in Seq(QuoteType) /\ QuotesSound(run.quotes)
    BY RunFields DEF BuyInv, Types, Quoted, QuotesSound
  <1>1. PICK l : l = Last(run.decision.issuer)
    OBVIOUS
  <1>2. l \in DOMAIN run.quotes
    <2>1. PICK i \in DOMAIN run.quotes : run.quotes[i].issuer = run.decision.issuer
      BY DEF BuyInv, Bought, QuotedFor
    <2>2. PICK j \in DOMAIN run.quotes :
            /\ run.quotes[j].issuer = run.decision.issuer
            /\ \A k \in DOMAIN run.quotes : run.quotes[k].issuer = run.decision.issuer => k <= j
      BY <1>0, <2>1 DEF QuotesSound, LastKnown
    <2>3. QED
      BY <1>1, <2>2 DEF Last
  <1>3. PICK s : s = Round(run)
    OBVIOUS
  <1>4. s \in RunType /\ s.pc = "decide" /\ Same(s)
    BY <1>0, <1>3, Rounds
  <1>5. PICK t : t = [run.quotes[l] EXCEPT !.expired = TRUE]
    OBVIOUS
  <1>6. /\ t \in QuoteType /\ t.issuer = run.quotes[l].issuer /\ t.spend = run.quotes[l].spend
        /\ t.impact = run.quotes[l].impact /\ t.mode = run.quotes[l].mode
    <2>1. PICK u \in QuoteType : u = run.quotes[l]
      BY <1>0, <1>2
    <2>2. t = [u EXCEPT !.expired = TRUE]
      BY <1>5, <2>1
    <2>3. t \in QuoteType /\ t.issuer = u.issuer /\ t.spend = u.spend /\ t.impact = u.impact
          /\ t.mode = u.mode
      BY <2>2 DEF QuoteType
    <2>4. QED
      BY <2>1, <2>3
  <1>7. PICK q : q = [run.quotes EXCEPT ![l] = t]
    OBVIOUS
  <1>8. /\ q \in [DOMAIN run.quotes -> QuoteType]
        /\ \A i \in DOMAIN run.quotes :
              /\ q[i].issuer = run.quotes[i].issuer /\ q[i].spend = run.quotes[i].spend
              /\ q[i].impact = run.quotes[i].impact /\ q[i].mode = run.quotes[i].mode
    BY <1>0, <1>2, <1>6, <1>7
  <1>9. q \in Seq(QuoteType) /\ QuotesSound(q)
    BY <1>0, <1>8, AgedIs
  <1>10. r = [s EXCEPT !.quotes = q]
    <2>1. s.quotes = run.quotes
      BY <1>4 DEF Same
    <2>2. r = [s EXCEPT !.quotes[l].expired = TRUE]
      BY <1>1, <1>3 DEF Requoted
    <2>3. QED
      BY <1>5, <1>7, <2>1, <2>2
  <1>11. r \in RunType
    BY <1>4, <1>9, <1>10, Zenon DEF RunType
  <1>12. QED
    BY <1>4, <1>9, <1>10 , <1>11 DEF RunType, Same

LEMMA BuildSwapKeeps ==
  ASSUME BuyInv, BuildSwap
  PROVE  BuyInv'
  <1>0. ~In({"end"}) /\ UNCHANGED <<plan, market, regular, rate, held, allowed, left, db, signed>>
        /\ run \in RunType /\ run.pc = "swap" /\ In(Buying) /\ In(Paid)
        /\ ~In({"open", "end"}) /\ In(Buying \ {"reserve"})
    BY DEF BuildSwap, At, In, Local, BuyInv, Types, Buying, Paid
  <1>1. CASE run' = Failed(run, "none")
    BY <1>0, <1>1, Fails, CalmIs, QuotesStay, Ending DEF Same
  <1>2. CASE run' = Requoted
    <2>1. /\ run' \in RunType /\ run'.pc = "decide" /\ run'.mode = run.mode
          /\ run'.reserved = run.reserved /\ run'.vt = run.vt /\ run'.harvested = run.harvested
          /\ QuotesSound(run'.quotes)
      BY <1>0, <1>2, RequotedIs
    <2>2. run'.vt = held /\ run'.harvested = db.harvested
      BY <1>0, <2>1 DEF BuyInv, Memory
    <2>3. QED
      BY <1>0, <2>1, <2>2, CalmIs, Again
  <1>3. CASE run' = [run EXCEPT !.pc = "simulate"]
    <2>0. "simulate" \in Pcs
      BY DEF Pcs
    <2>1. run' \in RunType /\ run'.pc = "simulate" /\ Same(run') /\ Reading(run')
      BY <1>0, <1>3, <2>0, Goes
    <2>2. Types' /\ db'.vtokens = held' /\ Swapped' /\ SwapBounded'
          /\ PrincipalKept' /\ AllowanceExact' /\ ((~Live)' => allowed' <= MinBuy)
          /\ QuotesSound(run'.quotes)
      BY <1>0, <2>1, CalmIs, Quiet, QuotesStay DEF Same
    <2>3. Memory' /\ Quoted'
      BY <1>0, <2>1, <2>2 DEF BuyInv, Memory, Quoted, In, Same, QuotesSound
    <2>4. In(Buying \ {"reserve"})' /\ (Live => run.reserved > 0 /\ run.decision.spend <= run.reserved)
      BY <1>0, <2>1 DEF In, Buying, BuyInv, Bought
    <2>5. Bought'
      BY <1>0, <2>1, <2>4, StillBuying
    <2>6. Redeemed' /\ Approved'
      BY <2>1, <2>2 DEF Redeemed, Approved, In, Harvest
    <2>7. QED
      BY <2>2, <2>3, <2>5, <2>6 DEF BuyInv
  <1>4. QED
    BY <1>1, <1>2, <1>3 DEF BuildSwap, Local, Set

LEMMA SimulateSwapKeeps ==
  ASSUME BuyInv, SimulateSwap
  PROVE  BuyInv'
  <1>0. ~In({"end"}) /\ UNCHANGED <<plan, market, regular, rate, held, allowed, left, db, signed>>
        /\ run \in RunType /\ run.pc = "simulate" /\ In(Buying) /\ In(Paid)
        /\ ~In({"open", "end"}) /\ In(Buying \ {"reserve"})
    BY DEF SimulateSwap, At, In, Local, BuyInv, Types, Buying, Paid
  <1>1. CASE run' = Failed(run, "none")
    BY <1>0, <1>1, Fails, CalmIs, QuotesStay, Ending DEF Same
  <1>2. ASSUME NEW outcome, outcome \in {"SIMULATED", "SIMULATED failed"}, run' = Finished(run, outcome)
        PROVE  BuyInv'
    <2>1. outcome \in Outcomes
      BY <1>2 DEF Outcomes
    <2>2. run' \in RunType /\ run'.pc = "end" /\ Same(run') /\ run'.outcome = outcome
      BY <1>0, <1>2, <2>1, Finishes
    <2>3. run'.decision.kind = "execute"
      BY <1>0, <2>2 DEF BuyInv, Bought, Same
    <2>4. QED
      BY <1>0, <2>2, <2>3, CalmIs, QuotesStay, Ending DEF Same
  <1>3. CASE Live /\ Covered /\ run' = [run EXCEPT !.pc = "sign"]
    <2>0. "sign" \in Pcs
      BY DEF Pcs
    <2>1. run' \in RunType /\ run'.pc = "sign" /\ Same(run') /\ Reading(run')
      BY <1>0, <1>3, <2>0, Goes
    <2>2. Types' /\ db'.vtokens = held' /\ Swapped' /\ SwapBounded'
          /\ PrincipalKept' /\ AllowanceExact' /\ ((~Live)' => allowed' <= MinBuy)
          /\ QuotesSound(run'.quotes)
      BY <1>0, <2>1, CalmIs, Quiet, QuotesStay DEF Same
    <2>3. Memory' /\ Quoted'
      BY <1>0, <2>1, <2>2 DEF BuyInv, Memory, Quoted, In, Same, QuotesSound
    <2>4. In(Buying \ {"reserve"})' /\ (Live => run.reserved > 0 /\ run.decision.spend <= run.reserved)
      BY <1>0, <2>1 DEF In, Buying, BuyInv, Bought
    <2>5. Bought'
      BY <1>0, <2>1, <2>4, StillBuying
    <2>6. Redeemed'
      BY <2>1 DEF Redeemed, In, Harvest
    <2>7. Approved'
      BY <1>0, <1>3, <2>1, <2>2 DEF Approved, In, Live, Covered, Same
    <2>8. QED
      BY <2>2, <2>3, <2>5, <2>6, <2>7 DEF BuyInv
  <1>4. \/ run' = Failed(run, "none")
        \/ \E outcome : outcome \in {"SIMULATED", "SIMULATED failed"} /\ run' = Finished(run, outcome)
        \/ Live /\ Covered /\ run' = [run EXCEPT !.pc = "sign"]
    BY DEF SimulateSwap, Local, Set
  <1>5. QED
    BY <1>1, <1>2, <1>3, <1>4

LEMMA SignSwapKeeps ==
  ASSUME BuyInv, SignSwap
  PROVE  BuyInv'
  <1>0. ~In({"end"}) /\ UNCHANGED <<plan, market, regular, rate, held, left>>
        /\ run \in RunType /\ run.pc = "sign" /\ In({"sign"}) /\ In(Buying) /\ In(Paid)
        /\ ~In({"open", "end"}) /\ In(Buying \ {"reserve"})
    BY DEF SignSwap, At, In, BuyInv, Types, Buying, Paid
  <1>1. CASE run' = Requoted /\ UNCHANGED <<allowed, db, signed>>
    <2>1. /\ run' \in RunType /\ run'.pc = "decide" /\ run'.mode = run.mode
          /\ run'.reserved = run.reserved /\ run'.vt = run.vt /\ run'.harvested = run.harvested
          /\ QuotesSound(run'.quotes)
      BY <1>0, <1>1, RequotedIs
    <2>2. run'.vt = held /\ run'.harvested = db.harvested
      BY <1>0, <2>1 DEF BuyInv, Memory
    <2>3. QED
      BY <1>0, <1>1, <2>1, <2>2, CalmIs, Again
  <1>2. ASSUME Sign("swap", run.decision.spend, run.decision.issuer),
               run' \in RunType, run'.pc = "end", Same(run'),
               run'.outcome \notin {"SIMULATED", "SIMULATED failed"},
               allowed' \in Nat, allowed' <= allowed,
               db' \in [vtokens : Nat, harvested : Nat], db'.vtokens = db.vtokens
        PROVE  BuyInv'
    <2>1. /\ run.decision.kind = "execute" /\ run.decision \in Decisions
          /\ Orderable(run.decision.issuer, run.decision.spend)
          /\ run.decision.spend <= plan.perBuy /\ run.decision.spend <= MaxPerTx
          /\ QuotedFor(run.quotes, run.decision.issuer, run.decision.spend)
          /\ ConfirmedOnly(run.decision) /\ Live /\ run.decision.spend <= run.reserved
      BY <1>0, RunFields DEF BuyInv, Bought, Approved
    <2>2. PICK n \in Nat, c \in Issuers : n = run.decision.spend /\ c = run.decision.issuer
      BY <2>1 DEF Decisions
    <2>3. /\ signed' \in Seq(SignedType) /\ Swaps = {} /\ Shortfalls \subseteq Shortfalls'
          /\ \A s \in Swaps' : s \in Swaps \/ (s.amount = n /\ s.issuer = c)
      <3>1. signed \in Seq(SignedType) /\ Sign("swap", n, c) /\ c \in Issuers \cup {None}
        BY <1>2, <2>2 DEF BuyInv, Types
      <3>2. QED
        BY <1>0, <3>1, SignedIs, NoSwapYet DEF BuyInv
    <2>4. Types'
      BY <1>0, <1>2, <2>3 DEF BuyInv, Types
    <2>5. Memory' /\ Quoted'
      BY <1>0, <1>2 DEF BuyInv, Memory, Quoted, In, Same
    <2>6. Bought' /\ Redeemed'
      BY <1>2 DEF Bought, Redeemed, In, Buying, Paid, Harvest
    <2>7. Approved'
      <3>1. run'.mode = "live" /\ run'.reserved = run.reserved /\ run.reserved \in Nat
        BY <1>0, <1>2, <2>1, RunFields DEF Same, Live
      <3>2. allowed \in Nat /\ MinBuy \in Nat /\ (allowed <= MinBuy \/ allowed <= run.reserved)
        BY CapAssumption DEF BuyInv, Types, Approved, AllowanceExact
      <3>3. allowed' <= MinBuy \/ allowed' <= run'.reserved
        <4>1. allowed' \in Nat /\ allowed' <= allowed
          BY <1>2
        <4>2. QED
          BY <3>1, <3>2, <4>1
      <3>4. QED
        BY <1>2, <3>1, <3>3 DEF Approved, AllowanceExact, Live, In
    <2>8. Swapped'
      BY <1>2, <2>1 DEF Swapped, In, Live, Same
    <2>9. SwapBounded'
      <3>1. run'.quotes = run.quotes /\ run'.reserved = run.reserved /\ run'.confirmed = run.confirmed
        BY <1>2 DEF Same
      <3>2. \A s \in Swaps' : s.amount = n /\ s.issuer = c
        BY <2>3
      <3>3. /\ MinBuy <= n /\ VenueMin[c] <= n /\ n <= plan'.perBuy /\ n <= MaxPerTx
            /\ n <= run'.reserved
        BY <1>0, <2>1, <2>2, <3>1 DEF Orderable
      <3>4. \E i \in DOMAIN run'.quotes :
               /\ run'.quotes[i].issuer = c /\ run'.quotes[i].spend = n
               /\ run'.quotes[i].impact = "low" /\ run'.quotes[i].mode = "SWAP"
        BY <2>1, <2>2, <3>1 DEF QuotedFor
      <3>5. run'.confirmed # NoBuy => c = run'.confirmed.issuer /\ n <= run'.confirmed.spend
        BY <2>1, <2>2, <3>1 DEF ConfirmedOnly
      <3>6. QED
        BY <3>2, <3>3, <3>4, <3>5 DEF SwapBounded
    <2>10. PrincipalKept'
      <3>1. rate \in Nat /\ rate <= rate
        BY DEF BuyInv, Types
      <3>2. QED
        BY <1>0, <2>3, <3>1, PrincipalStays DEF BuyInv, Types
    <2>11. QED
      BY <2>4, <2>5, <2>6, <2>7, <2>8, <2>9, <2>10 DEF BuyInv
  <1>3. /\ allowed \in Nat /\ run.decision.spend \in Nat /\ run.decision.spend <= allowed
        /\ run.decision.interest \in Nat
        /\ db \in [vtokens : Nat, harvested : Nat]
    <2>1. run.decision.kind = "execute" /\ run.decision \in Decisions
      BY <1>0, RunFields DEF BuyInv, Bought
    <2>2. run.decision.spend \in Nat /\ run.decision.interest \in Nat
      BY <2>1 DEF Decisions
    <2>3. QED
      BY <1>0, <2>2 DEF BuyInv, Types, Approved, Covered
  <1>4. allowed - run.decision.spend \in Nat /\ allowed - run.decision.spend <= allowed
        /\ allowed <= allowed
    BY <1>3
  <1>5. ASSUME NEW outcome, outcome \in {"BOUGHT", "review"},
               run' = Finished([run EXCEPT !.mined = TRUE], outcome)
        PROVE  run' \in RunType /\ run'.pc = "end" /\ Same(run')
               /\ run'.outcome \notin {"SIMULATED", "SIMULATED failed"}
    <2>1. outcome \in Outcomes
      BY <1>5 DEF Outcomes
    <2>2. run' \in RunType /\ run'.pc = "end" /\ Same(run') /\ run'.outcome = outcome
      BY <1>0, <1>5, <2>1, Finishes
    <2>3. QED
      BY <1>5, <2>2
  <1>6. CASE /\ Sign("swap", run.decision.spend, run.decision.issuer)
             /\ run' = Finished([run EXCEPT !.mined = TRUE], "BOUGHT")
             /\ allowed' = allowed - run.decision.spend
             /\ db' = [db EXCEPT !.harvested = Less(@, run.decision.interest)]
    <2>1. PICK h \in Nat : h = Less(db.harvested, run.decision.interest)
      BY <1>3, LessIs
    <2>2. db' = [db EXCEPT !.harvested = h]
      BY <1>6, <2>1
    <2>3. db' \in [vtokens : Nat, harvested : Nat] /\ db'.vtokens = db.vtokens
      BY <1>3, <2>2
    <2>4. QED
      BY <1>2, <1>4, <1>5, <1>6, <2>3
  <1>7. CASE /\ Sign("swap", run.decision.spend, run.decision.issuer)
             /\ run' = Finished([run EXCEPT !.mined = TRUE], "review")
             /\ allowed' = allowed - run.decision.spend /\ db' = db
    BY <1>2, <1>3, <1>4, <1>5, <1>7
  <1>8. CASE /\ Sign("swap", run.decision.spend, run.decision.issuer)
             /\ NotConfirmed /\ UNCHANGED <<allowed, db>>
    <2>1. run' \in RunType /\ run'.pc = "end" /\ Same(run')
          /\ run'.outcome \notin {"SIMULATED", "SIMULATED failed"}
      BY <1>0, <1>8, NotConfirmedEnds
    <2>2. QED
      BY <1>2, <1>3, <1>4, <1>8, <2>1
  <1>9. QED
    BY <1>1, <1>6, <1>7, <1>8 DEF SignSwap, Set

-----------------------------------------------------------------------------
(* cycle:once, and the world                                               *)

\* A cycle starts with nothing bought, quoted or reserved.
LEMMA FreshIs ==
  ASSUME NEW mode \in {"live", "simulate"}, NEW confirmed \in [issuer : Issuers \cup {None}, spend : Nat]
  PROVE  /\ Fresh(mode, confirmed) \in RunType
         /\ Fresh(mode, confirmed).pc = "open" /\ Fresh(mode, confirmed).mode = mode
         /\ Fresh(mode, confirmed).quotes = <<>> /\ Fresh(mode, confirmed).reserved = 0
  <1>1. Raise \in Decisions
    BY DEF Raise, Decisions
  <1>2. None \in Outcomes /\ "open" \in Pcs /\ None \in {None, "existing", "simulated", "sent"}
    BY DEF Outcomes, Pcs
  <1>3. <<>> \in Seq(QuoteType)
    OBVIOUS
  <1>4. QED
    BY <1>1, <1>2, <1>3 DEF Fresh, RunType

LEMMA ConfirmKeeps ==
  ASSUME BuyInv, Confirm
  PROVE  BuyInv'
  <1>0. In({"end"}) /\ ~Live /\ UNCHANGED <<plan, market, regular, rate, held, allowed, left, db, signed>>
        /\ run \in RunType /\ run.outcome \in {"SIMULATED", "SIMULATED failed"}
        /\ run' = Fresh("live", [issuer |-> run.decision.issuer, spend |-> run.decision.spend])
    BY DEF Confirm, At, In, Local, Set, BuyInv, Types
  <1>1. run.decision.kind = "execute" /\ run.decision \in Decisions
    BY <1>0, RunFields DEF BuyInv, Bought
  <1>2. PICK c \in [issuer : Issuers \cup {None}, spend : Nat] :
            c = [issuer |-> run.decision.issuer, spend |-> run.decision.spend]
    BY <1>1 DEF Decisions
  <1>3. run' \in RunType /\ run'.pc = "open" /\ run'.mode = "live" /\ run'.quotes = <<>>
    BY <1>0, <1>2, FreshIs
  <1>4. Swaps' = {}
    BY <1>0 DEF BuyInv, Swapped, Swaps
  <1>5. Types' /\ Memory'
    BY <1>0, <1>3 DEF BuyInv, Types, Memory, In
  <1>6. Quoted'
    <2>1. DOMAIN run'.quotes = {}
      BY <1>3
    <2>2. QED
      BY <1>3, <2>1 DEF Quoted, LastKnown, In
  <1>7. Bought' /\ Redeemed'
    BY <1>3 DEF Bought, Redeemed, In, Buying, Paid, Harvest
  <1>8. Approved'
    BY <1>0, <1>3 DEF BuyInv, Approved, AllowanceExact, In, Live
  <1>9. Swapped' /\ SwapBounded'
    BY <1>4 DEF Swapped, SwapBounded
  <1>10. PrincipalKept'
    BY <1>0 DEF BuyInv, PrincipalKept, Shortfalls
  <1>11. QED
    BY <1>5, <1>6, <1>7, <1>8, <1>9, <1>10 DEF BuyInv

\* While the cycle awaits, its quotes may age, and the interest accrues: what
\* it decided stays sound.
LEMMA WorldKeeps ==
  ASSUME BuyInv, ~In({"end"}), Calm,
         run'.pc = run.pc,
         run'.reserved = run.reserved, run'.decision = run.decision,
         run'.confirmed = run.confirmed, run'.vt = run.vt, run'.harvested = run.harvested,
         run'.read = run.read, run'.burn = run.burn,
         QuotesSound(run'.quotes),
         \A issuer, spend : QuotedFor(run.quotes, issuer, spend) => QuotedFor(run'.quotes, issuer, spend)
  PROVE  BuyInv'
  <1>1. Types' /\ db'.vtokens = held' /\ Swapped' /\ SwapBounded'
        /\ PrincipalKept' /\ AllowanceExact' /\ ((~Live)' => allowed' <= MinBuy)
    BY Quiet
  <1>2. run'.mode = run.mode /\ plan' = plan /\ held' = held /\ db' = db /\ allowed' = allowed
        /\ rate' \in Nat /\ rate \in Nat /\ rate <= rate'
    BY DEF Calm, BuyInv, Types
  <1>3. \A pcs : In(pcs)' <=> In(pcs)
    BY DEF In
  <1>4. Memory'
    BY <1>1, <1>2 DEF BuyInv, Memory, In
  <1>5. Quoted'
    BY DEF BuyInv, Quoted, QuotesSound, In
  <1>6. Bought'
    BY <1>2 DEF BuyInv, Bought, ConfirmedOnly, Live, In
  <1>7. Redeemed'
    <2>1. In({"reserve", "act"} \cup Harvest) /\ run.decision.redeem > 0 =>
            plan.mode = "yield" /\ plan.principal + run.decision.redeem <= run.vt * rate
      BY DEF BuyInv, Redeemed
    <2>2. run.vt \in Nat /\ run.read \in Nat
      BY RunFields DEF BuyInv, Types
    <2>3. run.vt * rate <= run.vt * rate' /\ run.vt * rate \in Nat /\ run.vt * rate' \in Nat
      <3>1. PICK m \in Nat, n \in Nat, k \in Nat : m = rate /\ n = rate' /\ k = run.vt
        BY <1>2, <2>2
      <3>2. k * m <= k * n /\ k * m \in Nat /\ k * n \in Nat
        BY <1>2, <3>1, Grows
      <3>3. QED
        BY <3>1, <3>2
    <2>4. plan.principal \in Nat
      BY PlanFields DEF BuyInv, Types
    <2>5. In(Buying) => run.decision.redeem \in Nat
      BY RunFields DEF BuyInv, Types, Bought, Decisions
    <2>6. In({"reserve", "act"} \cup Harvest) => In(Buying)
      BY DEF In, Buying, Harvest
    <2>7. In({"reserve", "act"} \cup Harvest) /\ run.decision.redeem > 0 =>
            plan.mode = "yield" /\ plan.principal + run.decision.redeem <= run.vt * rate'
      BY <2>1, <2>3, <2>4, <2>5, <2>6
    <2>8. In({"build", "sendRedeem"}) =>
            /\ 2 <= run.read /\ run.read <= rate'
            /\ plan.principal + run.decision.redeem <= run.vt * run.read
      BY <1>2, <2>2 DEF BuyInv, Redeemed
    <2>9. In(Harvest) => run.decision.redeem > 0
      BY DEF BuyInv, Redeemed
    <2>10. In({"sendRedeem"}) => Live /\ BurnOk(run.burn)
      BY DEF BuyInv, Redeemed
    <2>11. QED
      BY <1>2, <2>7, <2>8, <2>9, <2>10 DEF Redeemed, In, Live, BurnOk
  <1>8. Approved'
    BY <1>1, <1>2 DEF BuyInv, Approved, Covered, Live, In
  <1>9. QED
    BY <1>1, <1>4, <1>5, <1>6, <1>7, <1>8 DEF BuyInv

LEMMA ElsewhereKeeps ==
  ASSUME BuyInv, Accrue \/ SessionTurns \/ QuotesExpire \/ OthersSpend
  PROVE  BuyInv'
  <1>0. ~In({"end"}) /\ UNCHANGED <<plan, market, held, allowed, db, signed>> /\ run \in RunType
        /\ run.quotes \in Seq(QuoteType) /\ run.reserved \in Nat
        /\ rate \in Nat /\ left \in Nat /\ regular \in BOOLEAN /\ signed \in Seq(SignedType)
        /\ MinBuy \in Nat /\ QuotesSound(run.quotes)
    BY RunFields, CapAssumption DEF Accrue, SessionTurns, QuotesExpire, OthersSpend, Elsewhere, At, In,
       BuyInv, Types, Quoted, QuotesSound
  <1>1. Swaps' = Swaps /\ Shortfalls' = Shortfalls
    BY <1>0 DEF Swaps, Shortfalls
  <1>2. CASE Accrue \/ SessionTurns \/ OthersSpend
    <2>1. run' = run /\ regular' \in BOOLEAN /\ rate' \in Nat /\ rate <= rate'
      <3>1. run' = run /\ rate' \in Nat /\ rate <= rate'
        BY <1>0, <1>2 DEF Accrue, SessionTurns, OthersSpend
      <3>2. (regular' = regular) \/ (regular' = ~regular)
        BY <1>2 DEF Accrue, SessionTurns, OthersSpend
      <3>3. regular' \in BOOLEAN
        BY <1>0, <3>2, Zenon
      <3>4. QED
        BY <3>1, <3>3
    <2>2. left' \in Nat
      BY <1>0, <1>2, LessIs DEF Accrue, SessionTurns, OthersSpend
    <2>3. Calm
      BY <1>0, <1>1, <2>1, <2>2 DEF Calm
    <2>4. Same(run') /\ QuotesSound(run'.quotes)
      BY <1>0, <2>1 DEF Same
    <2>5. QED
      BY <1>0, <2>1, <2>3, <2>4, WorldKeeps
  <1>3. CASE QuotesExpire
    <2>1. PICK q : q = [i \in DOMAIN run.quotes |-> [run.quotes[i] EXCEPT !.expired = TRUE]]
      OBVIOUS
    <2>2. ASSUME NEW i \in DOMAIN run.quotes
          PROVE  /\ q[i] \in QuoteType
                 /\ q[i].issuer = run.quotes[i].issuer /\ q[i].spend = run.quotes[i].spend
                 /\ q[i].impact = run.quotes[i].impact /\ q[i].mode = run.quotes[i].mode
      <3>1. PICK u \in QuoteType : u = run.quotes[i]
        BY <1>0
      <3>2. q[i] = [u EXCEPT !.expired = TRUE]
        BY <2>1, <3>1
      <3>3. q[i] \in QuoteType /\ q[i].issuer = u.issuer /\ q[i].spend = u.spend
            /\ q[i].impact = u.impact /\ q[i].mode = u.mode
        BY <3>2 DEF QuoteType
      <3>4. QED
        BY <3>1, <3>3
    <2>3. q \in [DOMAIN run.quotes -> QuoteType]
      BY <2>1, <2>2
    <2>4. /\ q \in Seq(QuoteType) /\ QuotesSound(q)
          /\ \A issuer, spend : QuotedFor(run.quotes, issuer, spend) => QuotedFor(q, issuer, spend)
      BY <1>0, <2>2, <2>3, AgedIs
    <2>5. run' = [run EXCEPT !.quotes = q]
      BY <1>0, <1>3, <2>1 DEF QuotesExpire, Set, RunType
    <2>6. run' \in RunType
      BY <1>0, <2>4, <2>5, Zenon DEF RunType
    <2>7. /\ run'.pc = run.pc /\ run'.quotes = q /\ run'.mode = run.mode
          /\ run'.reserved = run.reserved /\ run'.decision = run.decision
          /\ run'.confirmed = run.confirmed /\ run'.vt = run.vt /\ run'.harvested = run.harvested
          /\ run'.read = run.read /\ run'.burn = run.burn
      BY <1>0, <2>5 DEF RunType
    <2>8. UNCHANGED <<regular, rate, left>>
      BY <1>3 DEF QuotesExpire
    <2>9. Calm
      BY <1>0, <1>1, <2>6, <2>7, <2>8 DEF Calm
    <2>10. QED
      BY <1>0, <2>4, <2>7, <2>9, WorldKeeps
  <1>4. QED
    BY <1>2, <1>3

-----------------------------------------------------------------------------
(* The theorems                                                            *)

LEMMA BuyInitially == Init => BuyInv
  <1> SUFFICES ASSUME Init PROVE BuyInv
    OBVIOUS
  <1>1. /\ plan \in Plans /\ SettingsRun(plan) /\ market \in Markets /\ regular \in BOOLEAN
        /\ rate = 2 /\ held \in IF plan.mode = "yield" THEN Tokens ELSE {0}
        /\ allowed \in {0, MinBuy} /\ left = DailyCap /\ db = [vtokens |-> held, harvested |-> 0]
        /\ signed = <<>>
    BY DEF Init
  <1>2. /\ held \in Nat /\ MinBuy \in Nat /\ DailyCap \in Nat /\ allowed \in Nat /\ allowed <= MinBuy
    BY <1>1, BoundsAssumption, CapAssumption
  <1>3. PICK mode \in {"live", "simulate"} : run = Fresh(mode, NoBuy)
    BY DEF Init
  <1>4. NoBuy \in [issuer : Issuers \cup {None}, spend : Nat]
    BY DEF NoBuy
  <1>5. run \in RunType /\ run.pc = "open" /\ run.quotes = <<>>
    BY <1>3, <1>4, FreshIs
  <1>6. Swaps = {}
    BY <1>1 DEF Swaps
  <1>7. Types /\ Memory
    BY <1>1, <1>2, <1>5 DEF Types, Memory, In
  <1>8. Quoted
    <2>1. DOMAIN run.quotes = {}
      BY <1>5
    <2>2. QED
      BY <1>5, <2>1 DEF Quoted, LastKnown, In
  <1>9. Bought /\ Redeemed
    BY <1>5 DEF Bought, Redeemed, In, Buying, Paid, Harvest
  <1>10. Approved
    BY <1>2, <1>5 DEF Approved, AllowanceExact, In
  <1>11. Swapped /\ SwapBounded
    BY <1>6 DEF Swapped, SwapBounded
  <1>12. PrincipalKept
    <2>1. ASSUME plan.mode = "yield" PROVE plan.principal <= (held + 2) * 2
      BY <1>1, <2>1, PositionAssumption
    <2>2. QED
      BY <1>1, <2>1 DEF PrincipalKept, Shortfalls
  <1>13. QED
    BY <1>7, <1>8, <1>9, <1>10, <1>11, <1>12 DEF BuyInv

LEMMA BuyStutters ==
  ASSUME BuyInv, UNCHANGED vars
  PROVE  BuyInv'
  <1>1. UNCHANGED <<plan, market, regular, rate, held, allowed, left, db, run, signed>>
    BY DEF vars
  <1>2. Swaps' = Swaps /\ Shortfalls' = Shortfalls
    BY <1>1 DEF Swaps, Shortfalls
  <1>3. Types' /\ Memory' /\ Quoted'
    BY <1>1 DEF BuyInv, Types, Memory, Quoted, In
  <1>4. Bought'
    BY <1>1 DEF BuyInv, Bought, In, Live, ConfirmedOnly
  <1>5. Redeemed'
    BY <1>1 DEF BuyInv, Redeemed, In, Live, BurnOk
  <1>6. Approved'
    BY <1>1 DEF BuyInv, Approved, In, Live, Covered, AllowanceExact
  <1>7. Swapped' /\ SwapBounded' /\ PrincipalKept'
    BY <1>1, <1>2 DEF BuyInv, Swapped, SwapBounded, PrincipalKept, In, Live
  <1>8. QED
    BY <1>3, <1>4, <1>5, <1>6, <1>7 DEF BuyInv

LEMMA BuyNext == BuyInv /\ [Next]_vars => BuyInv'
  <1> SUFFICES ASSUME BuyInv, [Next]_vars PROVE BuyInv'
    OBVIOUS
  <1>1. CASE Open \/ Decide \/ Quote \/ Reserve \/ Act
    BY <1>1, OpenKeeps, DecideKeeps, QuoteKeeps, ReserveKeeps, ActKeeps
  <1>2. CASE ReadRate \/ BuildRedeem \/ SendRedeem
    BY <1>2, ReadRateKeeps, BuildRedeemKeeps, SendRedeemKeeps
  <1>3. CASE BuildApproval \/ SendApproval
    BY <1>3, BuildApprovalKeeps, SendApprovalKeeps
  <1>4. CASE BuildSwap \/ SimulateSwap \/ SignSwap
    BY <1>4, BuildSwapKeeps, SimulateSwapKeeps, SignSwapKeeps
  <1>5. CASE Confirm
    BY <1>5, ConfirmKeeps
  <1>6. CASE Accrue \/ SessionTurns \/ QuotesExpire \/ OthersSpend
    BY <1>6, ElsewhereKeeps
  <1>7. CASE Over \/ UNCHANGED vars
    BY <1>7, BuyStutters DEF Over
  <1>8. QED
    BY <1>1, <1>2, <1>3, <1>4, <1>5, <1>6, <1>7 DEF Next, Step

\* The inductive invariant holds: what the loop remembers is true, and what
\* it is about to sign was decided, quoted, confirmed and reserved
\* (cycle.ts 518-725).
THEOREM BuyInvariant == Spec => []BuyInv
  <1>1. QED
    BY BuyInitially, BuyNext, PTL DEF Spec

\* A swap that is signed is within the plan's limit, the transaction cap and
\* the cycle's reservation, was quoted at low impact for this amount and is
\* what a person confirmed, if one did (cycle.ts 562-616, decide.ts 184-496);
\* and redeeming interest leaves the principal in Venus, but for two vTokens
\* of rounding and a part per million of what was burned, whatever calldata
\* the Web3 API builds (redeemLimit, venus.ts:311).
THEOREM BoundsKept == Spec => []Bounded
  <1>1. BuyInv => Bounded
    BY DEF BuyInv, Bounded
  <1>2. QED
    BY <1>1, BuyInvariant, PTL

\* What cycleBody remembers of the plan's vTokens and harvested interest is
\* what the row and the chain say at every decision, though the loop never
\* reads them again (cycle.ts:644-645).
THEOREM RemembersTruly == Spec => []MemoryTrue
  <1>1. BuyInv => MemoryTrue
    BY DEF BuyInv, Memory, MemoryTrue, In, At
  <1>2. QED
    BY <1>1, BuyInvariant, PTL

\* The router is never left an allowance above one spend of this cycle
\* (ensureApproval, trade.ts), whatever amount the API asks for.
THEOREM ApprovesExactly == Spec => []AllowanceExact
  <1>1. BuyInv => AllowanceExact
    BY DEF BuyInv, Approved
  <1>2. QED
    BY <1>1, BuyInvariant, PTL
===============================================================================
