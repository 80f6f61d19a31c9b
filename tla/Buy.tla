---------------------------------- MODULE Buy ----------------------------------
(***************************************************************************)
(* The rounds of one cycle: cycleBody's loop over DecideCycle, and the     *)
(* calls it makes in between (market.ts observeQuote, trade.ts, venus.ts), *)
(* in the worker, in a preview, and in cycle:once, which runs the cycle    *)
(* dry, asks a person, and runs it again bound to what the person saw.     *)
(*                                                                         *)
(* Cycle.tla says what a cycle's rows go through when processes die and    *)
(* race; here one process lives, and the numbers are real: the session     *)
(* closes, quotes expire, interest accrues and the Web3 API answers what   *)
(* it likes between any two awaits.                                        *)
(*                                                                         *)
(* One vToken is worth `rate` units, and is the coarse one of the two, as  *)
(* on chain (8 decimals against 18).                                       *)
(***************************************************************************)
EXTENDS Decide

CONSTANTS Plans,       \* the plans a cycle may be of, as records
          Markets,     \* the snapshots: each candidate's status and price gap
          Scripts,     \* "worker", or "once": cycle:once (and the preview: its dry run)
          Tokens,      \* vTokens a yield plan may hold
          MaxRate, MaxRounds,
          MaxEvents,   \* how often the world moves during a cycle
          MaxExcess    \* how much more than it should the API may ask for

ASSUME PlansAssumption ==
    Plans \subseteq [mode : {"safe", "yield"}, window : {"anytime", "regular_session"},
                    contribution : Nat, principal : Nat, perBuy : Nat, perDay : Nat,
                    prefer : Seq(Issuers)]
ASSUME MarketsAssumption ==
    \A m \in Markets : \A issuer \in DOMAIN m :
        /\ issuer \in Issuers
        /\ m[issuer].status \in {"TRADING", "UNAVAILABLE", "CORPORATE", "CLOSED", "OTHER"}
ASSUME BoundsAssumption ==
    /\ {MaxRate, MaxRounds, MaxEvents, MaxExcess} \subseteq Nat /\ Tokens \subseteq Nat
    /\ Scripts \subseteq {"worker", "once"}
\* What the deposits minted is worth the principal, but for their rounding.
ASSUME PositionAssumption ==
    \A p \in Plans, t \in Tokens : p.mode = "yield" => p.principal <= (t + 2) * 2

VARIABLES plan, market, script,
          regular, rate,     \* the session; units per vToken
          held, allowed,     \* on chain: the plan's vTokens, the router's allowance
          left,              \* what today's caps leave
          db,                \* plans.vtoken_units and harvested_unspent
          run,               \* what cycleBody remembers
          signed,            \* everything signed, in order
          events             \* world steps so far

vars == <<plan, market, script, regular, rate, held, allowed, left, db, run, signed, events>>

None == "none"
NoBuy == [issuer |-> None, spend |-> 0]
At(pc) == run.pc = pc
Live == run.mode = "live"
RoundLimit == MaxRounds

Fresh(mode, confirmed) ==
    [pc |-> "open", mode |-> mode, round |-> 0, quotes |-> <<>>, remaining |-> 0,
     blocked |-> FALSE, reserved |-> 0, redeemDone |-> FALSE, redeemOk |-> TRUE,
     approval |-> None, vt |-> 0, harvested |-> 0, mined |-> FALSE, decision |-> Raise,
     read |-> 0, burn |-> 0, outcome |-> None, confirmed |-> confirmed]

Init ==
    /\ plan \in {p \in Plans : SettingsRun(p)}
    /\ market \in Markets /\ script \in Scripts
    /\ regular \in BOOLEAN /\ rate = 2
    /\ held \in IF plan.mode = "yield" THEN Tokens ELSE {0}
    /\ allowed \in {0, MinBuy} /\ left = DailyCap
    /\ db = [vtokens |-> held, harvested |-> 0]
    /\ run = Fresh(IF script = "worker" THEN "live" ELSE "simulate", NoBuy)
    /\ signed = <<>> /\ events = 0

-----------------------------------------------------------------------------
(* cycleBody up to its first round                                         *)

Set(r) == run' = r
Local(r) == Set(r) /\ UNCHANGED <<plan, market, script, regular, rate, held, allowed, left, db,
                                  signed, events>>
Finished(r, outcome) == [r EXCEPT !.pc = "end", !.outcome = outcome]
\* failed: what this cycle already sent cost gas, whatever failed after it.
Failed(r, funds) ==
    Finished(r, IF r.mined \/ funds = "gas_only" THEN "FAILED gas_only" ELSE "FAILED none")
Round(r) == [r EXCEPT !.pc = "decide", !.round = @ + 1]

\* The snapshot is read once; so are the caps and the guardian's verdict.
\* A yield plan waits for a Venus market that is not known yet.
Open ==
    /\ At("open")
    /\ \/ \E blocked \in BOOLEAN :
            Local([run EXCEPT !.pc = "decide", !.vt = db.vtokens, !.harvested = db.harvested,
                              !.blocked = blocked,
                              !.remaining = IF run.confirmed = NoBuy THEN left
                                            ELSE Smaller(left, run.confirmed.spend)])
       \/ plan.mode = "yield" /\ Local(Finished(run, "DEFERRED"))

Input == [plan |-> plan, market |-> market, regular |-> regular, blocked |-> run.blocked,
          remaining |-> run.remaining, quotes |-> run.quotes,
          pos |-> [underlying |-> run.vt * rate, harvested |-> run.harvested]]

\* NOT_CONFIRMED: the live decision must be the buy that was confirmed.
ConfirmedOnly(d) == run.confirmed # NoBuy =>
    d.issuer = run.confirmed.issuer /\ d.spend <= run.confirmed.spend
\* What is made of a decision.
Followed(d, r) ==
    CASE d.kind = "throw" -> Finished(r, "thrown")
      [] d.kind = "done" -> Finished(r, IF d.outcome = "FAILED" THEN "FAILED quote" ELSE d.outcome)
      [] d.kind = "quote" -> [r EXCEPT !.pc = "quote"]
      [] d.kind = "execute" ->
           IF ~ConfirmedOnly(d) THEN Failed(r, "none")
           ELSE [r EXCEPT !.pc = IF Live /\ run.reserved = 0 THEN "reserve" ELSE "act"]
Decide ==
    /\ At("decide")
    /\ LET d == DecideCycle(Input)
           r == [run EXCEPT !.decision = d]
       IN Local(CASE run.round >= RoundLimit -> Failed(run, "none")
                  [] run.round < RoundLimit -> Followed(d, r))

\* observeQuote: whatever comes back is an observation, an error included.
Answer(error, impact, complete, mode) ==
    [issuer |-> run.decision.issuer, spend |-> run.decision.spend, error |-> error,
     impact |-> impact, complete |-> complete, mode |-> mode, expired |-> FALSE]
Answers == {Answer(error, "unknown", FALSE, "SWAP") : error \in
                {"no_liquidity", "market_closed", "other"}}
           \cup {Answer("none", impact, TRUE, "SWAP") : impact \in {"low", "high", "unknown"}}
           \cup {Answer("none", "low", FALSE, "SWAP"), Answer("none", "low", TRUE, "RFQ")}
Quote ==
    /\ At("quote")
    /\ \E answer \in Answers : Local([Round(run) EXCEPT !.quotes = Append(@, answer)])

\* The reservation, once per cycle, against what the caps leave by now (how
\* it is spent or freed is Cycle's and SpendLedger's).
Reserve ==
    /\ At("reserve")
    /\ UNCHANGED <<plan, market, script, regular, rate, held, allowed, db, signed, events>>
    /\ IF run.decision.spend <= left
       THEN /\ left' = left - run.decision.spend
            /\ Set([run EXCEPT !.pc = "act", !.reserved = run.decision.spend])
       ELSE Set(Finished(run, "SKIPPED")) /\ UNCHANGED left

\* What the decision calls for: nothing above the reservation; then the
\* redeem, once; then the approval, once; then the swap.
Act ==
    /\ At("act")
    /\ Local(CASE run.reserved > 0 /\ run.decision.spend > run.reserved -> Failed(run, "none")
               [] OTHER ->
                    [run EXCEPT !.pc = IF run.decision.redeem > 0 /\ ~run.redeemDone THEN "redeem"
                                       ELSE IF run.approval = None THEN "approve" ELSE "swap"])

-----------------------------------------------------------------------------
(* redeemFromVenus                                                         *)

ReadRate ==
    /\ At("redeem")
    /\ Local([run EXCEPT !.pc = "build", !.read = rate, !.redeemDone = TRUE])

\* Mutant of RedeemLimit: no limit but the plan's own tokens.
RedeemUnlimited(amount, r) == amount + r
\* redeemLimit: what the amount is worth in vTokens at the rate read before
\* the build, rounded up, and a part per million and one vToken.
PartPerMillion(tokens) == tokens \div 1000000
RedeemLimit(amount, r) ==
    LET worth == (amount + r - 1) \div r IN worth + PartPerMillion(worth) + 1
BurnOk(burn) == burn <= run.vt /\ burn <= RedeemLimit(run.decision.redeem, run.read)

\* The calldata the API builds, refused or simulated.
BuildRedeem ==
    /\ At("build")
    /\ \/ Local(Failed(run, "none"))   \* no build, or not a plain redeem of our vToken
       \/ \E burn \in 0 .. run.vt + MaxExcess, ok \in BOOLEAN :
            Local(IF ~BurnOk(burn) THEN Failed(run, "none")
                  ELSE IF ~Live THEN [Round(run) EXCEPT !.redeemOk = ok]
                  ELSE IF ~ok THEN Failed(run, "none")
                  ELSE [run EXCEPT !.pc = "sendRedeem", !.burn = burn])

Sign(kind, amount, issuer) ==
    signed' = Append(signed, [kind |-> kind, amount |-> amount, issuer |-> issuer])
\* A transaction that did not confirm: pending, reverted, or not sent.
NotConfirmed == run' \in {Finished(run, "awaiting"), Failed(run, "gas_only"), Failed(run, "none")}

\* The locals follow what was redeemed.
\* Mutant of Remember: the tokens that were burned are not.
RememberUsdt(r, burned, received) == [r EXCEPT !.harvested = @ + received, !.mined = TRUE]
Remember(r, burned, received) ==
    [r EXCEPT !.harvested = @ + received, !.vt = Less(@, burned), !.mined = TRUE]
\* applyInterestRedeem with the receipt.
SendRedeem ==
    /\ At("sendRedeem")
    /\ UNCHANGED <<plan, market, script, regular, rate, allowed, left, events>>
    /\ Sign("redeem", run.burn, None)
    /\ \/ LET received == run.burn * rate IN
          /\ held' = held - run.burn
          /\ db' = [db EXCEPT !.harvested = @ + received, !.vtokens = Less(@, run.burn)]
          /\ Set(Remember(Round(run), run.burn, received))
       \/ NotConfirmed /\ UNCHANGED <<held, db>>

-----------------------------------------------------------------------------
(* ensureApproval and performSwap                                          *)

\* Mutant of Exact: more may be asked for.
Enough(asked) == asked >= run.decision.spend
Exact(asked) == asked = run.decision.spend
\* An allowance that covers the spend is used; otherwise the API must ask for
\* exactly the spend, and its simulation must pass.
BuildApproval ==
    /\ At("approve")
    /\ \/ Local(Failed(run, "none"))   \* no build, another spender
       \/ /\ allowed >= run.decision.spend
          /\ Local([Round(run) EXCEPT !.approval = "existing"])
       \/ /\ allowed < run.decision.spend
          /\ \E asked \in run.decision.spend .. run.decision.spend + MaxExcess, ok \in BOOLEAN :
               Local(IF ~Exact(asked) \/ ~ok THEN Failed(run, "none")
                     ELSE IF ~Live THEN [Round(run) EXCEPT !.approval = "simulated"]
                     ELSE [run EXCEPT !.pc = "sendApproval", !.read = asked])
SendApproval ==
    /\ At("sendApproval")
    /\ UNCHANGED <<plan, market, script, regular, rate, held, left, db, events>>
    /\ Sign("approve", run.read, None)
    /\ \/ allowed' = run.read /\ Set([Round(run) EXCEPT !.approval = "sent", !.mined = TRUE])
       \/ NotConfirmed /\ UNCHANGED allowed

\* The decision's quote: the issuer's last.  A requote is the same quote with
\* a receive time of long ago.
Last(issuer) == CHOOSE i \in DOMAIN run.quotes :
    /\ run.quotes[i].issuer = issuer
    /\ \A j \in DOMAIN run.quotes : run.quotes[j].issuer = issuer => j <= i
Requoted == [Round(run) EXCEPT !.quotes[Last(run.decision.issuer)].expired = TRUE]

\* The route is gone or wants another kind of order; or the build is refused:
\* another spender, sender or target, or BNB in it.
BuildSwap ==
    /\ At("swap")
    /\ \/ Local([run EXCEPT !.pc = "simulate"])
       \/ Local(Requoted)
       \/ Local(Failed(run, "none"))

\* Right after an approval the simulating node may be a block behind, and is
\* asked three times.  A dry run ends with what it saw.
Covered == allowed >= run.decision.spend
SimulateSwap ==
    /\ At("simulate")
    /\ \E ok \in BOOLEAN :
         /\ ok => Covered
         /\ Local(IF ~Live THEN Finished(run, IF ok THEN "SIMULATED" ELSE "SIMULATED failed")
                  ELSE IF ok THEN [run EXCEPT !.pc = "sign"] ELSE Failed(run, "none"))

\* The quote must still be fresh; then the swap, applied with its receipt: the
\* reservation spent, the interest it used out of harvested, never below zero.
SignSwap ==
    /\ At("sign")
    /\ UNCHANGED <<plan, market, script, regular, rate, held, left, events>>
    /\ IF run.quotes[Last(run.decision.issuer)].expired
       THEN Set(Requoted) /\ UNCHANGED <<allowed, db, signed>>
       ELSE /\ Sign("swap", run.decision.spend, run.decision.issuer)
            /\ \/ /\ Set(Finished([run EXCEPT !.mined = TRUE], "BOUGHT"))
                  /\ allowed' = allowed - run.decision.spend
                  /\ db' = [db EXCEPT !.harvested = Less(@, run.decision.interest)]
               \/ /\ Set(Finished([run EXCEPT !.mined = TRUE], "review"))
                  /\ allowed' = allowed - run.decision.spend
                  /\ UNCHANGED db
               \/ NotConfirmed /\ UNCHANGED <<allowed, db>>

-----------------------------------------------------------------------------
(* cycle:once --live, after its dry run                                    *)

\* buyProblem: a simulation that the live run would fail too.
BuyProblem == \/ ~run.redeemOk
              \/ run.approval = "existing" /\ run.outcome = "SIMULATED failed"
Confirm ==
    /\ script = "once" /\ At("end") /\ ~Live
    /\ run.outcome \in {"SIMULATED", "SIMULATED failed"} /\ ~BuyProblem
    /\ Local(Fresh("live", [issuer |-> run.decision.issuer, spend |-> run.decision.spend]))

-----------------------------------------------------------------------------
(* The world, while the cycle awaits                                       *)

Elsewhere == /\ ~At("end") /\ events < MaxEvents /\ events' = events + 1
             /\ UNCHANGED <<plan, market, script, held, allowed, db, signed>>
Accrue == Elsewhere /\ rate < MaxRate /\ rate' = rate + 1 /\ UNCHANGED <<regular, left, run>>
SessionTurns == Elsewhere /\ regular' = ~regular /\ UNCHANGED <<rate, left, run>>
QuotesExpire ==
    /\ Elsewhere /\ UNCHANGED <<regular, rate, left>>
    /\ \E i \in DOMAIN run.quotes : ~run.quotes[i].expired
    /\ Set([run EXCEPT !.quotes = [i \in DOMAIN @ |-> [@[i] EXCEPT !.expired = TRUE]]])
OthersSpend == Elsewhere /\ Live /\ run.reserved = 0 /\ left > 0 /\ left' = Less(left, MinBuy)
               /\ UNCHANGED <<regular, rate, run>>

Step == \/ Open \/ Decide \/ Quote \/ Reserve \/ Act \/ ReadRate \/ BuildRedeem \/ SendRedeem
        \/ BuildApproval \/ SendApproval \/ BuildSwap \/ SimulateSwap \/ SignSwap
Over == At("end") /\ UNCHANGED vars  \* a cycle stops nowhere else
Next == Step \/ Confirm \/ Accrue \/ SessionTurns \/ QuotesExpire \/ OthersSpend \/ Over

Spec == Init /\ [][Next]_vars

-----------------------------------------------------------------------------
(* Properties                                                              *)

Outcomes == {None, "thrown", "SKIPPED", "DEFERRED", "FAILED none", "FAILED gas_only",
             "FAILED quote", "SIMULATED", "SIMULATED failed", "BOUGHT", "review", "awaiting"}
TypeOK ==
    /\ rate \in 2 .. MaxRate /\ held \in Nat /\ allowed \in Nat /\ left \in 0 .. DailyCap
    /\ db.vtokens \in Nat /\ db.harvested \in Nat
    /\ run.round \in 0 .. MaxRounds /\ run.outcome \in Outcomes
    /\ Len(run.quotes) <= run.round /\ Len(signed) <= 3

Swaps == {signed[i] : i \in {j \in DOMAIN signed : signed[j].kind = "swap"}}

\* Whatever the API answered and however the session, the interest and the
\* caps moved between the rounds, a swap that is signed is within the plan's
\* limit, the transaction cap and the cycle's reservation, not below the
\* minimum buy or the venue's, and is what a quote of low impact, in a mode
\* we sign, was for; after a dry run it is what the person confirmed.
SwapBounded == \A s \in Swaps :
    /\ MinBuy <= s.amount /\ VenueMin[s.issuer] <= s.amount
    /\ s.amount <= plan.perBuy /\ s.amount <= MaxPerTx /\ s.amount <= run.reserved
    /\ \E i \in DOMAIN run.quotes :
          /\ run.quotes[i].issuer = s.issuer /\ run.quotes[i].spend = s.amount
          /\ run.quotes[i].impact = "low" /\ run.quotes[i].mode = "SWAP"
    /\ run.confirmed # NoBuy => s.issuer = run.confirmed.issuer /\ s.amount <= run.confirmed.spend

\* A redemption of interest never reaches into the principal, whatever the
\* API builds (venus.ts:325): but for two vTokens of rounding, and a part per
\* million of what was burned, what is left in Venus is worth the principal
\* at any later rate.
Shortfalls == {2} \cup {2 + PartPerMillion(signed[i].amount) :
                          i \in {j \in DOMAIN signed : signed[j].kind = "redeem"}}
PrincipalKept == plan.mode = "yield" =>
    \E short \in Shortfalls : plan.principal <= (held + short) * rate

\* Neither what is spent nor what is redeemed leaves its bounds.
Bounded == SwapBounded /\ PrincipalKept

\* What cycleBody remembers of the plan's money is what the row and the
\* chain say whenever it decides, though it never reads them again.
MemoryTrue == At("decide") => /\ run.vt = db.vtokens /\ db.vtokens = held
                              /\ run.harvested = db.harvested

\* A plan whose settings were accepted never makes decideCycle throw.
NeverThrows == run.outcome # "thrown"

\* A dry run signs nothing, and cycle:once signs only after a dry run whose
\* simulations did not already rule the live run out.
SignsWhenMeant == signed # <<>> => run.mode = "live"

\* The allowance left to the router is never more than one spend of this
\* cycle (or what was there before).
AllowanceExact == allowed <= MinBuy \/ allowed <= run.reserved

\* "What this cycle already sent cost gas, whatever failed after it: no funds
\* moved would not be true" (cycle.ts:463): a decision that fails is told with
\* decideCycle's own "none" also after a redeem or an approval was mined.
FundsTold == run.outcome = "FAILED quote" => ~run.mined

===============================================================================
