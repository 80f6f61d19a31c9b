-------------------------------- MODULE Preflight --------------------------------
(***************************************************************************)
(* What the web says the agent would do (next.ts, preflight.ts,            *)
(* house-now.ts): decideCycle on the worker's latest tape run, with every  *)
(* rule listed beside it, and the same question for the house's own plan.  *)
(*                                                                         *)
(* A tape run has, for each issuer, the token's status and price gap and   *)
(* one recorded quote per size; amounts and outcomes are Decide's.  The    *)
(* web asks of each issuer alone; beside it goes the agent, asked of the   *)
(* house's plan.  A step is one round of all three.                        *)
(***************************************************************************)
EXTENDS Decide

CONSTANTS Sizes,     \* the sizes the tape quotes, ascending
          Tapes,     \* the runs: for each issuer its [status, opens, gap, quotes]
          Asks       \* what is asked: [usd, window]

VARIABLE asked    \* the latest tape run; with a question, the other facts it is answered from

None == "none"
Rounds == 6       \* MAX_ROUNDS of next.ts

-----------------------------------------------------------------------------
(* market.ts                                                               *)

\* marketsFromTape: a token without a row is one whose status is not known.
MarketsFromTape(tape, issuers) == [i \in issuers |-> tape[i]]

\* estimateQuote: the smallest recorded size that covers the spend, else the largest,
\* scaled to it.
Covering(spend) ==
    LET covers == {n \in DOMAIN Sizes : Sizes[n] >= spend}
    IN IF covers = {} THEN Len(Sizes) ELSE CHOOSE n \in covers : \A m \in covers : n <= m
Row(tape, issuer, spend) == tape[issuer].quotes[Covering(spend)]
TokensFor(row, spend) == (row.out * spend) \div Sizes[Covering(spend)]
Estimate(tape, issuer, spend) ==
    LET row == Row(tape, issuer, spend)
        error == IF row.error = "no_amount" THEN "NO_TAPE" ELSE row.error
    IN [issuer |-> issuer, spend |-> spend, error |-> error, impact |-> row.impact,
        complete |-> TRUE, mode |-> row.mode, expired |-> FALSE,
        tokens |-> IF error = "none" THEN TokensFor(row, spend) ELSE 0]

-----------------------------------------------------------------------------
(* nextFor                                                                 *)

\* Who decides: the web, of one issuer alone; the agent, of the house's plan.
Prefer == CHOOSE p \in {<<a, b>> : a, b \in Issuers} : p[1] # p[2]
Choices(who) == IF who = "agent" THEN Prefer ELSE <<who>>
\* The plan that does not exist: fixed amount, this one token.
Asking(usd, window, prefer) ==
    [mode |-> "safe", window |-> window, contribution |-> usd, principal |-> 0,
     perBuy |-> usd, perDay |-> usd, prefer |-> prefer]
\* The cycle's input for this plan and these facts.
Facts(f, who, quotes) ==
    LET plan == Asking(f.ask.usd, f.ask.window, Choices(who)) IN
    [plan |-> plan, regular |-> f.regular, blocked |-> f.guardian = "blocked",
     market |-> MarketsFromTape(f.tape, {Choices(who)[n] : n \in DOMAIN Choices(who)}),
     remaining |-> plan.perDay, quotes |-> quotes, pos |-> [underlying |-> 0, harvested |-> 0]]
\* The Trading API answers the agent with what the taxonomy makes of its code.
Live(f, issuer, spend) ==
    [Estimate(f.tape, issuer, spend) EXCEPT !.error = IF @ = "40421" THEN "next_issuer" ELSE @]
Answered(f, who, issuer, spend) ==
    IF who = "agent" THEN Live(f, issuer, spend) ELSE Estimate(f.tape, issuer, spend)

Undecided == [kind |-> "thinking"]
Wonder == [quotes |-> <<>>, decision |-> Undecided]
Advance(f, who, mind, d) ==
    IF d.kind = "quote" /\ Len(mind.quotes) < Rounds - 1
    THEN [mind EXCEPT !.quotes = Append(@, Answered(f, who, d.issuer, d.spend))]
    ELSE [mind EXCEPT !.decision = d]

Says(decision, reason) == [decision |-> decision, reason |-> reason, issuer |-> None, spend |-> 0]
Buys(d) == [decision |-> "buy", reason |-> None, issuer |-> d.issuer, spend |-> d.spend]
\* Old or missing numbers: never a guess; no tokens, no floor for the wallet's own quote.
NextFor(f, who) ==
    LET d == f.minds[who].decision
    IN IF f.data # "LIVE" THEN Says("wait", f.data)
       ELSE CASE d.kind = "done"  -> Says(CASE d.outcome = "DEFERRED" -> "wait"
                                            [] d.outcome = "SKIPPED"  -> "skip"
                                            [] d.outcome = "FAILED"   -> "failed", d.reason)
              [] d.kind = "quote" -> Says("failed", "too_many_rounds")
              [] d.kind = "throw" -> Says("failed", "thrown")
              [] d.kind = "execute" ->
                   IF Estimate(f.tape, d.issuer, d.spend).tokens = 0
                   THEN Says("wait", "data_unavailable") ELSE Buys(d)

-----------------------------------------------------------------------------
(* preflightFrom                                                           *)

SpendNow(f) == IF ~f.regular /\ f.ask.window = "anytime" THEN f.ask.usd \div 2 ELSE f.ask.usd

DataCheck(f) == CASE f.data = "LIVE" -> "pass" [] f.data = "STALE" -> "wait" [] OTHER -> "unknown"
GuardianCheck(f) == CASE f.guardian = "blocked" -> "block" [] f.guardian = "old" -> "unknown"
                      [] OTHER -> "pass"
SessionCheck(f) == IF f.regular \/ f.ask.window = "anytime" THEN "pass" ELSE "wait"
AmountCheck(f, issuer) ==
    LET least == IF VenueMin[issuer] > MinBuy THEN VenueMin[issuer] ELSE MinBuy IN
    IF SpendNow(f) >= least THEN "pass" ELSE IF f.ask.usd >= least THEN "wait" ELSE "block"
StatusCheck(f, issuer) ==
    CASE f.tape[issuer].status = "UNAVAILABLE" -> "unknown"
      [] f.tape[issuer].status = "TRADING"     -> "pass"
      [] f.tape[issuer].status = "CLOSED"      -> "wait"
      [] OTHER                                 -> "block"
GapCheck(f, issuer) ==
    CASE ~f.regular \/ f.tape[issuer].gap = None -> "na"
      [] f.regular /\ f.tape[issuer].gap = "high" -> "wait"
      [] OTHER -> "pass"
\* The Trading API refusing a quote is a number; anything else is the recording failing.
ImpactCheck(f, issuer, spend) ==
    LET quote == Estimate(f.tape, issuer, spend) IN
    CASE quote.error \in {"NO_TAPE", "recording"} -> "unknown"
      [] quote.error = "off_hours"                -> "wait"
      [] quote.error \notin {"none", "off_hours", "NO_TAPE", "recording"} -> "block"
      [] quote.error = "none" -> CASE quote.impact = "unknown" -> "unknown"
                                   [] quote.impact = "high"    -> "wait"
                                   [] quote.impact = "low"     -> "pass"

\* One issuer's verdict, and its rules.  A buy needs the guardian's all-clear.
Verdict1(f, issuer) ==
    LET answer == NextFor(f, issuer) IN
    IF answer.decision = "buy" /\ f.guardian = "old" THEN Says("wait", "guardian_unchecked") ELSE answer
Checks(f, issuer) ==
    LET answer == NextFor(f, issuer)
        halved == answer.decision = "buy" /\ answer.spend < SpendNow(f)
    IN {DataCheck(f), GuardianCheck(f), SessionCheck(f),
        AmountCheck(f, issuer), StatusCheck(f, issuer), GapCheck(f, issuer),
        ImpactCheck(f, issuer, IF halved THEN answer.spend ELSE SpendNow(f))}

-----------------------------------------------------------------------------
(* houseNowFor                                                             *)

\* Mutant of HouseNow: the plan's first choice, whether it would buy or not.
HouseFirst(f, prefer) == Verdict1(f, prefer[1])
\* The plan's first choice that would buy, else its first choice.
HouseNow(f, prefer) ==
    LET buys == {n \in DOMAIN prefer : Verdict1(f, prefer[n]).decision = "buy"}
    IN Verdict1(f, prefer[IF buys = {} THEN 1 ELSE CHOOSE n \in buys : \A m \in buys : n <= m])

-----------------------------------------------------------------------------

Latest(tape) == [open |-> FALSE, tape |-> tape]
\* The routes pass on no amount outside the house's bounds.
Askable == {a \in Asks : MinBuy <= a.usd /\ a.usd <= MaxPerTx}
PreflightInit == \E tape \in Tapes : asked = Latest(tape)
Ask ==
    /\ ~asked.open
    /\ \E data \in {"LIVE", "STALE"}, guardian \in {"clear", "old", "blocked"},
          regular \in BOOLEAN, ask \in Askable :
         asked' = [open |-> TRUE, tape |-> asked.tape, data |-> data, guardian |-> guardian,
                   regular |-> regular, ask |-> ask,
                   minds |-> [who \in Issuers \cup {"agent"} |-> Wonder]]
Thinking == {who \in DOMAIN asked.minds : asked.minds[who].decision = Undecided}
Think(who) ==
    LET mind == asked.minds[who]
    IN Advance(asked, who, mind, DecideCycle(Facts(asked, who, mind.quotes)))
Round ==
    /\ asked.open /\ Thinking # {}
    /\ asked' = [asked EXCEPT !.minds =
                   [who \in DOMAIN @ |-> IF who \in Thinking THEN Think(who) ELSE @[who]]]
Leave == asked.open /\ Thinking = {} /\ asked' = Latest(asked.tape)
PreflightNext == Ask \/ Round \/ Leave
PreflightSpec == PreflightInit /\ [][PreflightNext]_asked

-----------------------------------------------------------------------------
(* Properties                                                              *)

Asked == asked.open /\ Thinking = {}
Passing == {"pass", "na"}
\* The listed rules and the verdict come from two pieces of code that agree: a buy passes
\* every rule, and what does not buy fails one, so that a person can see why
\* (preflight.ts:5-7), but for a quote the engine rules out that no rule reads: one to be
\* signed as an order, and one without tokens.
Unlisted(issuer) ==
    \E spend \in {SpendNow(asked), SpendNow(asked) \div 2} :
        LET quote == Estimate(asked.tape, issuer, spend)
        IN quote.error = "none" /\ (quote.mode = "RFQ" \/ quote.tokens = 0)
ChecksAgree == Asked => \A issuer \in Issuers :
    IF Verdict1(asked, issuer).decision = "buy" THEN Checks(asked, issuer) \subseteq Passing
    ELSE Checks(asked, issuer) \ Passing # {} \/ Unlisted(issuer)
\* The rule a person is shown, whatever the quote (not so: a run of it fails).
Explained == Asked => \A issuer \in Issuers :
    Verdict1(asked, issuer).decision # "buy" => Checks(asked, issuer) \ Passing # {}

SurelyNow == asked.data = "LIVE" /\ asked.guardian # "old"
\* Every buy the agent would make of the house's plan on these facts, the first screen
\* says, token and amount; and a buy of the plan's first choice is one it would make.
BuyShown == Asked /\ SurelyNow =>
    LET told == HouseNow(asked, Prefer)
        does == asked.minds["agent"].decision
        same == does.kind = "execute" /\ told.issuer = does.issuer /\ told.spend = does.spend
    IN /\ does.kind = "execute" /\ Estimate(asked.tape, does.issuer, does.spend).tokens > 0 => same
       /\ told.decision = "buy" /\ told.issuer = Prefer[1] => same
\* The token the plan would take (house-now.ts:18): not so, see the README.
HouseTold == Asked /\ SurelyNow =>
    LET told == HouseNow(asked, Prefer)
    IN told.decision = "buy" => asked.minds["agent"].decision.kind = "execute"

==================================================================================
