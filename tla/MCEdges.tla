---------------------------------- MODULE MCEdges --------------------------------
EXTENDS Edges
CONSTANTS c1, c2, c3

\* Client: a success, a 429 with a Retry-After, a 503 that asks for too long a wait; one
\* endpoint for all three requests, or two endpoints of the DeFi group beside a broadcast.
Reply(status, code, after) == [status |-> status, code |-> code, after |-> after]
MCReplies == {Reply(200, 0, None), Reply(429, 42900, 2), Reply(503, NoJson, 4)}
Together(x, y, z) == (c1 :> x) @@ (c2 :> y) @@ (c3 :> z)
MCLoads == {Together("swap", "swap", "swap"), Together("buildDeFi", "investments", "broadcast")}

\* Alerts: an unknown code, a shape no page lists, and a success.
Row(module, status, code) == [module |-> module, status |-> status, code |-> code]
MCRows == {Row("trading", 400, 49999), Row("trading", 200, 0), Row("rwa", 403, None)}

\* Tape: a worker replaced in the second slot by one that overlaps it.
MCPlatform == ("nvdaB" :> "bstock") @@ ("nvdaO" :> "ondo")
MCSessions == <<"regular", "closed">>
MCLives == ("w1" :> {1}) @@ ("w2" :> {1, 2})
MCBad == ("w1" :> 1) @@ ("w2" :> 0)

\* Activate: an older and a newer checkout of each kind.
MCJournal == ("a1" :> 2) @@ ("a2" :> 3) @@ ("b1" :> 2) @@ ("b2" :> 3) @@ ("r1" :> 2) @@ ("r2" :> 3)

\* Invest: one form of each mode; a code that holds both and no more.
MCForms == {[mode |-> "safe", amount |-> 2], [mode |-> "yield", amount |-> 1]}

\* Preflight: each status, price gap, quote and error for either issuer, beside a good
\* quote, one the issuer's rules refuse, and one whose price impact is too high.
MCVenueMin == ("bstocks" :> 0) @@ ("ondo" :> 3)
MCSizes == <<3, 9>>
Quote(error, impact, mode, out) == [error |-> error, impact |-> impact, mode |-> mode, out |-> out]
Fine == Quote("none", "low", "SWAP", 6)
Steep == Quote("none", "high", "SWAP", 6)
Side(status, gap, small, large) ==
    [status |-> status, opens |-> FALSE, gap |-> gap, quotes |-> <<small, large>>]
Trading(small, large) == Side("TRADING", "low", small, large)
Failing(error) == Trading(Quote(error, "unknown", "SWAP", 0), Fine)
Usual == {Trading(Fine, Fine), Failing("40421"), Trading(Steep, Steep)}
SideRows ==
    Usual \cup {Side("TRADING", gap, Fine, Fine) : gap \in {"high", "none"}}
      \cup {Side(status, "low", Fine, Fine) : status \in {"UNAVAILABLE", "CORPORATE", "CLOSED", "OTHER"}}
      \cup {Failing(error) : error \in {"no_liquidity", "venue_minimum", "off_hours", "recording", "no_amount"}}
      \cup {Trading(Fine, Steep), Trading(Quote("none", "unknown", "SWAP", 6), Fine),
            Trading(Quote("none", "low", "RFQ", 6), Fine), Trading(Quote("none", "low", "SWAP", 0), Fine)}
MCTapes == {("bstocks" :> t[1]) @@ ("ondo" :> t[2]) : t \in (SideRows \X Usual) \cup (Usual \X SideRows)}
MCQuestions == [usd : {2, 3, 6}, window : {"regular_session", "anytime"}]

\* Guardian: a calm reading; Venus unread as the TVL and the price are low; minting paused,
\* with no TVL; redeeming paused and the market all lent out, with no price.  A house plan's
\* deposit is out, a judge's stopped plan still has its position.
Reading(venus, tvl, usdt) == [venus |-> venus, tvl |-> tvl, usdt |-> usdt]
MCFeeds == {Reading({}, 10, 100), Reading({"unread"}, 6, 98), Reading({"mint_paused"}, 0, 98),
            Reading({"redeem_paused", "utilized"}, 10, 0)}
Plan(owner, status, vt, inflight) == [owner |-> owner, status |-> status, vt |-> vt, inflight |-> inflight]
MCHeld == [house |-> Plan("house", "active", 0, TRUE), judge |-> Plan("judge", "stopped", 2, FALSE),
           skill |-> Plan("skill", "active", 2, FALSE)]

==================================================================================
