--------------------------------- MODULE MCBuy ---------------------------------
EXTENDS Buy

\* Ondo has a minimum above the minimum buy, bStocks has none.
MCVenueMin == [bstocks |-> 0, ondo |-> 3]
Plan(mode, window, contribution, principal, perBuy, prefer) ==
    [mode |-> mode, window |-> window, contribution |-> contribution, principal |-> principal,
     perBuy |-> perBuy, perDay |-> 8, prefer |-> prefer]
MCPlans == {Plan("safe", "anytime", 4, 0, 1, <<"ondo">>),
            Plan("safe", "regular_session", 4, 0, 5, <<"bstocks", "ondo">>),
            Plan("safe", "anytime", 2, 0, 6, <<"ondo", "bstocks">>),
            Plan("yield", "anytime", 0, 6, 6, <<"ondo">>),
            Plan("yield", "regular_session", 1, 6, 5, <<"bstocks", "ondo">>)}
Row(status, opens, gap) == [status |-> status, opens |-> opens, gap |-> gap]
Trading == Row("TRADING", FALSE, "low")
MCMarkets == {[bstocks |-> b, ondo |-> o] : <<b, o>> \in
    {<<Trading, Trading>>, <<Row("CORPORATE", FALSE, "low"), Trading>>,
     <<Row("CLOSED", TRUE, "low"), Row("CLOSED", FALSE, "low")>>,
     <<Row("UNAVAILABLE", FALSE, "low"), Trading>>, <<Row("OTHER", FALSE, "low"), Trading>>,
     <<Row("TRADING", FALSE, "high"), Row("OTHER", FALSE, "low")>>}}

===============================================================================
