----------------------------------- MODULE Tape ----------------------------------
(***************************************************************************)
(* The registry of stock tokens and the market tape: what is listed and    *)
(* verified on chain becomes an instrument; every slot the worker, and     *)
(* whenever a person likes tape:once, samples each instrument once per     *)
(* size; the pages read it back.  Time is counted in slots.  A price is a  *)
(* share price times the token's multiplier; both are small numbers.       *)
(***************************************************************************)
EXTENDS Integers, Sequences, FiniteSets, FiniteSetsExt

CONSTANTS Tokens, Platform,  \* the tokens the RWA list knows, and whose each is
          Recorders, Lives,  \* the processes that may sample ("once", and workers), and in which slots
          SIZES, Sessions,   \* the quote sizes; the US session of each slot (a sequence)
          Share, Fresh,      \* the US price of a share; how many slots a run stays LIVE
          MaxBad, MaxChanges \* how many quotes of a recorder's run fail; how often a multiplier changes
Issuers == {"bstock", "ondo", "xstocks"}   \* ISSUER_BY_PLATFORM
Nil == -1

VARIABLES now, multiplier, listed,  \* the clock, the tokens' multipliers on chain, and as the API has them
          instruments,              \* the instruments table: token to multiplier
          tape,                     \* the tape_samples table
          rec                       \* the recorders

tapeVars == <<now, multiplier, listed, instruments, tape, rec>>

\* ------------------------------------------------------------------------ registry.ts
\* Symbol and decimals must match the chain's; a bStock's multiplier also the API's.
verifyToken(t) == Platform[t] \in Issuers /\ (Platform[t] = "bstock" => multiplier[t] = listed[t])
Multiplier(t) == IF Platform[t] = "bstock" THEN multiplier[t] ELSE listed[t]

\* One read that fails fails the whole refresh; what was registered stays, verified again or not.
RefreshRegistry ==
    /\ instruments' = [t \in DOMAIN instruments \cup {u \in Tokens : verifyToken(u)} |->
                          IF verifyToken(t) THEN Multiplier(t) ELSE instruments[t]]
    /\ UNCHANGED <<now, multiplier, listed, tape, rec>>

\* ---------------------------------------------------------------------------- tape.ts
tapeSlot(r) == [at |-> now, by |-> IF r = "once" THEN "once" ELSE "slot"]
usSession == Sessions[now]
At(r, pc) == rec[r].pc = pc
Idle == [pc |-> "idle", slot |-> [at |-> 0, by |-> "slot"], from |-> {}, rows |-> {}]

\* A slot that is stored is skipped before any request; so is an empty registry.
tapeSlotRecorded(slot) == \E row \in tape : row.slot = slot
Begin(r) == /\ At(r, "idle") /\ now \in Lives[r] /\ ~tapeSlotRecorded(tapeSlot(r))
            /\ rec' = [rec EXCEPT ![r] = [@ EXCEPT !.pc = "list", !.slot = tapeSlot(r)]]
            /\ UNCHANGED <<now, multiplier, listed, instruments, tape>>
ListInstruments(r) ==
    /\ At(r, "list")
    /\ rec' = [rec EXCEPT ![r] = IF instruments = << >> THEN Idle
                                 ELSE [@ EXCEPT !.pc = "sample", !.from = DOMAIN instruments]]
    /\ UNCHANGED <<now, multiplier, listed, instruments, tape>>

\* stock-price.ts: one request a ticker; a price, none outside trading hours, or an error.
StockQuote == IF usSession = "regular" THEN {Share, Nil} ELSE {Nil}
\* The status and price lists come together or not at all; a quote that fails is a row with its code.
Row(r, t, size, feed, stock, bad) ==
    [slot |-> rec[r].slot, token |-> t, size |-> size, at |-> now, session |-> usSession,
     reason |-> IF feed THEN "TRADING" ELSE "UNAVAILABLE",
     price |-> IF feed THEN Share * multiplier[t] ELSE Nil, stock |-> stock,
     code |-> IF <<t, size>> \in bad THEN "error" ELSE "none"]
Samples(r, feed, stock, bad) == {Row(r, t, size, feed, stock, bad) : t \in rec[r].from, size \in SIZES}
SampleTape(r) ==
    /\ At(r, "sample")
    /\ \E feed \in BOOLEAN, stock \in StockQuote, n \in 0..MaxBad[r] :
       \E bad \in kSubset(n, rec[r].from \X SIZES) :
          rec' = [rec EXCEPT ![r] = [@ EXCEPT !.pc = "insert", !.rows = Samples(r, feed, stock, bad)]]
    /\ UNCHANGED <<now, multiplier, listed, instruments, tape>>

\* One statement: rows of a slot, token and size that are there already are left as they are.
Key(row) == <<row.slot, row.token, row.size>>
\* Mutant of Conflicts: an insert that does not look.
NoConflict(row) == FALSE
Conflicts(row) == \E old \in tape : Key(old) = Key(row)
InsertTapeSamples(r) == /\ At(r, "insert")
                        /\ tape' = tape \cup {row \in rec[r].rows : ~Conflicts(row)}
                        /\ rec' = [rec EXCEPT ![r] = Idle]
                        /\ UNCHANGED <<now, multiplier, listed, instruments>>
\* Any other error, or the end of the process: nothing of the run is stored.
Fail(r) == /\ ~At(r, "idle") /\ rec' = [rec EXCEPT ![r] = Idle]
           /\ UNCHANGED <<now, multiplier, listed, instruments, tape>>

\* ------------------------------------------------------------------- the world outside
NextSlot == now < Len(Sessions) /\ now' = now + 1 /\ UNCHANGED <<multiplier, listed, instruments, tape, rec>>
CorporateAction == \E t \in Tokens : /\ \A u \in Tokens : multiplier[u] <= MaxChanges
                                     /\ multiplier' = [multiplier EXCEPT ![t] = @ + 1]
                                     /\ UNCHANGED <<now, listed, instruments, tape, rec>>
ListFollows == \E t \in Tokens : /\ listed[t] # multiplier[t]
                                 /\ listed' = [listed EXCEPT ![t] = multiplier[t]]
                                 /\ UNCHANGED <<now, multiplier, instruments, tape, rec>>

TapeInit == /\ now = 1 /\ multiplier = [t \in Tokens |-> 1] /\ listed = multiplier
            /\ instruments = << >> /\ tape = {} /\ rec = [r \in Recorders |-> Idle]
TapeNext == \/ \E r \in Recorders : \/ Begin(r) \/ ListInstruments(r) \/ SampleTape(r)
                                    \/ InsertTapeSamples(r) \/ Fail(r)
            \/ RefreshRegistry \/ NextSlot \/ CorporateAction \/ ListFollows
TapeSpec == TapeInit /\ [][TapeNext]_tapeVars

\* -------------------------------------------------- db/index.ts, market.ts: the latest run
latestTapeSamples == {row \in tape : row.at = Max({old.at : old \in tape})}
tapeView == CASE tape = {} -> "UNAVAILABLE"
              [] tape # {} -> IF now - Max({row.at : row \in tape}) <= Fresh THEN "LIVE" ELSE "STALE"
GapPct(price, mult, stock) == (100 * price) \div (mult * stock) - 100

\* ------------------------------------------------------------------- tape-summary.ts
HasPrices(row) == row.stock # Nil /\ row.price # Nil
Groups == {[session |-> row.session, size |-> row.size, issuer |-> Platform[row.token]] : row \in tape}
In(g) == {row \in tape : row.session = g.session /\ row.size = g.size /\ Platform[row.token] = g.issuer
                         /\ row.token \in DOMAIN instruments}
tapeSummary == [g \in Groups |->
    [quotes |-> Cardinality(In(g)), errors |-> Cardinality({row \in In(g) : row.code # "none"}),
     gaps |-> Cardinality({row \in In(g) : HasPrices(row)})]]
tapeCoverage == [runs |-> Cardinality({row.slot : row \in tape}), rows |-> Cardinality(tape),
                 bySession |-> [s \in {row.session : row \in tape} |->
                                   Cardinality({row.slot : row \in {x \in tape : x.session = s}})]]
tapeErrorCodes == [i \in {Platform[t] : t \in Tokens} |->
    Cardinality({row \in tape : Platform[row.token] = i /\ row.code # "none"})]
tapeStatusCodes == [s \in {row.reason : row \in tape} |->
    Cardinality({<<row.slot, row.token>> : row \in {x \in tape : x.reason = s}})]
\* The sizes of one run share a price, so their gap counts once.
tapeGapPercentiles == {[slot |-> row.slot, token |-> row.token, session |-> row.session,
                        gap |-> GapPct(row.price, instruments[row.token], row.stock)] :
                           row \in {x \in tape : HasPrices(x) /\ x.token \in DOMAIN instruments}}

Total(f) == MapThenSumSet(LAMBDA x : f[x], DOMAIN f)

(***************************************************************************)
(* Properties                                                              *)
(***************************************************************************)
\* A worker that dies and comes back, two that overlap at a deploy, and a person's own run never
\* leave two rows for one slot, token and size.
RowsOnce == \A x, y \in tape : Key(x) = Key(y) => x = y

\* The pages' tables add up, whatever runs overlapped or failed: quotes to the coverage's rows, a
\* failed quote to one code, token-runs to one status, gaps to every size that had both prices.
PagesAgree ==
    LET summary == tapeSummary
        Sum(field) == MapThenSumSet(LAMBDA g : summary[g][field], DOMAIN summary)
        tokenRuns == {<<row.slot, row.token>> : row \in tape}
    IN  /\ Sum("quotes") = tapeCoverage.rows
        /\ Sum("errors") = Total(tapeErrorCodes)
        /\ Total(tapeStatusCodes) = Cardinality(tokenRuns)
        /\ Sum("gaps") = Cardinality(SIZES) * Cardinality(tapeGapPercentiles)

\* The gap a page shows for a run is the gap there was: it does not move when a multiplier does.
GapOfItsTime == [][\A g \in tapeGapPercentiles : g \in tapeGapPercentiles']_tapeVars

==================================================================================
