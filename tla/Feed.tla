----------------------------------- MODULE Feed ----------------------------------
(***************************************************************************)
(* The pages that tell what the plans did (activity.ts): the feed with its *)
(* totals, one plan's history, one cycle's page.  Each is a handful of     *)
(* queries; the worker writes between them.                                *)
(*                                                                         *)
(* Cycles and receipts are one log, a row's place its id and its time.     *)
(***************************************************************************)
EXTENDS Integers, Sequences, FiniteSets

CONSTANTS House,      \* Yieldvest's own plans
          Others,     \* judges' and assistants' plans
          Limit,      \* entries the feed asks for
          PlanLimit,  \* entries a plan's page asks for
          PerCycle,   \* receipts of a cycle (three in the code's own count, activity.ts:290)
          MaxLog,     \* bound on the log
          MaxDuring   \* bound on what is written while one page is read

VARIABLES log,       \* the rows of cycles and receipts
          outcomes,  \* of each cycle
          read       \* the page being read

feedVars == <<log, outcomes, read>>

Plans == House \cup Others
NoRead == [view |-> "none", during |-> 0]
FeedInit == log = <<>> /\ outcomes = <<>> /\ read = NoRead

CyclesIn(n) == {x \in 1 .. n : log[x].what = "cycle"}
ReceiptsIn(n) == {x \in 1 .. n : log[x].what = "receipt"}
ReceiptsOf(c, n) == {x \in ReceiptsIn(n) : log[x].cycle = c}
OfPlan(rows, p) == {x \in rows : log[x].plan = p}
Newest(rows, n) == {x \in rows : Cardinality({y \in rows : y > x}) < n}

-----------------------------------------------------------------------------
(* The worker                                                              *)

Open(p) == {c \in OfPlan(CyclesIn(Len(log)), p) : outcomes[c] = "running"}
MayWrite == read.during < MaxDuring
Torn == IF read = NoRead THEN read ELSE [read EXCEPT !.during = @ + 1]
Write(row, outcome) ==
    /\ Len(log) < MaxLog /\ MayWrite /\ log' = Append(log, row) /\ outcomes' = Append(outcomes, outcome)
    /\ read' = Torn
StartCycle(p) ==
    Open(p) = {} /\ Write([what |-> "cycle", plan |-> p, kind |-> "none", cycle |-> 0], "running")
AddReceipt(p, kind, c) == Write([what |-> "receipt", plan |-> p, kind |-> kind, cycle |-> c], "none")
Swapped(c) == \E x \in ReceiptsOf(c, Len(log)) : log[x].kind = "swap"
CycleReceipt(p) ==
    \E c \in Open(p), kind \in {"approve", "swap"} :
      /\ Cardinality(ReceiptsOf(c, Len(log))) < PerCycle /\ ~Swapped(c)
      /\ AddReceipt(p, kind, c)
\* A dry run leaves no receipt; a buy, its swap.
EndCycle(p) ==
    \E c \in Open(p), outcome \in {"BOUGHT", "DEFERRED", "SIMULATED"} :
      /\ (outcome = "BOUGHT") = Swapped(c)
      /\ outcome = "SIMULATED" => ReceiptsOf(c, Len(log)) = {}
      /\ MayWrite /\ outcomes' = [outcomes EXCEPT ![c] = outcome] /\ read' = Torn /\ UNCHANGED log
\* Outside any cycle: the first deposit with its approval, and a stop's redeem.
LoneReceipt(p) == \E kind \in {"approve", "deposit", "redeem"} : Open(p) = {} /\ AddReceipt(p, kind, 0)

-----------------------------------------------------------------------------
(* The items (activity.ts)                                                 *)

Item(at, cycle, rows) == [at |-> at, cycle |-> cycle, receipts |-> rows]
\* loneItems: a deposit's approvals join it; one with no deposit after it stands alone.
Before(x, rows) ==
    {a \in rows : /\ log[x].kind = "deposit" /\ log[a].kind = "approve"
                  /\ log[a].plan = log[x].plan /\ a < x
                  /\ \A d \in rows : log[d].kind = "deposit" /\ log[d].plan = log[x].plan => d < a \/ d >= x}
LoneItems(rows) ==
    LET joined == UNION {Before(x, rows) : x \in rows}
    IN {Item(x, 0, {x} \cup Before(x, rows)) : x \in rows \ joined}
Cut(items, n) == {i \in items : Cardinality({j \in items : j.at > i.at}) < n}

\* activityFeed, from the rows each of its queries saw.  A cycle of another owner's comes in
\* by its receipts.
FeedCycles(r) ==
    LET house == Newest({c \in CyclesIn(r.cycles) : log[c].plan \in House}, Limit)
        recent == Newest(ReceiptsIn(r.recent), Limit)
    IN house \cup ({log[x].cycle : x \in recent} \ {0})
ActivityFeed(r) ==
    LET cycles == FeedCycles(r)
        recent == Newest(ReceiptsIn(r.recent), Limit)
    IN Cut({Item(c, c, ReceiptsOf(c, r.rows)) : c \in cycles}
             \cup LoneItems({x \in recent : log[x].cycle \notin cycles}), Limit)
\* planActivity: two reads side by side.
\* Mutant of PlanRows: as many receipts as cycles.
AsMany(r, p) == Newest(OfPlan(ReceiptsIn(r.recent), p), PlanLimit)
PlanRows(r, p) == Newest(OfPlan(ReceiptsIn(r.recent), p), PlanLimit * 3)
PlanActivity(r, p) ==
    LET own == Newest(OfPlan(CyclesIn(r.cycles), p), PlanLimit)
        rows == PlanRows(r, p)
    IN Cut({Item(c, c, {x \in rows : log[x].cycle = c}) : c \in own}
             \cup LoneItems({x \in rows : log[x].cycle \notin own}), PlanLimit)
\* cycleDetail: by its number, any cycle of the house, and any that reached the chain.
CycleDetail(r, c) ==
    IF c \in CyclesIn(r.cycles) /\ (log[c].plan \in House \/ ReceiptsOf(c, r.rows) # {})
    THEN {Item(c, c, ReceiptsOf(c, r.rows))} ELSE {}

-----------------------------------------------------------------------------
(* The pages: a query sees the rows of its moment                          *)

Unread == -1
OpenPage(view, of) ==
    read = NoRead /\ UNCHANGED <<log, outcomes>>
    /\ read' = [view |-> view, of |-> of, during |-> 0, cycles |-> Unread, recent |-> Unread,
                rows |-> Unread, totals |-> Unread, bought |-> 0]
\* Which queries run side by side, and which one needs another's answer.
Needs(view, query) ==
    CASE query = "rows" /\ view = "feed"  -> {"cycles", "recent"}
      [] query = "rows" /\ view = "cycle" -> {"cycles"}
      [] OTHER                            -> {}
Queries(view) ==
    CASE view = "feed"  -> {"cycles", "recent", "rows", "totals"}
      [] view = "plan"  -> {"cycles", "recent"}
      [] view = "cycle" -> {"cycles", "rows"}
      [] view = "none"  -> {}
Next(r) == {q \in Queries(r.view) : r[q] = Unread /\ \A n \in Needs(r.view, q) : r[n] # Unread}
\* activityTotals counts the buys and the receipts.
Bought == Cardinality({c \in CyclesIn(Len(log)) : outcomes[c] = "BOUGHT"})
Query ==
    /\ UNCHANGED <<log, outcomes>>
    /\ \E f \in Next(read) :
         read' = [read EXCEPT ![f] = Len(log), !.bought = IF f = "totals" THEN Bought ELSE @]
Close == read # NoRead /\ Next(read) = {} /\ read' = NoRead /\ UNCHANGED <<log, outcomes>>

FeedNext ==
    \/ \E p \in Plans : StartCycle(p) \/ CycleReceipt(p) \/ EndCycle(p) \/ LoneReceipt(p)
    \/ OpenPage("feed", 0)
    \/ \E p \in Plans : OpenPage("plan", p)
    \/ \E c \in CyclesIn(Len(log)) : OpenPage("cycle", c)
    \/ Query \/ Close
FeedSpec == FeedInit /\ [][FeedNext]_feedVars

-----------------------------------------------------------------------------
(* Properties                                                              *)

Shows(view) == read.view = view /\ Next(read) = {}
AtRest == read.during = 0

\* Every entry there is: the house's cycles, the others' that left a receipt, lone receipts.
Entries(n, plans) ==
    {Item(c, c, ReceiptsOf(c, n)) : c \in {c \in CyclesIn(n) : log[c].plan \in plans
                                             /\ (log[c].plan \in House \/ ReceiptsOf(c, n) # {})}}
      \cup LoneItems({x \in ReceiptsIn(n) : log[x].cycle = 0 /\ log[x].plan \in plans})

\* The feed, whatever is written while it is read: nothing of another owner's that left no
\* receipt (activity.ts:4-5); what was there at its first query, and has a receipt among the
\* newest ones or is a newest cycle of the house's, is shown, or has Limit newer entries
\* above it; and read at rest, with room for all, it adds up to the totals beside it.
FeedTrue == Shows("feed") =>
    LET items == ActivityFeed(read)
        first == IF read.cycles < read.recent THEN read.cycles ELSE read.recent
        near == {i \in Entries(first, Plans) :
                   \/ i.receipts \cap Newest(ReceiptsIn(read.recent), Limit) # {}
                   \/ i.cycle \in Newest({c \in CyclesIn(read.cycles) : log[c].plan \in House}, Limit)}
    IN /\ \A i \in items : i.cycle # 0 => log[i.cycle].plan \in House \/ i.receipts # {}
       /\ \A i \in near : \/ \E j \in items : i.at \in {j.at} \cup j.receipts
                          \/ Cardinality({j \in items : j.at > i.at}) >= Limit
       /\ AtRest /\ Cardinality(ReceiptsIn(Len(log))) <= Limit /\ Cardinality(Entries(Len(log), Plans)) <= Limit
            => /\ Cardinality(UNION {i.receipts : i \in items}) = Cardinality(ReceiptsIn(read.totals))
               /\ Cardinality({i \in items : i.cycle # 0 /\ outcomes[i.cycle] = "BOUGHT"}) = read.bought

\* A plan's history read at rest: its newest entries, each cycle with its own receipts, a
\* cycle's receipt never an entry of its own; but a deposit's entry may hold, too, the
\* approvals of cycles too old for the page, which the code takes for the deposit's.
HistoryTrue == Shows("plan") /\ AtRest =>
    LET own == Newest(OfPlan(CyclesIn(Len(log)), read.of), PlanLimit)
        old == {x \in ReceiptsIn(Len(log)) : log[x].cycle \notin own \cup {0}}
        history == {Item(c, c, ReceiptsOf(c, Len(log))) : c \in OfPlan(CyclesIn(Len(log)), read.of)}
                     \cup LoneItems({x \in OfPlan(ReceiptsIn(Len(log)), read.of) : log[x].cycle = 0})
    IN {[i EXCEPT !.receipts = IF i.cycle = 0 THEN @ \ old ELSE @] : i \in PlanActivity(read, read.of)}
         = Cut(history, PlanLimit)

\* The same number answers on the cycle's page exactly when the feed may show it.
DetailTrue == Shows("cycle") =>
    (CycleDetail(read, read.of) # {}) = (\E i \in Entries(read.rows, Plans) : i.cycle = read.of)

\* The newest Limit entries (activity.ts:217): not so, see the README.
NewestShown == Shows("feed") /\ AtRest => ActivityFeed(read) = Cut(Entries(Len(log), Plans), Limit)

==================================================================================
