--------------------------------- MODULE Guardian --------------------------------
(***************************************************************************)
(* The guardian (core and agent guardian.ts, db guardian.ts): the tick     *)
(* that samples Venus and USDT, opens and resolves the verdicts of its     *)
(* four rules, and takes positions out; and what the web makes of it       *)
(* (worker.ts).  The worker may die, and the database fail, between any    *)
(* two steps.                                                              *)
(*                                                                         *)
(* A tick is one row of `ticks`, with the samples it recorded by its       *)
(* `stage`.  Prices are in cents, TVL in tenths, time in a unit of which   *)
(* DAY, TOLERANCE, DEPEG and TICK_FRESH are a few.  How one position       *)
(* comes out is Position's.                                                *)
(***************************************************************************)
EXTENDS Integers, Sequences, FiniteSets

CONSTANTS DAY, TOLERANCE, DEPEG, TICK_FRESH,
          Feeds,      \* what the feeds may answer at one tick: [venus, tvl, usdt], venus a set of flags
          Held,       \* the yield plans: of each its [owner, status, vt, inflight] at first
          MaxClock,   \* bound on time
          MaxTicks,   \* bound on the ticks of a behaviour
          MaxCuts     \* bound on the ticks cut short

VARIABLES clock,
          cuts,       \* how many
          ticks,      \* each [ts, feed, stage, actions, done]
          events,     \* guardian_events not resolved: each [rule, action]
          heartbeat,  \* worker_status 'tick': of which tick, and whether its guardian step failed
          duty,       \* the tick under way
          held        \* the plans

guardianVars == <<clock, cuts, ticks, events, heartbeat, duty, held>>

None == "none"
Missing == 0
Unread == {"unread"}
Off == [pc |-> "off", quiet |-> {}, todo |-> <<>>, plans |-> {}, plan |-> None]
Rules == {"protocol_paused", "tvl_drop", "utilization_high", "usdt_depeg"}
GuardianInit ==
    /\ clock = 0 /\ cuts = 0 /\ ticks = <<>> /\ events = {} /\ duty = Off
    /\ heartbeat = [of |-> 0, failed |-> FALSE]
    /\ held = [p \in DOMAIN Held |-> [owner |-> Held[p].owner, status |-> Held[p].status, vt |-> Held[p].vt,
                                      inflight |-> Held[p].inflight, fresh |-> FALSE, why |-> None]]

-----------------------------------------------------------------------------
(* The samples (db guardian.ts)                                            *)

Stages == <<"begun", "tvl", "usdt", "acting">>
Reached(t, stage) == \E i, j \in DOMAIN Stages : Stages[i] = stage /\ Stages[j] = t.stage /\ i <= j
TvlRows == {n \in DOMAIN ticks : ticks[n].feed.tvl # Missing /\ Reached(ticks[n], "tvl")}
UsdtRows == {n \in DOMAIN ticks : ticks[n].feed.usdt # Missing /\ Reached(ticks[n], "usdt")}
Gap(n, at) == IF ticks[n].ts > at THEN ticks[n].ts - at ELSE at - ticks[n].ts

\* sampleNear: the closest within the tolerance; of two as close, either.
Near(at) == {n \in TvlRows : Gap(n, at) <= TOLERANCE}
SampleNear(at) == {n \in Near(at) : \A m \in Near(at) : Gap(n, at) <= Gap(m, at)}

Floor == 99
Below(n) == ticks[n].feed.usdt < Floor
\* belowSince: the first row after the last one at or above the floor.
Stayed(rows) == {n \in rows : \A m \in rows : m >= n => Below(m)}
BelowSince(rows) ==
    LET run == Stayed(rows)
    IN IF run = {} THEN {} ELSE {ticks[CHOOSE n \in run : \A m \in run : n <= m].ts}

-----------------------------------------------------------------------------
(* The rules (core guardian.ts)                                            *)

Dropped(now, ago) == 10 * now <= 7 * ago
Action(rule, action) == [rule |-> rule, action |-> action]
\* With redemptions paused nothing can be taken out.
EvaluateVenus(flags) ==
    {Action("protocol_paused", IF "redeem_paused" \in flags THEN "pause_buys" ELSE "redeem_all") :
       f \in flags \cap {"mint_paused", "redeem_paused"}}
      \cup {Action("utilization_high", "stop_deposits") : f \in flags \cap {"utilized"}}
\* evaluateGuardian, in the order of its rules.
Order == <<"protocol_paused", "tvl_drop", "utilization_high", "usdt_depeg">>
EvaluateGuardian(now, feed, ago, since) ==
    EvaluateVenus(feed.venus)
      \cup {Action("tvl_drop", "redeem_all") : x \in {a \in ago : Dropped(feed.tvl, a)}}
      \cup {Action("usdt_depeg", "pause_buys") : s \in {s \in since : now - s >= DEPEG}}
UnevaluatedRules(feed, ago) ==
    (IF feed.venus = Unread THEN {"protocol_paused", "utilization_high"} ELSE {})
      \cup (IF feed.tvl = Missing \/ ago = {} THEN {"tvl_drop"} ELSE {})
      \cup (IF feed.usdt = Missing THEN {"usdt_depeg"} ELSE {})

-----------------------------------------------------------------------------
(* The tick (agent guardian.ts)                                            *)

At(pc) == duty.pc = pc
Last == Len(ticks)
Feed == ticks[Last].feed
Goto(pc) == duty' = [duty EXCEPT !.pc = pc]
Stage(stage) == ticks' = [ticks EXCEPT ![Last].stage = stage]
Open(rule) == \E e \in events : e.rule = rule
Rest == UNCHANGED <<clock, cuts, heartbeat>>

\* readInputs: three reads, each with its samples; every sample has the tick's own time.
Begin(feed) ==
    /\ At("off") /\ Last < MaxTicks /\ (Last > 0 => ticks[Last].ts < clock)
    /\ ticks' = Append(ticks, [ts |-> clock, feed |-> feed, stage |-> "begun", ago |-> {},
                               fired |-> {}, done |-> FALSE])
    /\ Goto("tvl") /\ held' = [p \in DOMAIN held |-> [held[p] EXCEPT !.fresh = FALSE]]
    /\ UNCHANGED events /\ Rest
ReadTvl ==
    /\ At("tvl") /\ Goto("usdt") /\ UNCHANGED <<events, held>> /\ Rest
    /\ LET near == SampleNear(ticks[Last].ts - DAY)
           ago == {ticks[n].feed.tvl : n \in near}
       IN IF Feed.tvl = Missing \/ near = {} THEN Stage("tvl")
          ELSE \E a \in ago : ticks' = [ticks EXCEPT ![Last].stage = "tvl", ![Last].ago = {a}]
ReadUsdt ==
    At("usdt") /\ Stage("usdt") /\ Goto("evaluate") /\ UNCHANGED <<events, held>> /\ Rest
\* evaluateGuardian; then what is open, was read and is quiet, closes, one rule at a time.
Evaluate ==
    /\ At("evaluate") /\ UNCHANGED <<events, held>> /\ Rest
    /\ LET since == IF Feed.usdt = Missing \/ ~Below(Last) THEN {} ELSE BelowSince(UsdtRows)
           fired == EvaluateGuardian(ticks[Last].ts, Feed, ticks[Last].ago, since)
           loud == {a.rule : a \in fired} \cup UnevaluatedRules(Feed, ticks[Last].ago)
       IN /\ ticks' = [ticks EXCEPT ![Last].stage = "acting", ![Last].fired = fired]
          /\ duty' = [duty EXCEPT !.pc = "open", !.quiet = {r \in Rules \ loud : Open(r)},
                                  !.todo = SelectSeq(Order, LAMBDA r : \E a \in fired : a.rule = r)]
ResolveOne ==
    /\ At("open") /\ UNCHANGED <<ticks, held>> /\ Rest
    /\ \E rule \in duty.quiet :
         /\ duty' = [duty EXCEPT !.quiet = @ \ {rule}]
         /\ events' = {e \in events : e.rule # rule}
Doing == CHOOSE a \in ticks[Last].fired : a.rule = Head(duty.todo)
\* redeemAll's plans: not a skill plan's money once stopped; a stopped plan of the house's or a
\* judge's that still holds a position.
\* Mutant of RedeemPlans: a stopped plan is done with.
RunningPlans == {p \in DOMAIN held : held[p].status # "stopped" /\ held[p].vt > 0}
RedeemPlans ==
    {p \in DOMAIN held : IF held[p].status = "stopped" THEN held[p].owner # "skill" /\ held[p].vt > 1
                         ELSE held[p].vt > 0}
OpenEvent ==
    /\ At("open") /\ duty.quiet = {} /\ duty.todo # <<>> /\ UNCHANGED <<ticks, held>> /\ Rest
    /\ events' = IF Open(Doing.rule) THEN events
                 ELSE events \cup {Doing}
    /\ duty' = IF Doing.action = "redeem_all"
               THEN [duty EXCEPT !.pc = "redeem", !.plans = {<<p, held[p].status>> : p \in RedeemPlans}]
               ELSE [duty EXCEPT !.todo = Tail(@)]
\* redeemPlanPosition of each: the status first, from the row as it was listed; then the redeem,
\* which needs a signer, the plan's lock, nothing in flight, and luck.
Mark ==
    /\ At("redeem") /\ duty.plan = None /\ UNCHANGED <<ticks, events>> /\ Rest
    /\ duty.plans # {}
    /\ LET listed == CHOOSE listed \in duty.plans : TRUE
           p == listed[1] IN
         /\ held' = [held EXCEPT ![p].status = IF listed[2] = "stopped" THEN "stopped" ELSE "paused",
                                 ![p].why = "guardian"]
         /\ duty' = [duty EXCEPT !.plans = @ \ {listed}, !.plan = IF held[p].owner = "skill" THEN None ELSE p]
Redeem ==
    /\ At("redeem") /\ duty.plan # None /\ UNCHANGED <<ticks, events>> /\ Rest
    /\ duty' = [duty EXCEPT !.plan = None]
    /\ LET p == duty.plan IN
         \/ held' = [held EXCEPT ![p].why = "held"]
         \/ ~held[p].inflight /\ held[p].vt > 1 /\ held' = [held EXCEPT ![p].vt = 1]
         \/ ~held[p].inflight /\ held[p].vt <= 1 /\ UNCHANGED held
AllOut ==
    /\ At("redeem") /\ duty.plan = None /\ duty.plans = {} /\ UNCHANGED <<ticks, events, held>> /\ Rest
    /\ duty' = [duty EXCEPT !.pc = "open", !.todo = Tail(@)]
\* The scheduler's tick goes on after the guardian's step, failed or not, and writes its status.
Beat(failed) == heartbeat' = [of |-> Last, failed |-> failed]
Finish ==
    /\ At("open") /\ duty.quiet = {} /\ duty.todo = <<>> /\ duty' = Off /\ Beat(FALSE) /\ UNCHANGED <<clock, cuts, events, held>>
    /\ ticks' = [ticks EXCEPT ![Last].done = TRUE]
\* The database fails: the step throws, and is told in the tick's status.
Cut == ~At("off") /\ cuts < MaxCuts /\ cuts' = cuts + 1 /\ duty' = Off /\ UNCHANGED <<clock, ticks, events, held>>
Throw == Cut /\ Beat(TRUE)
Die == Cut /\ UNCHANGED heartbeat

-----------------------------------------------------------------------------
(* Around it                                                               *)

\* A deposit that was sent before the first of these ticks lands in the plan's row, between two
\* ticks or as positions are taken out (before that, a tick does not look at the plans).
Lands(p) ==
    /\ At("off") \/ At("redeem")
    /\ held[p].inflight /\ held' = [held EXCEPT ![p].inflight = FALSE, ![p].vt = 2, ![p].fresh = TRUE]
    /\ UNCHANGED <<clock, cuts, ticks, events, heartbeat, duty>>
\* Time starts at the first tick; a tick is over long before the next unit of time.
TimePasses == At("off") /\ Last > 0 /\ clock < MaxClock /\ clock' = clock + 1 /\ UNCHANGED <<cuts, ticks, events, heartbeat, duty, held>>

GuardianNext ==
    \/ \E feed \in Feeds : Begin(feed)
    \/ ReadTvl \/ ReadUsdt \/ Evaluate \/ ResolveOne \/ OpenEvent \/ Mark \/ Redeem \/ AllOut \/ Finish \/ Throw \/ Die
    \/ \E p \in DOMAIN held : Lands(p)
    \/ TimePasses
GuardianSpec == GuardianInit /\ [][GuardianNext]_guardianVars

-----------------------------------------------------------------------------
(* Properties                                                              *)

\* Does a rule hold at tick n, told from the samples alone: at all, and surely (the tick takes
\* one of the samples nearest to a day ago).
DayAgo(n) == {m \in TvlRows : m < n /\ Gap(m, ticks[n].ts - DAY) <= TOLERANCE}
DownSince(n, m) == m <= n /\ \A k \in UsdtRows : m <= k /\ k <= n => Below(k)
MayHold(rule, n) ==
    CASE rule = "protocol_paused"  -> ticks[n].feed.venus \cap {"mint_paused", "redeem_paused"} # {}
      [] rule = "utilization_high" -> "utilized" \in ticks[n].feed.venus
      [] rule = "tvl_drop"         -> \E m \in DayAgo(n) : Dropped(ticks[n].feed.tvl, ticks[m].feed.tvl)
      [] rule = "usdt_depeg"       -> \E m \in UsdtRows : DownSince(n, m) /\ ticks[n].ts - ticks[m].ts >= DEPEG
MustHold(rule, n) ==
    /\ MayHold(rule, n)
    /\ rule = "tvl_drop" => \A m \in DayAgo(n) : Dropped(ticks[n].feed.tvl, ticks[m].feed.tvl)
HasData(rule, n) ==
    CASE rule \in {"protocol_paused", "utilization_high"} -> ticks[n].feed.venus # Unread
      [] rule = "tvl_drop"   -> ticks[n].feed.tvl # Missing /\ DayAgo(n) # {}
      [] rule = "usdt_depeg" -> ticks[n].feed.usdt # Missing
\* The latest tick that evaluated the rule (0: none did).
LatestOn(rule) ==
    LET told == {n \in DOMAIN ticks : ticks[n].stage = "acting" /\ HasData(rule, n)}
    IN IF told = {} THEN 0 ELSE CHOOSE n \in told : \A m \in told : m <= n
\* worker.ts guardianState.
FreshTick == heartbeat.of > 0 /\ clock - ticks[heartbeat.of].ts <= TICK_FRESH /\ ~heartbeat.failed
Blocked == \E e \in events : e.action \in {"pause_buys", "redeem_all"}

\* Between ticks each rule is open as the latest tick that could read its data found it, if
\* that tick was not cut short: a feed that is down neither opens nor closes anything, and no
\* sample out of its time counts.  And when the web says all clear, the tick it goes by
\* found no rule that holds buys.
VerdictsTrue ==
    /\ At("off") => \A rule \in Rules : LET n == LatestOn(rule) IN
         IF n = 0 THEN ~Open(rule)
         ELSE ticks[n].done => (MustHold(rule, n) => Open(rule)) /\ (Open(rule) => MayHold(rule, n))
    /\ FreshTick /\ ~Blocked /\ At("off") => \A rule \in {"protocol_paused", "tvl_drop", "usdt_depeg"} :
         LatestOn(rule) = heartbeat.of => ~MustHold(rule, heartbeat.of)

\* After a tick that takes positions out: no plan with a position is left running, each
\* position of the house's or a judge's that was there at its start is out, or is told as held;
\* a stopped plan stays stopped, and what sits in a user's own wallet is not touched.
TakenOut ==
    (At("off") /\ Last > 0 /\ ticks[Last].done /\ \E a \in ticks[Last].fired : a.action = "redeem_all")
    => \A p \in DOMAIN held :
         /\ held[p].vt > 0 /\ ~held[p].fresh => held[p].status # "active"
         /\ held[p].owner # "skill" /\ ~held[p].fresh => held[p].vt <= 1 \/ held[p].why = "held"
         /\ Held[p].status = "stopped" => held[p].status = "stopped"
         /\ held[p].owner = "skill" => held[p].vt = Held[p].vt

\* A missing verdict never reads as all clear (worker.ts:20-21): not so, see the README.
ClearMeansRead ==
    FreshTick /\ ~Blocked => \A rule \in {"protocol_paused", "usdt_depeg"} : LatestOn(rule) > 0

==================================================================================
