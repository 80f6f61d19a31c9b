----------------------------------- MODULE Edges ---------------------------------
(***************************************************************************)
(* The programs around the money: the API client, the worker's event loop, *)
(* the alerts, the market tape, the identity wallet's registration, the    *)
(* site's activation, the site's own pages, and the guardian.  Each has its own state    *)
(* and none calls another in a step of the models, so a behaviour follows  *)
(* one of them.                                                            *)
(***************************************************************************)
EXTENDS Client

CONSTANTS Passes, Receipts, PER_TICK, MaxTimers, MaxBoots,
          Watchers, Rows, Failures, MaxTold,
          Tokens, Platform, Recorders, Lives, SIZES, Sessions, Share, Fresh, MaxBad, MaxChanges,
          Runs, Broadcasts, Wheres, MaxVersion, MaxAgents,
          Acts, Migrators, Rollers, Journal,
          Forms, Cap, MaxPlans, MaxRuns,
          MinBuy, MaxPerTx, DailyCap, VenueMin, MaxRequotes, Sizes, Tapes, Questions,
          House, Others, Limit, PlanLimit, PerCycle, MaxLog, MaxDuring,
          DAY, TOLERANCE, DEPEG, TICK_FRESH, Feeds, Held, MaxClock, MaxTicks, MaxCuts

VARIABLES side,
          boots, up, ticking, wanted, timers, market, pass, receipts,
          dxEvents, logged, telling, lastSent, told,
          now, multiplier, listed, instruments, tape, rec,
          here, site, registry, mined, pool, away, run, crossed,
          applied, overtaken, rolled, secrets, live, act, back, wrote,
          page, jobs, plans,
          asked,
          log, outcomes, read,
          clock, cuts, ticks, events, heartbeat, duty, held

W == INSTANCE Worker
A == INSTANCE Alerts
T == INSTANCE Tape
R == INSTANCE Register
S == INSTANCE Activate
I == INSTANCE Invest
P == INSTANCE Preflight WITH Asks <- Questions
F == INSTANCE Feed
G == INSTANCE Guardian

\* An endpoint's retries and the alert budget are numbers; a worker's passes are numbered.
ASSUME ClientConstants == \A l \in Loads : \A c \in Calls : Endpoints[l[c]].retries \in Nat
ASSUME AlertConstants == MaxTold \in Nat
ASSUME WorkerConstants == \E n \in Passes : Passes = 1..n
\* A checkout has a number of migrations, and nobody is no run.
ASSUME ActivateConstants ==
    Journal \in [Acts \cup Migrators \cup Rollers -> Nat] /\ S!Nobody \notin Acts

workerVars == <<boots, up, ticking, wanted, timers, market, pass, receipts>>
alertVars == <<dxEvents, logged, telling, lastSent, told>>
tapeVars == <<now, multiplier, listed, instruments, tape, rec>>
registerVars == <<here, site, registry, mined, pool, away, run, crossed>>
activateVars == <<applied, overtaken, rolled, secrets, live, act, back, wrote>>
investVars == <<page, jobs, plans>>
feedVars == <<log, outcomes, read>>
guardianVars == <<clock, cuts, ticks, events, heartbeat, duty, held>>
edgesVars == <<side, clientVars, workerVars, alertVars, tapeVars, registerVars, activateVars,
               investVars, asked, feedVars, guardianVars>>

Sides == {"client", "worker", "alerts", "tape", "register", "activate", "invest", "preflight", "feed",
          "guardian"}
\* The one followed starts anywhere it may; the others stand still.
EdgesInit ==
    /\ side \in Sides
    /\ ClientInit /\ W!WorkerInit /\ A!AlertInit /\ T!TapeInit /\ R!RegisterInit /\ S!ActivateInit
    /\ I!InvestInit /\ P!PreflightInit /\ F!FeedInit /\ G!GuardianInit
    /\ side = "client" \/ load = CHOOSE l \in Loads : TRUE
    /\ side = "activate" \/ applied = {}
    /\ side = "preflight" \/ asked = CHOOSE a \in {P!Latest(tp) : tp \in Tapes} : TRUE
Still(part, vars) == IF side = part THEN TRUE ELSE UNCHANGED vars
OthersStill ==
    /\ Still("client", clientVars) /\ Still("worker", workerVars) /\ Still("alerts", alertVars)
    /\ Still("tape", tapeVars) /\ Still("register", registerVars) /\ Still("activate", activateVars)
    /\ Still("invest", investVars) /\ Still("preflight", asked) /\ Still("feed", feedVars)
    /\ Still("guardian", guardianVars)
EdgesNext ==
    /\ UNCHANGED side /\ OthersStill
    /\ \/ side = "client" /\ ClientNext
       \/ side = "worker" /\ W!WorkerNext
       \/ side = "alerts" /\ A!AlertNext
       \/ side = "tape" /\ T!TapeNext
       \/ side = "register" /\ R!RegisterNext
       \/ side = "activate" /\ S!ActivateNext
       \/ side = "invest" /\ I!InvestNext
       \/ side = "preflight" /\ P!PreflightNext
       \/ side = "feed" /\ F!FeedNext
       \/ side = "guardian" /\ G!GuardianNext
EdgesSpec == EdgesInit /\ [][EdgesNext]_edgesVars

(***************************************************************************)
(* Properties: those of each part, while it is the one followed            *)
(***************************************************************************)
\* No window overrun, no wait cut short, and a broadcast leaves once (Client).
CallsTrue == side = "client" => WindowKept /\ WaitServed /\ SentOnce
\* Ticks and job polls never run side by side, and a wanted tick is not forgotten (Worker).
OneSigner == side = "worker" => W!OneSigner /\ W!WantedKept
\* What the Wallet API called final is not overwritten (Worker).
FinalKept == W!FinalKept
\* Ops hear of a finding once (Alerts).
ToldOnce == side = "alerts" => A!ToldOnce
\* One tape row for a slot, token and size; the tables the pages show add up (Tape).
TapeTrue == side = "tape" => T!RowsOnce /\ T!PagesAgree
\* A second agent only by the one crossing there is, and the registry holds what the public
\* site served (Register).
RegistryTrue == side = "register" => R!OneAgentUnlessCrossed /\ R!EntryTrue
\* The database holds the journal's first migrations, and the Worker is put only on a
\* database its site can read (Activate).
SiteTrue == side = "activate" => S!NoGap /\ S!SiteReadable

\* Under the dialog, the form a run sends; words that promise what happened (Invest).
PageTrue == side = "invest" => I!ShownTerms /\ I!WordsTrue /\ I!LeftOnce
\* The rules listed agree with the verdict, and what the agent would buy of the house's plan
\* the first screen says (Preflight).
ToldTrue == side = "preflight" => P!ChecksAgree /\ P!BuyShown
\* The feed and a cycle's page, whatever is written as they are read; a plan's history, read
\* at rest (Feed).
FeedTrue == side = "feed" => F!FeedTrue /\ F!DetailTrue /\ F!HistoryTrue
\* The open verdicts are what the samples say, and the web's all-clear with them; after a
\* redeem_all tick each position is out, or told as held (Guardian).
GuardianTrue == side = "guardian" => G!VerdictsTrue /\ G!TakenOut

==================================================================================
