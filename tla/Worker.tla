---------------------------------- MODULE Worker ---------------------------------
(***************************************************************************)
(* The worker's event loop (main.ts): timers start scheduler ticks and job *)
(* polls, one at a time; each tick ends by asking the Wallet API about     *)
(* receipts it has not reported final (wallet-index.ts).  What a pass      *)
(* signs is in Visit and Cycle; here its work is one step that may record  *)
(* a receipt, or fail.                                                     *)
(***************************************************************************)
EXTENDS Integers, Sequences, FiniteSets, FiniteSetsExt

CONSTANTS Passes,              \* how many passes can be told apart
          Receipts, PER_TICK,  \* the receipts in the order they are recorded; INDEX_PER_TICK
          MaxTimers, MaxBoots  \* bounds

VARIABLES boots, up,                  \* how often the worker has started; "down", "booting", "running"
          ticking, wanted, timers,    \* the lock, tickWanted, and the timers of 0 ms
          market,                     \* the Venus market is known
          pass,                       \* what runs: ticks and job polls
          receipts                    \* the receipts recorded, each with what the Wallet API said

workerVars == <<boots, up, ticking, wanted, timers, market, pass, receipts>>

NoPass == [kind |-> "none", pc |-> "none", rows |-> {}]
Pass(kind, pc) == [kind |-> kind, pc |-> pc, rows |-> {}]
Busy(k) == pass[k].kind # "none"
Doing(k, kind, pc) == pass[k].kind = kind /\ pass[k].pc = pc
Step(k, pc) == pass' = [pass EXCEPT ![k].pc = pc]
Loop == <<boots, up, ticking, wanted, timers>>

Start(kind, pc) == /\ ticking' = TRUE
                   /\ \E k \in Passes : /\ ~Busy(k) /\ \A j \in Passes : j < k => Busy(j)
                                        /\ pass' = [pass EXCEPT ![k] = Pass(kind, pc)]

\* ---------------------------------------------------------------------------- main.ts
\* Until the market is known every tick asks for it first.
First == IF market THEN "work" ELSE "venus"
\* Mutant of tick: it starts whatever runs.
TickAnyway == wanted' = FALSE /\ Start("tick", First)
\* tick(): while a pass runs it is wanted, and not run.
tick == IF ticking THEN wanted' = TRUE /\ UNCHANGED <<ticking, pass>>
        ELSE wanted' = FALSE /\ Start("tick", First)
TickFires == up = "running" /\ tick /\ UNCHANGED <<boots, up, timers, market, receipts>>
TimerFires == /\ up # "down" /\ timers > 0 /\ timers' = timers - 1 /\ tick
              /\ UNCHANGED <<boots, up, market, receipts>>
\* Mutant of jobsPoll: alongside a tick.
PollAlongside == /\ up = "running" /\ Start("poll", "work")
                 /\ UNCHANGED <<boots, up, wanted, timers, market, receipts>>
\* jobsPoll(): never alongside a tick; one that does not run is not wanted.
jobsPoll == /\ up = "running" /\ ~ticking /\ Start("poll", "work")
            /\ UNCHANGED <<boots, up, wanted, timers, market, receipts>>

\* venusTick: found and verified, or the yield plans wait.
venusTick(k) == /\ Doing(k, "tick", "venus") /\ Step(k, "work") /\ market' \in {market, TRUE}
                /\ UNCHANGED Loop /\ UNCHANGED receipts
VenusRefresh == /\ up # "down" /\ ~market /\ market' = TRUE
                /\ UNCHANGED Loop /\ UNCHANGED <<pass, receipts>>

\* What a pass does for plans and jobs may record a receipt; a tick then reads the open ones.
NotAsked == [state |-> "none", tries |-> 0]
Work(k) == /\ pass[k].pc = "work"
           /\ Step(k, IF pass[k].kind = "tick" THEN "select" ELSE "over")
           /\ \/ UNCHANGED receipts
              \/ Len(receipts) + 1 \in Receipts /\ receipts' = Append(receipts, NotAsked)
           /\ UNCHANGED Loop /\ UNCHANGED market

\* -------------------------------------------------------- wallet-index.ts, db/plans.ts
\* Those without a final answer, the newest PER_TICK of them.
Open == {n \in DOMAIN receipts : receipts[n].state # "final"}
receiptsToIndex == {n \in Open : Cardinality({x \in Open : x > n}) < PER_TICK}
Select(k) == /\ Doing(k, "tick", "select")
             /\ pass' = [pass EXCEPT ![k] = [@ EXCEPT !.pc = "index",
                            !.rows = {[n |-> n, was |-> receipts[n]] : n \in receiptsToIndex}]]
             /\ UNCHANGED Loop /\ UNCHANGED <<market, receipts>>

\* The answer for a receipt whose row said `was`: pending, final, or not indexed, again.
Answer(was) == {[state |-> "pending", tries |-> 0], [state |-> "final", tries |-> 0],
                [state |-> "not_indexed",
                 tries |-> Min({2, (IF was.state = "not_indexed" THEN was.tries ELSE 0) + 1})]}
\* One receipt, newest first: the answer is recorded, or was not read and is asked for next tick.
indexReceipts(k) ==
    /\ Doing(k, "tick", "index")
    /\ IF pass[k].rows = {} THEN Step(k, "over") /\ UNCHANGED receipts
       ELSE LET row == CHOOSE x \in pass[k].rows : \A y \in pass[k].rows : y.n <= x.n
            IN  /\ pass' = [pass EXCEPT ![k].rows = @ \ {row}]
                /\ \/ UNCHANGED receipts
                   \/ \E answer \in Answer(row.was) : receipts' = [receipts EXCEPT ![row.n] = answer]
    /\ UNCHANGED Loop /\ UNCHANGED market

\* ------------------------------------------------------------- the end of a pass, a process
\* A pass that is over or threw: a tick wanted meanwhile gets a timer. The first tick's end starts
\* the intervals.
PassEnds(k) == /\ pass[k].pc \in {"work", "select", "over"}
               /\ pass' = [pass EXCEPT ![k] = NoPass] /\ ticking' = FALSE
               /\ timers' = timers + (IF wanted THEN 1 ELSE 0) /\ timers' <= MaxTimers
               /\ up' = "running"
               /\ UNCHANGED <<boots, wanted, market, receipts>>

\* Everything in memory is gone when the process dies; it comes back with a tick of its own.
Boot == /\ up = "down" /\ boots < MaxBoots /\ boots' = boots + 1 /\ up' = "booting"
        /\ market' \in BOOLEAN
        /\ ticking' = TRUE
        /\ pass' = [pass EXCEPT ![Min(Passes)] = Pass("tick", IF market' THEN "work" ELSE "venus")]
        /\ UNCHANGED <<wanted, timers, receipts>>
Die == /\ up # "down" /\ up' = "down" /\ ticking' = FALSE /\ wanted' = FALSE /\ timers' = 0 /\ market' = FALSE
       /\ pass' = [k \in Passes |-> NoPass]
       /\ UNCHANGED <<boots, receipts>>

WorkerInit == /\ boots = 0 /\ up = "down" /\ ticking = FALSE /\ wanted = FALSE /\ timers = 0
              /\ market = FALSE /\ pass = [k \in Passes |-> NoPass] /\ receipts = << >>
WorkerNext ==
    \/ TickFires \/ TimerFires \/ jobsPoll \/ VenusRefresh \/ Boot \/ Die
    \/ \E k \in Passes : venusTick(k) \/ Work(k) \/ Select(k) \/ indexReceipts(k) \/ PassEnds(k)
WorkerSpec == WorkerInit /\ [][WorkerNext]_workerVars

(***************************************************************************)
(* Properties                                                              *)
(***************************************************************************)
\* One signer, one nonce sequence: a tick and a job poll never run side by side, nor two of a kind.
OneSigner == Cardinality({k \in Passes : Busy(k)}) <= 1

\* A tick that found a pass running is not forgotten: the pass still runs, or a timer is set.
WantedKept == wanted => timers > 0 \/ \E k \in Passes : Busy(k)

\* What the Wallet API called final stays: no pass writes what it read before over it.
FinalKept == [][\A n \in DOMAIN receipts : receipts[n].state = "final" => receipts'[n] = receipts[n]]_workerVars

==================================================================================
