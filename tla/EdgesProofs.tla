------------------------------- MODULE EdgesProofs -------------------------------
(***************************************************************************)
(* What holds of the programs around the money for any number of calls,    *)
(* passes, processes, recorders, runs and deployments.                     *)
(*                                                                         *)
(* Edges follows one part at a time and the others stand still, so each    *)
(* part has an invariant of its own variables, kept by its own steps and   *)
(* by those that leave it alone (the lemmas ...Steps).                     *)
(*                                                                         *)
(*   ClientInv    a call that sleeps has a try left                        *)
(*   WorkerInv    what runs has the lock, alone, and the rows a pass is    *)
(*                going to ask about are still open                        *)
(*   AlertInv     a finding that waits to be told is stored, waits in one  *)
(*                process, and was told to nobody                          *)
(*   TapeInv      keys are apart in the table and in what a recorder has   *)
(*   RegisterInv  what a run read of the registry still holds or the       *)
(*                transaction that changed it has taken its nonce          *)
(*   ActivateInv  the database holds the first migrations, and all that a  *)
(*                run has made sure of                                     *)
(*                                                                         *)
(* The lists that are cut, sorted and summed (the activity feed, the       *)
(* tables of the tape, the guardian's verdicts) are left to TLC.           *)
(***************************************************************************)
EXTENDS Edges, FiniteSetTheorems, WellFoundedInduction, TLAPS

-----------------------------------------------------------------------------
(* The API client                                                          *)

\* A step of the whole is one of the client, or leaves its state alone.
LEMMA ClientSteps == [EdgesNext]_edgesVars => [ClientNext]_clientVars
  BY DEF EdgesNext, OthersStill, Still, edgesVars, clientVars

\* How often a call site lets its request be tried again: once at least, if a 429 may be.
Allowed(c) == Max({Spec(c).retries, IF Spec(c).again THEN 1 ELSE 0})

Fields == {"pc", "n", "until", "due", "reply"}
ClientInv ==
    /\ load \in Loads
    /\ DOMAIN call = Calls
    /\ \A c \in Calls : /\ DOMAIN call[c] = Fields /\ call[c].n \in Nat /\ call[c].n <= Allowed(c)
                        /\ call[c].pc = "asleep" => call[c].n < Allowed(c)

\* The bound is a number, at least the call site's retries, and at least one where a 429 is tried again.
LEMMA AllowedIs ==
    ASSUME load \in Loads, NEW c \in Calls
    PROVE  /\ Allowed(c) \in Nat /\ Spec(c).retries <= Allowed(c)
           /\ Spec(c).again => 1 <= Allowed(c)
  <1> DEFINE x == Spec(c).retries
             y == IF Spec(c).again THEN 1 ELSE 0
             m == IF x >= y THEN x ELSE y
  <1>1. x \in Nat /\ y \in Nat
    BY ClientConstants DEF Spec
  <1> HIDE DEF x, y
  <1>2. m \in {x, y} /\ \A z \in {x, y} : m >= z
    BY <1>1
  <1>3. \A n \in {x, y} : (\A z \in {x, y} : n >= z) => n = m
    BY <1>1, <1>2
  <1>4. Allowed(c) = m
    BY <1>2, <1>3 DEF Allowed, Max, x, y
  <1>5. QED
    BY <1>1, <1>4 DEF x, y

\* No call has been sent.
LEMMA ClientInitially == EdgesInit => ClientInv
  <1> SUFFICES ASSUME ClientInit PROVE ClientInv
    BY DEF EdgesInit
  <1>1. load \in Loads
    BY DEF ClientInit
  <1>2. \A c \in Calls : Allowed(c) \in Nat
    BY <1>1, AllowedIs
  <1>3. QED
    BY <1>1, <1>2 DEF ClientInit, ClientInv, Fields

\* A call sleeps only with a try left, and is sent again only from its sleep.
LEMMA ClientStep == ClientInv /\ [ClientNext]_clientVars => ClientInv'
  <1> SUFFICES ASSUME ClientInv, [ClientNext]_clientVars PROVE ClientInv'
    OBVIOUS
  <1> USE DEF ClientInv, Fields
  <1>a. ASSUME UNCHANGED load PROVE \A c \in Calls : Allowed(c)' = Allowed(c)
    BY <1>a DEF Allowed, Spec
  <1>1. ASSUME Tick PROVE ClientInv'
    <2>1. \A c \in Calls : call'[c] \in {call[c], [call[c] EXCEPT !.until = call[c].until - 1,
                                                                  !.due = Max({0, call[c].due - 1})]}
      BY <1>1 DEF Tick
    <2>2. DOMAIN call' = Calls /\ UNCHANGED load
      BY <1>1 DEF Tick
    <2>3. \A c \in Calls : DOMAIN call'[c] = Fields /\ call'[c].n = call[c].n /\ call'[c].pc = call[c].pc
      BY <2>1
    <2>4. QED
      BY <1>a, <2>2, <2>3
  <1>b. ASSUME NEW c \in Calls, NEW n \in Nat, n <= Allowed(c), Attempt(c, n), UNCHANGED load
        PROVE  ClientInv'
    <2>1. PICK until, due : call' = [call EXCEPT ![c] = [call[c] EXCEPT !.pc = "slot", !.n = n,
                                                              !.until = until, !.due = due]]
      <3>1. call' = [call EXCEPT ![c] = [@ EXCEPT !.pc = "slot", !.n = n, !.until = WaitFor(c),
                                                  !.due = Max({@, paused})]]
        BY <1>b, Zenon DEF Attempt
      <3>2. QED
        BY <3>1
    <2>2. /\ DOMAIN call' = Calls /\ \A d \in Calls \ {c} : call'[d] = call[d]
          /\ DOMAIN call'[c] = Fields /\ call'[c].n = n /\ call'[c].pc = "slot"
      BY <2>1
    <2>3. QED
      BY <1>a, <1>b, <2>2
  <1>2. ASSUME NEW c \in Calls, Begin(c) PROVE ClientInv'
    BY <1>2, <1>b, AllowedIs DEF Begin
  <1>3. ASSUME NEW c \in Calls, Send(c) PROVE ClientInv'
    <2>1. call' = [call EXCEPT ![c] = [call[c] EXCEPT !.pc = "out", !.until = Timeout]] /\ UNCHANGED load
      BY <1>3 DEF Send
    <2>2. /\ DOMAIN call' = Calls /\ \A d \in Calls \ {c} : call'[d] = call[d]
          /\ DOMAIN call'[c] = Fields /\ call'[c].n = call[c].n /\ call'[c].pc = "out"
      BY <2>1
    <2>3. QED
      BY <1>a, <2>1, <2>2
  <1>4. ASSUME NEW c \in Calls, NEW r, Answered(c, r) PROVE ClientInv'
    <2>1. /\ call' = [call EXCEPT ![c] = [call[c] EXCEPT !.pc = "telling", !.until = Telemetry,
                                               !.reply = r, !.due = Max({0, r.after})]]
          /\ UNCHANGED load
      BY <1>4 DEF Answered
    <2>2. /\ DOMAIN call' = Calls /\ \A d \in Calls \ {c} : call'[d] = call[d]
          /\ DOMAIN call'[c] = Fields /\ call'[c].n = call[c].n /\ call'[c].pc = "telling"
      BY <2>1
    <2>3. QED
      BY <1>a, <2>1, <2>2
  <1>5. ASSUME NEW c \in Calls, Told(c) PROVE ClientInv'
    <2> DEFINE r == call[c].reply
    <2>1. /\ UNCHANGED load
          /\ \/ call' = [call EXCEPT ![c] = [call[c] EXCEPT !.pc = "ok", !.reply = NoReply]]
             \/ call' = [call EXCEPT ![c] = [call[c] EXCEPT !.pc = "failed", !.reply = NoReply]]
             \/ Retries(c, r) /\ call' = [call EXCEPT ![c] = [call[c] EXCEPT !.pc = "asleep",
                                                  !.until = RetryWait(c, r), !.reply = NoReply]]
      <3>1. CASE Good(r)
        BY <1>5, <3>1 DEF Told
      <3>2. CASE ~Good(r) /\ Retries(c, r)
        BY <1>5, <3>2 DEF Told
      <3>3. CASE ~Good(r) /\ ~Retries(c, r)
        BY <1>5, <3>3 DEF Told
      <3>4. QED
        BY <3>1, <3>2, <3>3
    <2>2. /\ DOMAIN call' = Calls /\ \A d \in Calls \ {c} : call'[d] = call[d]
          /\ DOMAIN call'[c] = Fields /\ call'[c].n = call[c].n
          /\ call'[c].pc = "asleep" => Retries(c, r)
      BY <2>1
    <2>3. Retries(c, r) => call[c].n < Allowed(c)
      BY AllowedIs, ClientConstants DEF Retries, Spec
    <2>4. QED
      BY <1>a, <2>1, <2>2, <2>3
  <1>6. ASSUME NEW c \in Calls, Wake(c) PROVE ClientInv'
    BY <1>6, <1>b, AllowedIs DEF Wake
  <1>7. ASSUME UNCHANGED clientVars PROVE ClientInv'
    BY <1>7, <1>a DEF clientVars
  <1>8. QED
    BY <1>1, <1>2, <1>3, <1>4, <1>5, <1>6, <1>7 DEF ClientNext, Answer, NoAnswer

\* A request is tried again at most as often as its call site allows, or once for a 429, so a
\* broadcast leaves once, however answers, failures and 429s come (client.ts). Part of CallsTrue.
THEOREM BroadcastOnce == EdgesSpec => []SentOnce
  <1>1. EdgesInit => ClientInv
    BY ClientInitially
  <1>2. ClientInv /\ [EdgesNext]_edgesVars => ClientInv'
    BY ClientSteps, ClientStep
  <1>3. ClientInv => SentOnce
    BY DEF ClientInv, SentOnce, Allowed
  <1>4. QED
    BY <1>1, <1>2, <1>3, PTL DEF EdgesSpec

-----------------------------------------------------------------------------
(* The worker's event loop                                                 *)

ReceiptType == [state : {"none", "pending", "final", "not_indexed"}, tries : Nat]
RowType == [n : Nat, was : ReceiptType]
WorkerTypes ==
    /\ up \in {"down", "booting", "running"}
    /\ {ticking, wanted, market} \subseteq BOOLEAN
    /\ timers \in Nat
    /\ receipts \in Seq(ReceiptType)
    /\ pass \in [Passes -> [kind : {"none", "tick", "poll"},
                            pc : {"none", "venus", "work", "select", "index", "over"},
                            rows : SUBSET RowType]]

\* What runs has the lock, alone; a process that is down runs nothing.
OnePass ==
    /\ \A j, k \in Passes : W!Busy(j) /\ W!Busy(k) => j = k
    /\ ticking <=> \E k \in Passes : W!Busy(k)
    /\ up = "down" => ~ticking
    /\ \A k \in Passes : pass[k].pc # "none" => W!Busy(k)

\* The rows a pass is about to ask for: each receipt once, and none with a final answer by now.
RowsOpen == \A k \in Passes : \A x \in pass[k].rows :
    /\ W!Busy(k)
    /\ x.n \in DOMAIN receipts /\ receipts[x.n].state # "final"
    /\ \A y \in pass[k].rows : y.n = x.n => y = x

WantedOrRuns == wanted => timers > 0 \/ ticking

WorkerInv == WorkerTypes /\ OnePass /\ RowsOpen /\ WantedOrRuns

\* The same of the worker's loop.
LEMMA WorkerSteps == [EdgesNext]_edgesVars => [W!WorkerNext]_workerVars
  BY DEF EdgesNext, OthersStill, Still, edgesVars, workerVars, W!workerVars

\* A set of naturals with a bound has a greatest: a receipt that is asked about first.
LEMMA GreatestOf ==
    ASSUME NEW b \in Nat, NEW s, s \subseteq 0..b, s # {}
    PROVE  \E m \in s : \A n \in s : n <= m
  <1> DEFINE Less == OpToRel(<, Nat)
             t == {b - n : n \in s}
  <1>1. t \subseteq Nat /\ t # {}
    <2>1. \A n \in s : b - n \in Nat
      OBVIOUS
    <2>2. PICK n \in s : TRUE
      OBVIOUS
    <2>3. QED
      BY <2>1, <2>2
  <1>2. \A x, y \in Nat : x < y => <<x, y>> \in Less
    BY DEF OpToRel
  <1>3. IsWellFoundedOn(Less, Nat)
    BY NatLessThanWellFounded
  <1> HIDE DEF Less
  <1>4. PICK x \in t : \A y \in t : <<y, x>> \notin Less
    BY <1>1, <1>3, WFMin
  <1>5. PICK m \in s : x = b - m
    BY <1>4
  <1>6. \A n \in s : ~(b - n < x)
    BY <1>1, <1>2, <1>4
  <1>7. QED
    BY <1>5, <1>6

\* A worker that was never started has no timers and no passes.
LEMMA WorkerInitially == EdgesInit => WorkerInv
  <1> SUFFICES ASSUME W!WorkerInit PROVE WorkerInv
    BY DEF EdgesInit
  <1>1. \A k \in Passes : pass[k] = [kind |-> "none", pc |-> "none", rows |-> {}]
    BY DEF W!WorkerInit, W!NoPass
  <1>2. WorkerTypes
    <2>1. receipts = << >> /\ up = "down" /\ timers = 0 /\ {ticking, wanted, market} = {FALSE}
      BY DEF W!WorkerInit
    <2>2. pass = [k \in Passes |-> [kind |-> "none", pc |-> "none", rows |-> {}]]
      BY DEF W!WorkerInit, W!NoPass
    <2>3. pass \in [Passes -> [kind : {"none", "tick", "poll"},
                               pc : {"none", "venus", "work", "select", "index", "over"},
                               rows : SUBSET RowType]]
      BY <2>2
    <2>4. receipts \in Seq(ReceiptType)
      BY <2>1
    <2>5. QED
      BY <2>1, <2>3, <2>4 DEF WorkerTypes
  <1>3. OnePass /\ RowsOpen /\ WantedOrRuns
    BY <1>1 DEF W!WorkerInit, OnePass, RowsOpen, WantedOrRuns, W!Busy
  <1>4. QED
    BY <1>2, <1>3 DEF WorkerInv

\* A pass starts only while none runs.
LEMMA PassStarts ==
    ASSUME WorkerInv, NEW kind \in {"tick", "poll"}, NEW pc \in {"venus", "work"},
           W!Start(kind, pc), ~ticking, up # "down",
           UNCHANGED <<up, market, receipts>>, timers' \in Nat, wanted' \in BOOLEAN
    PROVE  WorkerInv'
  <1> USE DEF WorkerInv, WorkerTypes, OnePass, RowsOpen, W!Busy
  <1>1. PICK k \in Passes : pass' = [pass EXCEPT ![k] = W!Pass(kind, pc)]
    BY DEF W!Start
  <1>2. /\ ticking' = TRUE /\ \A j \in Passes : ~W!Busy(j)
        /\ W!Pass(kind, pc) = [kind |-> kind, pc |-> pc, rows |-> {}]
    BY DEF W!Start, W!Pass
  <1>3. WorkerTypes'
    BY <1>1, <1>2
  <1>4. OnePass'
    BY <1>1, <1>2
  <1>5. \A j \in Passes : pass'[j].rows = {}
    BY <1>1, <1>2
  <1>6. WantedOrRuns'
    BY <1>2 DEF WantedOrRuns
  <1>7. QED
    BY <1>3, <1>4, <1>5, <1>6

\* tick() starts a pass, or remembers that it was wanted.
LEMMA TickKeeps ==
    ASSUME WorkerInv, W!tick, up # "down", UNCHANGED <<up, market, receipts>>, timers' \in Nat
    PROVE  WorkerInv'
  <1>1. CASE ticking
    BY <1>1 DEF W!tick, WorkerInv, WorkerTypes, OnePass, RowsOpen, WantedOrRuns, W!Busy
  <1>2. CASE ~ticking
    <2>1. W!First \in {"venus", "work"} /\ W!Start("tick", W!First) /\ wanted' = FALSE
      BY <1>2 DEF W!tick, W!First
    <2>2. QED
      BY <1>2, <2>1, PassStarts
  <1>3. QED
    BY <1>1, <1>2

\* A step of one pass that leaves the loop alone keeps what is said of the loop.
LEMMA PassGoesOn ==
    ASSUME WorkerInv, NEW k \in Passes, W!Busy(k), UNCHANGED W!Loop, market' \in BOOLEAN,
           receipts' \in Seq(ReceiptType),
           NEW to, to \in [kind : {pass[k].kind}, rows : SUBSET RowType,
                   pc : {"none", "venus", "work", "select", "index", "over"}],
           pass' = [pass EXCEPT ![k] = to]
    PROVE  WorkerTypes' /\ OnePass' /\ WantedOrRuns' /\ W!Busy(k)'
  BY DEF WorkerInv, WorkerTypes, OnePass, WantedOrRuns, W!Busy, W!Loop

\* A final answer stays through a step.
FinalStays == \A n \in DOMAIN receipts : receipts[n].state = "final" => receipts'[n] = receipts[n]

\* The loop, a pass and the Wallet API keep the invariant; no answer is asked for again once it is final.
LEMMA WorkerStep == WorkerInv /\ [W!WorkerNext]_workerVars => WorkerInv' /\ FinalStays
  <1> SUFFICES ASSUME WorkerInv, [W!WorkerNext]_workerVars PROVE WorkerInv' /\ FinalStays
    OBVIOUS
  <1> DEFINE Types == [kind : {"none", "tick", "poll"}, rows : SUBSET RowType,
                       pc : {"none", "venus", "work", "select", "index", "over"}]
  <1>a. /\ up \in {"down", "booting", "running"} /\ ticking \in BOOLEAN /\ wanted \in BOOLEAN
        /\ market \in BOOLEAN /\ timers \in Nat /\ receipts \in Seq(ReceiptType)
        /\ pass \in [Passes -> Types]
    BY DEF WorkerInv, WorkerTypes
  <1>1. ASSUME W!TickFires PROVE WorkerInv' /\ FinalStays
    BY <1>1, <1>a, TickKeeps DEF W!TickFires, FinalStays
  <1>2. ASSUME W!TimerFires PROVE WorkerInv' /\ FinalStays
    BY <1>2, <1>a, TickKeeps DEF W!TimerFires, FinalStays
  <1>3. ASSUME W!jobsPoll PROVE WorkerInv' /\ FinalStays
    BY <1>3, <1>a, PassStarts DEF W!jobsPoll, FinalStays
  <1>4. ASSUME W!VenusRefresh PROVE WorkerInv' /\ FinalStays
    BY <1>4 DEF W!VenusRefresh, W!Loop, W!Busy, WorkerInv, WorkerTypes, OnePass, RowsOpen, WantedOrRuns,
                FinalStays
  <1>5. ASSUME W!Boot PROVE WorkerInv' /\ FinalStays
    <2>1. W!Min(Passes) \in Passes
      <3>1. PICK n \in Passes : Passes = 1..n
        BY WorkerConstants
      <3>2. 1 \in Passes /\ \A x \in Passes : 1 <= x
        BY <3>1
      <3>3. \A m \in Passes : (\A x \in Passes : m <= x) => m = 1
        BY <3>1, <3>2
      <3>4. QED
        BY <3>2, <3>3 DEF W!Min
    <2>2. PICK pc \in {"venus", "work"} :
             pass' = [pass EXCEPT ![W!Min(Passes)] = [kind |-> "tick", pc |-> pc, rows |-> {}]]
      BY <1>5 DEF W!Boot, W!Pass
    <2>3. /\ \A j \in Passes : ~W!Busy(j)
          /\ up' = "booting" /\ ticking' = TRUE /\ market' \in BOOLEAN /\ UNCHANGED <<wanted, timers, receipts>>
      BY <1>5 DEF W!Boot, WorkerInv, OnePass
    <2>4. WorkerTypes' /\ WantedOrRuns'
      BY <1>a, <2>1, <2>2, <2>3 DEF WorkerTypes, WantedOrRuns
    <2>5. OnePass'
      BY <1>a, <2>1, <2>2, <2>3 DEF WorkerInv, OnePass, W!Busy
    <2>6. \A j \in Passes : pass'[j].rows = {}
      BY <1>a, <2>1, <2>2, <2>3 DEF WorkerInv, RowsOpen
    <2>7. QED
      BY <2>3, <2>4, <2>5, <2>6 DEF WorkerInv, RowsOpen, FinalStays
  <1>6. ASSUME W!Die PROVE WorkerInv' /\ FinalStays
    <2>1. pass' = [k \in Passes |-> [kind |-> "none", pc |-> "none", rows |-> {}]]
      BY <1>6 DEF W!Die, W!NoPass
    <2>a. pass' \in [Passes -> Types]
      BY <2>1
    <2>2. WorkerTypes'
      BY <1>6, <1>a, <2>a DEF W!Die, WorkerTypes
    <2>3. OnePass' /\ RowsOpen' /\ WantedOrRuns'
      BY <1>6, <2>1 DEF W!Die, OnePass, RowsOpen, WantedOrRuns, W!Busy
    <2>4. QED
      BY <1>6, <2>2, <2>3 DEF WorkerInv, W!Die, FinalStays
  <1>7. ASSUME NEW k \in Passes, W!venusTick(k) PROVE WorkerInv' /\ FinalStays
    <2>1. W!Busy(k) /\ UNCHANGED W!Loop /\ UNCHANGED receipts /\ market' \in BOOLEAN
      BY <1>7, <1>a DEF W!venusTick, W!Doing, W!Busy
    <2>2. pass' = [pass EXCEPT ![k] = [pass[k] EXCEPT !.pc = "work"]]
      BY <1>7, <1>a DEF W!venusTick, W!Step
    <2>3. WorkerTypes' /\ OnePass' /\ WantedOrRuns'
      BY <1>a, <2>1, <2>2, PassGoesOn
    <2>4. RowsOpen'
      BY <1>a, <2>1, <2>2 DEF WorkerInv, RowsOpen, W!Busy
    <2>5. QED
      BY <2>1, <2>3, <2>4 DEF WorkerInv, FinalStays
  <1>8. ASSUME NEW k \in Passes, W!Work(k) PROVE WorkerInv' /\ FinalStays
    <2>1. W!Busy(k) /\ UNCHANGED W!Loop /\ UNCHANGED market
      BY <1>8, <1>a DEF W!Work, W!Busy, WorkerInv, OnePass
    <2>2. PICK pc \in {"select", "over"} : pass' = [pass EXCEPT ![k] = [pass[k] EXCEPT !.pc = pc]]
      BY <1>8, <1>a DEF W!Work, W!Step
    <2>3. /\ receipts' \in Seq(ReceiptType) /\ DOMAIN receipts \subseteq DOMAIN receipts'
          /\ \A n \in DOMAIN receipts : receipts'[n] = receipts[n]
      <3>1. W!NotAsked \in ReceiptType
        BY DEF W!NotAsked, ReceiptType
      <3>2. receipts' = receipts \/ receipts' = Append(receipts, W!NotAsked)
        BY <1>8 DEF W!Work
      <3>3. ASSUME receipts' = Append(receipts, W!NotAsked)
            PROVE  /\ receipts' \in Seq(ReceiptType) /\ Len(receipts') = Len(receipts) + 1
                   /\ \A n \in 1..Len(receipts) : receipts'[n] = receipts[n]
        BY <1>a, <3>1, <3>3
      <3>4. \A s \in Seq(ReceiptType) : DOMAIN s = 1..Len(s) /\ Len(s) \in Nat
        OBVIOUS
      <3>5. CASE receipts' = receipts
        BY <1>a, <3>5
      <3>6. CASE receipts' = Append(receipts, W!NotAsked)
        <4>1. DOMAIN receipts = 1..Len(receipts) /\ DOMAIN receipts' = 1..Len(receipts')
          BY <1>a, <3>3, <3>4, <3>6
        <4>2. 1..Len(receipts) \subseteq 1..(Len(receipts) + 1)
          BY <1>a, <3>4
        <4>3. QED
          BY <3>3, <3>6, <4>1, <4>2
      <3>7. QED
        BY <3>2, <3>5, <3>6
    <2>4. WorkerTypes' /\ OnePass' /\ WantedOrRuns'
      BY <1>a, <2>1, <2>2, <2>3, PassGoesOn
    <2>5. RowsOpen'
      BY <1>a, <2>1, <2>2, <2>3 DEF WorkerInv, RowsOpen, W!Busy
    <2>6. QED
      BY <2>3, <2>4, <2>5 DEF WorkerInv, FinalStays
  <1>9. ASSUME NEW k \in Passes, W!Select(k) PROVE WorkerInv' /\ FinalStays
    <2> DEFINE rows == {[n |-> n, was |-> receipts[n]] : n \in W!receiptsToIndex}
    <2>1. W!Busy(k) /\ UNCHANGED W!Loop /\ UNCHANGED <<market, receipts>>
      BY <1>9 DEF W!Select, W!Doing, W!Busy
    <2>2. pass' = [pass EXCEPT ![k] = [pass[k] EXCEPT !.pc = "index", !.rows = rows]]
      BY <1>9, <1>a DEF W!Select
    <2>3. \A n \in W!receiptsToIndex : n \in DOMAIN receipts /\ receipts[n].state # "final"
      BY DEF W!receiptsToIndex, W!Open
    <2>4. rows \subseteq RowType
      BY <1>a, <2>3 DEF RowType
    <2>5. \A x \in rows : /\ x.n \in DOMAIN receipts /\ receipts[x.n].state # "final"
                          /\ \A y \in rows : y.n = x.n => y = x
      BY <2>3
    <2> HIDE DEF rows
    <2>6. WorkerTypes' /\ OnePass' /\ WantedOrRuns' /\ W!Busy(k)'
      BY <1>a, <2>1, <2>2, <2>4, PassGoesOn
    <2>7. RowsOpen'
      BY <1>a, <2>1, <2>2, <2>5, <2>6 DEF WorkerInv, RowsOpen, W!Busy
    <2>8. QED
      BY <2>1, <2>6, <2>7 DEF WorkerInv, FinalStays
  <1>10. ASSUME NEW k \in Passes, W!indexReceipts(k) PROVE WorkerInv' /\ FinalStays
    <2>1. W!Busy(k) /\ UNCHANGED W!Loop /\ UNCHANGED market
      BY <1>10 DEF W!indexReceipts, W!Doing, W!Busy
    <2>2. CASE pass[k].rows = {}
      <3>1. pass' = [pass EXCEPT ![k] = [pass[k] EXCEPT !.pc = "over"]] /\ UNCHANGED receipts
        BY <1>10, <1>a, <2>2 DEF W!indexReceipts, W!Step
      <3>2. WorkerTypes' /\ OnePass' /\ WantedOrRuns'
        BY <1>a, <2>1, <3>1, PassGoesOn
      <3>3. RowsOpen'
        BY <1>a, <2>1, <3>1 DEF WorkerInv, RowsOpen, W!Busy
      <3>4. QED
        BY <3>1, <3>2, <3>3 DEF WorkerInv, FinalStays
    <2>3. CASE pass[k].rows # {}
      <3> DEFINE row == CHOOSE x \in pass[k].rows : \A y \in pass[k].rows : y.n <= x.n
      <3>1. row \in pass[k].rows
        <4>1. \A x \in pass[k].rows : x.n \in 0..Len(receipts)
          BY <1>a DEF WorkerInv, RowsOpen
        <4>2. PICK m \in {x.n : x \in pass[k].rows} : \A n \in {x.n : x \in pass[k].rows} : n <= m
          <5>1. {x.n : x \in pass[k].rows} \subseteq 0..Len(receipts) /\ {x.n : x \in pass[k].rows} # {}
            BY <2>3, <4>1
          <5>2. Len(receipts) \in Nat
            BY <1>a
          <5>3. QED
            BY <5>1, <5>2, GreatestOf
        <4>3. \E x \in pass[k].rows : \A y \in pass[k].rows : y.n <= x.n
          BY <4>2
        <4>4. QED
          BY <4>3
      <3> HIDE DEF row
      <3>2. /\ pass' = [pass EXCEPT ![k] = [pass[k] EXCEPT !.rows = pass[k].rows \ {row}]]
            /\ \/ UNCHANGED receipts
               \/ \E answer \in W!Answer(row.was) : receipts' = [receipts EXCEPT ![row.n] = answer]
        BY <1>10, <1>a, <2>3 DEF W!indexReceipts, row
      <3>3. W!Answer(row.was) \subseteq ReceiptType
        <4>1. row.was \in ReceiptType
          BY <1>a, <3>1 DEF RowType
        <4>2. \A tries \in Nat : W!Min({2, tries + 1}) \in Nat
          <5>1. TAKE tries \in Nat
          <5>2. \E m \in {2, tries + 1} : \A x \in {2, tries + 1} : m <= x
            <6>1. CASE tries + 1 <= 2
              BY <6>1
            <6>2. CASE 2 <= tries + 1
              BY <6>2
            <6>3. QED
              BY <6>1, <6>2
          <5>3. W!Min({2, tries + 1}) \in {2, tries + 1}
            BY <5>2 DEF W!Min
          <5>4. QED
            BY <5>3
        <4>3. QED
          BY <4>1, <4>2 DEF W!Answer, ReceiptType
      <3>4. row.n \in DOMAIN receipts /\ receipts[row.n].state # "final"
        BY <3>1 DEF WorkerInv, RowsOpen
      <3>5. /\ receipts' \in Seq(ReceiptType) /\ DOMAIN receipts' = DOMAIN receipts
            /\ \A n \in DOMAIN receipts : n # row.n => receipts'[n] = receipts[n]
        BY <1>a, <3>2, <3>3, <3>4
      <3>6. WorkerTypes' /\ OnePass' /\ WantedOrRuns' /\ W!Busy(k)'
        <4>1. [pass[k] EXCEPT !.rows = pass[k].rows \ {row}]
              \in [kind : {pass[k].kind}, rows : SUBSET RowType,
                   pc : {"none", "venus", "work", "select", "index", "over"}]
          BY <1>a
        <4>2. QED
          BY <1>a, <2>1, <3>2, <3>5, <4>1, PassGoesOn
      <3>7. \A x \in pass[k].rows \ {row} : x.n # row.n
        BY <3>1 DEF WorkerInv, RowsOpen
      <3>8. \A j \in Passes \ {k} : pass'[j] = pass[j] /\ pass[j].rows = {}
        BY <1>a, <2>1, <3>2 DEF WorkerInv, RowsOpen, OnePass
      <3>9. RowsOpen'
        BY <1>a, <3>2, <3>5, <3>6, <3>7, <3>8 DEF WorkerInv, RowsOpen
      <3>10. QED
        BY <3>4, <3>5, <3>6, <3>9 DEF WorkerInv, FinalStays
    <2>4. QED
      BY <2>2, <2>3
  <1>11. ASSUME NEW k \in Passes, W!PassEnds(k) PROVE WorkerInv' /\ FinalStays
    <2>1. W!Busy(k) /\ \A j \in Passes \ {k} : ~W!Busy(j) /\ pass[j].rows = {}
      BY <1>11 DEF W!PassEnds, WorkerInv, OnePass, RowsOpen
    <2>2. pass' = [pass EXCEPT ![k] = [kind |-> "none", pc |-> "none", rows |-> {}]]
      BY <1>11 DEF W!PassEnds, W!NoPass
    <2>3. /\ ticking' = FALSE /\ up' = "running" /\ UNCHANGED <<wanted, market, receipts>>
          /\ timers' \in Nat /\ (wanted => timers' > 0)
      BY <1>11, <1>a DEF W!PassEnds
    <2>4. WorkerTypes' /\ WantedOrRuns'
      BY <1>a, <2>2, <2>3 DEF WorkerTypes, WantedOrRuns
    <2>5. \A j \in Passes : pass'[j].rows = {} /\ ~W!Busy(j)'
      BY <1>a, <2>1, <2>2 DEF W!Busy
    <2>6. OnePass' /\ RowsOpen'
      BY <1>a, <2>1, <2>2, <2>3, <2>5 DEF WorkerInv, OnePass, RowsOpen, W!Busy
    <2>7. QED
      BY <2>3, <2>4, <2>6 DEF WorkerInv, FinalStays
  <1>12. ASSUME UNCHANGED workerVars PROVE WorkerInv' /\ FinalStays
    BY <1>12 DEF workerVars, W!Busy, WorkerInv, WorkerTypes, OnePass, RowsOpen, WantedOrRuns, FinalStays
  <1>13. QED
    BY <1>1, <1>2, <1>3, <1>4, <1>5, <1>6, <1>7, <1>8, <1>9, <1>10, <1>11, <1>12 DEF W!WorkerNext

\* The worker's model counts as FiniteSets does.
LEMMA SameSize == \A s : W!Cardinality(s) = Cardinality(s)
  BY DEF W!Cardinality, Cardinality

\* What runs has the lock alone, so no two passes are busy; a wanted tick has a pass or a timer after it.
LEMMA OneSigns == WorkerInv => OneSigner
  <1> SUFFICES ASSUME WorkerInv PROVE W!OneSigner /\ W!WantedKept
    BY DEF OneSigner
  <1>1. W!OneSigner
    <2>1. CASE {k \in Passes : W!Busy(k)} = {}
      BY <2>1, SameSize, FS_EmptySet DEF W!OneSigner
    <2>2. CASE {k \in Passes : W!Busy(k)} # {}
      <3>1. PICK k \in Passes : {j \in Passes : W!Busy(j)} = {k}
        BY <2>2 DEF WorkerInv, OnePass
      <3>2. QED
        BY <3>1, SameSize, FS_Singleton DEF W!OneSigner
    <2>3. QED
      BY <2>1, <2>2
  <1>2. W!WantedKept
    BY DEF W!WantedKept, WorkerInv, WantedOrRuns, OnePass
  <1>3. QED
    BY <1>1, <1>2

\* Never do two passes of the worker sign side by side, a tick and a job poll or two of either, and
\* a tick asked for meanwhile is not forgotten (worker.ts).
THEOREM OneSignerHolds == EdgesSpec => []OneSigner
  <1>1. EdgesInit => WorkerInv
    BY WorkerInitially
  <1>2. WorkerInv /\ [EdgesNext]_edgesVars => WorkerInv'
    BY WorkerSteps, WorkerStep
  <1>3. QED
    BY <1>1, <1>2, OneSigns, PTL DEF EdgesSpec

\* What the Wallet API called final of a receipt is never written over, by whichever pass (worker.ts).
THEOREM FinalIsKept == EdgesSpec => FinalKept
  <1>1. EdgesInit => WorkerInv
    BY WorkerInitially
  <1>2. WorkerInv /\ [EdgesNext]_edgesVars => WorkerInv'
    BY WorkerSteps, WorkerStep
  <1>3. WorkerInv /\ [EdgesNext]_edgesVars
          => [\A n \in DOMAIN receipts : receipts[n].state = "final" => receipts'[n] = receipts[n]]_workerVars
    BY WorkerSteps, WorkerStep DEF FinalStays
  <1>4. QED
    BY <1>1, <1>2, <1>3, PTL DEF EdgesSpec, FinalKept, W!FinalKept, workerVars, W!workerVars

-----------------------------------------------------------------------------
(* Telling ops                                                             *)

\* The same of the alerts.
LEMMA AlertSteps == [EdgesNext]_edgesVars => [A!AlertNext]_alertVars
  BY DEF EdgesNext, OthersStill, Still, edgesVars, alertVars

AlertTypes == /\ told \in [A!Keys -> Nat] /\ telling \in [Watchers -> SUBSET A!Keys]
              /\ lastSent \in [Watchers -> SUBSET A!Keys]

\* A finding that waits to be told is stored, waits with one process only, and was never told.
Untold == \A key \in A!Findings : \A p \in Watchers : key \in telling[p] =>
    key \in dxEvents /\ told[key] = 0 /\ \A q \in Watchers : key \in telling[q] => q = p
Once == \A key \in A!Findings : told[key] <= 1 /\ (told[key] > 0 => key \in dxEvents)

AlertInv == AlertTypes /\ Untold /\ Once

\* What the alert model calls the least of two numbers.
LEMMA LeastOfTwo == ASSUME NEW x \in Nat, NEW y \in Nat
                    PROVE  A!Min({x, y}) = IF x <= y THEN x ELSE y
  <1> DEFINE m == IF x <= y THEN x ELSE y
  <1>1. m \in {x, y} /\ \A z \in {x, y} : m <= z
    OBVIOUS
  <1>2. \A n \in {x, y} : (\A z \in {x, y} : n <= z) => n = m
    BY <1>1
  <1>3. QED
    BY <1>1, <1>2 DEF A!Min

\* A failed cycle's key is no finding's.
LEMMA FailuresApart == \A key \in Failures : A!Failed(key) \in A!Keys \ A!Findings
  <1>1. \A row : A!dxFindingOf(row) # "failed"
    BY DEF A!dxFindingOf
  <1>2. QED
    BY <1>1 DEF A!Failed, A!Keys, A!Findings, A!Key

\* Nothing is stored or waits to be told.
LEMMA AlertInitially == EdgesInit => AlertInv
  <1> SUFFICES ASSUME A!AlertInit PROVE AlertInv
    BY DEF EdgesInit
  <1>1. \A key \in A!Findings : key \in A!Keys
    BY DEF A!Keys
  <1>2. QED
    BY <1>1 DEF A!AlertInit, AlertInv, AlertTypes, Untold, Once

\* A finding is handed out once, by the insert that stored it, and never after it was told.
LEMMA AlertStep == AlertInv /\ [A!AlertNext]_alertVars => AlertInv'
  <1> SUFFICES ASSUME AlertInv, [A!AlertNext]_alertVars PROVE AlertInv'
    OBVIOUS
  <1> USE DEF AlertInv, AlertTypes, Untold, Once
  <1>1. ASSUME NEW p \in Watchers, NEW row \in Rows, A!recordDxEvent(p, row) PROVE AlertInv'
    <2>1. A!Key(row) \in A!Findings /\ A!Key(row) \in A!Keys
      BY <1>1 DEF A!recordDxEvent, A!Findings, A!Keys
    <2>2. QED
      BY <1>1, <2>1 DEF A!recordDxEvent
  <1>2. ASSUME A!markDxEventsLogged PROVE AlertInv'
    BY <1>2 DEF A!markDxEventsLogged
  <1>3. ASSUME NEW p \in Watchers, A!cycleAlert(p) PROVE AlertInv'
    BY <1>3, FailuresApart DEF A!cycleAlert
  <1>4. ASSUME NEW p \in Watchers, A!send(p) PROVE AlertInv'
    <2>1. PICK key \in telling[p] :
             /\ telling' = [telling EXCEPT ![p] = @ \ {key}]
             /\ \/ UNCHANGED <<lastSent, told>>
                \/ /\ lastSent' = [lastSent EXCEPT ![p] = @ \cup {key}]
                   /\ told' \in {told, [told EXCEPT ![key] = A!Min({MaxTold, @ + 1})]}
      BY <1>4 DEF A!send
    <2>2. key \in A!Keys /\ told[key] \in Nat /\ UNCHANGED dxEvents
      BY <1>4 DEF A!send
    <2>3. A!Min({MaxTold, told[key] + 1}) \in Nat /\ A!Min({MaxTold, told[key] + 1}) <= told[key] + 1
      BY <2>2, LeastOfTwo, AlertConstants
    <2>4. \A q \in Watchers : key \in A!Findings => key \notin telling'[q]
      BY <2>1
    <2>5. AlertTypes'
      BY <2>1, <2>2, <2>3
    <2>6. \A k \in A!Findings : k \in A!Keys /\ (k # key => told'[k] = told[k])
      BY <2>1, <2>2 DEF A!Keys
    <2>7. key \in A!Findings => key \in dxEvents /\ told'[key] \in 0..1
      BY <2>1, <2>2, <2>3
    <2>8. Once'
      BY <2>2, <2>6, <2>7
    <2>9. Untold'
      <3>1. \A q \in Watchers : telling'[q] \subseteq telling[q]
        BY <2>1
      <3>2. QED
        BY <2>2, <2>4, <2>6, <3>1
    <2>10. QED
      BY <2>5, <2>8, <2>9
  <1>5. ASSUME NEW p \in Watchers, A!HourPasses(p) PROVE AlertInv'
    BY <1>5 DEF A!HourPasses
  <1>6. ASSUME NEW p \in Watchers, A!Restart(p) PROVE AlertInv'
    BY <1>6 DEF A!Restart
  <1>7. ASSUME UNCHANGED alertVars PROVE AlertInv'
    BY <1>7 DEF alertVars
  <1>8. QED
    BY <1>1, <1>2, <1>3, <1>4, <1>5, <1>6, <1>7 DEF A!AlertNext

\* Ops hear of a finding at most once, however many processes see it, and however many die between
\* storing it and telling it (dx-watch.ts).
THEOREM ToldAtMostOnce == EdgesSpec => []ToldOnce
  <1>1. EdgesInit => AlertInv
    BY AlertInitially
  <1>2. AlertInv /\ [EdgesNext]_edgesVars => AlertInv'
    BY AlertSteps, AlertStep
  <1>3. AlertInv => ToldOnce
    BY DEF AlertInv, Once, ToldOnce, A!ToldOnce
  <1>4. QED
    BY <1>1, <1>2, <1>3, PTL DEF EdgesSpec

-----------------------------------------------------------------------------
(* The market tape                                                         *)

\* The same of the tape.
LEMMA TapeSteps == [EdgesNext]_edgesVars => [T!TapeNext]_tapeVars
  BY DEF EdgesNext, OthersStill, Still, edgesVars, tapeVars

KeysApart(rows) == \A x, y \in rows : T!Key(x) = T!Key(y) => x = y
TapeInv == /\ KeysApart(tape) /\ DOMAIN rec = Recorders
           /\ \A r \in Recorders : DOMAIN rec[r] = {"pc", "slot", "from", "rows"} /\ KeysApart(rec[r].rows)

\* No row is stored and no recorder has any.
LEMMA TapeInitially == EdgesInit => TapeInv
  <1> SUFFICES ASSUME T!TapeInit PROVE TapeInv
    BY DEF EdgesInit
  <1>1. QED
    BY DEF T!TapeInit, TapeInv, KeysApart, T!Idle

\* A recorder has one row for a token and size of its slot; an insert leaves out keys already stored.
LEMMA TapeStep == TapeInv /\ [T!TapeNext]_tapeVars => TapeInv'
  <1> SUFFICES ASSUME TapeInv, [T!TapeNext]_tapeVars PROVE TapeInv'
    OBVIOUS
  <1> DEFINE Shaped(to) == DOMAIN to = {"pc", "slot", "from", "rows"} /\ KeysApart(to.rows)
  <1>a. ASSUME NEW r \in Recorders, NEW to, Shaped(to), rec' = [rec EXCEPT ![r] = to], KeysApart(tape')
        PROVE  TapeInv'
    BY <1>a DEF TapeInv, KeysApart
  <1>b. Shaped(T!Idle)
    BY DEF T!Idle, KeysApart
  <1>c. KeysApart(tape) /\ \A r \in Recorders : Shaped(rec[r])
    BY DEF TapeInv
  <1>1. ASSUME NEW r \in Recorders, T!Begin(r) PROVE TapeInv'
    <2>1. PICK slot : rec' = [rec EXCEPT ![r] = [rec[r] EXCEPT !.pc = "list", !.slot = slot]] /\ UNCHANGED tape
      BY <1>1 DEF T!Begin
    <2>2. Shaped([rec[r] EXCEPT !.pc = "list", !.slot = slot])
      BY <1>c
    <2>3. QED
      BY <1>a, <1>c, <2>1, <2>2
  <1>2. ASSUME NEW r \in Recorders, T!ListInstruments(r) PROVE TapeInv'
    <2>1. PICK to \in {T!Idle, [rec[r] EXCEPT !.pc = "sample", !.from = DOMAIN instruments]} :
             rec' = [rec EXCEPT ![r] = to] /\ UNCHANGED tape
      BY <1>2 DEF T!ListInstruments
    <2>2. Shaped(to)
      BY <1>b, <1>c
    <2>3. QED
      BY <1>a, <1>c, <2>1, <2>2
  <1>3. ASSUME NEW r \in Recorders, T!SampleTape(r) PROVE TapeInv'
    <2>1. PICK feed \in BOOLEAN, stock \in T!StockQuote, n \in 0..MaxBad[r] :
             \E bad \in T!kSubset(n, rec[r].from \X SIZES) :
                rec' = [rec EXCEPT ![r] = [@ EXCEPT !.pc = "insert", !.rows = T!Samples(r, feed, stock, bad)]]
      BY <1>3, Zenon DEF T!SampleTape
    <2>2. PICK bad : rec' = [rec EXCEPT ![r] = [rec[r] EXCEPT !.pc = "insert",
                                                              !.rows = T!Samples(r, feed, stock, bad)]]
      BY <2>1
    <2>3. \A t, size : T!Key(T!Row(r, t, size, feed, stock, bad)) = <<rec[r].slot, t, size>>
      BY DEF T!Key, T!Row
    <2>4. KeysApart(T!Samples(r, feed, stock, bad))
      BY <2>3 DEF KeysApart, T!Samples
    <2>5. Shaped([rec[r] EXCEPT !.pc = "insert", !.rows = T!Samples(r, feed, stock, bad)])
      BY <1>c, <2>4
    <2>6. UNCHANGED tape
      BY <1>3 DEF T!SampleTape
    <2>7. QED
      BY <1>a, <1>c, <2>2, <2>5, <2>6
  <1>4. ASSUME NEW r \in Recorders, T!InsertTapeSamples(r) PROVE TapeInv'
    <2>1. KeysApart(tape')
      BY <1>4, <1>c DEF T!InsertTapeSamples, T!Conflicts, KeysApart
    <2>2. QED
      BY <1>4, <1>a, <1>b, <2>1 DEF T!InsertTapeSamples
  <1>5. ASSUME NEW r \in Recorders, T!Fail(r) PROVE TapeInv'
    BY <1>5, <1>a, <1>b, <1>c DEF T!Fail
  <1>6. ASSUME UNCHANGED <<rec, tape>> PROVE TapeInv'
    BY <1>6 DEF TapeInv
  <1>7. QED
    BY <1>1, <1>2, <1>3, <1>4, <1>5, <1>6
       DEF T!TapeNext, T!RefreshRegistry, T!NextSlot, T!CorporateAction, T!ListFollows, tapeVars

\* The tape has one row for a slot, token and size, whichever recorders sample the slot, and whatever
\* they read in it (tape.ts). It is part of TapeTrue.
THEOREM RowsStoredOnce == EdgesSpec => []T!RowsOnce
  <1>1. EdgesInit => TapeInv
    BY TapeInitially
  <1>2. TapeInv /\ [EdgesNext]_edgesVars => TapeInv'
    BY TapeSteps, TapeStep
  <1>3. TapeInv => T!RowsOnce
    BY DEF TapeInv, KeysApart, T!RowsOnce
  <1>4. QED
    BY <1>1, <1>2, <1>3, PTL DEF EdgesSpec

-----------------------------------------------------------------------------
(* The identity wallet's registration                                      *)

\* The same of the registration.
LEMMA RegisterSteps == [EdgesNext]_edgesVars => [R!RegisterNext]_registerVars
  BY DEF EdgesNext, OthersStill, Still, edgesVars, registerVars

FileType == [names : Nat, ver : Nat, where : Wheres \cup {"none"}]
TxType == [nonce : Int, kind : {"none", "register", "set-uri"}, agent : Nat, uri : FileType]
EntryType == [owner : {"identity", "other"}, uri : FileType]
MinedType == [tx : TxType, agent : Nat]
RunType == [pc : {"idle", "held", "owner", "step", "confirm", "api", "rpc", "wait", "over"},
            id : Nat, file : FileType, held : Nat, owner : {"identity", "other", "none"},
            onChain : FileType, tx : TxType, told : Nat]
RegisterTypes ==
    /\ here \in Nat /\ site \in [id : Nat, ver : Nat] /\ crossed \in BOOLEAN
    /\ registry \in Seq(EntryType) /\ mined \in Seq(MinedType)
    /\ pool \subseteq TxType /\ away \subseteq TxType /\ IsFiniteSet(pool)
    /\ run \in [Runs -> RunType]

\* A transaction that may still be mined, or was: its nonce is not past the wallet's; a
\* registration is no longer mined once the wallet has an agent; another is for an agent of the
\* wallet; and each holds what the public site served for it.
Sound(t) ==
    \/ t = R!NoTx
    \/ /\ t.nonce \in 0..Len(mined) /\ t.uri.where = "public"
       /\ \/ /\ t.kind = "register" /\ t.uri.names = R!NoAgent
             /\ crossed \/ R!Own = {} \/ t.nonce < Len(mined)
          \/ t.kind = "set-uri" /\ t.agent \in R!Own /\ t.uri.names = t.agent
TxsSound == (\A t \in pool \cup away : Sound(t)) /\ \A r \in Runs : Sound(run[r].tx)

\* What a run has read still holds where it matters: the file is its AGENT_ID's, the agent it
\* found to be the wallet's is, and an agent it did not find was not registered since.
ReadsHold == \A r \in Runs :
    /\ run[r].pc \notin {"idle", "over"} => run[r].file.names = run[r].id
    /\ R!At(r, "owner") => run[r].id # R!NoAgent
    /\ R!At(r, "step") /\ run[r].id # R!NoAgent /\ run[r].owner = "identity" => run[r].id \in R!Own
    /\ R!At(r, "step") /\ run[r].id = R!NoAgent /\ run[r].held = 0 => crossed \/ R!Own = {}
    /\ run[r].told \in R!Own \cup {R!NoAgent}

MinedOwn == \A i \in DOMAIN mined : mined[i].tx.kind = "register" => mined[i].agent \in R!Own
OwnOne == crossed \/ \A a, b \in R!Own : a = b
EntriesServed == \A a \in R!Own : registry[a].uri.where = "public" /\ registry[a].uri.names \in {R!NoAgent, a}

RegisterInv == RegisterTypes /\ TxsSound /\ ReadsHold /\ MinedOwn /\ OwnOne /\ EntriesServed

\* The registration's model counts as FiniteSets does.
LEMMA RegisterSize == \A s : R!Cardinality(s) = Cardinality(s)
  BY DEF R!Cardinality, Cardinality

\* The wallet's agents are finitely many entries.
LEMMA OwnFinite == ASSUME RegisterTypes PROVE R!Own \subseteq Nat \ {0} /\ IsFiniteSet(R!Own)
  <1>1. Len(registry) \in Nat /\ DOMAIN registry = 1..Len(registry)
    BY DEF RegisterTypes
  <1>2. IsFiniteSet(1..Len(registry))
    BY <1>1, FS_Interval
  <1>3. QED
    BY <1>1, <1>2, FS_Subset DEF R!Own

\* Nothing is registered, signed or read.
LEMMA RegisterInitially == EdgesInit => RegisterInv
  <1> SUFFICES ASSUME R!RegisterInit PROVE RegisterInv
    BY DEF EdgesInit
  <1> USE DEF R!RegisterInit
  <1>1. R!NoFile \in FileType /\ R!NoTx \in TxType /\ R!NoAgent = 0
    BY DEF R!NoFile, R!File, R!NoTx, R!Tx, R!NoAgent, FileType, TxType
  <1>2. \A r \in Runs : run[r] = [pc |-> "idle", id |-> 0, file |-> R!NoFile, held |-> 0, owner |-> "none",
                                  onChain |-> R!NoFile, tx |-> R!NoTx, told |-> 0]
    BY <1>1
  <1>3. run \in [Runs -> RunType]
    BY <1>1 DEF RunType
  <1>4. registry \in Seq(EntryType) /\ mined \in Seq(MinedType) /\ site \in [id : Nat, ver : Nat]
    BY <1>1
  <1>5. RegisterTypes
    BY <1>1, <1>3, <1>4, FS_EmptySet DEF RegisterTypes
  <1>6. R!Own = {}
    BY DEF R!Own
  <1>7. TxsSound /\ ReadsHold /\ MinedOwn /\ OwnOne /\ EntriesServed
    BY <1>1, <1>2, <1>6 DEF TxsSound, Sound, ReadsHold, MinedOwn, OwnOne, EntriesServed, R!At
  <1>8. QED
    BY <1>5, <1>7 DEF RegisterInv

\* A step of a run that leaves the registry and the mined transactions alone.
LEMMA RunStep ==
    ASSUME RegisterInv, NEW r \in Runs, NEW to \in RunType, run' = [run EXCEPT ![r] = to],
           UNCHANGED <<here, site, registry, mined, crossed>>,
           pool' \subseteq TxType, away' \subseteq TxType, IsFiniteSet(pool'),
           \A t \in (pool' \cup away') \ (pool \cup away) : Sound(t),
           Sound(to.tx), to.told \in R!Own \cup {R!NoAgent},
           to.pc \notin {"idle", "over"} => to.file.names = to.id,
           to.pc = "owner" => to.id # R!NoAgent,
           to.pc = "step" /\ to.id # R!NoAgent /\ to.owner = "identity" => to.id \in R!Own,
           to.pc = "step" /\ to.id = R!NoAgent /\ to.held = 0 => crossed \/ R!Own = {}
    PROVE  RegisterInv'
  <1>1. run' \in [Runs -> RunType] /\ run'[r] = to /\ \A q \in Runs \ {r} : run'[q] = run[q]
    BY DEF RegisterInv, RegisterTypes
  <1>2. RegisterTypes'
    BY <1>1 DEF RegisterInv, RegisterTypes
  <1>3. R!Own' = R!Own /\ \A t : Sound(t)' <=> Sound(t)
    BY DEF R!Own, Sound
  <1>4. TxsSound'
    BY <1>1, <1>3 DEF RegisterInv, TxsSound
  <1>5. ReadsHold'
    BY <1>1, <1>3 DEF RegisterInv, ReadsHold, R!At
  <1>6. MinedOwn' /\ OwnOne' /\ EntriesServed'
    BY <1>3 DEF RegisterInv, MinedOwn, OwnOne, EntriesServed
  <1>7. QED
    BY <1>2, <1>4, <1>5, <1>6 DEF RegisterInv

\* Entries are added and agents stay; the wallet's nonce passes what was sound when its own grow.
LEMMA SoundStays ==
    ASSUME RegisterTypes, NEW t \in TxType, Sound(t), Len(mined') \in Nat, Len(mined) <= Len(mined'),
           crossed => crossed', R!Own \subseteq R!Own', R!Own' = R!Own \/ Len(mined) < Len(mined')
    PROVE  Sound(t)'
  BY DEF Sound, RegisterTypes

\* Only for no AGENT_ID and no agent held does a run register; a file is written only for an agent
\* that was the wallet's.
LEMMA NextStep ==
    ASSUME NEW id \in Nat, NEW held_ \in Nat, NEW owner, NEW onChain, NEW uri
    PROVE  LET step == R!nextStep(id, held_, owner, onChain, uri)
           IN  /\ step \in {"refused", "current", "register", "set-uri"}
               /\ step = "register" => id = R!NoAgent /\ held_ = 0
               /\ step = "set-uri" => id # R!NoAgent /\ owner = "identity"
  <1>1. CASE id = R!NoAgent
    <2>1. CASE held_ = 0
      BY <1>1, <2>1 DEF R!nextStep, R!NoAgent
    <2>2. CASE held_ > 0
      BY <1>1, <2>2 DEF R!nextStep, R!NoAgent
    <2>3. QED
      BY <2>1, <2>2
  <1>2. CASE id # R!NoAgent /\ owner # "identity"
    BY <1>2 DEF R!nextStep
  <1>3. CASE id # R!NoAgent /\ owner = "identity"
    BY <1>3 DEF R!nextStep
  <1>4. QED
    BY <1>1, <1>2, <1>3

\* Nothing pending: the nonce signed is the wallet's next.
LEMMA NonceNext ==
    ASSUME RegisterTypes, ~(R!pendingNonce > R!latestNonce)
    PROVE  R!pendingNonce = Len(mined)
  <1> DEFINE open == {t \in pool : t.nonce >= Len(mined)}
  <1>1. IsFiniteSet(open)
    BY FS_Subset DEF RegisterTypes
  <1>2. Cardinality(open) \in Nat /\ Len(mined) \in Nat
    BY <1>1, FS_CardinalityType DEF RegisterTypes
  <1>3. R!pendingNonce = Len(mined) + Cardinality(open) /\ R!latestNonce = Len(mined)
    BY RegisterSize DEF R!pendingNonce, R!latestNonce
  <1> HIDE DEF open
  <1>4. QED
    BY <1>2, <1>3

\* Each step of a run is one RunStep allows.
LEMMA RunsKeep ==
    ASSUME RegisterInv, NEW r \in Runs,
           \/ R!Fetch(r) \/ R!ReadHeld(r) \/ R!ReadOwner(r) \/ R!Rehearse(r) \/ R!Confirm(r)
           \/ R!SendApi(r) \/ R!SendRpc(r) \/ R!Wait(r) \/ R!Stop(r)
    PROVE  RegisterInv'
  <1>a. /\ run[r] \in RunType /\ run \in [Runs -> RunType] /\ Sound(run[r].tx)
        /\ run[r].told \in R!Own \cup {R!NoAgent}
        /\ run[r].pc \notin {"idle", "over"} => run[r].file.names = run[r].id
        /\ pool \subseteq TxType /\ away \subseteq TxType /\ IsFiniteSet(pool)
        /\ here \in Nat /\ site \in [id : Nat, ver : Nat]
        /\ registry \in Seq(EntryType) /\ mined \in Seq(MinedType)
    BY DEF RegisterInv, RegisterTypes, TxsSound, ReadsHold
  <1>b. ASSUME NEW pc \in {"api", "rpc", "wait", "over"}, run[r].pc # "idle", run[r].pc # "over",
               run' = [run EXCEPT ![r] = [run[r] EXCEPT !.pc = pc]],
               UNCHANGED <<here, site, registry, mined, crossed>>,
               pool' \in {pool, pool \cup {run[r].tx}}, away' \in {away, away \cup {run[r].tx}}
        PROVE  RegisterInv'
    <2> DEFINE to == [run[r] EXCEPT !.pc = pc]
    <2>1. to \in RunType /\ to.tx = run[r].tx /\ to.told = run[r].told /\ to.pc = pc
          /\ to.file = run[r].file /\ to.id = run[r].id /\ run[r].tx \in TxType
      BY <1>a DEF RunType
    <2>2. IsFiniteSet(pool') /\ pool' \subseteq TxType /\ away' \subseteq TxType
      <3>1. IsFiniteSet(pool \cup {run[r].tx})
        BY <1>a, FS_AddElement
      <3>2. IsFiniteSet(pool')
        BY <1>a, <1>b, <3>1
      <3>3. QED
        BY <1>a, <1>b, <2>1, <3>2
    <2>3. \A t \in (pool' \cup away') \ (pool \cup away) : Sound(t)
      BY <1>a, <1>b
    <2> HIDE DEF to
    <2>4. run' = [run EXCEPT ![r] = to]
      BY <1>b DEF to
    <2>5. Sound(to.tx) /\ to.told \in R!Own \cup {R!NoAgent} /\ to.file.names = to.id
          /\ to.pc \notin {"step", "owner"}
      BY <1>a, <1>b, <2>1
    <2>6. QED
      BY <1>b, <2>1, <2>2, <2>3, <2>4, <2>5, RunStep
  <1>c. ASSUME NEW to \in RunType, run' = [run EXCEPT ![r] = to], UNCHANGED R!World, UNCHANGED crossed,
               Sound(to.tx), to.told \in R!Own \cup {R!NoAgent},
               to.pc \notin {"idle", "over"} => to.file.names = to.id,
               to.pc = "owner" => to.id # R!NoAgent,
               to.pc = "step" /\ to.id # R!NoAgent /\ to.owner = "identity" => to.id \in R!Own,
               to.pc = "step" /\ to.id = R!NoAgent /\ to.held = 0 => crossed \/ R!Own = {}
        PROVE  RegisterInv'
    BY <1>a, <1>c, RunStep DEF R!World
  <1>1. CASE R!Fetch(r)
    <2>1. PICK where \in Wheres : LET file == R!File(site.id, site.ver, where) IN
             run' = [run EXCEPT ![r] = [run[r] EXCEPT !.file = file, !.id = here,
                                          !.pc = IF R!fileProblem(file, here) THEN "over" ELSE "held"]]
      BY <1>1, <1>a DEF R!Fetch
    <2> DEFINE file == R!File(site.id, site.ver, where)
               pc == IF R!fileProblem(file, here) THEN "over" ELSE "held"
               to == [run[r] EXCEPT !.file = file, !.id = here, !.pc = pc]
    <2>2. file \in FileType
      BY <1>a DEF R!File, FileType
    <2>3. pc \in {"over", "held"} /\ (pc = "held" => file.names = here)
      BY DEF R!fileProblem
    <2> HIDE DEF file, pc
    <2>4. to \in RunType /\ to.tx = run[r].tx /\ to.told = run[r].told /\ to.pc = pc
          /\ to.file = file /\ to.id = here
      BY <1>a, <2>2, <2>3 DEF RunType
    <2>5. run' = [run EXCEPT ![r] = to]
      BY <2>1 DEF file, pc
    <2> HIDE DEF to
    <2>6. UNCHANGED R!World /\ UNCHANGED crossed
      BY <1>1 DEF R!Fetch
    <2>7. QED
      BY <1>a, <1>c, <2>3, <2>4, <2>5, <2>6
  <1>2. CASE R!ReadHeld(r)
    <2> DEFINE n == R!Cardinality(R!Own)
               to == [run[r] EXCEPT !.held = n, !.pc = IF run[r].id = R!NoAgent THEN "step" ELSE "owner"]
    <2>1. n \in Nat /\ (n = 0 => R!Own = {})
      <3>1. IsFiniteSet(R!Own)
        BY OwnFinite DEF RegisterInv
      <3>2. QED
        BY <3>1, RegisterSize, FS_CardinalityType, FS_EmptySet
    <2> HIDE DEF n
    <2>2. /\ to \in RunType /\ to.tx = run[r].tx /\ to.told = run[r].told /\ to.held = n
          /\ to.file = run[r].file /\ to.id = run[r].id /\ (to.pc = "step" <=> to.id = R!NoAgent)
      BY <1>a, <2>1 DEF RunType
    <2>3. run' = [run EXCEPT ![r] = to] /\ UNCHANGED R!World /\ UNCHANGED crossed /\ run[r].pc = "held"
      BY <1>2, <1>a DEF R!ReadHeld, R!At, n
    <2> HIDE DEF to
    <2>4. QED
      BY <1>a, <1>c, <2>1, <2>2, <2>3
  <1>3. CASE R!ReadOwner(r)
    <2> DEFINE id == run[r].id
               owns == IF id \in DOMAIN registry THEN registry[id].owner ELSE "none"
               uri == IF id \in DOMAIN registry THEN registry[id].uri ELSE R!NoFile
               to == [run[r] EXCEPT !.pc = "step", !.owner = owns, !.onChain = uri]
    <2>0. id \in DOMAIN registry => registry[id] \in EntryType
      BY <1>a
    <2>1. owns \in {"identity", "other", "none"} /\ (owns = "identity" => id \in R!Own)
      BY <2>0 DEF EntryType, R!Own
    <2>2. uri \in FileType
      BY <2>0 DEF EntryType, R!NoFile, R!File, FileType, R!NoAgent
    <2>3. run' = [run EXCEPT ![r] = to] /\ UNCHANGED R!World /\ UNCHANGED crossed /\ run[r].pc = "owner"
      BY <1>3, <1>a DEF R!ReadOwner, R!At
    <2> HIDE DEF owns, uri
    <2>4. /\ to \in RunType /\ to.tx = run[r].tx /\ to.told = run[r].told /\ to.owner = owns
          /\ to.file = run[r].file /\ to.id = run[r].id /\ to.pc = "step"
      BY <1>a, <2>1, <2>2 DEF RunType
    <2> HIDE DEF to
    <2>5. run[r].file.names = run[r].id /\ run[r].id # R!NoAgent
      BY <1>a, <2>3 DEF RegisterInv, ReadsHold, R!At
    <2>6. QED
      BY <1>a, <1>c, <2>1, <2>3, <2>4, <2>5
  <1>4. CASE R!Rehearse(r)
    <2> DEFINE step == R!nextStep(run[r].id, run[r].held, run[r].owner, run[r].onChain, run[r].file)
               refused == \/ step \in {"refused", "current"} \/ r \notin Broadcasts
                          \/ R!broadcastRefusals(r, R!latestNonce, R!pendingNonce)
               tx == R!Tx(R!pendingNonce, step, run[r].id, run[r].file)
               to == [run[r] EXCEPT !.pc = IF refused THEN "over" ELSE "confirm",
                                    !.tx = IF refused THEN R!NoTx ELSE tx]
    <2>1. /\ run' = [run EXCEPT ![r] = to] /\ UNCHANGED R!World /\ UNCHANGED crossed /\ run[r].pc = "step"
      BY <1>4, <1>a DEF R!Rehearse, R!At
    <2>2. R!NoTx \in TxType /\ Sound(R!NoTx)
      BY DEF R!NoTx, R!Tx, TxType, Sound, R!NoFile, R!File, R!NoAgent, FileType
    <2>3. ASSUME ~refused PROVE tx \in TxType /\ Sound(tx)
      <3>1. R!pendingNonce = Len(mined) /\ Len(mined) \in Nat /\ run[r].file.where = "public"
        BY <1>a, <2>3, NonceNext DEF R!broadcastRefusals, R!siteProblem, RegisterInv
      <3>2. /\ step \in {"register", "set-uri"}
            /\ step = "register" => run[r].id = R!NoAgent /\ run[r].held = 0
            /\ step = "set-uri" => run[r].id # R!NoAgent /\ run[r].owner = "identity"
        BY <1>a, <2>3, NextStep DEF RunType
      <3>3. /\ step = "register" => run[r].file.names = R!NoAgent /\ (crossed \/ R!Own = {})
            /\ step = "set-uri" => run[r].file.names = run[r].id /\ run[r].id \in R!Own
        BY <1>a, <2>1, <3>2 DEF RegisterInv, ReadsHold, R!At
      <3> HIDE DEF step
      <3>4. tx = [nonce |-> Len(mined), kind |-> step, agent |-> run[r].id, uri |-> run[r].file]
        BY <3>1 DEF R!Tx
      <3>5. QED
        BY <1>a, <3>1, <3>2, <3>3, <3>4 DEF TxType, RunType, Sound
    <2> HIDE DEF refused, tx
    <2>4. /\ to \in RunType /\ to.tx \in {R!NoTx, tx} /\ (to.tx = tx => Sound(tx)) /\ to.told = run[r].told
          /\ to.file = run[r].file /\ to.id = run[r].id /\ to.pc \notin {"step", "owner"}
      BY <1>a, <2>2, <2>3 DEF RunType
    <2> HIDE DEF to
    <2>5. QED
      BY <1>a, <1>c, <2>1, <2>2, <2>4
  <1>5. CASE R!Confirm(r)
    BY <1>5, <1>a, <1>b DEF R!Confirm, R!To, R!At, R!World
  <1>6. CASE R!SendApi(r)
    BY <1>6, <1>a, <1>b DEF R!SendApi, R!To, R!At
  <1>7. CASE R!SendRpc(r)
    BY <1>7, <1>a, <1>b DEF R!SendRpc, R!To, R!At
  <1>8. CASE R!Wait(r)
    <2> DEFINE told_ == IF ~R!Receipt(run[r].tx) THEN R!NoAgent
                        ELSE IF run[r].tx.kind = "register" THEN R!RegisteredAs(run[r].tx)
                        ELSE run[r].tx.agent
               to == [run[r] EXCEPT !.pc = "over", !.told = told_]
    <2>1. run' = [run EXCEPT ![r] = to] /\ UNCHANGED R!World /\ UNCHANGED crossed
      BY <1>8, <1>a DEF R!Wait
    <2>2. told_ \in R!Own \cup {R!NoAgent}
      <3>1. CASE ~R!Receipt(run[r].tx)
        BY <3>1
      <3>2. CASE R!Receipt(run[r].tx) /\ run[r].tx.kind = "register"
        BY <3>2 DEF R!Receipt, R!RegisteredAs, RegisterInv, MinedOwn
      <3>3. CASE R!Receipt(run[r].tx) /\ run[r].tx.kind # "register"
        BY <1>a, <3>3 DEF Sound, R!NoTx, R!Tx
      <3>4. QED
        BY <3>1, <3>2, <3>3
    <2>3. told_ \in Nat
      BY <2>2, OwnFinite DEF RegisterInv, R!NoAgent
    <2> HIDE DEF told_
    <2>4. to \in RunType /\ to.tx = run[r].tx /\ to.told = told_ /\ to.pc = "over"
      BY <1>a, <2>3 DEF RunType
    <2> HIDE DEF to
    <2>5. QED
      BY <1>a, <1>c, <2>1, <2>2, <2>4
  <1>9. CASE R!Stop(r)
    BY <1>9, <1>a, <1>b DEF R!Stop, R!To, R!World
  <1>10. QED
    BY <1>1, <1>2, <1>3, <1>4, <1>5, <1>6, <1>7, <1>8, <1>9

\* Who owns what changes only as the wallet registers, or another does.
LEMMA WorldKeeps ==
    ASSUME RegisterInv, UNCHANGED run, here' \in Nat, site' \in [id : Nat, ver : Nat],
           UNCHANGED <<mined, crossed>>, registry' \in Seq(EntryType), R!Own' = R!Own,
           \A a \in R!Own : registry'[a] = registry[a],
           pool' \cup away' \subseteq pool \cup away, IsFiniteSet(pool')
    PROVE  RegisterInv'
  <1>1. RegisterTypes'
    BY DEF RegisterInv, RegisterTypes
  <1>2. \A t : Sound(t)' <=> Sound(t)
    BY DEF Sound
  <1>3. TxsSound' /\ ReadsHold'
    BY <1>2 DEF RegisterInv, TxsSound, ReadsHold, R!At
  <1>4. MinedOwn' /\ OwnOne' /\ EntriesServed'
    BY DEF RegisterInv, MinedOwn, OwnOne, EntriesServed
  <1>5. QED
    BY <1>1, <1>3, <1>4 DEF RegisterInv

\* A registration makes a second agent only when it crossed, as its nonce was taken before;
\* a file is written for an agent the wallet owned.
LEMMA MineKeeps == ASSUME RegisterInv, R!Mine PROVE RegisterInv'
  <1>1. PICK t \in pool \cup away :
           /\ t.nonce = Len(mined)
           /\ mined' = Append(mined, [tx |-> t, agent |-> IF t.kind = "register" THEN Len(registry) + 1
                                                         ELSE t.agent])
           /\ registry' = IF t.kind = "register" THEN Append(registry, [owner |-> "identity", uri |-> t.uri])
                          ELSE [registry EXCEPT ![t.agent].uri = t.uri]
           /\ pool' = pool \ {t} /\ away' = away \ {t}
           /\ crossed' = (crossed \/ (/\ t.kind = "register"
                                      /\ \E r \in Runs : R!At(r, "step") /\ run[r].id = R!NoAgent
                                                         /\ run[r].held = 0))
           /\ UNCHANGED <<here, site, run>>
    BY DEF R!Mine
  <1>2. /\ t \in TxType /\ Sound(t) /\ t # R!NoTx /\ Len(mined) \in Nat /\ Len(registry) \in Nat
        /\ registry \in Seq(EntryType) /\ mined \in Seq(MinedType) /\ DOMAIN registry = 1..Len(registry)
        /\ DOMAIN mined = 1..Len(mined)
        /\ crossed \in BOOLEAN
    <2>1. t \in TxType /\ Sound(t) /\ registry \in Seq(EntryType) /\ mined \in Seq(MinedType)
          /\ crossed \in BOOLEAN
      BY DEF RegisterInv, RegisterTypes, TxsSound
    <2>2. Len(mined) \in Nat /\ Len(registry) \in Nat /\ DOMAIN registry = 1..Len(registry)
          /\ DOMAIN mined = 1..Len(mined)
      BY <2>1
    <2>3. R!NoTx.nonce = -1
      BY DEF R!NoTx, R!Tx
    <2>4. QED
      BY <1>1, <2>1, <2>2, <2>3
  <1> DEFINE new == IF t.kind = "register" THEN Len(registry) + 1 ELSE t.agent
  <1>3. /\ t.uri.where = "public" /\ t.uri \in FileType
        /\ t.kind = "register" => t.uri.names = R!NoAgent /\ (crossed \/ R!Own = {})
        /\ t.kind # "register" => t.agent \in R!Own /\ t.uri.names = t.agent
    BY <1>1, <1>2 DEF Sound, TxType
  <1>4. new \in Nat /\ [tx |-> t, agent |-> new] \in MinedType
    BY <1>2 DEF MinedType, TxType
  <1>5. /\ mined' \in Seq(MinedType) /\ Len(mined') = Len(mined) + 1
        /\ mined'[Len(mined) + 1] = [tx |-> t, agent |-> new]
        /\ \A i \in 1..Len(mined) : mined'[i] = mined[i]
    <2> DEFINE entry == [tx |-> t, agent |-> new]
    <2>1. mined' = Append(mined, entry)
      BY <1>1
    <2> HIDE DEF entry
    <2>2. entry \in MinedType
      BY <1>4 DEF entry
    <2>3. QED
      BY <1>2, <2>1, <2>2 DEF entry
  <1>6. /\ registry' \in Seq(EntryType) /\ new \in DOMAIN registry'
        /\ registry'[new] = [owner |-> "identity", uri |-> t.uri]
        /\ \A a \in DOMAIN registry \ {new} : a \in DOMAIN registry' /\ registry'[a] = registry[a]
        /\ DOMAIN registry' = DOMAIN registry \cup {new}
    <2>1. CASE t.kind = "register"
      <3> DEFINE entry == [owner |-> "identity", uri |-> t.uri]
      <3>1. entry \in EntryType
        BY <1>3 DEF EntryType
      <3>2. registry' = Append(registry, entry) /\ new = Len(registry) + 1
        BY <1>1, <2>1
      <3> HIDE DEF entry, new
      <3>3. registry' \in Seq(EntryType) /\ Len(registry') = Len(registry) + 1
            /\ registry'[Len(registry) + 1] = entry /\ \A a \in 1..Len(registry) : registry'[a] = registry[a]
        BY <1>2, <3>1, <3>2
      <3>4. DOMAIN registry' = 1..(Len(registry) + 1)
        BY <3>3
      <3>5. QED
        BY <1>2, <3>2, <3>3, <3>4 DEF entry
    <2>2. CASE t.kind # "register"
      <3>1. registry' = [registry EXCEPT ![t.agent] = [registry[t.agent] EXCEPT !.uri = t.uri]]
        BY <1>1, <1>2, <2>2
      <3>2. new = t.agent /\ t.agent \in DOMAIN registry /\ registry[t.agent].owner = "identity"
        BY <1>3, <2>2 DEF R!Own
      <3>3. registry[t.agent] \in EntryType
        BY <1>2, <3>2
      <3>4. [registry[t.agent] EXCEPT !.uri = t.uri] = [owner |-> "identity", uri |-> t.uri]
        BY <3>2, <3>3 DEF EntryType
      <3>5. [owner |-> "identity", uri |-> t.uri] \in EntryType
        BY <1>3 DEF EntryType
      <3> HIDE DEF new
      <3>6. QED
        BY <1>2, <3>1, <3>2, <3>4, <3>5
    <2>3. QED
      BY <2>1, <2>2
  <1> HIDE DEF new
  <1>7. R!Own' = R!Own \cup {new} /\ (t.kind # "register" => R!Own' = R!Own)
    <2>1. R!Own' = {a \in DOMAIN registry' : registry'[a].owner = "identity"}
      BY DEF R!Own
    <2>2. t.kind # "register" => new \in R!Own
      BY <1>3 DEF new
    <2>3. t.kind = "register" => new \notin DOMAIN registry
      BY <1>2 DEF new
    <2>4. QED
      BY <1>2, <1>6, <2>1, <2>2, <2>3 DEF R!Own
  <1>8. RegisterTypes'
    <2>1. crossed' \in BOOLEAN
      BY <1>1, <1>2
    <2>2. IsFiniteSet(pool')
      BY <1>1, FS_RemoveElement DEF RegisterInv, RegisterTypes
    <2>3. QED
      BY <1>1, <1>5, <1>6, <2>1, <2>2 DEF RegisterInv, RegisterTypes
  <1>9. TxsSound'
    <2>1. \A u \in TxType : Sound(u) => Sound(u)'
      BY <1>1, <1>2, <1>5, <1>7, SoundStays DEF RegisterInv
    <2>2. \A r \in Runs : run[r].tx \in TxType
      BY DEF RegisterInv, RegisterTypes, RunType
    <2>3. QED
      BY <1>1, <2>1, <2>2 DEF RegisterInv, TxsSound, RegisterTypes
  <1>10. ReadsHold'
    <2>1. \A r \in Runs : R!At(r, "step") /\ run[r].id = R!NoAgent /\ run[r].held = 0
             => crossed' \/ R!Own' = {}
      <3>1. CASE t.kind = "register"
        BY <1>1, <3>1
      <3>2. CASE t.kind # "register"
        BY <1>1, <1>7, <3>2 DEF RegisterInv, ReadsHold
      <3>3. QED
        BY <3>1, <3>2
    <2>2. run' = run /\ R!Own \subseteq R!Own'
      BY <1>1, <1>7
    <2>3. QED
      BY <2>1, <2>2 DEF RegisterInv, ReadsHold, R!At
  <1>11. MinedOwn'
    <2>1. \A i \in DOMAIN mined' : i = Len(mined) + 1 \/ i \in DOMAIN mined
      BY <1>2, <1>5
    <2>2. QED
      BY <1>2, <1>5, <1>7, <2>1 DEF RegisterInv, MinedOwn, MinedType
  <1>12. OwnOne'
    <2>1. CASE t.kind = "register"
      BY <1>1, <1>3, <1>7, <2>1 DEF OwnOne
    <2>2. CASE t.kind # "register"
      BY <1>1, <1>7, <2>2 DEF RegisterInv, OwnOne
    <2>3. QED
      BY <2>1, <2>2
  <1>13. EntriesServed'
    <2>1. registry'[new].uri = t.uri /\ t.uri.where = "public" /\ t.uri.names \in {R!NoAgent, new}
      BY <1>3, <1>6 DEF new
    <2>2. \A a \in R!Own \ {new} : registry'[a] = registry[a]
      BY <1>6 DEF R!Own
    <2>3. QED
      BY <1>7, <2>1, <2>2 DEF RegisterInv, EntriesServed
  <1>14. QED
    BY <1>8, <1>9, <1>10, <1>11, <1>12, <1>13 DEF RegisterInv

\* Every step of a run, the chain, the node and the operator keeps the invariant.
LEMMA RegisterStep == RegisterInv /\ [R!RegisterNext]_registerVars => RegisterInv'
  <1> SUFFICES ASSUME RegisterInv, [R!RegisterNext]_registerVars PROVE RegisterInv'
    OBVIOUS
  <1>a. /\ here \in Nat /\ site \in [id : Nat, ver : Nat] /\ registry \in Seq(EntryType)
        /\ IsFiniteSet(pool) /\ Len(registry) \in Nat /\ DOMAIN registry = 1..Len(registry)
    <2>1. registry \in Seq(EntryType)
      BY DEF RegisterInv, RegisterTypes
    <2>2. Len(registry) \in Nat /\ DOMAIN registry = 1..Len(registry)
      BY <2>1
    <2>3. QED
      BY <2>1, <2>2 DEF RegisterInv, RegisterTypes
  <1>b. UNCHANGED registry => R!Own' = R!Own
    BY DEF R!Own
  <1>1. ASSUME R!Gossip PROVE RegisterInv'
    <2>1. PICK t \in away : pool' = pool \cup {t} /\ away' = away \ {t}
                            /\ UNCHANGED <<here, site, registry, mined, run, crossed>>
      BY <1>1 DEF R!Gossip
    <2>2. IsFiniteSet(pool \cup {t})
      BY <1>a, FS_AddElement
    <2>3. QED
      BY <1>a, <1>b, <2>1, <2>2, WorldKeeps
  <1>2. ASSUME R!Evict PROVE RegisterInv'
    <2>1. PICK t \in pool : pool' = pool \ {t} /\ away' = away \cup {t}
                            /\ UNCHANGED <<here, site, registry, mined, run, crossed>>
      BY <1>2 DEF R!Evict
    <2>2. IsFiniteSet(pool \ {t})
      BY <1>a, FS_RemoveElement
    <2>3. QED
      BY <1>a, <1>b, <2>1, <2>2, WorldKeeps
  <1>3. ASSUME R!OthersRegister PROVE RegisterInv'
    <2> DEFINE entry == [owner |-> "other", uri |-> R!NoFile]
    <2>1. registry' = Append(registry, entry) /\ UNCHANGED <<here, site, mined, pool, away, run, crossed>>
      BY <1>3 DEF R!OthersRegister
    <2>2. entry \in EntryType /\ entry.owner = "other"
      BY DEF EntryType, R!NoFile, R!File, R!NoAgent, FileType
    <2> HIDE DEF entry
    <2>3. /\ registry' \in Seq(EntryType) /\ Len(registry') = Len(registry) + 1
          /\ registry'[Len(registry) + 1] = entry /\ \A a \in 1..Len(registry) : registry'[a] = registry[a]
      BY <1>a, <2>1, <2>2
    <2>4. DOMAIN registry' = 1..(Len(registry) + 1)
      BY <2>3
    <2>5. R!Own' = {a \in DOMAIN registry' : registry'[a].owner = "identity"}
      BY DEF R!Own
    <2>6. R!Own' = R!Own /\ \A a \in R!Own : registry'[a] = registry[a]
      BY <1>a, <2>2, <2>3, <2>4, <2>5 DEF R!Own
    <2>7. QED
      BY <1>a, <2>1, <2>3, <2>6, WorldKeeps
  <1>4. ASSUME R!SetHere PROVE RegisterInv'
    <2>1. here' \in Nat /\ UNCHANGED <<site, registry, mined, pool, away, run, crossed>>
      BY <1>4, <1>a DEF R!SetHere
    <2>2. QED
      BY <1>a, <1>b, <2>1, WorldKeeps
  <1>5. ASSUME R!Deploy PROVE RegisterInv'
    <2>1. site' \in [id : Nat, ver : Nat] /\ UNCHANGED <<here, registry, mined, pool, away, run, crossed>>
      BY <1>5, <1>a DEF R!Deploy
    <2>2. QED
      BY <1>a, <1>b, <2>1, WorldKeeps
  <1>6. ASSUME UNCHANGED registerVars PROVE RegisterInv'
    BY <1>6, <1>a, <1>b, WorldKeeps DEF registerVars
  <1>7. QED
    BY <1>1, <1>2, <1>3, <1>4, <1>5, <1>6, RunsKeep, MineKeeps DEF R!RegisterNext

\* The invariant implies what the run checks of the registry.
LEMMA RegistryHolds == RegisterInv => RegistryTrue
  <1> SUFFICES ASSUME RegisterInv PROVE R!OneAgentUnlessCrossed /\ R!EntryTrue
    BY DEF RegistryTrue
  <1>1. R!EntryTrue
    BY DEF R!EntryTrue, RegisterInv, EntriesServed, ReadsHold
  <1>2. ASSUME ~crossed PROVE Cardinality(R!Own) <= 1
    <2>1. CASE R!Own = {}
      BY <2>1, FS_EmptySet
    <2>2. CASE R!Own # {}
      <3>1. PICK a \in R!Own : R!Own = {a}
        BY <1>2, <2>2 DEF RegisterInv, OwnOne
      <3>2. Cardinality({a}) = 1
        BY FS_Singleton
      <3>3. QED
        BY <3>1, <3>2
    <2>3. QED
      BY <2>1, <2>2
  <1>3. QED
    BY <1>1, <1>2, RegisterSize DEF R!OneAgentUnlessCrossed, R!OneAgent

\* The identity wallet has two agents only where a registration was mined between a run's two reads,
\* and the registry holds what the public site served for the agent it is registered for, however
\* many runs there are, through the API or a node (agent-register.ts).
THEOREM RegistryIsTrue == EdgesSpec => []RegistryTrue
  <1>1. EdgesInit => RegisterInv
    BY RegisterInitially
  <1>2. RegisterInv /\ [EdgesNext]_edgesVars => RegisterInv'
    BY RegisterSteps, RegisterStep
  <1>3. QED
    BY <1>1, <1>2, RegistryHolds, PTL DEF EdgesSpec

-----------------------------------------------------------------------------
(* Deploying the site                                                      *)

\* The same of the site's activation.
LEMMA ActivateSteps == [EdgesNext]_edgesVars => [S!ActivateNext]_activateVars
  BY DEF EdgesNext, OthersStill, Still, edgesVars, activateVars

ActivateTypes ==
    /\ applied \subseteq Nat
    /\ overtaken \in BOOLEAN /\ rolled \in BOOLEAN
    /\ act \in [Acts -> {"idle", "check", "migrate", "write", "rollout", "smoke",
                         "done", "failed", "refused"}]
    /\ back \in [Rollers -> Int]

\* The database holds the first n migrations, and a checked rollback would take back the latest of
\* them or one that is gone already.
FirstOnly == overtaken \/ \E n \in Nat : applied = 1..n /\ \A r \in Rollers : back[r] > 0 => back[r] >= n

\* Nothing was rolled back: the first n, and with them all that a run has made sure of.
Ahead == rolled \/ /\ \E n \in Nat : applied = 1..n
                   /\ \A a \in Acts : a \in wrote \/ S!At(a, "write") => 1..Journal[a] \subseteq applied

\* The versions that answer have secrets a run wrote, or none.
SomeWrote == /\ live \subseteq wrote \cup {S!Nobody} /\ secrets \in wrote \cup {S!Nobody}
             /\ \A a \in Acts : S!At(a, "smoke") \/ S!At(a, "done") => wrote # {}

ActivateInv == ActivateTypes /\ FirstOnly /\ Ahead /\ SomeWrote /\ wrote \subseteq Acts

\* The latest of the first n migrations is the n-th.
LEMMA LatestOfFirst == ASSUME NEW n \in Nat, applied = 1..n PROVE S!latest = n
  <1>1. \A x \in applied \cup {0} : n >= x
    OBVIOUS
  <1>2. n \in applied \cup {0}
    OBVIOUS
  <1>3. \A m \in applied \cup {0} : (\A x \in applied \cup {0} : m >= x) => m = n
    BY <1>1, <1>2
  <1>4. QED
    BY <1>1, <1>2, <1>3 DEF S!latest, S!Max

\* No migration is applied, or the first ones, and nothing is deployed.
LEMMA ActivateInitially == EdgesInit => ActivateInv
  <1> SUFFICES ASSUME S!ActivateInit PROVE ActivateInv
    BY DEF EdgesInit
  <1> USE ActivateConstants DEF S!ActivateInit
  <1>1. \E n \in Nat : applied = 1..n
    OBVIOUS
  <1>2. ActivateTypes
    <2>1. applied \subseteq Nat
      BY <1>1
    <2>2. act \in [Acts -> {"idle", "check", "migrate", "write", "rollout", "smoke",
                            "done", "failed", "refused"}]
      OBVIOUS
    <2>3. back \in [Rollers -> Int] /\ overtaken = FALSE /\ rolled = FALSE
      OBVIOUS
    <2>4. QED
      BY <2>1, <2>2, <2>3 DEF ActivateTypes
  <1>3. FirstOnly
    BY <1>1 DEF FirstOnly
  <1>4. Ahead /\ SomeWrote
    BY <1>1 DEF Ahead, SomeWrote, S!At
  <1>5. QED
    BY <1>2, <1>3, <1>4 DEF ActivateInv

\* A migration adds what follows the latest; it leaves the first ones, a rollback's tag or not.
LEMMA MigrationKeeps ==
    ASSUME ActivateInv, NEW p \in Acts \cup Migrators \cup Rollers, S!migrateDb(p), UNCHANGED <<rolled, back>>
    PROVE  /\ applied \subseteq applied' /\ applied' \subseteq Nat /\ overtaken' \in BOOLEAN
           /\ FirstOnly'
           /\ ~rolled => (\E n \in Nat : applied' = 1..n) /\ 1..Journal[p] \subseteq applied'
  <1> USE ActivateConstants DEF ActivateInv, ActivateTypes, S!migrateDb, S!Pending
  <1>1. Journal[p] \in Nat
    OBVIOUS
  <1>2. ASSUME NEW n \in Nat, applied = 1..n
        PROVE  /\ applied' = 1..(IF Journal[p] > n THEN Journal[p] ELSE n)
               /\ S!Pending(p) = {} <=> Journal[p] <= n
    <2>1. S!Pending(p) = {t \in 1..Journal[p] : t > n}
      BY <1>2, LatestOfFirst
    <2>2. applied' = 1..n \cup {t \in 1..Journal[p] : t > n}
      BY <1>2, <2>1
    <2>3. 1..n \cup {t \in 1..Journal[p] : t > n} = 1..(IF Journal[p] > n THEN Journal[p] ELSE n)
      BY <1>1
    <2>4. {t \in 1..Journal[p] : t > n} = {} <=> Journal[p] <= n
      <3>1. CASE Journal[p] > n
        <4>1. Journal[p] \in {t \in 1..Journal[p] : t > n}
          BY <1>1, <3>1
        <4>2. QED
          BY <1>1, <3>1, <4>1
      <3>2. CASE Journal[p] <= n
        BY <1>1, <3>2
      <3>3. QED
        BY <1>1, <3>1, <3>2
    <2>5. QED
      BY <2>1, <2>2, <2>3, <2>4
  <1>3. FirstOnly'
    <2>1. SUFFICES ASSUME ~overtaken' PROVE FirstOnly'
      BY DEF FirstOnly
    <2>2. PICK n \in Nat : applied = 1..n /\ \A r \in Rollers : back[r] > 0 => back[r] >= n
      BY <2>1 DEF FirstOnly
    <2>3. CASE Journal[p] > n
      <3>1. S!Pending(p) # {}
        BY <1>1, <1>2, <2>2, <2>3
      <3>2. ~\E r \in Rollers : back[r] > 0
        BY <2>1, <3>1, Zenon DEF S!migrateDb
      <3>3. QED
        BY <1>1, <1>2, <2>2, <2>3, <3>2 DEF FirstOnly
    <2>4. CASE ~(Journal[p] > n)
      BY <1>2, <2>2, <2>4 DEF FirstOnly
    <2>5. QED
      BY <2>3, <2>4
  <1>4. applied' \subseteq Nat /\ applied \subseteq applied' /\ overtaken' \in BOOLEAN
    <2>1. \A t \in 1..Journal[p] : t \in Nat
      BY <1>1
    <2>2. QED
      BY <2>1
  <1>5. ASSUME ~rolled PROVE (\E n \in Nat : applied' = 1..n) /\ 1..Journal[p] \subseteq applied'
    <2>1. PICK n \in Nat : applied = 1..n
      BY <1>5 DEF Ahead
    <2>2. QED
      BY <1>1, <1>2, <2>1
  <1>6. QED
    BY <1>3, <1>4, <1>5

\* A boot, an activation and a rollback keep the invariant.
LEMMA ActivateStep == ActivateInv /\ [S!ActivateNext]_activateVars => ActivateInv'
  <1> SUFFICES ASSUME ActivateInv, [S!ActivateNext]_activateVars PROVE ActivateInv'
    OBVIOUS
  <1> USE ActivateConstants
  <1>1. ASSUME NEW p \in Migrators, S!Boot(p) PROVE ActivateInv'
    <2>1. S!migrateDb(p) /\ UNCHANGED <<rolled, secrets, live, act, back, wrote>>
      BY <1>1 DEF S!Boot
    <2>2. /\ applied \subseteq applied' /\ applied' \subseteq Nat /\ overtaken' \in BOOLEAN
          /\ FirstOnly'
          /\ ~rolled => \E n \in Nat : applied' = 1..n
      BY <2>1, MigrationKeeps
    <2>3. QED
      BY <2>1, <2>2 DEF ActivateInv, ActivateTypes, Ahead, SomeWrote, S!At
  <1>2. ASSUME NEW r \in Rollers, S!CheckRollback(r) PROVE ActivateInv'
    <2>1. ASSUME NEW n \in Nat, applied = 1..n PROVE S!latest = n
      BY <2>1, LatestOfFirst
    <2>2. ActivateTypes'
      BY <1>2 DEF ActivateInv, ActivateTypes, S!CheckRollback
    <2>3. FirstOnly'
      BY <1>2, <2>1 DEF ActivateInv, ActivateTypes, S!CheckRollback, FirstOnly
    <2>4. QED
      BY <1>2, <2>2, <2>3 DEF ActivateInv, S!CheckRollback, Ahead, SomeWrote, S!At
  <1>3. ASSUME NEW r \in Rollers, S!Rollback(r) PROVE ActivateInv'
    <2>1. rolled' \in BOOLEAN /\ applied' \subseteq applied
      BY <1>3 DEF ActivateInv, ActivateTypes, S!Rollback
    <2>2. ActivateTypes'
      BY <1>3, <2>1 DEF ActivateInv, ActivateTypes, S!Rollback
    <2>3. FirstOnly'
      <3>1. SUFFICES ASSUME ~overtaken PROVE FirstOnly'
        BY <1>3 DEF FirstOnly, S!Rollback
      <3>2. PICK n \in Nat : applied = 1..n /\ \A q \in Rollers : back[q] > 0 => back[q] >= n
        BY <3>1 DEF ActivateInv, FirstOnly
      <3>3. CASE back[r] \in applied /\ applied' = applied \ {back[r]} 
        <4>1. back[r] = n /\ n > 0
          BY <3>2, <3>3, <1>3 DEF S!Rollback
        <4>2. applied' = 1..(n - 1) /\ n - 1 \in Nat
          BY <4>1, <3>2, <3>3
        <4>3. \A q \in Rollers : back'[q] > 0 => back'[q] >= n - 1
          BY <1>3, <3>2 DEF S!Rollback, ActivateInv, ActivateTypes
        <4>4. QED
          BY <4>2, <4>3 DEF FirstOnly
      <3>4. CASE UNCHANGED applied
        <4>1. \A q \in Rollers : back'[q] > 0 => back'[q] >= n
          BY <1>3, <3>2 DEF S!Rollback, ActivateInv, ActivateTypes
        <4>2. QED
          BY <3>2, <3>4, <4>1 DEF FirstOnly
      <3>5. QED
        BY <1>3, <3>3, <3>4 DEF S!Rollback
    <2>4. QED
      BY <1>3, <2>2, <2>3 DEF ActivateInv, S!Rollback, Ahead, SomeWrote, S!At
  <1>4. ASSUME NEW a \in Acts, S!Ask(a) PROVE ActivateInv'
    BY <1>4 DEF ActivateInv, ActivateTypes, FirstOnly, Ahead, SomeWrote, S!Ask, S!At, S!To, S!Tags, S!WorkerSide
  <1>5. ASSUME NEW a \in Acts, S!CheckDatabase(a) PROVE ActivateInv'
    <2>1. \/ S!To(a, "refused") \/ S!To(a, "migrate")
          \/ S!To(a, "write") /\ 1..Journal[a] \subseteq applied
      BY <1>5 DEF S!CheckDatabase, S!migrationGap
    <2>2. UNCHANGED <<applied, overtaken, rolled, back, secrets, live, wrote>>
      BY <1>5 DEF S!CheckDatabase, S!Tags, S!WorkerSide
    <2>3. QED
      BY <2>1, <2>2 DEF ActivateInv, ActivateTypes, FirstOnly, Ahead, SomeWrote, S!At, S!To
  <1>6. ASSUME NEW a \in Acts, S!ApplyNow(a) PROVE ActivateInv'
    <2>1. /\ S!migrateDb(a) /\ S!To(a, "write")
          /\ UNCHANGED <<rolled, back, secrets, live, wrote>>
      BY <1>6 DEF S!ApplyNow, S!WorkerSide
    <2>2. /\ applied \subseteq applied' /\ applied' \subseteq Nat /\ overtaken' \in BOOLEAN
          /\ FirstOnly'
          /\ ~rolled => (\E n \in Nat : applied' = 1..n) /\ 1..Journal[a] \subseteq applied'
      BY <2>1, MigrationKeeps
    <2>3. QED
      BY <2>1, <2>2 DEF ActivateInv, ActivateTypes, Ahead, SomeWrote, S!At, S!To
  <1>7. ASSUME NEW a \in Acts, S!WriteSecrets(a) PROVE ActivateInv'
    BY <1>7 DEF ActivateInv, ActivateTypes, FirstOnly, Ahead, SomeWrote, S!WriteSecrets, S!Set, S!At, S!To,
                S!Tags, S!WorkerSide
  <1>8. ASSUME NEW a \in Acts, S!RolledOut(a) PROVE ActivateInv'
    BY <1>8 DEF ActivateInv, ActivateTypes, FirstOnly, Ahead, SomeWrote, S!RolledOut, S!Answering, S!At, S!To,
                S!Tags, S!WorkerSide
  <1>9. ASSUME NEW a \in Acts, S!Smoke(a) PROVE ActivateInv'
    BY <1>9 DEF ActivateInv, ActivateTypes, FirstOnly, Ahead, SomeWrote, S!Smoke, S!At, S!To,
                S!Tags, S!WorkerSide
  <1>10. ASSUME S!RollOut PROVE ActivateInv'
    BY <1>10 DEF ActivateInv, ActivateTypes, FirstOnly, Ahead, SomeWrote, S!RollOut, S!At, S!Tags
  <1>11. ASSUME UNCHANGED activateVars PROVE ActivateInv'
    BY <1>11 DEF ActivateInv, ActivateTypes, FirstOnly, Ahead, SomeWrote, activateVars, S!At
  <1>12. QED
    BY <1>1, <1>2, <1>3, <1>4, <1>5, <1>6, <1>7, <1>8, <1>9, <1>10, <1>11 DEF S!ActivateNext

\* The invariant implies what the run checks of the site.
LEMMA SiteHolds == ActivateInv => SiteTrue
  <1> SUFFICES ASSUME ActivateInv PROVE S!NoGap /\ S!SiteReadable
    BY DEF SiteTrue
  <1>1. ASSUME ~overtaken PROVE applied = 1..S!latest
    <2>1. PICK n \in Nat : applied = 1..n
      BY <1>1 DEF ActivateInv, FirstOnly
    <2>2. QED
      BY <2>1, LatestOfFirst
  <1>2. QED
    BY <1>1 DEF S!NoGap, S!SiteReadable, ActivateInv, Ahead, SomeWrote

\* Unless a rollback was overtaken the database holds the journal's first migrations, without a gap;
\* unless something was rolled back, every database the Worker was put on has all migrations of the
\* site that reads it, and an activation that is done has put it on one (cf-activate.ts).
THEOREM SiteKept == EdgesSpec => []SiteTrue
  <1>1. EdgesInit => ActivateInv
    BY ActivateInitially
  <1>2. ActivateInv /\ [EdgesNext]_edgesVars => ActivateInv'
    BY ActivateSteps, ActivateStep
  <1>3. QED
    BY <1>1, <1>2, SiteHolds, PTL DEF EdgesSpec

==================================================================================
