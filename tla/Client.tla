---------------------------------- MODULE Client ---------------------------------
(***************************************************************************)
(* The Binance API client: requests of one process run side by side and    *)
(* share one limiter.  Each attempt takes a slot (RateLimiter.acquire),    *)
(* waits for it, is signed with a fresh timestamp and sent; its answer is  *)
(* recorded, and only then read: returned, thrown, or tried again.         *)
(* Time is counted in ticks, and every time is kept relative to now: a     *)
(* wait is what is left of it, a past moment is negative.  A timer never   *)
(* fires early, and at most Late ticks late.  A step of the event loop     *)
(* runs alone.                                                             *)
(***************************************************************************)
EXTENDS Answers, FiniteSets, Sequences, SequencesExt, FiniteSetsExt

CONSTANTS Calls, Loads,  \* the requests, and which endpoint each may ask (functions of Calls)
          Replies,       \* the answers the gateway may give: [status, code, after]
          MaxSends, Window, Margin,  \* a window's limit: so many in any Window ticks, plus a margin
          Capacity,      \* the bucket holds so many tokens and gains one a tick
          MAX_RETRY_AFTER, DefaultPause, Backoff,  \* waits before a retry, in ticks
          Timeout, Telemetry, Late,  \* the longest fetch and sink, and how late a timer fires
          StartBy        \* every request has begun by then

VARIABLES load,            \* what each request asks
          sends, tokens,   \* the limiter: each window's log, the global bucket,
          paused,          \* and what is left of the pause
          call,            \* each request: where it is, its attempt, what it waits for
          recent           \* the attempts that left in the last Window ticks: [call, n, at]

clientVars == <<load, sends, tokens, paused, call, recent>>

\* The endpoints the worker asks, with the retries each call site allows.
E(module, retries) == [module |-> module, retries |-> retries, again |-> TRUE]
TradeEndpoints == [quote |-> E("trading", 2), approve |-> E("trading", 2), swap |-> E("trading", 1),
                   simulate |-> E("transaction", 2), gasLimit |-> E("transaction", 2),
                   broadcast |-> [E("transaction", 0) EXCEPT !.again = FALSE],
                   buildDeFi |-> E("defi-transaction", 1)]
DataEndpoints == [investments |-> E("defi-data", 2), prices |-> E("rwa", 2),
                  tokenPrices |-> E("market", 2), protocol |-> E("defi-data", 2)]
Endpoints == TradeEndpoints @@ DataEndpoints

rateLimitGroup(module) == IF module \in {"defi-data", "defi-transaction"} THEN {"defi"} ELSE {}

Spec(c) == Endpoints[load[c]]
WindowsOf(c) == {load[c]} \cup rateLimitGroup(Spec(c).module)
Windows == UNION {WindowsOf(c) : c \in Calls}

\* ------------------------------------------------------------------ rate-limit.ts
span == Window + Margin
earliest(w) == LET log == sends[w]
               IN  IF Len(log) < MaxSends THEN 0 ELSE Max({0, log[Len(log) - MaxSends + 1] + span})
commit(w, at) == SortSeq(Append(sends[w], at), <)
\* One token a tick: the ticks until there is one to use.
reserve == Max({0, 1 - tokens})

\* Mutant of WaitFor: the pause is left out.
WaitForUnpaused(c) == Max({reserve} \cup {earliest(w) : w \in WindowsOf(c)})
\* How long acquire makes request c wait.
WaitFor(c) == Max({paused, reserve} \cup {earliest(w) : w \in WindowsOf(c)})

\* acquire: a token, and a place in every window at the time the attempt will leave.
Acquire(c) == /\ tokens' = tokens - 1
              /\ sends' = [w \in DOMAIN sends |->
                              IF w \in WindowsOf(c) THEN commit(w, WaitFor(c)) ELSE sends[w]]
              /\ UNCHANGED paused

Asked(r) == IF r.after = None THEN DefaultPause ELSE r.after
pause(ms) == paused' = Max({paused, Min({ms, MAX_RETRY_AFTER})}) /\ UNCHANGED <<sends, tokens>>

UNCHANGEDLimiter == UNCHANGED <<sends, tokens, paused>>

\* --------------------------------------------------------------------- client.ts
NoReply == [status |-> None, code |-> None, after |-> None]
retryBackoff(attempt) == Backoff * 2 ^ attempt

\* The top of request's loop: the slot is taken at once, and waited for. due: how long the gateway
\* has asked this attempt to wait, by its own last answer or by the pause in force.
Attempt(c, n) ==
    /\ Acquire(c)
    /\ call' = [call EXCEPT ![c] = [@ EXCEPT !.pc = "slot", !.n = n, !.until = WaitFor(c),
                                             !.due = Max({@, paused})]]

Begin(c) == call[c].pc = "idle" /\ Attempt(c, 0) /\ UNCHANGED <<load, recent>>

\* The attempt is signed and sent.
Send(c) == /\ call[c].pc = "slot" /\ call[c].until <= 0
           /\ recent' = recent \cup {[call |-> c, n |-> call[c].n, at |-> 0]}
           /\ call' = [call EXCEPT ![c].pc = "out", ![c].until = Timeout]
           /\ UNCHANGED load /\ UNCHANGEDLimiter

\* The gateway answers, or the fetch fails (at the latest, it times out); the attempt is recorded.
Answered(c, r) ==
    /\ call[c].pc = "out"
    /\ call' = [call EXCEPT ![c] = [@ EXCEPT !.pc = "telling", !.until = Telemetry, !.reply = r,
                                             !.due = Max({0, r.after})]]
    /\ UNCHANGED <<load, recent>> /\ UNCHANGEDLimiter
Answer(c) == \E r \in Replies : Answered(c, r)
NoAnswer(c) == Answered(c, NoReply)

Envelope(r) == parseEnvelope(r.status, r.code, TRUE)
Good(r) == r.status # None /\ Envelope(r).ok
Limited(r) == r.status # None /\ isRateLimited(r.status, Envelope(r).code)
Transient(c, r) ==
    isTransient([module |-> Spec(c).module, status |-> r.status,
                 kind |-> IF r.status = None THEN "network" ELSE Envelope(r).kind,
                 code |-> IF r.status = None THEN None ELSE Envelope(r).code])

\* A rate-limited request is tried again once, without waiting here; a transient failure as often
\* as the call site allows, after a backoff. Nobody waits out more than MAX_RETRY_AFTER.
Retries(c, r) == /\ r.after <= MAX_RETRY_AFTER
                 /\ IF Limited(r) THEN call[c].n = 0 /\ Spec(c).again
                    ELSE Transient(c, r) /\ call[c].n < Spec(c).retries
RetryWait(c, r) == CASE Limited(r) -> 0
                     [] r.after # None -> r.after
                     [] OTHER -> retryBackoff(call[c].n)

\* The sink is done with the record, or has been given up on: the answer is read.
Told(c) ==
    /\ call[c].pc = "telling"
    /\ LET r == call[c].reply
       IN  /\ IF Limited(r) THEN pause(Asked(r)) ELSE UNCHANGEDLimiter
           /\ call' = [call EXCEPT ![c] =
                  CASE Good(r) -> [@ EXCEPT !.pc = "ok", !.reply = NoReply]
                    [] ~Good(r) /\ Retries(c, r) ->
                           [@ EXCEPT !.pc = "asleep", !.until = RetryWait(c, r), !.reply = NoReply]
                    [] OTHER -> [@ EXCEPT !.pc = "failed", !.reply = NoReply]]
    /\ UNCHANGED <<load, recent>>

\* The loop's next round: the next attempt asks for its slot.
Wake(c) == /\ call[c].pc = "asleep" /\ call[c].until <= 0
           /\ Attempt(c, call[c].n + 1)
           /\ UNCHANGED <<load, recent>>

Over(c) == call[c].pc \in {"ok", "failed"}
\* Time passes unless something must have happened by now.
MayWait(c) == CASE call[c].pc \in {"slot", "asleep"} -> call[c].until > -Late
                [] call[c].pc \in {"idle", "out", "telling"} -> call[c].until > 0
                [] OTHER -> TRUE
\* What is over is forgotten: a due time in the past, an attempt or a place older than its window.
Tick == /\ \A c \in Calls : MayWait(c)
        /\ \E c \in Calls : ~Over(c)
        /\ sends' = [w \in DOMAIN sends |->
                        SelectSeq([i \in 1..Len(sends[w]) |-> sends[w][i] - 1], LAMBDA t : t > -span)]
        /\ tokens' = Min({Capacity, tokens + 1}) /\ paused' = Max({0, paused - 1})
        /\ call' = [c \in Calls |-> IF Over(c) THEN call[c]
                                    ELSE [call[c] EXCEPT !.until = @ - 1, !.due = Max({0, @ - 1})]]
        /\ recent' = {[a EXCEPT !.at = @ - 1] : a \in {b \in recent : b.at > 1 - Window}}
        /\ UNCHANGED load

ClientInit ==
    /\ load \in Loads
    /\ sends = [w \in Windows |-> << >>] /\ tokens = Capacity /\ paused = 0
    /\ call = [c \in Calls |->
                  [pc |-> "idle", n |-> 0, until |-> StartBy, due |-> 0, reply |-> NoReply]]
    /\ recent = {}
ClientNext == Tick \/ \E c \in Calls : Begin(c) \/ Send(c) \/ Answer(c) \/ NoAnswer(c) \/ Told(c) \/ Wake(c)
ClientSpec == ClientInit /\ [][ClientNext]_clientVars

(***************************************************************************)
(* Properties                                                              *)
(***************************************************************************)
\* However requests, retries and pauses interleave, and however late (within the margin) timers
\* fire, no endpoint and no group sees more than MaxSends attempts in any Window ticks.
WindowKept == \A w \in Windows : Cardinality({a \in recent : w \in WindowsOf(a.call)}) <= MaxSends

\* A wait the gateway asked for is served: no attempt leaves before the pause that was in force
\* when it asked for its slot is over, nor a retry before the Retry-After of its last answer is.
WaitServed == \A c \in Calls : call[c].pc = "out" => call[c].due = 0

\* A request is tried again only as often as its call site allows, or once for a 429: what is
\* broadcast leaves once, whatever the gateway answers and whatever happens to the answer.
SentOnce == \A c \in Calls :
    call[c].n <= Max({Spec(c).retries, IF Spec(c).again THEN 1 ELSE 0})

\* rate-limit.ts says that after a 429 everything waits: also the attempts that had their slot.
EverythingWaits == [][\A c \in Calls : call[c].pc = "slot" /\ call'[c].pc = "out" => paused = 0]_clientVars

==================================================================================
