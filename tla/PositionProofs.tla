---------------------------- MODULE PositionProofs ----------------------------
(***************************************************************************)
(* The position of a yield plan, for any kind of plan, any number of       *)
(* transactions and deaths, any deposit and cap.                           *)
(*                                                                         *)
(* What the properties say of own, the vTokens the chain holds for the     *)
(* plan, is kept by Balance: own is what the row says, plus a deposit that *)
(* was mined and not booked, less such a redeem.  That it is never         *)
(* negative, and that no position is without principal, needs to know what *)
(* may be on its way at once: Few (one deposit and one redeem, a redeem of *)
(* everything only alone) and Covered (a redeem found its vTokens in the   *)
(* row, and they are still there).                                         *)
(*                                                                         *)
(* Those hold because of what each process knows where it stands, long     *)
(* after it read the plan: Knows(p).  A process holds the plan's lock from *)
(* the read it acts on to the receipt (Locked), but for a judge's first    *)
(* deposit, which takes none: a plan whose first deposit is not booked has *)
(* no principal, so nothing else of it is signed (Depositing, Cycling).    *)
(* Waiting is why a start is harmless: a plan that still waits for its     *)
(* first run was never redeemed nor held.                                  *)
(*                                                                         *)
(* Each action is one of four kinds: it changes only what its process does *)
(* (QuietStep); writes a status or ends a cycle (RewriteStep); moves a     *)
(* transaction on (MineStep, SignStep, AdvanceFacts); books one            *)
(* (BookFacts).  The other process keeps what it knows as the step is      *)
(* Gentle to it (OthersKnow).                                              *)
(***************************************************************************)
EXTENDS Position, TLAPS

-----------------------------------------------------------------------------
(* The invariant: the plan, its transactions, the chain                    *)

Statuses == {"active", "paused", "stopped"}
Tasks == {"none", "settle", "start", "deposit", "redeem", "stop", "guardian", "expiry",
          "tick", "run", "once", "activate", "close"}
PlanType == [status : Statuses, principal : Nat, vt : Nat, reason : Reasons]
TxType == [what : {"deposit", "redeem"}, units : Nat, inCycle : BOOLEAN,
           status : {"open", "CONFIRMED", "FAILED"}, mined : {"no", "success", "reverted"},
           receipt : BOOLEAN]
ProcType == [pc : Pcs, task : Tasks, vt : Nat, waiting : BOOLEAN,
             want : [status : Statuses \cup {"none"}, reason : Reasons],
             sign : {"none", "deposit", "redeem"}, units : Nat, tx : Nat]

Types ==
    /\ kind \in Kinds
    /\ plan \in PlanType
    /\ cycle \in {"none", "running", "awaiting", "held"}
    /\ lock \in Procs \cup {Free}
    /\ txs \in Seq(TxType)
    /\ own \in Int
    /\ proc \in [Procs -> ProcType]

Deposit(i) == txs[i].what = "deposit"
Redeem(i) == txs[i].what = "redeem"
\* Only the redeem of a cycle's interest is signed within a cycle.
Inner(i) == txs[i].inCycle
\* Mined, and not booked yet.
Due(i) == txs[i].mined = "success" /\ ~txs[i].receipt

\* A transaction and its row agree; a deposit mints Minted, outside any cycle.
Rows ==
    \A i \in DOMAIN txs :
        /\ txs[i].status = "CONFIRMED" \/ txs[i].receipt => txs[i].mined = "success"
        /\ txs[i].status = "FAILED" => txs[i].mined # "success"
        /\ Deposit(i) => ~Inner(i) /\ txs[i].units = Minted

\* At most one deposit and one redeem are unfinished, and a redeem of the whole position
\* only alone.
Few ==
    \A i, j \in Unfinished :
        /\ txs[i].what = txs[j].what => i = j
        /\ Redeem(i) /\ ~Inner(i) => i = j

\* What the row says, with what is due, is what the chain holds.
Coming == IF \E i \in DOMAIN txs : Due(i) /\ Deposit(i) THEN Minted ELSE 0
Balance ==
    /\ \A i \in DOMAIN txs : Due(i) /\ Redeem(i) => own = plan.vt + Coming - txs[i].units
    /\ (\A i \in DOMAIN txs : ~(Due(i) /\ Redeem(i))) => own = plan.vt + Coming

\* A redeem under way burns no more than the row has; a whole one leaves dust.  A deposit
\* under way found room below the cap; a judge's, nothing.
Covered ==
    \A i \in Unfinished :
        /\ ~txs[i].receipt /\ Redeem(i) => txs[i].units <= plan.vt
        /\ ~txs[i].receipt /\ Redeem(i) /\ ~Inner(i) => plan.vt <= txs[i].units + 1
        /\ ~txs[i].receipt /\ Deposit(i) => plan.principal < MaxPrincipal
        /\ ~txs[i].receipt /\ Deposit(i) /\ kind.owner = "judge" => plan.vt <= 1

\* A position has principal, an active plan too, and each deposit minted its share at most.
Unbooked == IF \E i \in Unfinished : ~txs[i].receipt /\ Deposit(i) THEN Minted ELSE 0
Backing ==
    /\ plan.vt > 1 => plan.principal > 0
    /\ plan.status = "active" => plan.principal > 0
    /\ plan.principal <= MaxPrincipal
    /\ plan.vt + Unbooked <= Len(txs) * Minted
    /\ Len(txs) <= kind.txs

\* A deposit was booked.
Begun == \E i \in DOMAIN txs : Deposit(i) /\ txs[i].receipt
\* While the plan still waits for its first run, nothing took its principal away.
Waiting ==
    /\ plan.principal > 0 => Begun
    /\ plan.reason = "awaiting_run" =>
         /\ Begun => plan.principal > 0
         /\ \A i \in Unfinished : ~(Redeem(i) /\ ~Inner(i))
         /\ cycle # "held"
\* A cycle that is over, or held, has nothing unfinished.
Over == cycle \in {"none", "held"} => \A i \in Unfinished : ~Inner(i)

Facts == Rows /\ Few /\ Balance /\ Covered /\ Backing /\ Waiting /\ Over

-----------------------------------------------------------------------------
(* The invariant: what a process may rely on, where it stands              *)

\* What a redeem writes of the plan.
Outs == {"paused", "stopped"}
Whys == {"other", "over"}
Redeemer == {"stop", "guardian", "expiry", "redeem"}
Runner == {"tick", "run", "once"}
Sending == {"check", "sign"}
Sent == {"wait", "apply"}
Marked == {"look", "lock", "fresh", "build", "check", "sign", "wait", "apply"}

In(p, pcs) == proc[p].pc \in pcs
Does(p, tasks) == proc[p].task \in tasks

\* Which tasks come where, and who has them.
Shape(p) ==
    /\ Does(p, {"start"}) => p = "worker" /\ kind.owner = "judge"
    /\ Does(p, {"deposit"}) => p = "operator" /\ kind.owner = "house"
    /\ Does(p, {"redeem"}) => p = "operator"
    /\ In(p, {"allow"}) => Does(p, {"start", "deposit"})
    /\ In(p, {"again"}) => p = "operator" /\ Does(p, {"deposit", "redeem"})
    /\ In(p, {"mark", "look", "lock", "fresh", "build", "held"}) => Does(p, Redeemer)
    /\ In(p, {"cycle", "body", "buy"}) => Does(p, Runner)
    /\ In(p, {"settle", "late"}) => Does(p, {"settle", "start", "deposit", "redeem"} \cup Runner)
    /\ In(p, Sending) => \/ Does(p, {"start", "deposit"}) /\ proc[p].sign = "deposit"
                            /\ proc[p].units = Minted
                         \/ Does(p, Redeemer \cup Runner) /\ proc[p].sign = "redeem"
    /\ In(p, Sent) => Does(p, {"start", "deposit"} \cup Redeemer \cup Runner)
    /\ Does(p, Redeemer) /\ In(p, {"mark"} \cup Marked) =>
         proc[p].want.status \in Outs /\ proc[p].want.reason \in Whys

\* Everything but a judge's first deposit is done under the plan's lock.
Locked(p) ==
    \/ In(p, {"body", "buy", "again", "fresh", "build", "release", "closing"})
    \/ In(p, {"allow"} \cup Sending \cup Sent) /\ ~Does(p, {"start"})
    => lock = p

\* A deposit about to be signed: a judge's is the first thing, an operator's may find the
\* interest of a cycle that died still unfinished.
Depositing(p) ==
    /\ Does(p, {"start"}) /\ In(p, {"allow"} \cup Sending) =>
         plan.principal = 0 /\ plan.vt <= 1 /\ Unfinished = {}
    /\ Does(p, {"deposit"}) /\ In(p, {"again", "allow"} \cup Sending) =>
         \A i \in Unfinished : Inner(i)
    /\ Does(p, {"deposit"}) /\ In(p, {"allow"} \cup Sending) => plan.principal < MaxPrincipal

\* A redeem about to be signed: nothing else is unfinished.
Withdrawing(p) ==
    /\ In(p, {"build"}) => Unfinished = {} /\ proc[p].units = plan.vt /\ plan.vt > 1
    /\ In(p, Sending) /\ Does(p, Redeemer \cup Runner) =>
         /\ Unfinished = {} /\ plan.vt > 1 /\ proc[p].units <= plan.vt
         /\ Does(p, Redeemer) => plan.vt <= proc[p].units + 1
    /\ Does(p, Redeemer) /\ In(p, Marked) => plan.reason # "awaiting_run"

\* A cycle: before its body only a judge's first deposit may be under way besides; its
\* redeem booked, it has nothing unfinished.
Cycling(p) ==
    /\ In(p, {"body"}) => \A i \in Unfinished :
         \/ Inner(i)
         \/ Deposit(i) /\ ~txs[i].receipt /\ kind.owner = "judge" /\ p = "operator"
    /\ In(p, {"buy"} \cup Sending \cup Sent) /\ Does(p, Runner) => cycle = "running"
    /\ In(p, {"buy"}) => \A i \in Unfinished : ~Inner(i)

\* The transaction it signed.
Signing(p) ==
    In(p, Sent) =>
        /\ proc[p].tx \in DOMAIN txs
        /\ Does(p, {"start", "deposit"}) <=> Deposit(proc[p].tx)
        /\ Does(p, Runner) <=> Inner(proc[p].tx)
        /\ Redeem(proc[p].tx) => \A i \in Unfinished : Redeem(i) => i = proc[p].tx
        /\ In(p, {"apply"}) => Tx(p).status = "CONFIRMED"

\* It starts the plan, or will: a deposit was booked.
Starting(p) == In(p, {"late", "start"}) \/ proc[p].waiting => Begun

Knows(p) ==
    /\ Shape(p) /\ Locked(p) /\ Depositing(p) /\ Withdrawing(p) /\ Cycling(p) /\ Signing(p)
    /\ Starting(p) /\ proc[p].tx <= Len(txs)

PositionInv == Types /\ Facts /\ \A p \in Procs : Knows(p)

-----------------------------------------------------------------------------
(* Lemmas about the pieces                                                 *)

\* What a process is, field by field.
LEMMA ProcFields ==
  ASSUME NEW r \in ProcType
  PROVE  /\ r.pc \in Pcs /\ r.task \in Tasks /\ r.vt \in Nat /\ r.waiting \in BOOLEAN
         /\ r.want.status \in Statuses \cup {"none"} /\ r.want.reason \in Reasons
         /\ r.sign \in {"none", "deposit", "redeem"} /\ r.units \in Nat /\ r.tx \in Nat
  BY DEF ProcType

\* Idle is what a process starts from, and what Idle is with another place and task.
LEMMA IdleFields ==
  /\ Idle \in ProcType
  /\ Idle.pc = "idle" /\ Idle.task = "none" /\ Idle.waiting = FALSE /\ Idle.tx = 0
  /\ \A pc \in Pcs, task \in Tasks :
       LET r == [Idle EXCEPT !.pc = pc, !.task = task]
       IN r \in ProcType /\ r.pc = pc /\ r.task = task /\ r.waiting = FALSE /\ r.tx = 0
  <1>1. Idle \in ProcType
    BY DEF Idle, ProcType, Pcs, Tasks, Reasons, Statuses
  <1>2. Idle.pc = "idle" /\ Idle.task = "none" /\ Idle.waiting = FALSE /\ Idle.tx = 0
    BY DEF Idle
  <1>3. ASSUME NEW pc \in Pcs, NEW task \in Tasks
        PROVE  LET r == [Idle EXCEPT !.pc = pc, !.task = task]
               IN r \in ProcType /\ r.pc = pc /\ r.task = task /\ r.waiting = FALSE /\ r.tx = 0
    <2> DEFINE r == [Idle EXCEPT !.pc = pc, !.task = task]
    <2>1. r \in ProcType
      BY <1>1, Zenon DEF ProcType
    <2>2. r.pc = pc /\ r.task = task /\ r.waiting = FALSE /\ r.tx = 0
      BY DEF Idle
    <2>3. QED
      BY <2>1, <2>2
  <1>4. QED
    BY <1>1, <1>2, <1>3

\* Only p moves.
Only(p) == proc' \in [Procs -> ProcType] /\ \A q \in Procs : q # p => proc'[q] = proc[q]

\* It goes on elsewhere in its task.
LEMMA Went ==
  ASSUME Types, NEW p \in Procs, NEW pc \in Pcs, Goto(p, pc)
  PROVE  /\ Only(p)
         /\ proc'[p].pc = pc /\ proc'[p].task = proc[p].task
         /\ proc'[p].waiting = proc[p].waiting /\ proc'[p].want = proc[p].want
         /\ proc'[p].sign = proc[p].sign /\ proc'[p].units = proc[p].units
         /\ proc'[p].tx = proc[p].tx /\ proc'[p].vt = proc[p].vt
  <1>1. proc \in [Procs -> ProcType] /\ proc' = [proc EXCEPT ![p] = [proc[p] EXCEPT !.pc = pc]]
    BY DEF Types, Goto
  <1>2. proc[p] \in ProcType /\ [proc[p] EXCEPT !.pc = pc] \in ProcType
    BY <1>1 DEF ProcType
  <1>3. proc'[p] = [proc[p] EXCEPT !.pc = pc] /\ Only(p)
    BY <1>1, <1>2 DEF Only
  <1>4. QED
    BY <1>2, <1>3 DEF ProcType

\* It begins a task, or ends one.
LEMMA Began ==
  ASSUME Types, NEW p \in Procs, NEW pc \in Pcs, NEW task \in Tasks, Begin(p, task, pc)
  PROVE  /\ Only(p) /\ proc'[p].pc = pc /\ proc'[p].task = task /\ proc'[p].waiting = FALSE
         /\ proc'[p].tx = 0
  BY IdleFields DEF Begin, Only, Types

LEMMA Ended ==
  ASSUME Types, NEW p \in Procs, End(p)
  PROVE  /\ Only(p) /\ proc'[p].pc = "idle" /\ proc'[p].task = "none"
         /\ proc'[p].waiting = FALSE /\ proc'[p].tx = 0
  BY IdleFields DEF End, Only, Types

LEMMA Left ==
  ASSUME Types, NEW p \in Procs, Leave(p)
  PROVE  /\ Only(p) /\ proc'[p].waiting = FALSE /\ proc'[p].tx = 0
         /\ \/ proc'[p].pc = "idle" /\ proc'[p].task = "none"
            \/ proc'[p].pc = "release" /\ proc'[p].task = proc[p].task /\ lock = p
  <1>1. CASE lock = p
    <2>1. /\ proc \in [Procs -> ProcType] /\ proc[p].task \in Tasks /\ "release" \in Pcs
          /\ proc' = [proc EXCEPT ![p] = [Idle EXCEPT !.pc = "release", !.task = proc[p].task]]
      BY <1>1, ProcFields DEF Types, Leave, Pcs
    <2>2. QED
      BY <1>1, <2>1, IdleFields DEF Only
  <1>2. CASE lock # p
    BY <1>2, Ended DEF Leave
  <1>3. QED
    BY <1>1, <1>2

\* It goes to redeem with the plan as it read it.
LEMMA Redeems1 ==
  ASSUME Types, NEW p \in Procs, NEW task \in Redeemer, NEW status \in Outs,
         NEW reason \in Whys, Redeeming(p, task, status, reason)
  PROVE  /\ Only(p) /\ proc'[p].pc = "mark" /\ proc'[p].task = task
         /\ proc'[p].waiting = FALSE /\ proc'[p].tx = 0
         /\ proc'[p].want.status = status /\ proc'[p].want.reason = reason
  <1>1. plan.vt \in Nat /\ proc \in [Procs -> ProcType]
    BY DEF Types, PlanType
  <1> DEFINE r == [Idle EXCEPT !.pc = "mark", !.task = task, !.vt = plan.vt,
                               !.want = [status |-> status, reason |-> reason]]
  <1>2. /\ r \in ProcType /\ r.pc = "mark" /\ r.task = task /\ r.waiting = FALSE
        /\ r.tx = 0 /\ r.want.status = status /\ r.want.reason = reason
    BY <1>1 DEF Idle, ProcType, Pcs, Tasks, Redeemer, Reasons, Statuses, Outs, Whys
  <1>3. proc' = [proc EXCEPT ![p] = r]
    BY DEF Redeeming
  <1> HIDE DEF r
  <1>4. proc'[p] = r /\ Only(p)
    BY <1>1, <1>2, <1>3 DEF Only
  <1>5. QED
    BY <1>2, <1>4

LEMMA GaveUp ==
  ASSUME Types, NEW p \in Procs, GiveUp(p)
  PROVE  /\ Only(p) /\ proc'[p].waiting = FALSE /\ proc'[p].tx = 0
         /\ \/ proc'[p].pc = "idle" /\ proc'[p].task = "none"
            \/ proc'[p].pc = "release" /\ proc'[p].task = proc[p].task /\ lock = p
            \/ proc'[p].pc = "held" /\ proc'[p].task = proc[p].task /\ Does(p, Redeemer)
  <1>1. CASE Redeems(p)
    <2>1. /\ proc \in [Procs -> ProcType] /\ proc[p].task \in Tasks /\ "held" \in Pcs
          /\ proc' = [proc EXCEPT ![p] = [Idle EXCEPT !.pc = "held", !.task = proc[p].task]]
      BY <1>1, ProcFields DEF Types, GiveUp, Pcs
    <2>2. QED
      BY <1>1, <2>1, IdleFields DEF Only, Redeems, Does, Redeemer
  <1>2. CASE ~Redeems(p)
    BY <1>2, Left DEF GiveUp
  <1>3. QED
    BY <1>1, <1>2

LEMMA Ranned ==
  ASSUME Types, NEW p \in Procs, NEW over \in BOOLEAN, Ran(p, over)
  PROVE  /\ Only(p) /\ proc'[p].pc = "release" /\ proc'[p].task = proc[p].task
         /\ proc'[p].waiting = proc[p].waiting /\ proc'[p].tx = 0
  <1> DEFINE s == IF over /\ proc[p].task = "tick" /\ kind.cadence = "once" THEN "stopped" ELSE "active"
  <1> DEFINE r == [Idle EXCEPT !.pc = "release", !.task = proc[p].task, !.waiting = proc[p].waiting,
                               !.want.status = s]
  <1>1. /\ proc \in [Procs -> ProcType] /\ proc[p].task \in Tasks /\ proc[p].waiting \in BOOLEAN
        /\ s \in {"stopped", "active"}
    BY ProcFields DEF Types
  <1>2. proc' = [proc EXCEPT ![p] = r]
    BY DEF Ran
  <1> HIDE DEF s
  <1>3. /\ r \in ProcType /\ r.pc = "release" /\ r.task = proc[p].task
        /\ r.waiting = proc[p].waiting /\ r.tx = 0
    BY <1>1 DEF Idle, ProcType, Pcs, Reasons, Statuses
  <1> HIDE DEF r
  <1>4. proc'[p] = r /\ Only(p)
    BY <1>1, <1>2, <1>3 DEF Only
  <1>5. QED
    BY <1>3, <1>4

-----------------------------------------------------------------------------
(* What a step of one process leaves to the other                          *)

\* What is signed stays signed, booked and confirmed.
Kept1 ==
    /\ Len(txs) <= Len(txs)'
    /\ \A i \in DOMAIN txs :
        /\ txs'[i].what = txs[i].what /\ txs'[i].inCycle = txs[i].inCycle
        /\ txs[i].receipt => txs'[i].receipt
        /\ txs[i].status = "CONFIRMED" => txs'[i].status = "CONFIRMED"

\* A step that takes nothing from q: it signs nothing, books only what is unfinished, leaves
\* q's lock and the cycle q runs, and never lets the plan wait for its first run again.
Gentle(q) ==
    /\ kind' = kind
    /\ lock = q => lock' = q /\ (cycle = "running" => cycle' = "running")
    /\ Kept1
    /\ \A i \in Unfinished' : i \in Unfinished /\ (txs'[i].receipt => txs[i].receipt \/ q = "worker")
    /\ Unfinished = {} => plan'.vt = plan.vt
    /\ (\A i \in Unfinished : Inner(i)) => plan'.principal = plan.principal
    /\ plan'.reason = "awaiting_run" => plan.reason = "awaiting_run"

LEMMA OthersKnow ==
  ASSUME Types, Types', NEW q \in Procs, Knows(q), proc'[q] = proc[q], Gentle(q)
  PROVE  Knows(q)'
  <1>0. /\ txs \in Seq(TxType) /\ txs' \in Seq(TxType) /\ proc[q] \in ProcType
        /\ proc'[q] = proc[q] /\ plan \in PlanType /\ plan' \in PlanType
    BY DEF Types
  <1>1. Shape(q)'
    BY DEF Knows, Shape, In, Does, Gentle
  <1>2. Locked(q)'
    BY DEF Knows, Locked, In, Does, Gentle
  <1>3. Depositing(q)'
    <2>1. \A i \in Unfinished' : i \in Unfinished /\ i \in DOMAIN txs /\ txs'[i].inCycle = txs[i].inCycle
      BY DEF Gentle, Kept1, Unfinished, Open
    <2>2. QED
      BY <2>1 DEF Knows, Depositing, In, Does, Gentle, Inner
  <1>4. Withdrawing(q)'
    <2>1. Unfinished = {} => Unfinished' = {} /\ plan'.vt = plan.vt /\ plan'.principal = plan.principal
      BY DEF Gentle
    <2>2. QED
      BY <2>1 DEF Knows, Withdrawing, In, Does, Gentle
  <1>5. Cycling(q)'
    <2>1. \A i \in Unfinished' : /\ i \in Unfinished /\ (txs'[i].receipt => txs[i].receipt \/ q = "worker")
                                 /\ txs'[i].inCycle = txs[i].inCycle /\ txs'[i].what = txs[i].what
      BY DEF Gentle, Kept1, Unfinished, Open
    <2>2. In(q, {"buy"} \cup Sending \cup Sent) /\ Does(q, Runner) => lock = q
      BY DEF Knows, Locked, In, Does, Runner, Sending, Sent
    <2>3. "worker" # "operator"
      OBVIOUS
    <2>4. QED
      BY <2>1, <2>2, <2>3 DEF Knows, Cycling, In, Does, Gentle, Inner, Deposit
  <1>6. Signing(q)'
    <2>1. SUFFICES ASSUME In(q, Sent)
                   PROVE  Signing(q)'
      BY DEF Signing, In
    <2>2. PICK i : i = proc[q].tx
      OBVIOUS
    <2>3. /\ i \in DOMAIN txs /\ i \in DOMAIN txs'
          /\ txs'[i].what = txs[i].what /\ txs'[i].inCycle = txs[i].inCycle
          /\ txs[i].status = "CONFIRMED" => txs'[i].status = "CONFIRMED"
      BY <1>0, <2>1, <2>2 DEF Knows, Signing, Gentle, Kept1
    <2>4. \A j \in Unfinished' : j \in Unfinished /\ txs'[j].what = txs[j].what
      BY DEF Gentle, Kept1, Unfinished, Open
    <2>5. QED
      BY <1>0, <2>1, <2>2, <2>3, <2>4 DEF Knows, Signing, In, Does, Inner, Deposit, Redeem, Tx
  <1>7. Starting(q)'
    <2>1. Begun => Begun'
      BY <1>0 DEF Begun, Gentle, Kept1, Deposit
    <2>2. QED
      BY <2>1 DEF Knows, Starting, In
  <1>8. proc'[q].tx <= Len(txs)'
    BY <1>0 DEF Knows, Gentle, Kept1, ProcType
  <1>9. QED
    BY <1>1, <1>2, <1>3, <1>4, <1>5, <1>6, <1>7, <1>8 DEF Knows

\* A process with nothing in its hands needs to know nothing.
LEMMA AtRest ==
  ASSUME Types', NEW p \in Procs, proc'[p].tx = 0, proc'[p].waiting => Begun',
         \/ proc'[p].pc \in {"idle", "confirm", "disable"}
         \/ proc'[p].pc = "settle" /\ proc'[p].task \in {"settle", "start", "deposit", "redeem"} \cup Runner
         \/ proc'[p].pc = "cycle" /\ proc'[p].task \in Runner
         \/ proc'[p].pc = "release" /\ lock' = p
         \/ proc'[p].pc = "held" /\ proc'[p].task \in Redeemer,
         proc'[p].task = "start" => p = "worker" /\ kind'.owner = "judge",
         proc'[p].task = "deposit" => p = "operator" /\ kind'.owner = "house",
         proc'[p].task = "redeem" => p = "operator"
  PROVE  Knows(p)'
  <1>0. txs' \in Seq(TxType)
    BY DEF Types
  <1>1. Shape(p)' /\ Locked(p)'
    BY DEF Shape, Locked, In, Does, Sending, Sent, Marked, Redeemer, Runner
  <1>2. Depositing(p)' /\ Withdrawing(p)' /\ Cycling(p)' /\ Signing(p)' /\ Starting(p)'
    BY DEF Depositing, Withdrawing, Cycling, Signing, Starting, In, Does, Sending, Sent, Marked
  <1>3. QED
    BY <1>0, <1>1, <1>2 DEF Knows

\* Steps that change only what p is doing and who has the lock.
Quiet(p) ==
    /\ UNCHANGED <<kind, plan, cycle, txs, own>>
    /\ Only(p)
    /\ lock' \in Procs \cup {Free}
    /\ \A q \in Procs : q # p /\ lock = q => lock' = q

LEMMA QuietStep ==
  ASSUME PositionInv, NEW p \in Procs, Quiet(p), Types' => Knows(p)'
  PROVE  PositionInv'
  <1>1. Types'
    BY DEF PositionInv, Types, Quiet, Only
  <1>2. Facts'
    BY DEF PositionInv, Quiet, Facts, Rows, Few, Balance, Covered, Backing, Waiting, Over,
      Unfinished, Open, Deposit, Redeem, Inner, Due, Coming, Unbooked, Begun
  <1>3. ASSUME NEW q \in Procs, q # p
        PROVE  Knows(q)'
    <2>1. Gentle(q)
      BY <1>3, <1>1 DEF Quiet, Gentle, Kept1, Types, Unfinished, Open, PositionInv
    <2>2. QED
      BY <1>1, <1>3, <2>1, OthersKnow DEF PositionInv, Quiet, Only
  <1>4. QED
    BY <1>1, <1>2, <1>3 DEF PositionInv

-----------------------------------------------------------------------------
(* The steps that only move a process                                      *)

\* It ends, or leaves.
LEMMA EndStep ==
  ASSUME PositionInv, NEW p \in Procs, UNCHANGED <<kind, plan, cycle, lock, txs, own>>,
         End(p) \/ Leave(p)
  PROVE  PositionInv'
  <1>0. Types
    BY DEF PositionInv
  <1>1. /\ Only(p) /\ proc'[p].waiting = FALSE /\ proc'[p].tx = 0
        /\ \/ proc'[p].pc = "idle" /\ proc'[p].task = "none"
           \/ proc'[p].pc = "release" /\ proc'[p].task = proc[p].task /\ lock = p
    <2>1. CASE End(p)
      BY <1>0, <2>1, Ended
    <2>2. CASE Leave(p)
      BY <1>0, <2>2, Left
    <2>3. QED
      BY <2>1, <2>2
  <1>2. Quiet(p)
    BY <1>0, <1>1 DEF Quiet, Types
  <1>3. Shape(p)
    BY DEF PositionInv, Knows
  <1>4. Types' => Knows(p)'
    BY <1>1, <1>3, AtRest DEF Shape, Does
  <1>5. QED
    BY <1>2, <1>4, QuietStep

LEMMA BeginStep ==
  ASSUME PositionInv, NEW p \in Procs, UNCHANGED <<kind, plan, cycle, txs, own>>,
         NEW pc \in Pcs, NEW task \in Tasks, Begin(p, task, pc),
         lock' \in Procs \cup {Free}, \A q \in Procs : q # p /\ lock = q => lock' = q,
         \/ pc \in {"confirm", "disable"}
         \/ pc = "settle" /\ task \in {"settle", "start", "deposit", "redeem"} \cup Runner
         \/ pc = "cycle" /\ task \in Runner
         \/ pc = "closing" /\ lock' = p /\ task = "close",
         task = "start" => p = "worker" /\ kind.owner = "judge",
         task = "deposit" => p = "operator" /\ kind.owner = "house",
         task = "redeem" => p = "operator"
  PROVE  PositionInv'
  <1>0. Types
    BY DEF PositionInv
  <1>1. /\ Only(p) /\ proc'[p].pc = pc /\ proc'[p].task = task /\ proc'[p].waiting = FALSE
        /\ proc'[p].tx = 0
    BY <1>0, Began
  <1>2. Quiet(p)
    BY <1>0, <1>1 DEF Quiet, Types
  <1>3. ASSUME Types'
        PROVE  Knows(p)'
    <2>1. CASE pc # "closing"
      BY <1>1, <1>3, <2>1, AtRest
    <2>2. CASE pc = "closing"
      <3>1. txs' \in Seq(TxType)
        BY <1>3 DEF Types
      <3>2. Shape(p)' /\ Locked(p)'
        BY <1>1, <2>2 DEF Shape, Locked, In, Does, Sending, Sent, Marked, Redeemer, Runner
      <3>3. Depositing(p)' /\ Withdrawing(p)' /\ Cycling(p)' /\ Signing(p)' /\ Starting(p)'
        BY <1>1, <2>2 DEF Depositing, Withdrawing, Cycling, Signing, Starting, In, Does, Sending,
          Sent, Marked
      <3>4. QED
        BY <1>1, <3>1, <3>2, <3>3 DEF Knows
    <2>3. QED
      BY <2>1, <2>2
  <1>4. QED
    BY <1>2, <1>3, QuietStep

LEMMA RedeemingStep ==
  ASSUME PositionInv, NEW p \in Procs, UNCHANGED <<kind, plan, cycle, lock, txs, own>>,
         NEW task \in Redeemer, NEW status \in Outs, NEW reason \in Whys,
         task = "redeem" => p = "operator", Redeeming(p, task, status, reason)
  PROVE  PositionInv'
  <1>0. Types
    BY DEF PositionInv
  <1>1. /\ Only(p) /\ proc'[p].pc = "mark" /\ proc'[p].task = task
        /\ proc'[p].waiting = FALSE /\ proc'[p].tx = 0
        /\ proc'[p].want.status = status /\ proc'[p].want.reason = reason
    BY <1>0, Redeems1
  <1>2. Quiet(p)
    BY <1>0, <1>1 DEF Quiet, Types
  <1>3. ASSUME Types'
        PROVE  Knows(p)'
    <2>1. txs' \in Seq(TxType)
      BY <1>3 DEF Types
    <2>2. Shape(p)' /\ Locked(p)'
      BY <1>1 DEF Shape, Locked, In, Does, Sending, Sent, Marked, Redeemer, Runner
    <2>3. Depositing(p)' /\ Withdrawing(p)' /\ Cycling(p)' /\ Signing(p)' /\ Starting(p)'
      BY <1>1 DEF Depositing, Withdrawing, Cycling, Signing, Starting, In, Does, Sending, Sent,
        Marked
    <2>4. QED
      BY <1>1, <2>1, <2>2, <2>3 DEF Knows
  <1>4. QED
    BY <1>2, <1>3, QuietStep

\* A task begins, or the operator takes the lock to close a review.
LEMMA BeginsStep ==
  ASSUME PositionInv,
         \/ Settle \/ GuardianTick \/ (RunJob /\ plan.principal = 0) \/ StopJob \/ Tick
         \/ DepositScript \/ RedeemScript \/ CycleOnce \/ AskActivate \/ CloseReview
  PROVE  PositionInv'
  <1>0. /\ "worker" \in Procs /\ "operator" \in Procs /\ Free \notin Procs
        /\ {"settle", "cycle", "disable", "confirm", "closing"} \subseteq Pcs
        /\ {"settle", "start", "deposit", "redeem", "tick", "once", "activate", "close"} \subseteq Tasks
        /\ "stopped" \in Outs /\ Whys = {"other", "over"}
        /\ {"guardian", "stop"} \subseteq Redeemer /\ {"tick", "once"} \subseteq Runner
        /\ lock \in Procs \cup {Free}
    BY DEF Procs, Free, Pcs, Tasks, Redeemer, Runner, Outs, Whys, PositionInv, Types
  <1>1. CASE Settle
    BY <1>0, <1>1, BeginStep DEF Settle, fixed
  <1>2. CASE GuardianTick
    <2>1. Kept \in Outs
      BY DEF Kept, Outs
    <2>2. QED
      BY <1>0, <1>2, <2>1, RedeemingStep DEF GuardianTick, fixed
  <1>3. CASE RunJob /\ plan.principal = 0
    BY <1>0, <1>3, BeginStep DEF RunJob, fixed
  <1>4. CASE StopJob
    BY <1>0, <1>4, RedeemingStep DEF StopJob, fixed
  <1>5. CASE Tick
    BY <1>0, <1>5, BeginStep DEF Tick, fixed
  <1>6. CASE DepositScript
    BY <1>0, <1>6, BeginStep DEF DepositScript, fixed
  <1>7. CASE RedeemScript
    BY <1>0, <1>7, BeginStep DEF RedeemScript, fixed
  <1>8. CASE CycleOnce
    BY <1>0, <1>8, BeginStep DEF CycleOnce, fixed
  <1>9. CASE AskActivate
    BY <1>0, <1>9, BeginStep DEF AskActivate, fixed
  <1>10. CASE CloseReview
    BY <1>0, <1>10, BeginStep DEF CloseReview, fixed
  <1>11. QED
    BY <1>1, <1>2, <1>3, <1>4, <1>5, <1>6, <1>7, <1>8, <1>9, <1>10

\* The run job of a plan whose first deposit is booked.
LEMMA RunJobStep ==
  ASSUME PositionInv, RunJob, plan.principal # 0
  PROVE  PositionInv'
  <1> DEFINE r == [Idle EXCEPT !.pc = "cycle", !.task = "run", !.waiting = plan.status = "paused"]
  <1>0. Types /\ "worker" \in Procs /\ Facts
    BY DEF PositionInv, Procs
  <1>1. /\ r \in ProcType /\ r.pc = "cycle" /\ r.task = "run" /\ r.waiting \in BOOLEAN /\ r.tx = 0
    BY DEF Idle, ProcType, Pcs, Tasks, Reasons, Statuses
  <1>2. proc' = [proc EXCEPT !["worker"] = r] /\ UNCHANGED <<kind, plan, cycle, lock, txs, own>>
    BY DEF RunJob, fixed
  <1> HIDE DEF r
  <1>3. proc'["worker"] = r /\ Only("worker")
    BY <1>0, <1>1, <1>2 DEF Only, Types
  <1>4. Quiet("worker")
    BY <1>0, <1>2, <1>3 DEF Quiet, Types
  <1>5. ASSUME Types'
        PROVE  Knows("worker")'
    <2>1. txs' \in Seq(TxType)
      BY <1>5 DEF Types
    <2>2. Shape("worker")' /\ Locked("worker")'
      BY <1>1, <1>3 DEF Shape, Locked, In, Does, Sending, Sent, Marked, Redeemer, Runner
    <2>3. Depositing("worker")' /\ Withdrawing("worker")' /\ Cycling("worker")' /\ Signing("worker")'
      BY <1>1, <1>3 DEF Depositing, Withdrawing, Cycling, Signing, In, Does, Sending, Sent,
        Marked
    <2>4. Begun'
      <3>1. plan.principal > 0
        BY <1>0 DEF Types, PlanType
      <3>2. Begun
        BY <1>0, <3>1 DEF Facts, Waiting
      <3>3. QED
        BY <1>2, <3>2 DEF Begun, Deposit
    <2>5. Starting("worker")'
      BY <2>4 DEF Starting
    <2>6. QED
      BY <1>1, <1>3, <2>1, <2>2, <2>3, <2>5 DEF Knows
  <1>6. QED
    BY <1>0, <1>4, <1>5, QuietStep

\* A process goes on, and knows there what it must.
LEMMA GotoStep ==
  ASSUME PositionInv, NEW p \in Procs, NEW pc \in Pcs, Goto(p, pc),
         UNCHANGED <<kind, plan, cycle, txs, own>>,
         lock' = lock \/ (lock = Free /\ lock' = p), pc \notin {"late", "start"},
         Types' => /\ Shape(p)' /\ Locked(p)' /\ Depositing(p)' /\ Withdrawing(p)'
                   /\ Cycling(p)' /\ Signing(p)'
  PROVE  PositionInv'
  <1>0. Types /\ Knows(p)
    BY DEF PositionInv
  <1>1. /\ Only(p) /\ proc'[p].pc = pc /\ proc'[p].waiting = proc[p].waiting
        /\ proc'[p].tx = proc[p].tx
    BY <1>0, Went
  <1>2. Quiet(p)
    BY <1>0, <1>1 DEF Quiet, Types, Free, Procs
  <1>3. Begun' <=> Begun
    BY DEF Begun, Deposit
  <1>4. Starting(p)'
    BY <1>0, <1>1, <1>3 DEF Knows, Starting, In
  <1>5. proc'[p].tx <= Len(txs)'
    BY <1>0, <1>1 DEF Knows
  <1>6. Types' => Knows(p)'
    BY <1>4, <1>5 DEF Knows
  <1>7. QED
    BY <1>2, <1>6, QuietStep

LEMMA AcquireStep ==
  ASSUME PositionInv, NEW p \in Procs, NEW pc \in {"body", "again"}, Acquire(p, pc),
         UNCHANGED <<kind, plan, cycle, txs, own>>, In(p, {"settle"}),
         \A i \in Unfinished : Inner(i),
         pc = "body" => Does(p, Runner),
         pc = "again" => p = "operator" /\ Does(p, {"deposit", "redeem"})
  PROVE  PositionInv'
  <1>0. Types /\ Knows(p) /\ pc \in Pcs
    BY DEF PositionInv, Pcs
  <1>1. CASE lock = Free
    <2>1. Goto(p, pc) /\ lock' = p
      BY <1>1 DEF Acquire
    <2>2. /\ proc'[p].pc = pc /\ proc'[p].task = proc[p].task /\ proc'[p].want = proc[p].want
      BY <1>0, <2>1, Went
    <2>3. Shape(p)' /\ Locked(p)'
      BY <1>0, <2>1, <2>2 DEF Knows, Shape, Locked, In, Does, Sending, Sent, Marked, Redeemer, Runner
    <2>4. \A i \in Unfinished' : Inner(i)'
      BY DEF Unfinished, Open, Inner
    <2>5. Depositing(p)' /\ Withdrawing(p)' /\ Cycling(p)' /\ Signing(p)'
      BY <2>2, <2>4 DEF Depositing, Withdrawing, Cycling, Signing, In, Does, Sending, Sent,
        Marked, Redeemer, Runner
    <2>6. QED
      BY <1>0, <1>1, <2>1, <2>3, <2>5, GotoStep
  <1>2. CASE lock # Free
    BY <1>2, EndStep DEF Acquire
  <1>3. QED
    BY <1>1, <1>2

LEMMA SettleDoneStep ==
  ASSUME PositionInv, NEW p \in Procs, SettleDone(p)
  PROVE  PositionInv'
  <1>0. /\ Types /\ Facts /\ Knows(p) /\ "allow" \in Pcs
        /\ proc[p].pc = "settle"
        /\ proc[p].task # "settle" /\ Open = {} => \A i \in Unfinished : txs[i].inCycle
        /\ UNCHANGED <<kind, plan, cycle, txs, own>>
    BY DEF PositionInv, SettleDone, At, fixed, Pcs
  <1>1. Does(p, {"settle", "start", "deposit", "redeem", "tick", "run", "once"})
    BY <1>0 DEF Knows, Shape, In, Does, Runner
  <1>2. CASE proc[p].task = "settle"
    BY <1>0, <1>2, EndStep DEF SettleDone
  <1>3. CASE proc[p].task = "start"
    <2>1. CASE Unfinished # {} \/ plan.principal > 0
      BY <1>0, <1>3, <2>1, EndStep DEF SettleDone
    <2>2. CASE Unfinished = {} /\ ~(plan.principal > 0)
      <3>1. Goto(p, "allow") /\ lock' = lock
        BY <1>3, <2>2 DEF SettleDone
      <3>2. /\ proc'[p].pc = "allow" /\ proc'[p].task = "start"
        BY <1>0, <1>3, <3>1, Went
      <3>3. Shape(p)' /\ Locked(p)'
        BY <1>0, <1>3, <3>1, <3>2 DEF Knows, Shape, Locked, In, Does, Sending, Sent, Marked,
          Redeemer, Runner
      <3>4. plan'.principal = 0 /\ plan'.vt <= 1 /\ Unfinished' = {}
        <4>1. plan.principal = 0 /\ ~(plan.vt > 1) /\ plan.vt \in Nat
          BY <1>0, <2>2 DEF Types, PlanType, Facts, Backing
        <4>2. Unfinished' = Unfinished
          BY <1>0 DEF Unfinished, Open
        <4>3. QED
          BY <1>0, <2>2, <4>1, <4>2
      <3>5. Depositing(p)' /\ Withdrawing(p)' /\ Cycling(p)' /\ Signing(p)'
        BY <3>2, <3>4 DEF Depositing, Withdrawing, Cycling, Signing, In, Does, Sending, Sent,
          Marked, Redeemer, Runner
      <3>6. QED
        BY <1>0, <3>1, <3>3, <3>5, GotoStep
    <2>3. QED
      BY <2>1, <2>2
  <1>4. CASE proc[p].task \in {"tick", "run", "once"}
    <2>1. CASE Open # {}
      BY <1>0, <1>4, <2>1, EndStep DEF SettleDone
    <2>2. CASE Open = {}
      <3>1. Acquire(p, "body") /\ \A i \in Unfinished : Inner(i)
        BY <1>0, <1>4, <2>2 DEF SettleDone, Inner
      <3>2. QED
        BY <1>0, <1>4, <3>1, AcquireStep DEF In, Does, Runner
    <2>3. QED
      BY <2>1, <2>2
  <1>5. CASE proc[p].task \in {"deposit", "redeem"}
    <2>1. CASE Open # {}
      BY <1>0, <1>5, <2>1, EndStep DEF SettleDone
    <2>2. CASE Open = {}
      <3>1. Acquire(p, "again") /\ \A i \in Unfinished : Inner(i)
        BY <1>0, <1>5, <2>2 DEF SettleDone, Inner
      <3>2. p = "operator"
        BY <1>0, <1>5 DEF Knows, Shape, Does
      <3>3. QED
        BY <1>0, <1>5, <3>1, <3>2, AcquireStep DEF In, Does
    <2>3. QED
      BY <2>1, <2>2
  <1>6. QED
    BY <1>1, <1>2, <1>3, <1>4, <1>5 DEF Does

LEMMA GiveUpStep ==
  ASSUME PositionInv, NEW p \in Procs, UNCHANGED <<kind, plan, cycle, lock, txs, own>>, GiveUp(p)
  PROVE  PositionInv'
  <1>0. Types
    BY DEF PositionInv
  <1>1. /\ Only(p) /\ proc'[p].waiting = FALSE /\ proc'[p].tx = 0
        /\ \/ proc'[p].pc = "idle" /\ proc'[p].task = "none"
           \/ proc'[p].pc = "release" /\ proc'[p].task = proc[p].task /\ lock = p
           \/ proc'[p].pc = "held" /\ proc'[p].task = proc[p].task /\ Does(p, Redeemer)
    BY <1>0, GaveUp
  <1>2. Quiet(p)
    BY <1>0, <1>1 DEF Quiet, Types
  <1>3. Shape(p)
    BY DEF PositionInv, Knows
  <1>4. Types' => Knows(p)'
    BY <1>1, <1>3, AtRest DEF Shape, Does
  <1>5. QED
    BY <1>2, <1>4, QuietStep

LEMMA AllSame ==
  ASSUME PositionInv, UNCHANGED <<kind, plan, cycle, lock, txs, own, proc>>
  PROVE  PositionInv'
  BY DEF PositionInv, Types, Facts, Rows, Few, Balance, Covered, Backing, Waiting, Over, Unfinished,
    Open, Deposit, Redeem, Inner, Due, Coming, Unbooked, Begun, Knows, Shape, Locked, Depositing,
    Withdrawing, Cycling, Signing, Starting, In, Does, Tx

LEMMA WorldSteps ==
  ASSUME PositionInv, Expire \/ Lapse \/ \E p \in Procs : Die(p)
  PROVE  PositionInv'
  <1>1. CASE Expire
    BY <1>1, AllSame DEF Expire
  <1>2. CASE Lapse
    <2>1. PICK p \in Procs : p = lock
      BY <1>2 DEF PositionInv, Types, Lapse
    <2>2. /\ Types /\ proc[p].pc = "idle" /\ Knows(p) /\ lock' = Free
          /\ UNCHANGED <<kind, plan, cycle, txs, own, proc>>
      BY <1>2, <2>1 DEF PositionInv, Lapse, fixed
    <2>3. Quiet(p)
      BY <2>1, <2>2 DEF Quiet, Only, Types
    <2>4. Knows(p)'
      BY <2>2 DEF Knows, Shape, Locked, Depositing, Withdrawing, Cycling, Signing, Starting, In,
        Does, Sending, Sent, Marked, Begun, Deposit
    <2>5. QED
      BY <2>3, <2>4, QuietStep
  <1>3. ASSUME NEW p \in Procs, Die(p)
        PROVE  PositionInv'
    BY <1>3, EndStep DEF Die
  <1>4. QED
    BY <1>1, <1>2, <1>3

LEMMA LookStep ==
  ASSUME PositionInv, NEW p \in Procs, Look(p)
  PROVE  PositionInv'
  <1>0. /\ Types /\ Knows(p) /\ {"held", "lock"} \subseteq Pcs /\ proc[p].pc = "look"
        /\ UNCHANGED <<kind, plan, cycle, lock, txs, own>>
    BY DEF PositionInv, Look, At, fixed, Pcs
  <1>1. CASE Leave(p)
    BY <1>0, <1>1, EndStep
  <1>2. ASSUME NEW pc \in {"held", "lock"}, Goto(p, pc)
        PROVE  PositionInv'
    <2>1. /\ proc'[p].pc = pc /\ proc'[p].task = proc[p].task /\ proc'[p].want = proc[p].want
      BY <1>0, <1>2, Went
    <2>2. Shape(p)' /\ Locked(p)' /\ Depositing(p)' /\ Withdrawing(p)' /\ Cycling(p)' /\ Signing(p)'
      BY <1>0, <1>2, <2>1 DEF Knows, Shape, Locked, Depositing, Withdrawing, Cycling, Signing, In, Does, Sending,
        Sent, Marked, Redeemer, Runner
    <2>3. QED
      BY <1>0, <1>2, <2>2, GotoStep
  <1>3. QED
    BY <1>1, <1>2 DEF Look

LEMMA LockStep ==
  ASSUME PositionInv, NEW p \in Procs, Lock(p)
  PROVE  PositionInv'
  <1>0. /\ Types /\ Knows(p) /\ {"held", "fresh"} \subseteq Pcs /\ proc[p].pc = "lock"
        /\ UNCHANGED <<kind, plan, cycle, txs, own>>
    BY DEF PositionInv, Lock, At, fixed, Pcs
  <1>1. PICK pc \in {"held", "fresh"} : Goto(p, pc) /\ (pc = "fresh" => lock' = p)
                                        /\ (lock' = lock \/ (lock = Free /\ lock' = p))
    BY DEF Lock
  <1>2. /\ proc'[p].pc = pc /\ proc'[p].task = proc[p].task /\ proc'[p].want = proc[p].want
    BY <1>0, <1>1, Went
  <1>3. Shape(p)' /\ Locked(p)' /\ Depositing(p)' /\ Withdrawing(p)' /\ Cycling(p)' /\ Signing(p)'
    BY <1>0, <1>1, <1>2 DEF Knows, Shape, Locked, Depositing, Withdrawing, Cycling, Signing, In,
      Does, Sending, Sent, Marked, Redeemer, Runner
  <1>4. QED
    BY <1>0, <1>1, <1>3, GotoStep

LEMMA CycleStep ==
  ASSUME PositionInv, NEW p \in Procs, Cycle(p)
  PROVE  PositionInv'
  <1>0. /\ Types /\ Knows(p) /\ "settle" \in Pcs /\ proc[p].pc = "cycle" /\ Does(p, Runner)
        /\ UNCHANGED <<kind, plan, cycle, lock, txs, own>>
    BY DEF PositionInv, Cycle, At, fixed, Pcs, Knows, Shape, In
  <1>1. CASE End(p)
    BY <1>0, <1>1, EndStep
  <1>2. CASE Redeeming(p, "expiry", "stopped", "over")
    BY <1>0, <1>2, RedeemingStep DEF Redeemer, Outs, Whys
  <1>3. CASE Goto(p, "settle")
    <2>1. /\ proc'[p].pc = "settle" /\ proc'[p].task = proc[p].task
      BY <1>0, <1>3, Went
    <2>2. Shape(p)' /\ Locked(p)' /\ Depositing(p)' /\ Withdrawing(p)' /\ Cycling(p)' /\ Signing(p)'
      BY <1>0, <1>3, <2>1 DEF Knows, Shape, Locked, Depositing, Withdrawing, Cycling, Signing, In,
        Does, Sending, Sent, Marked, Redeemer, Runner
    <2>3. QED
      BY <1>0, <1>3, <2>2, GotoStep
  <1>4. QED
    BY <1>1, <1>2, <1>3 DEF Cycle

\* A process goes on to sign what it has prepared.
LEMMA PreparedStep ==
  ASSUME PositionInv, NEW p \in Procs, UNCHANGED <<kind, plan, cycle, lock, txs, own>>,
         NEW pc \in Pcs, pc \notin {"late", "start"}, Only(p), proc'[p].pc = pc,
         proc'[p].waiting = proc[p].waiting, proc'[p].tx = proc[p].tx,
         Types' => /\ Shape(p)' /\ Locked(p)' /\ Depositing(p)' /\ Withdrawing(p)'
                   /\ Cycling(p)' /\ Signing(p)'
  PROVE  PositionInv'
  <1>0. Types /\ Knows(p)
    BY DEF PositionInv
  <1>1. Quiet(p)
    BY <1>0 DEF Quiet, Types
  <1>2. Begun' <=> Begun
    BY DEF Begun, Deposit
  <1>3. Starting(p)' /\ proc'[p].tx <= Len(txs)'
    BY <1>0, <1>2 DEF Knows, Starting, In
  <1>4. Types' => Knows(p)'
    BY <1>3 DEF Knows
  <1>5. QED
    BY <1>1, <1>4, QuietStep

LEMMA FreshStep ==
  ASSUME PositionInv, NEW p \in Procs, Fresh(p)
  PROVE  PositionInv'
  <1>0. /\ Types /\ Knows(p) /\ proc[p] \in ProcType /\ {"held", "build"} \subseteq Pcs
        /\ proc[p].pc = "fresh" /\ UNCHANGED <<kind, plan, cycle, lock, txs, own>>
        /\ plan.vt \in Nat /\ proc \in [Procs -> ProcType]
    BY DEF PositionInv, Fresh, At, fixed, Pcs, Types, PlanType
  <1>1. CASE Goto(p, "held")
    <2>1. /\ proc'[p].pc = "held" /\ proc'[p].task = proc[p].task /\ proc'[p].want = proc[p].want
      BY <1>0, <1>1, Went
    <2>2. Shape(p)' /\ Locked(p)' /\ Depositing(p)' /\ Withdrawing(p)' /\ Cycling(p)' /\ Signing(p)'
      BY <1>0, <2>1 DEF Knows, Shape, Locked, Depositing, Withdrawing, Cycling, Signing, In, Does,
        Sending, Sent, Marked, Redeemer, Runner
    <2>3. QED
      BY <1>0, <1>1, <2>2, GotoStep
  <1>2. CASE Leave(p)
    BY <1>0, <1>2, EndStep
  <1>3. CASE /\ Unfinished = {} /\ plan.vt > 1
             /\ proc' = [proc EXCEPT ![p].pc = "build", ![p].vt = 0, ![p].units = plan.vt]
    <2> DEFINE r == [proc[p] EXCEPT !.pc = "build", !.vt = 0, !.units = plan.vt]
    <2>1. /\ r \in ProcType /\ r.pc = "build" /\ r.task = proc[p].task /\ r.waiting = proc[p].waiting
          /\ r.want = proc[p].want /\ r.units = plan.vt /\ r.tx = proc[p].tx
      BY <1>0 DEF ProcType
    <2>2. proc' = [proc EXCEPT ![p] = r]
      BY <1>3
    <2> HIDE DEF r
    <2>3. proc'[p] = r /\ Only(p)
      BY <1>0, <2>1, <2>2 DEF Only
    <2>4. Unfinished' = {} /\ plan'.vt > 1 /\ plan'.vt = plan.vt
      BY <1>0, <1>3 DEF Unfinished, Open
    <2>5. Shape(p)' /\ Locked(p)'
      BY <1>0, <2>1, <2>3 DEF Knows, Shape, Locked, In, Does, Sending, Sent, Marked, Redeemer, Runner
    <2>6. Depositing(p)' /\ Withdrawing(p)' /\ Cycling(p)' /\ Signing(p)'
      BY <1>0, <2>1, <2>3, <2>4 DEF Knows, Shape, Depositing, Withdrawing, Cycling, Signing, In, Does, Sending,
        Sent, Marked, Redeemer, Runner
    <2>7. QED
      BY <1>0, <2>1, <2>3, <2>5, <2>6, PreparedStep
  <1>4. QED
    BY <1>0, <1>1, <1>2, <1>3 DEF Fresh, InFlight

LEMMA BuildStep ==
  ASSUME PositionInv, NEW p \in Procs, Build(p)
  PROVE  PositionInv'
  <1>0. /\ Types /\ Knows(p) /\ proc[p] \in ProcType /\ {"held", "check"} \subseteq Pcs
        /\ proc[p].pc = "build" /\ UNCHANGED <<kind, plan, cycle, lock, txs, own>>
        /\ plan.vt \in Nat /\ proc \in [Procs -> ProcType]
    BY DEF PositionInv, Build, At, fixed, Pcs, Types, PlanType
  <1>1. CASE Goto(p, "held")
    <2>1. /\ proc'[p].pc = "held" /\ proc'[p].task = proc[p].task /\ proc'[p].want = proc[p].want
      BY <1>0, <1>1, Went
    <2>2. Shape(p)' /\ Locked(p)' /\ Depositing(p)' /\ Withdrawing(p)' /\ Cycling(p)' /\ Signing(p)'
      BY <1>0, <2>1 DEF Knows, Shape, Locked, Depositing, Withdrawing, Cycling, Signing, In, Does,
        Sending, Sent, Marked, Redeemer, Runner
    <2>3. QED
      BY <1>0, <1>1, <2>2, GotoStep
  <1>2. ASSUME NEW dust \in {0, 1},
               proc' = [proc EXCEPT ![p].pc = "check", ![p].sign = "redeem", ![p].units = @ - dust]
        PROVE  PositionInv'
    <2> DEFINE r == [proc[p] EXCEPT !.pc = "check", !.sign = "redeem", !.units = proc[p].units - dust]
    <2>0. Unfinished = {} /\ proc[p].units = plan.vt /\ plan.vt > 1
      BY <1>0 DEF Knows, Withdrawing, In
    <2>a. proc[p].units - dust \in Nat
      BY <1>0, <2>0
    <2>1. /\ r \in ProcType /\ r.pc = "check" /\ r.task = proc[p].task /\ r.waiting = proc[p].waiting
          /\ r.want = proc[p].want /\ r.units = proc[p].units - dust /\ r.tx = proc[p].tx
          /\ r.sign = "redeem"
      BY <1>0, <2>a DEF ProcType
    <2>2. proc' = [proc EXCEPT ![p] = r]
      BY <1>2
    <2> HIDE DEF r
    <2>3. proc'[p] = r /\ Only(p)
      BY <1>0, <2>1, <2>2 DEF Only
    <2>4. Unfinished' = {} /\ plan'.vt > 1 /\ plan'.vt = plan.vt
      BY <1>0, <2>0 DEF Unfinished, Open
    <2>5. Shape(p)' /\ Locked(p)'
      BY <1>0, <2>1, <2>3 DEF Knows, Shape, Locked, In, Does, Sending, Sent, Marked, Redeemer, Runner
    <2>6. Depositing(p)' /\ Withdrawing(p)' /\ Cycling(p)' /\ Signing(p)'
      BY <1>0, <2>0, <2>1, <2>3, <2>4 DEF Knows, Shape, Depositing, Withdrawing, Cycling, Signing, In,
        Does, Sending, Sent, Marked, Redeemer, Runner
    <2>7. QED
      BY <1>0, <2>1, <2>3, <2>5, <2>6, PreparedStep
  <1>3. QED
    BY <1>1, <1>2 DEF Build

LEMMA AllowStep ==
  ASSUME PositionInv, NEW p \in Procs, Allow(p)
  PROVE  PositionInv'
  <1>0. /\ Types /\ Knows(p) /\ proc[p] \in ProcType /\ "check" \in Pcs
        /\ proc[p].pc = "allow" /\ UNCHANGED <<kind, plan, cycle, lock, txs, own>>
        /\ plan.vt \in Nat /\ proc \in [Procs -> ProcType]
    BY DEF PositionInv, Allow, At, fixed, Pcs, Types, PlanType
  <1>1. CASE Leave(p)
    BY <1>0, <1>1, EndStep
  <1>2. CASE proc' = [proc EXCEPT ![p].pc = "check", ![p].sign = "deposit", ![p].units = Minted]
    <2> DEFINE r == [proc[p] EXCEPT !.pc = "check", !.sign = "deposit", !.units = Minted]
    <2>1. /\ r \in ProcType /\ r.pc = "check" /\ r.task = proc[p].task /\ r.waiting = proc[p].waiting
          /\ r.want = proc[p].want /\ r.units = Minted /\ r.tx = proc[p].tx
          /\ r.sign = "deposit"
      BY <1>0, MintedAssumption DEF ProcType
    <2>2. proc' = [proc EXCEPT ![p] = r]
      BY <1>2
    <2> HIDE DEF r
    <2>3. proc'[p] = r /\ Only(p)
      BY <1>0, <2>1, <2>2 DEF Only
    <2>4. Unfinished' = Unfinished
      BY <1>0 DEF Unfinished, Open
    <2>5. Shape(p)' /\ Locked(p)'
      BY <1>0, <2>1, <2>3 DEF Knows, Shape, Locked, In, Does, Sending, Sent, Marked, Redeemer, Runner
    <2>6. Depositing(p)' /\ Withdrawing(p)' /\ Cycling(p)' /\ Signing(p)'
      BY <1>0, <2>1, <2>3, <2>4 DEF Knows, Shape, Depositing, Withdrawing, Cycling, Signing, In, Does, Sending,
        Sent, Marked, Redeemer, Runner, Inner
    <2>7. QED
      BY <1>0, <2>1, <2>3, <2>5, <2>6, PreparedStep
  <1>3. QED
    BY <1>1, <1>2 DEF Allow

LEMMA CheckStep ==
  ASSUME PositionInv, NEW p \in Procs, Check(p)
  PROVE  PositionInv'
  <1>0. /\ Types /\ Knows(p) /\ proc[p] \in ProcType /\ "sign" \in Pcs
        /\ proc[p].pc = "check" /\ UNCHANGED <<kind, plan, cycle, lock, txs, own>>
    BY DEF PositionInv, Check, At, fixed, Pcs, Types
  <1>1. CASE GiveUp(p)
    BY <1>0, <1>1, GiveUpStep
  <1>2. CASE Goto(p, "sign")
    <2>1. /\ proc'[p].pc = "sign" /\ proc'[p].task = proc[p].task /\ proc'[p].want = proc[p].want
          /\ proc'[p].sign = proc[p].sign /\ proc'[p].units = proc[p].units
      BY <1>0, <1>2, Went
    <2>2. Unfinished' = Unfinished
      BY <1>0 DEF Unfinished, Open
    <2>3. Shape(p)' /\ Locked(p)'
      BY <1>0, <2>1 DEF Knows, Shape, Locked, In, Does, Sending, Sent, Marked, Redeemer, Runner
    <2>4. Depositing(p)' /\ Withdrawing(p)' /\ Cycling(p)' /\ Signing(p)'
      BY <1>0, <2>1, <2>2 DEF Knows, Shape, Depositing, Withdrawing, Cycling, Signing, In, Does, Sending,
        Sent, Marked, Redeemer, Runner, Inner
    <2>5. QED
      BY <1>0, <1>2, <2>3, <2>4, GotoStep
  <1>3. QED
    BY <1>1, <1>2 DEF Check

LEMMA AgainStep ==
  ASSUME PositionInv, Again
  PROVE  PositionInv'
  <1> DEFINE p == "operator"
  <1>0. /\ Types /\ p \in Procs /\ Knows(p) /\ proc[p] \in ProcType /\ "allow" \in Pcs
        /\ proc[p].pc = "again" /\ UNCHANGED <<kind, plan, cycle, lock, txs, own>>
        /\ proc[p].task \in {"deposit", "redeem"} /\ plan.principal \in Nat
    <2>1. p \in Procs
      BY DEF Procs
    <2>2. Types /\ Knows(p) /\ proc[p] \in ProcType
      BY <2>1 DEF PositionInv, Types
    <2>3. QED
      BY <2>1, <2>2 DEF Again, At, fixed, Pcs, Types, PlanType, Knows, Shape, In, Does
  <1>1. CASE Leave(p)
    BY <1>0, <1>1, EndStep
  <1>2. CASE Redeeming(p, "redeem", Kept, "other")
    <2>1. Kept \in Outs /\ "redeem" \in Redeemer /\ "other" \in Whys
      BY DEF Kept, Outs, Redeemer, Whys
    <2>2. QED
      BY <1>0, <1>2, <2>1, RedeemingStep
  <1>3. CASE proc[p].task = "deposit" /\ ~(plan.principal >= MaxPrincipal) /\ Goto(p, "allow")
    <2>1. /\ proc'[p].pc = "allow" /\ proc'[p].task = "deposit"
      BY <1>0, <1>3, Went
    <2>2. Unfinished' = Unfinished /\ plan'.principal < MaxPrincipal
      BY <1>0, <1>3, MaxPrincipalAssumption DEF Unfinished, Open
    <2>3. Shape(p)' /\ Locked(p)'
      BY <1>0, <1>3, <2>1 DEF Knows, Shape, Locked, In, Does, Sending, Sent, Marked, Redeemer, Runner
    <2>4. Depositing(p)' /\ Withdrawing(p)' /\ Cycling(p)' /\ Signing(p)'
      BY <1>0, <1>3, <2>1, <2>2 DEF Knows, Shape, Depositing, Withdrawing, Cycling, Signing, In, Does, Sending,
        Sent, Marked, Redeemer, Runner, Inner
    <2>5. QED
      BY <1>0, <1>3, <2>3, <2>4, GotoStep
  <1>4. QED
    BY <1>0, <1>1, <1>2, <1>3 DEF Again

-----------------------------------------------------------------------------
(* The steps that write a status or end a cycle                            *)

\* The plan keeps its money, and no transaction changes; the plan does not wait for its first
\* run again, and is active only with principal; a cycle is over, or held, with nothing
\* unfinished; only p's cycle stops running.
Rewrites(p) ==
    /\ UNCHANGED <<kind, txs, own>>
    /\ Only(p)
    /\ plan' \in PlanType /\ plan'.principal = plan.principal /\ plan'.vt = plan.vt
    /\ plan'.reason = "awaiting_run" => plan.reason = "awaiting_run"
    /\ plan'.status = "active" => plan.status = "active" \/ plan.principal > 0
    /\ cycle' \in {"none", "running", "awaiting", "held"}
    /\ cycle' \in {"none", "held"} =>
         cycle \in {"none", "held"} \/ \A i \in Unfinished : ~Inner(i)
    /\ cycle' = "held" => cycle = "held" \/ plan'.reason # "awaiting_run"
    /\ cycle' # cycle /\ cycle = "running" => lock = p
    /\ lock' \in Procs \cup {Free}
    /\ \A q \in Procs : q # p /\ lock = q => lock' = q

LEMMA RewriteStep ==
  ASSUME PositionInv, NEW p \in Procs, Rewrites(p), Types' => Knows(p)'
  PROVE  PositionInv'
  <1>0. Types /\ Facts
    BY DEF PositionInv
  <1>1. Types'
    BY <1>0 DEF Types, Rewrites, Only
  <1>2. /\ Unfinished' = Unfinished /\ Coming' = Coming /\ Unbooked' = Unbooked /\ (Begun' <=> Begun)
        /\ UNCHANGED <<kind, txs, own>>
        /\ plan'.principal = plan.principal /\ plan'.vt = plan.vt
    BY DEF Rewrites, Unfinished, Open, Coming, Unbooked, Begun, Due, Deposit
  <1>3. Rows' /\ Few'
    BY <1>0, <1>2 DEF Facts, Rows, Few, Deposit, Redeem, Inner
  <1>4. Balance' /\ Covered'
    BY <1>0, <1>2 DEF Facts, Balance, Covered, Deposit, Redeem, Inner, Due
  <1>5. Backing'
    BY <1>0, <1>2 DEF Facts, Backing, Rewrites
  <1>6. Waiting'
    BY <1>0, <1>2 DEF Facts, Waiting, Rewrites, Redeem, Inner
  <1>7. Over'
    BY <1>0, <1>2 DEF Facts, Over, Rewrites, Inner
  <1>8. ASSUME NEW q \in Procs, q # p
        PROVE  Knows(q)'
    <2>1. Gentle(q)
      BY <1>0, <1>2, <1>8 DEF Gentle, Kept1, Rewrites, Types
    <2>2. QED
      BY <1>0, <1>1, <1>8, <2>1, OthersKnow DEF PositionInv, Rewrites, Only
  <1>9. QED
    BY <1>1, <1>3, <1>4, <1>5, <1>6, <1>7, <1>8 DEF PositionInv, Facts

\* A write of the status alone, and what it makes of the row.
LEMMA WroteRow ==
  ASSUME Types, NEW status \in Statuses, NEW reason \in Reasons, Wrote(status, reason)
  PROVE  /\ plan' \in PlanType /\ plan'.principal = plan.principal /\ plan'.vt = plan.vt
         /\ plan'.status = status /\ plan'.reason = reason
  BY DEF Types, PlanType, Wrote

\* No deposit was booked without leaving principal while the plan waits for its first run.
LEMMA StartsFunded ==
  ASSUME PositionInv, Begun, plan.reason = "awaiting_run"
  PROVE  plan.principal > 0 /\ cycle # "held"
  BY DEF PositionInv, Facts, Waiting

LEMMA StartRewrites ==
  ASSUME PositionInv, NEW p \in Procs, Begun, Only(p),
         UNCHANGED <<kind, cycle, lock, txs, own>>,
         \/ WroteIf("paused", "awaiting_run", "active", "other")
         \/ WroteIf("paused", "awaiting_run", "stopped", "other")
         \/ UNCHANGED plan
  PROVE  Rewrites(p)
  <1>0. Types /\ {"active", "stopped"} \subseteq Statuses /\ "other" \in Reasons
    BY DEF PositionInv, Statuses, Reasons
  <1>1. CASE UNCHANGED plan
    BY <1>0, <1>1 DEF Rewrites, Types
  <1>2. ASSUME NEW status \in {"active", "stopped"}, Wrote(status, "other"),
               plan.reason = "awaiting_run"
        PROVE  Rewrites(p)
    <2>1. /\ plan' \in PlanType /\ plan'.principal = plan.principal /\ plan'.vt = plan.vt
          /\ plan'.reason = "other"
      BY <1>0, <1>2, WroteRow
    <2>2. plan.principal > 0
      BY <1>2, StartsFunded
    <2>3. QED
      BY <1>0, <2>1, <2>2 DEF Rewrites, Types
  <1>3. QED
    BY <1>1, <1>2 DEF WroteIf

LEMMA LateStartStep ==
  ASSUME PositionInv, NEW p \in Procs, LateStart(p)
  PROVE  PositionInv'
  <1>0. /\ Types /\ Knows(p) /\ "settle" \in Pcs /\ proc[p].pc = "late" /\ Goto(p, "settle")
        /\ UNCHANGED <<kind, cycle, lock, txs, own>>
    BY DEF PositionInv, LateStart, At, fixed, Pcs
  <1>1. /\ Only(p) /\ proc'[p].pc = "settle" /\ proc'[p].task = proc[p].task
        /\ proc'[p].waiting = proc[p].waiting /\ proc'[p].tx = proc[p].tx
    BY <1>0, Went
  <1>2. Begun /\ Begun'
    BY <1>0 DEF Knows, Starting, In, Begun, Deposit
  <1>3. Rewrites(p)
    BY <1>0, <1>1, <1>2, StartRewrites DEF LateStart
  <1>4. Knows(p)'
    <2>1. Shape(p)' /\ Locked(p)' /\ Starting(p)' /\ proc'[p].tx <= Len(txs)'
      BY <1>0, <1>1, <1>2 DEF Knows, Shape, Locked, Starting, In, Does, Sending, Sent, Marked, Redeemer,
        Runner
    <2>2. Depositing(p)' /\ Withdrawing(p)' /\ Cycling(p)' /\ Signing(p)'
      BY <1>1 DEF Depositing, Withdrawing, Cycling, Signing, In, Does, Sending, Sent, Marked
    <2>3. QED
      BY <2>1, <2>2 DEF Knows
  <1>5. QED
    BY <1>3, <1>4, RewriteStep

\* A step that ends a task, or leaves it, and writes as Rewrites says.
LEMMA EndRewrite ==
  ASSUME PositionInv, NEW p \in Procs, Only(p) => Rewrites(p), End(p) \/ Leave(p), lock' = lock
  PROVE  PositionInv'
  <1>0. Types /\ Shape(p)
    BY DEF PositionInv, Knows
  <1>1. /\ Only(p) /\ proc'[p].waiting = FALSE /\ proc'[p].tx = 0
        /\ \/ proc'[p].pc = "idle" /\ proc'[p].task = "none"
           \/ proc'[p].pc = "release" /\ proc'[p].task = proc[p].task /\ lock = p
    BY <1>0, Ended, Left
  <1>2. kind' = kind
    BY <1>1 DEF Rewrites
  <1>3. Types' => Knows(p)'
    BY <1>0, <1>1, <1>2, AtRest DEF Shape, Does
  <1>4. QED
    BY <1>1, <1>3, RewriteStep

LEMMA StartSteps ==
  ASSUME PositionInv, Start \/ Started
  PROVE  PositionInv'
  <1>0. /\ Types /\ "worker" \in Procs /\ Knows("worker") /\ End("worker")
        /\ UNCHANGED <<kind, cycle, lock, txs, own>>
    BY DEF PositionInv, Start, Started, fixed, Procs
  <1>1. ASSUME Only("worker")
        PROVE  Rewrites("worker")
    <2>1. CASE Begun
      BY <1>0, <1>1, <2>1, StartRewrites DEF Start, Started
    <2>2. CASE ~Begun
      <3>1. UNCHANGED plan
        BY <1>0, <2>2 DEF Start, Started, Knows, Starting, In, At
      <3>2. QED
        BY <1>0, <1>1, <3>1 DEF Rewrites, Types
    <2>3. QED
      BY <2>1, <2>2
  <1>2. QED
    BY <1>0, <1>1, EndRewrite

LEMMA DisableStep ==
  ASSUME PositionInv, Disable
  PROVE  PositionInv'
  <1>0. /\ Types /\ "worker" \in Procs /\ "paused" \in Statuses /\ "other" \in Reasons
        /\ Wrote("paused", "other") /\ End("worker") /\ UNCHANGED <<kind, cycle, lock, txs, own>>
    BY DEF PositionInv, Disable, fixed, Procs, Statuses, Reasons
  <1>1. /\ plan' \in PlanType /\ plan'.principal = plan.principal /\ plan'.vt = plan.vt
        /\ plan'.status = "paused" /\ plan'.reason = "other"
    BY <1>0, WroteRow
  <1>2. Only("worker") => Rewrites("worker")
    BY <1>0, <1>1 DEF Rewrites, Types
  <1>3. QED
    BY <1>0, <1>2, EndRewrite

LEMMA ActivateStep ==
  ASSUME PositionInv, Activate
  PROVE  PositionInv'
  <1>0. /\ Types /\ "operator" \in Procs /\ "active" \in Statuses /\ "other" \in Reasons
        /\ End("operator") /\ UNCHANGED <<kind, cycle, lock, txs, own>>
    BY DEF PositionInv, Activate, fixed, Procs, Statuses, Reasons
  <1>1. /\ plan' \in PlanType /\ plan'.principal = plan.principal /\ plan'.vt = plan.vt
        /\ plan'.reason = "awaiting_run" => plan.reason = "awaiting_run"
        /\ plan'.status = "active" => plan.status = "active" \/ plan.principal > 0
    <2>1. CASE plan.principal > 0
      <3>1. Wrote("active", "other")
        BY <2>1 DEF Activate
      <3>2. QED
        BY <1>0, <2>1, <3>1, WroteRow
    <2>2. CASE ~(plan.principal > 0)
      BY <1>0, <2>2 DEF Activate, Types
    <2>3. QED
      BY <2>1, <2>2
  <1>2. Only("operator") => Rewrites("operator")
    BY <1>0, <1>1 DEF Rewrites, Types
  <1>3. QED
    BY <1>0, <1>2, EndRewrite

LEMMA PauseStep ==
  ASSUME PositionInv, Pause
  PROVE  PositionInv'
  <1> DEFINE p == "operator"
  <1>0. /\ Types /\ p \in Procs /\ "paused" \in Statuses /\ "other" \in Reasons
        /\ Wrote("paused", "other") /\ UNCHANGED <<kind, cycle, lock, txs, own, proc>>
        /\ Knows(p) /\ proc[p].pc = "idle"
    BY DEF PositionInv, Pause, fixed, Procs, Statuses, Reasons, At
  <1>1. /\ plan' \in PlanType /\ plan'.principal = plan.principal /\ plan'.vt = plan.vt
        /\ plan'.status = "paused" /\ plan'.reason = "other"
    BY <1>0, WroteRow
  <1>2. Rewrites(p)
    BY <1>0, <1>1 DEF Rewrites, Types, Only
  <1>3. Begun' <=> Begun
    BY <1>0 DEF Begun, Deposit
  <1>4. Knows(p)'
    <2>1. Shape(p)' /\ Locked(p)' /\ Starting(p)' /\ proc'[p].tx <= Len(txs)'
      BY <1>0, <1>3 DEF Knows, Shape, Locked, Starting, In, Does, Sending, Sent, Marked, Redeemer,
        Runner
    <2>2. Depositing(p)' /\ Withdrawing(p)' /\ Cycling(p)' /\ Signing(p)'
      BY <1>0 DEF Depositing, Withdrawing, Cycling, Signing, In, Does, Sending, Sent, Marked
    <2>3. QED
      BY <2>1, <2>2 DEF Knows
  <1>5. QED
    BY <1>0, <1>2, <1>4, RewriteStep

LEMMA HoldStep ==
  ASSUME PositionInv, NEW p \in Procs, Hold(p)
  PROVE  PositionInv'
  <1>0. /\ Types /\ Leave(p) /\ plan' = [plan EXCEPT !.reason = "other"] /\ "other" \in Reasons
        /\ UNCHANGED <<kind, cycle, lock, txs, own>>
    BY DEF PositionInv, Hold, fixed, Reasons
  <1>1. /\ plan' \in PlanType /\ plan'.principal = plan.principal /\ plan'.vt = plan.vt
        /\ plan'.status = plan.status /\ plan'.reason = "other"
    BY <1>0 DEF Types, PlanType
  <1>2. Only(p) => Rewrites(p)
    BY <1>0, <1>1 DEF Rewrites, Types
  <1>3. QED
    BY <1>0, <1>2, EndRewrite

LEMMA MarkStep ==
  ASSUME PositionInv, NEW p \in Procs, Mark(p)
  PROVE  PositionInv'
  <1>0. /\ Types /\ Knows(p) /\ "look" \in Pcs /\ proc[p].pc = "mark" /\ Goto(p, "look")
        /\ UNCHANGED <<kind, cycle, lock, txs, own>>
        /\ Wrote(proc[p].want.status, proc[p].want.reason)
    BY DEF PositionInv, Mark, At, fixed, Pcs
  <1>1. /\ Only(p) /\ proc'[p].pc = "look" /\ proc'[p].task = proc[p].task
        /\ proc'[p].waiting = proc[p].waiting /\ proc'[p].tx = proc[p].tx
        /\ proc'[p].want = proc[p].want
    BY <1>0, Went
  <1>2. Does(p, Redeemer) /\ proc[p].want.status \in Outs /\ proc[p].want.reason \in Whys
    BY <1>0 DEF Knows, Shape, In
  <1>3. /\ plan' \in PlanType /\ plan'.principal = plan.principal /\ plan'.vt = plan.vt
        /\ plan'.status # "active" /\ plan'.reason # "awaiting_run"
    <2>1. PICK status \in Outs, reason \in Whys : Wrote(status, reason)
      BY <1>0, <1>2
    <2>2. status \in Statuses /\ status # "active" /\ reason \in Reasons /\ reason # "awaiting_run"
      BY DEF Outs, Whys, Statuses, Reasons
    <2>3. QED
      BY <1>0, <2>1, <2>2, WroteRow
  <1>4. Rewrites(p)
    BY <1>0, <1>1, <1>3 DEF Rewrites, Types
  <1>5. Begun' <=> Begun
    BY <1>0 DEF Begun, Deposit
  <1>6. Knows(p)'
    <2>1. Shape(p)' /\ Locked(p)' /\ Starting(p)' /\ proc'[p].tx <= Len(txs)'
      BY <1>0, <1>1, <1>2, <1>5 DEF Knows, Shape, Locked, Starting, In, Does, Sending, Sent, Marked,
        Redeemer, Runner
    <2>2. Depositing(p)' /\ Withdrawing(p)' /\ Cycling(p)' /\ Signing(p)'
      BY <1>1, <1>3 DEF Depositing, Withdrawing, Cycling, Signing, In, Does, Sending, Sent, Marked
    <2>3. QED
      BY <2>1, <2>2 DEF Knows
  <1>7. QED
    BY <1>4, <1>6, RewriteStep

\* The lock goes; a once plan's cycle may end the plan with it.
LEMMA ReleaseStep ==
  ASSUME PositionInv, NEW p \in Procs, Release(p)
  PROVE  PositionInv'
  <1>0. /\ Types /\ Knows(p) /\ {"started", "idle"} \subseteq Pcs /\ proc[p].pc = "release"
        /\ lock = p /\ lock' = Free /\ UNCHANGED <<kind, cycle, txs, own>>
    BY DEF PositionInv, Release, At, fixed, Pcs, Knows, Locked, In
  <1>1. /\ Only(p)
        /\ \/ proc'[p].pc = "started" /\ proc'[p].task = proc[p].task
              /\ proc'[p].waiting = proc[p].waiting /\ proc'[p].tx = proc[p].tx
              /\ proc[p].task = "run"
           \/ proc'[p].pc = "idle" /\ proc'[p].task = "none" /\ proc'[p].waiting = FALSE
              /\ proc'[p].tx = 0
    <2>1. CASE Goto(p, "started") /\ proc[p].task = "run"
      BY <1>0, <2>1, Went
    <2>2. CASE End(p)
      BY <1>0, <2>2, Ended
    <2>3. QED
      BY <2>1, <2>2 DEF Release
  <1>2. /\ plan' \in PlanType /\ plan'.principal = plan.principal /\ plan'.vt = plan.vt
        /\ plan'.status = plan.status \/ plan'.status = "stopped"
        /\ plan'.reason = plan.reason
    <2>1. CASE plan' = [plan EXCEPT !.status = "stopped"]
      BY <1>0, <2>1 DEF Types, PlanType, Statuses
    <2>2. CASE UNCHANGED plan
      BY <1>0, <2>2 DEF Types
    <2>3. QED
      BY <2>1, <2>2 DEF Release
  <1>3. Rewrites(p)
    BY <1>0, <1>1, <1>2 DEF Rewrites, Types
  <1>4. Begun' <=> Begun
    BY <1>0 DEF Begun, Deposit
  <1>5. ASSUME Types'
        PROVE  Knows(p)'
    <2>1. txs' \in Seq(TxType)
      BY <1>5 DEF Types
    <2>2. Shape(p)' /\ Locked(p)' /\ Starting(p)' /\ proc'[p].tx <= Len(txs)'
      BY <1>0, <1>1, <1>4, <2>1 DEF Knows, Shape, Locked, Starting, In, Does, Sending, Sent, Marked,
        Redeemer, Runner
    <2>3. Depositing(p)' /\ Withdrawing(p)' /\ Cycling(p)' /\ Signing(p)'
      BY <1>1 DEF Depositing, Withdrawing, Cycling, Signing, In, Does, Sending, Sent, Marked
    <2>4. QED
      BY <2>2, <2>3 DEF Knows
  <1>6. QED
    BY <1>3, <1>5, RewriteStep

LEMMA ClosingStep ==
  ASSUME PositionInv, Closing
  PROVE  PositionInv'
  <1> DEFINE p == "operator"
  <1>0. /\ Types /\ p \in Procs /\ "paused" \in Statuses /\ "other" \in Reasons /\ "release" \in Pcs
        /\ UNCHANGED <<kind, lock, txs, own>> /\ Goto(p, "release")
        /\ Knows(p) /\ proc[p].pc = "closing"
    BY DEF PositionInv, Closing, fixed, Procs, Statuses, Reasons, At, Pcs
  <1>1. /\ Only(p) /\ proc'[p].pc = "release" /\ proc'[p].task = proc[p].task
        /\ proc'[p].waiting = proc[p].waiting /\ proc'[p].tx = proc[p].tx
    BY <1>0, Went
  <1>2. /\ plan' \in PlanType /\ plan'.principal = plan.principal /\ plan'.vt = plan.vt
        /\ plan'.reason = "awaiting_run" => plan.reason = "awaiting_run"
        /\ plan'.status = "active" => plan.status = "active"
    <2>1. CASE Wrote("paused", "other")
      BY <1>0, <2>1, WroteRow
    <2>2. CASE UNCHANGED plan
      BY <1>0, <2>2 DEF Types
    <2>3. QED
      BY <2>1, <2>2 DEF Closing, WroteIf
  <1>3. cycle' = cycle \/ (cycle = "held" /\ cycle' = "none")
    BY DEF Closing
  <1>4. Rewrites(p)
    BY <1>0, <1>1, <1>2, <1>3 DEF Rewrites, Types
  <1>5. Begun' <=> Begun
    BY <1>0 DEF Begun, Deposit
  <1>6. Knows(p)'
    <2>1. Shape(p)' /\ Locked(p)' /\ Starting(p)' /\ proc'[p].tx <= Len(txs)'
      BY <1>0, <1>1, <1>5 DEF Knows, Shape, Locked, Starting, In, Does, Sending, Sent, Marked, Redeemer,
        Runner
    <2>2. Depositing(p)' /\ Withdrawing(p)' /\ Cycling(p)' /\ Signing(p)'
      BY <1>1 DEF Depositing, Withdrawing, Cycling, Signing, In, Does, Sending, Sent, Marked
    <2>3. QED
      BY <2>1, <2>2 DEF Knows
  <1>7. QED
    BY <1>0, <1>4, <1>6, RewriteStep

\* A cycle's body: what it may find unfinished is nothing of a cycle, and leaves nothing to
\* redeem interest from.
LEMMA BodyStep ==
  ASSUME PositionInv, NEW p \in Procs, Body(p)
  PROVE  PositionInv'
  <1>0. /\ Types /\ Facts /\ Knows(p) /\ {"buy", "check"} \subseteq Pcs /\ proc[p].pc = "body"
        /\ lock = p /\ UNCHANGED <<kind, plan, lock, txs, own>> /\ plan \in PlanType
        /\ proc[p] \in ProcType /\ proc \in [Procs -> ProcType] /\ Does(p, Runner)
    BY DEF PositionInv, Body, At, fixed, Pcs, Knows, Locked, Shape, In, Types
  <1>1. CASE Leave(p) /\ (cycle' = cycle \/ (cycle = "running" /\ cycle' = "awaiting")
                          \/ (cycle = "running" /\ cycle' = "none" /\ \A i \in Unfinished : ~txs[i].inCycle))
    <2>1. Only(p) => Rewrites(p)
      BY <1>0, <1>1 DEF Rewrites, Types, Inner
    <2>2. QED
      BY <1>0, <1>1, <2>1, EndRewrite
  <1>2. ASSUME cycle = "none", cycle' = "running", Only(p)
        PROVE  /\ Rewrites(p) /\ Unfinished' = Unfinished /\ (Begun' <=> Begun)
               /\ \A i \in Unfinished : ~Inner(i) /\ ~txs[i].receipt /\ Deposit(i) /\ plan.vt <= 1
    <2>1. Rewrites(p)
      BY <1>0, <1>2 DEF Rewrites, Types
    <2>2. Unfinished' = Unfinished /\ (Begun' <=> Begun)
      BY <1>0 DEF Unfinished, Open, Begun, Deposit
    <2>3. \A i \in Unfinished : ~Inner(i)
      BY <1>0, <1>2 DEF Facts, Over
    <2>4. \A i \in Unfinished : ~txs[i].receipt /\ Deposit(i) /\ kind.owner = "judge"
      BY <1>0, <2>3 DEF Knows, Cycling, In
    <2>5. \A i \in Unfinished : plan.vt <= 1
      BY <1>0, <2>4 DEF Facts, Covered
    <2>6. QED
      BY <2>1, <2>2, <2>3, <2>4, <2>5
  <1>3. CASE cycle = "none" /\ cycle' = "running" /\ Goto(p, "buy")
    <2>1. /\ Only(p) /\ proc'[p].pc = "buy" /\ proc'[p].task = proc[p].task
          /\ proc'[p].waiting = proc[p].waiting /\ proc'[p].tx = proc[p].tx
      BY <1>0, <1>3, Went
    <2>2. /\ Rewrites(p) /\ Unfinished' = Unfinished /\ (Begun' <=> Begun)
          /\ \A i \in Unfinished : ~Inner(i)
      BY <1>2, <1>3, <2>1
    <2>3. Knows(p)'
      <3>1. Shape(p)' /\ Locked(p)' /\ Starting(p)' /\ proc'[p].tx <= Len(txs)'
        BY <1>0, <2>1, <2>2 DEF Knows, Shape, Locked, Starting, In, Does, Sending, Sent, Marked,
          Redeemer, Runner
      <3>2. \A i \in Unfinished' : ~Inner(i)'
        BY <1>0, <2>2 DEF Inner
      <3>3. Depositing(p)' /\ Withdrawing(p)' /\ Cycling(p)' /\ Signing(p)'
        BY <1>3, <2>1, <3>2 DEF Depositing, Withdrawing, Cycling, Signing, In, Does, Sending, Sent, Marked
      <3>4. QED
        BY <3>1, <3>3 DEF Knows
    <2>4. QED
      BY <2>2, <2>3, RewriteStep
  <1>4. CASE /\ cycle = "none" /\ cycle' = "running" /\ plan.vt > 2 /\ plan.principal > 0
             /\ proc' = [proc EXCEPT ![p].pc = "check", ![p].sign = "redeem", ![p].units = 1]
    <2> DEFINE r == [proc[p] EXCEPT !.pc = "check", !.sign = "redeem", !.units = 1]
    <2>1. /\ r \in ProcType /\ r.pc = "check" /\ r.task = proc[p].task /\ r.waiting = proc[p].waiting
          /\ r.units = 1 /\ r.tx = proc[p].tx /\ r.sign = "redeem"
      BY <1>0 DEF ProcType
    <2>2. proc' = [proc EXCEPT ![p] = r]
      BY <1>4
    <2> HIDE DEF r
    <2>3. proc'[p] = r /\ Only(p)
      BY <1>0, <2>1, <2>2 DEF Only
    <2>4. /\ Rewrites(p) /\ Unfinished' = Unfinished /\ (Begun' <=> Begun) /\ Unfinished = {}
      <3>1. plan.vt \in Nat
        BY <1>0 DEF PlanType
      <3>2. QED
        BY <1>2, <1>4, <2>3, <3>1
    <2>5. Knows(p)'
      <3>1. Shape(p)' /\ Locked(p)' /\ Starting(p)' /\ proc'[p].tx <= Len(txs)'
        BY <1>0, <2>1, <2>3, <2>4 DEF Knows, Shape, Locked, Starting, In, Does, Sending, Sent, Marked,
          Redeemer, Runner
      <3>2. plan'.vt > 2 /\ plan'.vt \in Nat /\ Unfinished' = {}
        BY <1>0, <1>4, <2>4 DEF PlanType
      <3>3. Depositing(p)' /\ Withdrawing(p)' /\ Cycling(p)' /\ Signing(p)'
        BY <1>0, <1>4, <2>1, <2>3, <3>2 DEF Depositing, Withdrawing, Cycling, Signing, In, Does,
          Sending, Sent, Marked, Runner, Redeemer
      <3>4. QED
        BY <3>1, <3>3 DEF Knows
    <2>6. QED
      BY <2>4, <2>5, RewriteStep
  <1>5. QED
    BY <1>1, <1>3, <1>4 DEF Body

\* A process that ran its cycle is on its way out, and keeps nothing but that it starts
\* the plan.
LEMMA RanStep ==
  ASSUME PositionInv, NEW p \in Procs, NEW over \in BOOLEAN, Ran(p, over), lock = p, lock' = lock,
         Only(p) => Rewrites(p)
  PROVE  PositionInv'
  <1>0. Types /\ Knows(p)
    BY DEF PositionInv
  <1>1. /\ Only(p) /\ proc'[p].pc = "release" /\ proc'[p].task = proc[p].task
        /\ proc'[p].waiting = proc[p].waiting /\ proc'[p].tx = 0
    BY <1>0, Ranned
  <1>2. kind' = kind /\ txs' = txs
    BY <1>1 DEF Rewrites
  <1>3. proc'[p].waiting => Begun'
    BY <1>0, <1>1, <1>2 DEF Knows, Starting, Begun, Deposit
  <1>4. Types' => Knows(p)'
    BY <1>0, <1>1, <1>2, <1>3, AtRest DEF Knows, Shape, Does
  <1>5. QED
    BY <1>1, <1>4, RewriteStep

LEMMA BuyStep ==
  ASSUME PositionInv, NEW p \in Procs, Buy(p)
  PROVE  PositionInv'
  <1>0. /\ Types /\ Knows(p) /\ proc[p].pc = "buy" /\ lock = p /\ cycle = "running"
        /\ (\A i \in Unfinished : ~Inner(i))
        /\ UNCHANGED <<kind, lock, txs, own>> /\ "paused" \in Statuses /\ "needs_review" \in Reasons
    BY DEF PositionInv, Buy, At, fixed, Knows, Locked, Cycling, Shape, In, Statuses, Reasons
  <1>1. ASSUME NEW over \in BOOLEAN, Ran(p, over), cycle' \in {"none", "awaiting"}, UNCHANGED plan
        PROVE  PositionInv'
    <2>1. Only(p) => Rewrites(p)
      BY <1>0, <1>1 DEF Rewrites, Types
    <2>2. QED
      BY <1>0, <1>1, <2>1, RanStep
  <1>2. CASE cycle' = "held" /\ Wrote("paused", "needs_review") /\ Leave(p)
    <2>1. /\ plan' \in PlanType /\ plan'.principal = plan.principal /\ plan'.vt = plan.vt
          /\ plan'.status = "paused" /\ plan'.reason = "needs_review"
      BY <1>0, <1>2, WroteRow
    <2>2. Only(p) => Rewrites(p)
      BY <1>0, <1>2, <2>1 DEF Rewrites, Types
    <2>3. QED
      BY <1>0, <1>2, <2>2, EndRewrite
  <1>3. QED
    BY <1>1, <1>2 DEF Buy

LEMMA PendingStep ==
  ASSUME PositionInv, NEW p \in Procs, Pending(p)
  PROVE  PositionInv'
  <1>0. /\ Types /\ Knows(p) /\ proc[p].pc = "wait"
        /\ UNCHANGED <<kind, plan, lock, txs, own>>
    BY DEF PositionInv, Pending, At, fixed
  <1>1. CASE InCycle(p) /\ cycle' = "awaiting" /\ Ran(p, FALSE)
    <2>1. lock = p
      BY <1>0, <1>1 DEF Knows, Locked, In, Does, InCycle, Sent
    <2>2. Only(p) => Rewrites(p)
      BY <1>0, <1>1, <2>1 DEF Rewrites, Types
    <2>3. QED
      BY <1>0, <1>1, <2>1, <2>2, RanStep
  <1>2. CASE GiveUp(p) /\ UNCHANGED cycle
    BY <1>0, <1>2, GiveUpStep
  <1>3. QED
    BY <1>1, <1>2 DEF Pending

-----------------------------------------------------------------------------
(* The steps of a transaction already signed                               *)

\* One transaction changes.
LEMMA OneRow ==
  ASSUME Types, NEW i \in DOMAIN txs, NEW r \in TxType, txs' = [txs EXCEPT ![i] = r]
  PROVE  /\ txs' \in Seq(TxType) /\ Len(txs)' = Len(txs) /\ DOMAIN txs' = DOMAIN txs
         /\ txs'[i] = r /\ \A j \in DOMAIN txs : j # i => txs'[j] = txs[j]
  BY DEF Types

\* Which it is: mined, or its row settled, or its receipt booked.
LEMMA MinedRow ==
  ASSUME Types, NEW i \in DOMAIN txs, NEW m \in {"success", "reverted"},
         txs' = [txs EXCEPT ![i].mined = m]
  PROVE  /\ txs' \in Seq(TxType) /\ Len(txs)' = Len(txs) /\ DOMAIN txs' = DOMAIN txs
         /\ \A j \in DOMAIN txs : j # i => txs'[j] = txs[j]
         /\ txs'[i].what = txs[i].what /\ txs'[i].units = txs[i].units
         /\ txs'[i].inCycle = txs[i].inCycle /\ txs'[i].status = txs[i].status
         /\ txs'[i].receipt = txs[i].receipt /\ txs'[i].mined = m
  <1> DEFINE r == [txs[i] EXCEPT !.mined = m]
  <1>1. txs[i] \in TxType /\ txs' = [txs EXCEPT ![i] = r]
    BY DEF Types
  <1>2. /\ r \in TxType /\ r.what = txs[i].what /\ r.units = txs[i].units
        /\ r.inCycle = txs[i].inCycle /\ r.status = txs[i].status /\ r.receipt = txs[i].receipt
        /\ r.mined = m
    BY <1>1 DEF TxType
  <1> HIDE DEF r
  <1>3. QED
    BY <1>1, <1>2, OneRow

LEMMA StatusRow ==
  ASSUME Types, NEW i \in DOMAIN txs, NEW s \in {"CONFIRMED", "FAILED"},
         txs' = [txs EXCEPT ![i].status = s]
  PROVE  /\ txs' \in Seq(TxType) /\ Len(txs)' = Len(txs) /\ DOMAIN txs' = DOMAIN txs
         /\ \A j \in DOMAIN txs : j # i => txs'[j] = txs[j]
         /\ txs'[i].what = txs[i].what /\ txs'[i].units = txs[i].units
         /\ txs'[i].inCycle = txs[i].inCycle /\ txs'[i].status = s
         /\ txs'[i].receipt = txs[i].receipt /\ txs'[i].mined = txs[i].mined
  <1> DEFINE r == [txs[i] EXCEPT !.status = s]
  <1>1. txs[i] \in TxType /\ txs' = [txs EXCEPT ![i] = r]
    BY DEF Types
  <1>2. /\ r \in TxType /\ r.what = txs[i].what /\ r.units = txs[i].units
        /\ r.inCycle = txs[i].inCycle /\ r.status = s /\ r.receipt = txs[i].receipt
        /\ r.mined = txs[i].mined
    BY <1>1 DEF TxType
  <1> HIDE DEF r
  <1>3. QED
    BY <1>1, <1>2, OneRow

LEMMA ReceiptRow ==
  ASSUME Types, NEW i \in DOMAIN txs, txs' = [txs EXCEPT ![i].receipt = TRUE]
  PROVE  /\ txs' \in Seq(TxType) /\ Len(txs)' = Len(txs) /\ DOMAIN txs' = DOMAIN txs
         /\ \A j \in DOMAIN txs : j # i => txs'[j] = txs[j]
         /\ txs'[i].what = txs[i].what /\ txs'[i].units = txs[i].units
         /\ txs'[i].inCycle = txs[i].inCycle /\ txs'[i].status = txs[i].status
         /\ txs'[i].receipt = TRUE /\ txs'[i].mined = txs[i].mined
  <1> DEFINE r == [txs[i] EXCEPT !.receipt = TRUE]
  <1>1. txs[i] \in TxType /\ txs' = [txs EXCEPT ![i] = r]
    BY DEF Types
  <1>2. /\ r \in TxType /\ r.what = txs[i].what /\ r.units = txs[i].units
        /\ r.inCycle = txs[i].inCycle /\ r.status = txs[i].status /\ r.receipt = TRUE
        /\ r.mined = txs[i].mined
    BY <1>1 DEF TxType
  <1> HIDE DEF r
  <1>3. QED
    BY <1>1, <1>2, OneRow

LEMMA TxFields ==
  ASSUME Types, NEW i \in DOMAIN txs
  PROVE  /\ txs[i] \in TxType /\ txs[i].what \in {"deposit", "redeem"} /\ txs[i].units \in Nat
         /\ txs[i].inCycle \in BOOLEAN /\ txs[i].receipt \in BOOLEAN
         /\ txs[i].status \in {"open", "CONFIRMED", "FAILED"}
         /\ txs[i].mined \in {"no", "success", "reverted"}
  <1>1. txs[i] \in TxType
    BY DEF Types
  <1>2. QED
    BY <1>1 DEF TxType

LEMMA UnfinishedMeans ==
  \A i : i \in Unfinished <=>
    i \in DOMAIN txs /\ (txs[i].status = "open" \/ (txs[i].status = "CONFIRMED" /\ ~txs[i].receipt))
  BY DEF Unfinished, Open

\* What is due is unfinished.
LEMMA DueMeans ==
  ASSUME Types, Facts, NEW i \in DOMAIN txs, Due(i)
  PROVE  i \in Unfinished /\ ~txs[i].receipt /\ txs[i].mined = "success"
  BY TxFields, UnfinishedMeans DEF Due, Facts, Rows

\* At most one of a kind.
LEMMA OnlyOne ==
  ASSUME Types, Facts, NEW i \in Unfinished, NEW j \in Unfinished, txs[i].what = txs[j].what
  PROVE  i = j
  BY DEF Facts, Few

LEMMA MineStep ==
  ASSUME PositionInv, NEW i \in DOMAIN txs, Mine(i)
  PROVE  PositionInv'
  <1>0. /\ Types /\ Facts /\ txs[i].status = "open" /\ txs[i].mined = "no"
        /\ UNCHANGED <<kind, plan, cycle, lock, proc>> /\ plan \in PlanType /\ own \in Int
    BY DEF PositionInv, Mine, Types
  <1>1. PICK m \in {"success", "reverted"} :
          /\ txs' = [txs EXCEPT ![i].mined = m]
          /\ own' = IF m = "success" THEN own + Moved(i) ELSE own
    BY DEF Mine
  <1>2. /\ txs' \in Seq(TxType) /\ Len(txs)' = Len(txs) /\ DOMAIN txs' = DOMAIN txs
        /\ \A j \in DOMAIN txs :
             /\ txs'[j].what = txs[j].what /\ txs'[j].units = txs[j].units
             /\ txs'[j].inCycle = txs[j].inCycle /\ txs'[j].status = txs[j].status
             /\ txs'[j].receipt = txs[j].receipt
             /\ j # i => txs'[j].mined = txs[j].mined
        /\ txs'[i].mined = m
    BY <1>0, <1>1, MinedRow
  <1>3. /\ i \in Unfinished /\ ~txs[i].receipt /\ ~Due(i)
        /\ txs[i].what \in {"deposit", "redeem"} /\ txs[i].units \in Nat
    BY <1>0, TxFields, UnfinishedMeans DEF Facts, Rows, Due
  <1>4. Unfinished' = Unfinished
    BY <1>2 DEF Unfinished, Open
  <1>5. Types'
    <2>1. own' \in Int
      BY <1>0, <1>1, <1>3 DEF Moved
    <2>2. QED
      BY <1>0, <1>2, <2>1 DEF Types
  <1>6. /\ (Begun' <=> Begun) /\ Unbooked' = Unbooked
        /\ \A j \in DOMAIN txs : (Deposit(j)' <=> Deposit(j)) /\ (Redeem(j)' <=> Redeem(j))
                                 /\ (Inner(j)' <=> Inner(j))
    BY <1>2, <1>4, UnfinishedMeans DEF Begun, Unbooked, Deposit, Redeem, Inner
  <1>7. Rows'
    BY <1>0, <1>2, <1>6 DEF Facts, Rows
  <1>8. Few' /\ Waiting' /\ Over' /\ Covered' /\ Backing'
    <2>1. \A j \in Unfinished : j \in DOMAIN txs
      BY UnfinishedMeans
    <2>2. Few' /\ Over'
      BY <1>0, <1>2, <1>4, <1>6, <2>1 DEF Facts, Few, Over
    <2>3. Waiting'
      BY <1>0, <1>2, <1>4, <1>6, <2>1 DEF Facts, Waiting
    <2>4. Covered'
      BY <1>0, <1>2, <1>4, <1>6, <2>1 DEF Facts, Covered
    <2>5. Backing'
      BY <1>0, <1>2, <1>6 DEF Facts, Backing
    <2>6. QED
      BY <2>2, <2>3, <2>4, <2>5
  <1>9. Balance'
    <2>1. CASE m = "reverted"
      <3>1. \A j \in DOMAIN txs : Due(j)' <=> Due(j)
        BY <1>2, <1>3, <2>1 DEF Due
      <3>2. Coming' = Coming
        BY <1>2, <1>6, <3>1 DEF Coming
      <3>3. QED
        BY <1>0, <1>1, <1>2, <1>6, <2>1, <3>1, <3>2 DEF Facts, Balance
    <2>2. CASE m = "success"
      <3>1. \A j \in DOMAIN txs : Due(j)' <=> Due(j) \/ j = i
        BY <1>2, <1>3, <2>2 DEF Due
      <3>2. \A j \in DOMAIN txs : Due(j) => txs[j].what # txs[i].what
        BY <1>0, <1>3, DueMeans, OnlyOne
      <3>3. CASE Deposit(i)
        <4>1. Coming = 0 /\ Coming' = Minted
          BY <1>2, <1>6, <3>1, <3>2, <3>3 DEF Coming, Deposit
        <4>2. own' = own + Minted
          BY <1>0, <1>1, <2>2, <3>3 DEF Moved, Deposit, Facts, Rows
        <4>3. \A j \in DOMAIN txs : Due(j)' /\ Redeem(j)' <=> Due(j) /\ Redeem(j)
          BY <1>6, <3>1, <3>3 DEF Deposit, Redeem
        <4>4. \A j \in DOMAIN txs : txs[j].units \in Nat
          BY <1>0, TxFields
        <4>5. /\ plan.vt \in Nat /\ own \in Int /\ Minted \in Nat
              /\ \A j \in DOMAIN txs : Due(j) /\ Redeem(j) => own = plan.vt + 0 - txs[j].units
              /\ (\A j \in DOMAIN txs : ~(Due(j) /\ Redeem(j))) => own = plan.vt + 0
          BY <1>0, <4>1, MintedAssumption DEF Facts, Balance, PlanType
        <4>6. /\ \A j \in DOMAIN txs : Due(j) /\ Redeem(j) => own' = plan.vt + Minted - txs[j].units
              /\ (\A j \in DOMAIN txs : ~(Due(j) /\ Redeem(j))) => own' = plan.vt + Minted
          BY <4>2, <4>4, <4>5
        <4>7. QED
          BY <1>0, <1>2, <4>1, <4>3, <4>6 DEF Balance
      <3>4. CASE Redeem(i)
        <4>1. Coming' = Coming /\ Coming \in Nat
          BY <1>2, <1>6, <3>1, <3>4, MintedAssumption DEF Coming, Deposit, Redeem
        <4>2. own' = own - txs[i].units
          BY <1>0, <1>1, <1>3, <2>2, <3>4 DEF Moved, Redeem
        <4>3. own = plan.vt + Coming
          BY <1>0, <3>2, <3>4 DEF Facts, Balance, Redeem
        <4>4. \A j \in DOMAIN txs : Due(j)' /\ Redeem(j)' <=> j = i
          BY <1>6, <3>1, <3>2, <3>4 DEF Redeem
        <4>5. own' = plan.vt + Coming - txs[i].units
          BY <1>0, <1>3, <4>1, <4>2, <4>3 DEF PlanType
        <4>6. QED
          BY <1>0, <1>2, <4>1, <4>4, <4>5 DEF Balance
      <3>5. QED
        BY <1>3, <3>3, <3>4 DEF Deposit, Redeem
    <2>3. QED
      BY <2>1, <2>2
  <1>10. ASSUME NEW q \in Procs
         PROVE  Knows(q)'
    <2>1. Gentle(q)
      BY <1>0, <1>2, <1>4, UnfinishedMeans DEF Gentle, Kept1, Types
    <2>2. QED
      BY <1>0, <1>5, <2>1, OthersKnow DEF PositionInv
  <1>11. QED
    BY <1>5, <1>7, <1>8, <1>9, <1>10 DEF PositionInv, Facts

\* A row gets its last status, as the chain says.
LEMMA AdvanceFacts ==
  ASSUME PositionInv, NEW i \in DOMAIN txs, NEW s \in {"CONFIRMED", "FAILED"},
         txs' = [txs EXCEPT ![i].status = s], s = "CONFIRMED" <=> txs[i].mined = "success",
         UNCHANGED <<kind, plan, own>>, proc' \in [Procs -> ProcType], lock' = lock,
         \/ cycle' = cycle
         \/ cycle' = "none" /\ \A j \in Unfinished : Inner(j) => j = i /\ s = "FAILED"
  PROVE  /\ Types' /\ Facts'
         /\ \A q \in Procs : (lock = q /\ cycle = "running" => cycle' = "running") => Gentle(q)
         /\ (Begun' <=> Begun) /\ txs'[i].status = s /\ Len(txs)' = Len(txs)
         /\ \A j \in DOMAIN txs : txs'[j].what = txs[j].what /\ txs'[j].inCycle = txs[j].inCycle
         /\ \A j \in Unfinished' : j \in Unfinished
  <1>0. Types /\ Facts /\ plan \in PlanType
    BY DEF PositionInv, Types
  <1>1. /\ txs' \in Seq(TxType) /\ Len(txs)' = Len(txs) /\ DOMAIN txs' = DOMAIN txs
        /\ \A j \in DOMAIN txs :
             /\ txs'[j].what = txs[j].what /\ txs'[j].units = txs[j].units
             /\ txs'[j].inCycle = txs[j].inCycle /\ txs'[j].mined = txs[j].mined
             /\ txs'[j].receipt = txs[j].receipt
             /\ j # i => txs'[j].status = txs[j].status
        /\ txs'[i].status = s
    BY <1>0, StatusRow
  <1>2. Types'
    BY <1>0, <1>1 DEF Types
  <1>3. txs[i].status = "CONFIRMED" => s = "CONFIRMED"
    BY <1>0 DEF Facts, Rows
  <1>4. \A j \in Unfinished' : j \in Unfinished /\ j \in DOMAIN txs /\ (j = i => s = "CONFIRMED")
    <2>1. SUFFICES ASSUME NEW j \in Unfinished'
                   PROVE  j \in Unfinished /\ j \in DOMAIN txs /\ (j = i => s = "CONFIRMED")
      OBVIOUS
    <2>2. /\ j \in DOMAIN txs
          /\ txs'[j].status = "open" \/ (txs'[j].status = "CONFIRMED" /\ ~txs[j].receipt)
      BY <1>1 DEF Unfinished, Open
    <2>3. CASE j # i
      BY <1>1, <2>2, <2>3, UnfinishedMeans
    <2>4. CASE j = i
      <3>1. s = "CONFIRMED" /\ ~txs[i].receipt
        BY <1>1, <2>2, <2>4
      <3>2. txs[i].status \in {"open", "CONFIRMED"}
        BY <1>0, <3>1, TxFields DEF Facts, Rows
      <3>3. QED
        BY <2>4, <3>1, <3>2, UnfinishedMeans
    <2>5. QED
      BY <2>3, <2>4
  <1>5. /\ (Begun' <=> Begun) /\ Coming' = Coming
        /\ \A j \in DOMAIN txs : (Deposit(j)' <=> Deposit(j)) /\ (Redeem(j)' <=> Redeem(j))
                                 /\ (Inner(j)' <=> Inner(j)) /\ (Due(j)' <=> Due(j))
    BY <1>1 DEF Begun, Coming, Deposit, Redeem, Inner, Due
  <1>6. Rows'
    BY <1>0, <1>1, <1>3, <1>5 DEF Facts, Rows
  <1>7. Few'
    BY <1>0, <1>1, <1>4, <1>5 DEF Facts, Few
  <1>8. Balance'
    BY <1>0, <1>1, <1>5 DEF Facts, Balance
  <1>9. Covered'
    BY <1>0, <1>1, <1>4, <1>5 DEF Facts, Covered
  <1>10. Backing'
    <2>1. Unbooked' = Unbooked \/ (Unbooked' = 0 /\ Unbooked = Minted)
      <3>1. (\E j \in Unfinished' : ~txs'[j].receipt /\ Deposit(j)') =>
              \E j \in Unfinished : ~txs[j].receipt /\ Deposit(j)
        BY <1>1, <1>4, <1>5
      <3>2. QED
        BY <3>1 DEF Unbooked
    <2>2. /\ plan.vt \in Nat /\ Len(txs) * Minted \in Int /\ Minted \in Nat /\ Unbooked \in Nat
          /\ Unbooked' \in Nat
      <3>1. Len(txs) \in Int
        BY <1>0 DEF Types
      <3>2. QED
        BY <1>0, <3>1, MintedAssumption DEF PlanType, Unbooked
    <2>3. plan'.vt + Unbooked' <= Len(txs)' * Minted
      <3>1. plan.vt + Unbooked <= Len(txs) * Minted
        BY <1>0 DEF Facts, Backing
      <3>2. plan.vt + Unbooked' <= plan.vt + Unbooked
        BY <2>1, <2>2
      <3>3. QED
        BY <1>1, <2>2, <3>1, <3>2
    <2>4. QED
      BY <1>0, <1>1, <2>3 DEF Facts, Backing
  <1>11. Over'
    BY <1>0, <1>4, <1>5 DEF Facts, Over
  <1>12. Waiting'
    BY <1>0, <1>4, <1>5 DEF Facts, Waiting
  <1>13. ASSUME NEW q \in Procs, lock = q /\ cycle = "running" => cycle' = "running"
         PROVE  Gentle(q)
    <2>1. Kept1
      BY <1>0, <1>1, <1>3 DEF Kept1, Types
    <2>2. \A j \in Unfinished' : j \in Unfinished /\ txs'[j].receipt = txs[j].receipt
      BY <1>1, <1>4
    <2>3. QED
      BY <1>13, <2>1, <2>2 DEF Gentle
  <1>14. QED
    BY <1>1, <1>2, <1>4, <1>5, <1>6, <1>7, <1>8, <1>9, <1>10, <1>11, <1>12, <1>13 DEF Facts

LEMMA ReconcileStep ==
  ASSUME PositionInv, NEW p \in Procs, NEW i \in DOMAIN txs, Reconcile(p, i)
  PROVE  PositionInv'
  <1>0. Types /\ UNCHANGED <<kind, plan, own, cycle, lock, proc>>
    BY DEF PositionInv, Reconcile, fixed
  <1>1. PICK s \in {"CONFIRMED", "FAILED"} :
          /\ txs' = [txs EXCEPT ![i].status = s] /\ (s = "CONFIRMED" <=> txs[i].mined = "success")
    BY DEF Reconcile
  <1>2. Types' /\ Facts' /\ \A q \in Procs : Gentle(q)
    BY <1>0, <1>1, AdvanceFacts DEF Types
  <1>3. \A q \in Procs : Knows(q)'
    BY <1>0, <1>2, OthersKnow DEF PositionInv
  <1>4. QED
    BY <1>2, <1>3 DEF PositionInv

LEMMA ConfirmedStep ==
  ASSUME PositionInv, NEW p \in Procs, Confirmed(p)
  PROVE  PositionInv'
  <1> SUFFICES ASSUME NEW i, i = proc[p].tx
               PROVE  PositionInv'
    OBVIOUS
  <1>0. /\ Types /\ Facts /\ Knows(p) /\ "apply" \in Pcs /\ proc[p].pc = "wait" /\ Goto(p, "apply")
        /\ UNCHANGED <<kind, plan, own, cycle, lock>> /\ txs[i].mined = "success"
        /\ txs' = [txs EXCEPT ![i].status = "CONFIRMED"]
    BY DEF PositionInv, Confirmed, At, fixed, Pcs, Tx, Row
  <1>1. /\ i \in DOMAIN txs /\ (Does(p, {"start", "deposit"}) <=> Deposit(i))
        /\ (Does(p, Runner) <=> Inner(i))
        /\ Redeem(i) => \A j \in Unfinished : Redeem(j) => j = i
    BY <1>0 DEF Knows, Signing, In, Sent
  <1>2. /\ Only(p) /\ proc'[p].pc = "apply" /\ proc'[p].task = proc[p].task
        /\ proc'[p].waiting = proc[p].waiting /\ proc'[p].tx = i
        /\ proc'[p].want = proc[p].want
    BY <1>0, Went
  <1>3. /\ Types' /\ Facts' /\ (\A q \in Procs : Gentle(q)) /\ (Begun' <=> Begun)
        /\ txs'[i].status = "CONFIRMED" /\ Len(txs)' = Len(txs)
        /\ \A j \in DOMAIN txs : txs'[j].what = txs[j].what /\ txs'[j].inCycle = txs[j].inCycle
        /\ \A j \in Unfinished' : j \in Unfinished
    BY <1>0, <1>1, <1>2, AdvanceFacts DEF Only
  <1>4. ASSUME NEW q \in Procs, q # p
        PROVE  Knows(q)'
    BY <1>0, <1>2, <1>3, <1>4, OthersKnow DEF PositionInv, Only
  <1>5. Knows(p)'
    <2>1. Shape(p)' /\ Locked(p)' /\ Starting(p)' /\ proc'[p].tx <= Len(txs)'
      BY <1>0, <1>2, <1>3 DEF Knows, Shape, Locked, Starting, In, Does, Sending, Sent, Marked, Redeemer,
        Runner
    <2>2. Depositing(p)'
      BY <1>2 DEF Depositing, In, Does, Sending
    <2>3. Withdrawing(p)' /\ Cycling(p)'
      BY <1>0, <1>2 DEF Knows, Withdrawing, Cycling, In, Does, Sending, Sent, Marked
    <2>4. Signing(p)'
      <3>1. i \in DOMAIN txs' /\ \A j \in Unfinished' : j \in Unfinished /\ j \in DOMAIN txs
        BY <1>0, <1>1, <1>3, UnfinishedMeans DEF Types
      <3>2. QED
        BY <1>1, <1>2, <1>3, <3>1 DEF Signing, In, Does, Deposit, Inner, Redeem, Tx
    <2>5. QED
      BY <2>1, <2>2, <2>3, <2>4 DEF Knows
  <1>6. QED
    BY <1>3, <1>4, <1>5 DEF PositionInv

LEMMA FailedStep ==
  ASSUME PositionInv, NEW p \in Procs, Failed(p)
  PROVE  PositionInv'
  <1> SUFFICES ASSUME NEW i, i = proc[p].tx
               PROVE  PositionInv'
    OBVIOUS
  <1>0. /\ Types /\ Facts /\ Knows(p) /\ proc[p].pc = "wait"
        /\ UNCHANGED <<kind, plan, own, lock>> /\ txs[i].mined # "success"
        /\ txs' = [txs EXCEPT ![i].status = "FAILED"]
    BY DEF PositionInv, Failed, At, fixed, Tx, Row
  <1>1. /\ i \in DOMAIN txs /\ (Does(p, {"start", "deposit"}) <=> Deposit(i))
        /\ (Does(p, Runner) <=> Inner(i))
        /\ Redeem(i) => \A j \in Unfinished : Redeem(j) => j = i
    BY <1>0 DEF Knows, Signing, In, Sent
  <1>2. /\ Only(p) /\ proc'[p].tx = 0
        /\ proc'[p].waiting => proc[p].waiting
        /\ \/ proc'[p].pc = "idle" /\ proc'[p].task = "none"
           \/ proc'[p].pc = "release" /\ proc'[p].task = proc[p].task /\ lock = p
           \/ proc'[p].pc = "held" /\ proc'[p].task = proc[p].task /\ Does(p, Redeemer)
        /\ cycle' = cycle \/ (cycle' = "none" /\ lock = p /\ Does(p, Runner))
    <2>1. CASE InCycle(p) /\ cycle' = "none" /\ Ran(p, TRUE)
      <3>1. lock = p /\ Does(p, Runner)
        BY <1>0, <2>1 DEF Knows, Locked, In, Does, InCycle, Sent, Runner
      <3>2. QED
        BY <1>0, <2>1, <3>1, Ranned
    <2>2. CASE GiveUp(p) /\ UNCHANGED cycle
      BY <1>0, <2>2, GaveUp
    <2>3. QED
      BY <2>1, <2>2 DEF Failed
  <1>3. Does(p, Runner) => \A j \in Unfinished : Inner(j) => j = i
    <2>1. SUFFICES ASSUME Does(p, Runner), NEW j \in Unfinished, Inner(j)
                   PROVE  j = i
      OBVIOUS
    <2>2. j \in DOMAIN txs /\ Inner(i)
      BY <1>1, <2>1, UnfinishedMeans
    <2>3. Redeem(i) /\ Redeem(j)
      BY <1>0, <1>1, <2>1, <2>2, TxFields DEF Facts, Rows, Deposit, Redeem
    <2>4. QED
      BY <1>1, <2>3
  <1>4. /\ Types' /\ Facts' /\ (Begun' <=> Begun)
        /\ \A q \in Procs : q # p => Gentle(q)
    <2>1. /\ "FAILED" \in {"CONFIRMED", "FAILED"}
          /\ "FAILED" = "CONFIRMED" <=> txs[i].mined = "success"
      BY <1>0
    <2>2. \/ cycle' = cycle
          \/ cycle' = "none" /\ \A j \in Unfinished : Inner(j) => j = i /\ "FAILED" = "FAILED"
      BY <1>2, <1>3
    <2>3. \A q \in Procs : q # p => (lock = q /\ cycle = "running" => cycle' = "running")
      BY <1>2
    <2>4. proc' \in [Procs -> ProcType] /\ lock' = lock
      BY <1>0, <1>2 DEF Only
    <2>5. QED
      BY <1>0, <1>1, <2>1, <2>2, <2>3, <2>4, AdvanceFacts
  <1>5. ASSUME NEW q \in Procs, q # p
        PROVE  Knows(q)'
    BY <1>0, <1>2, <1>4, <1>5, OthersKnow DEF PositionInv, Only
  <1>6. Knows(p)'
    <2>1. proc'[p].waiting => Begun'
      BY <1>0, <1>2, <1>4 DEF Knows, Starting
    <2>2. QED
      BY <1>0, <1>2, <1>4, <2>1, AtRest DEF Knows, Shape, Does
  <1>7. QED
    BY <1>4, <1>5, <1>6 DEF PositionInv

-----------------------------------------------------------------------------
(* Signing                                                                 *)

\* What a process that signs has made sure of.
LEMMA SignsWhat ==
  ASSUME PositionInv, NEW p \in Procs, proc[p].pc = "sign"
  PROVE  \/ /\ Does(p, {"start", "deposit"}) /\ proc[p].sign = "deposit" /\ proc[p].units = Minted
            /\ ~InCycle(p) /\ plan.principal < MaxPrincipal
            /\ \A i \in Unfinished : Inner(i)
            /\ kind.owner = "judge" => Does(p, {"start"}) /\ p = "worker" /\ plan.vt <= 1
            /\ Does(p, {"start"}) => plan.vt <= 1 /\ kind.owner = "judge" /\ p = "worker"
            /\ Does(p, {"deposit"}) => lock = p /\ kind.owner = "house"
         \/ /\ Does(p, Redeemer \cup Runner) /\ proc[p].sign = "redeem" /\ lock = p
            /\ Unfinished = {} /\ plan.vt > 1 /\ proc[p].units <= plan.vt
            /\ InCycle(p) <=> Does(p, Runner)
            /\ ~InCycle(p) => plan.vt <= proc[p].units + 1 /\ plan.reason # "awaiting_run"
            /\ InCycle(p) => cycle = "running"
  <1>0. /\ Knows(p) /\ In(p, Sending) /\ In(p, Marked)
    BY DEF PositionInv, In, Sending, Marked
  <1>1. CASE Does(p, {"start", "deposit"}) /\ proc[p].sign = "deposit" /\ proc[p].units = Minted
    <2>1. ~InCycle(p)
      BY <1>1 DEF InCycle, Does
    <2>2. CASE Does(p, {"start"})
      <3>1. p = "worker" /\ kind.owner = "judge"
        BY <1>0, <2>2 DEF Knows, Shape
      <3>2. plan.principal = 0 /\ plan.vt <= 1 /\ Unfinished = {}
        BY <1>0, <2>2 DEF Knows, Depositing, In
      <3>3. QED
        BY <1>1, <2>1, <2>2, <3>1, <3>2, MaxPrincipalAssumption DEF Does
    <2>3. CASE Does(p, {"deposit"})
      <3>1. kind.owner = "house"
        BY <1>0, <2>3 DEF Knows, Shape
      <3>2. plan.principal < MaxPrincipal /\ \A i \in Unfinished : Inner(i)
        BY <1>0, <2>3 DEF Knows, Depositing, In
      <3>3. lock = p
        BY <1>0, <2>3 DEF Knows, Locked, In, Does
      <3>4. QED
        BY <1>1, <2>1, <2>3, <3>1, <3>2, <3>3 DEF Does
    <2>4. QED
      BY <1>1, <2>2, <2>3 DEF Does
  <1>2. CASE Does(p, Redeemer \cup Runner) /\ proc[p].sign = "redeem"
    <2>1. lock = p
      BY <1>0, <1>2 DEF Knows, Locked, In, Does, Redeemer, Runner
    <2>2. (InCycle(p) <=> Does(p, Runner)) /\ (~InCycle(p) => Does(p, Redeemer))
      BY <1>2 DEF InCycle, Does, Runner
    <2>3. /\ Unfinished = {} /\ plan.vt > 1 /\ proc[p].units <= plan.vt
          /\ Does(p, Redeemer) => plan.vt <= proc[p].units + 1 /\ plan.reason # "awaiting_run"
      BY <1>0, <1>2 DEF Knows, Withdrawing
    <2>4. Does(p, Runner) => cycle = "running"
      BY <1>0 DEF Knows, Cycling, In
    <2>5. QED
      BY <1>2, <2>1, <2>2, <2>3, <2>4
  <1>3. QED
    BY <1>0, <1>1, <1>2 DEF Knows, Shape

LEMMA SignStep ==
  ASSUME PositionInv, NEW p \in Procs, Sign(p)
  PROVE  PositionInv'
  <1> SUFFICES ASSUME NEW n, n = Len(txs) + 1
               PROVE  PositionInv'
    OBVIOUS
  <1>0. /\ Types /\ Facts /\ Knows(p) /\ proc[p].pc = "sign" /\ "wait" \in Pcs
        /\ UNCHANGED <<kind, own, plan, cycle, lock>> /\ Len(txs) < kind.txs
        /\ txs \in Seq(TxType) /\ proc \in [Procs -> ProcType] /\ proc[p] \in ProcType
        /\ plan \in PlanType /\ kind.txs \in Nat /\ Len(txs) \in Nat
        /\ proc[p].units \in Nat /\ proc[p].sign \in {"none", "deposit", "redeem"}
    <2>1. /\ Types /\ Facts /\ Knows(p) /\ proc[p].pc = "sign" /\ "wait" \in Pcs
          /\ UNCHANGED <<kind, own, plan, cycle, lock>> /\ Len(txs) < kind.txs
      BY DEF PositionInv, Sign, At, fixed, Pcs
    <2>2. /\ txs \in Seq(TxType) /\ proc \in [Procs -> ProcType] /\ proc[p] \in ProcType
          /\ plan \in PlanType /\ kind \in Kinds
      BY <2>1 DEF Types
    <2>3. kind.txs \in Nat
      BY <2>2, KindsAssumption
    <2>4. Len(txs) \in Nat
      BY <2>2
    <2>5. QED
      BY <2>1, <2>2, <2>3, <2>4, ProcFields
  <1>1. \/ /\ Does(p, {"start", "deposit"}) /\ proc[p].sign = "deposit" /\ proc[p].units = Minted
           /\ ~InCycle(p) /\ plan.principal < MaxPrincipal
           /\ \A i \in Unfinished : Inner(i)
           /\ kind.owner = "judge" => Does(p, {"start"}) /\ p = "worker" /\ plan.vt <= 1
           /\ Does(p, {"start"}) => plan.vt <= 1 /\ kind.owner = "judge" /\ p = "worker"
           /\ Does(p, {"deposit"}) => lock = p /\ kind.owner = "house"
        \/ /\ Does(p, Redeemer \cup Runner) /\ proc[p].sign = "redeem" /\ lock = p
           /\ Unfinished = {} /\ plan.vt > 1 /\ proc[p].units <= plan.vt
           /\ InCycle(p) <=> Does(p, Runner)
           /\ ~InCycle(p) => plan.vt <= proc[p].units + 1 /\ plan.reason # "awaiting_run"
           /\ InCycle(p) => cycle = "running"
    BY <1>0, SignsWhat
  <1>2. /\ txs' \in Seq(TxType) /\ Len(txs)' = n /\ DOMAIN txs' = DOMAIN txs \cup {n}
        /\ n \notin DOMAIN txs /\ n \in Nat
        /\ \A j \in DOMAIN txs : txs'[j] = txs[j]
        /\ txs'[n].what = proc[p].sign /\ txs'[n].units = proc[p].units
        /\ txs'[n].inCycle = InCycle(p) /\ txs'[n].status = "open" /\ txs'[n].mined = "no"
        /\ txs'[n].receipt = FALSE
    <2> DEFINE r == Signed(proc[p].sign, proc[p].units, InCycle(p))
    <2>1. /\ r \in TxType /\ r.what = proc[p].sign /\ r.units = proc[p].units
          /\ r.inCycle = InCycle(p) /\ r.status = "open" /\ r.mined = "no" /\ r.receipt = FALSE
      <3>1. proc[p].sign \in {"deposit", "redeem"} /\ InCycle(p) \in BOOLEAN
        BY <1>1 DEF InCycle
      <3>2. QED
        BY <1>0, <3>1 DEF Signed, TxType
    <2>2. txs' = Append(txs, r)
      BY DEF Sign
    <2> HIDE DEF r
    <2>3. /\ txs' \in Seq(TxType) /\ Len(txs)' = n /\ txs'[n] = r /\ n \in Nat
          /\ \A j \in DOMAIN txs : txs'[j] = txs[j]
      BY <1>0, <2>1, <2>2
    <2>4. DOMAIN txs' = DOMAIN txs \cup {n} /\ n \notin DOMAIN txs
      BY <1>0, <2>3
    <2>5. QED
      BY <2>1, <2>3, <2>4
  <1>3. Only(p) /\ proc'[p].pc = "wait" /\ proc'[p].task = proc[p].task
        /\ proc'[p].waiting = proc[p].waiting /\ proc'[p].want = proc[p].want /\ proc'[p].tx = n
    <2> DEFINE r == [proc[p] EXCEPT !.pc = "wait", !.tx = n, !.units = 0, !.sign = "none"]
    <2>1. /\ r \in ProcType /\ r.pc = "wait" /\ r.task = proc[p].task /\ r.waiting = proc[p].waiting
          /\ r.want = proc[p].want /\ r.tx = n
      BY <1>0, <1>2 DEF ProcType
    <2>2. proc' = [proc EXCEPT ![p] = r]
      BY DEF Sign
    <2> HIDE DEF r
    <2>3. QED
      BY <1>0, <2>1, <2>2 DEF Only
  <1>4. Types'
    BY <1>0, <1>2, <1>3 DEF Types, Only
  <1>5. Unfinished' = Unfinished \cup {n} /\ \A j \in Unfinished : j \in DOMAIN txs
    <2>1. \A j \in Unfinished : j \in DOMAIN txs
      BY UnfinishedMeans
    <2>2. \A j : j \in Unfinished' <=>
            j \in DOMAIN txs' /\ (txs'[j].status = "open" \/ (txs'[j].status = "CONFIRMED" /\ ~txs'[j].receipt))
      BY DEF Unfinished, Open
    <2>3. ASSUME NEW j
          PROVE  j \in Unfinished' <=> j \in Unfinished \cup {n}
      <3>1. CASE j = n
        BY <1>2, <2>2, <3>1
      <3>2. CASE j # n
        BY <1>2, <2>2, <3>2, UnfinishedMeans
      <3>3. QED
        BY <3>1, <3>2
    <2>4. QED
      BY <2>1, <2>3
  <1>6. /\ (Begun' <=> Begun) /\ Coming' = Coming
        /\ \A j \in DOMAIN txs : (Deposit(j)' <=> Deposit(j)) /\ (Redeem(j)' <=> Redeem(j))
                                 /\ (Inner(j)' <=> Inner(j)) /\ (Due(j)' <=> Due(j))
        /\ (Deposit(n)' <=> proc[p].sign = "deposit") /\ (Redeem(n)' <=> proc[p].sign = "redeem")
        /\ (Inner(n)' <=> InCycle(p)) /\ ~Due(n)'
    BY <1>2 DEF Begun, Coming, Deposit, Redeem, Inner, Due
  <1>7. \A j \in Unfinished : Inner(j) => Redeem(j)
    <2>1. SUFFICES ASSUME NEW j \in Unfinished, Inner(j)
                   PROVE  Redeem(j)
      OBVIOUS
    <2>2. j \in DOMAIN txs
      BY <1>5
    <2>3. QED
      BY <1>0, <2>1, <2>2, TxFields DEF Facts, Rows, Deposit, Redeem
  <1>8. Facts'
    <2>1. Rows'
      BY <1>0, <1>1, <1>2, <1>6 DEF Facts, Rows
    <2>2. Few'
      <3>1. CASE proc[p].sign = "deposit"
        <4>1. \A j \in Unfinished : Inner(j) /\ Redeem(j) /\ txs[j].what = "redeem"
          BY <1>1, <1>7, <3>1 DEF Redeem
        <4>2. \A j \in Unfinished : txs'[j].what = "redeem" /\ Inner(j)' /\ j # n
          BY <1>2, <1>5, <1>6, <4>1
        <4>3. \A i, j \in Unfinished : i = j
          BY <1>0, <4>1, OnlyOne
        <4>4. txs'[n].what = "deposit" /\ ~Redeem(n)'
          BY <1>2, <1>6, <3>1
        <4>5. QED
          BY <1>5, <4>2, <4>3, <4>4 DEF Few
      <3>2. CASE proc[p].sign = "redeem"
        BY <1>1, <1>5, <3>2 DEF Few
      <3>3. QED
        BY <1>1, <3>1, <3>2
    <2>3. Balance'
      BY <1>0, <1>2, <1>6 DEF Facts, Balance
    <2>4. Covered'
      <3>1. \A j \in Unfinished : txs'[j] = txs[j] /\ j \in DOMAIN txs
        BY <1>2, <1>5
      <3>2. ASSUME NEW j \in Unfinished
            PROVE  /\ ~txs'[j].receipt /\ Redeem(j)' => txs'[j].units <= plan'.vt
                   /\ ~txs'[j].receipt /\ Redeem(j)' /\ ~Inner(j)' => plan'.vt <= txs'[j].units + 1
                   /\ ~txs'[j].receipt /\ Deposit(j)' => plan'.principal < MaxPrincipal
                   /\ ~txs'[j].receipt /\ Deposit(j)' /\ kind'.owner = "judge" => plan'.vt <= 1
        BY <1>0, <1>6, <3>1 DEF Facts, Covered
      <3>3. /\ ~txs'[n].receipt /\ Redeem(n)' => txs'[n].units <= plan'.vt
            /\ ~txs'[n].receipt /\ Redeem(n)' /\ ~Inner(n)' => plan'.vt <= txs'[n].units + 1
            /\ ~txs'[n].receipt /\ Deposit(n)' => plan'.principal < MaxPrincipal
            /\ ~txs'[n].receipt /\ Deposit(n)' /\ kind'.owner = "judge" => plan'.vt <= 1
        BY <1>0, <1>1, <1>2, <1>6
      <3>4. QED
        BY <1>5, <3>2, <3>3 DEF Covered
    <2>5. Backing'
      <3>1. (Unbooked = 0 /\ Unbooked' \in {0, Minted}) /\ Unbooked \in Nat
        <4>1. ~\E j \in Unfinished : ~txs[j].receipt /\ Deposit(j)
          BY <1>1, <1>7 DEF Deposit, Redeem
        <4>2. QED
          BY <4>1 DEF Unbooked
      <3>2. /\ plan.vt + 0 <= Len(txs) * Minted /\ plan.vt \in Nat /\ Minted \in Nat
        BY <1>0, <3>1, MintedAssumption DEF Facts, Backing, PlanType
      <3>3. n * Minted = Len(txs) * Minted + Minted /\ Len(txs) * Minted \in Nat
        BY <1>0, <3>2
      <3>4. plan'.vt + Unbooked' <= Len(txs)' * Minted
        BY <1>0, <1>2, <3>1, <3>2, <3>3
      <3>5. Len(txs)' <= kind'.txs
        BY <1>0, <1>2
      <3>6. QED
        BY <1>0, <3>4, <3>5 DEF Facts, Backing
    <2>6. Waiting'
      <3>1. \A j \in Unfinished : (Redeem(j)' <=> Redeem(j)) /\ (Inner(j)' <=> Inner(j))
        BY <1>5, <1>6
      <3>2. plan.reason = "awaiting_run" => ~(Redeem(n)' /\ ~Inner(n)')
        BY <1>1, <1>6
      <3>3. QED
        BY <1>0, <1>5, <1>6, <3>1, <3>2 DEF Facts, Waiting
    <2>7. Over'
      <3>1. \A j \in Unfinished : Inner(j)' <=> Inner(j)
        BY <1>5, <1>6
      <3>2. cycle \in {"none", "held"} => ~Inner(n)'
        BY <1>1, <1>6
      <3>3. QED
        BY <1>0, <1>5, <3>1, <3>2 DEF Facts, Over
    <2>8. QED
      BY <2>1, <2>2, <2>3, <2>4, <2>5, <2>6, <2>7 DEF Facts
  <1>9. Knows(p)'
    <2>1. Shape(p)' /\ Locked(p)' /\ Starting(p)' /\ proc'[p].tx <= Len(txs)'
      BY <1>0, <1>2, <1>3, <1>6 DEF Knows, Shape, Locked, Starting, In, Does, Sending, Sent, Marked,
        Redeemer, Runner
    <2>2. Depositing(p)'
      BY <1>3 DEF Depositing, In, Does, Sending
    <2>3. Withdrawing(p)' /\ Cycling(p)'
      BY <1>0, <1>3 DEF Knows, Withdrawing, Cycling, In, Does, Sending, Sent, Marked
    <2>4. Signing(p)'
      <3>1. Does(p, {"start", "deposit"}) <=> proc[p].sign = "deposit"
        BY <1>1 DEF Does, Redeemer, Runner
      <3>2. Does(p, Runner) <=> InCycle(p)
        BY DEF Does, Runner, InCycle
      <3>3. proc[p].sign = "redeem" => Unfinished' = {n}
        BY <1>1, <1>5
      <3>4. QED
        BY <1>2, <1>3, <1>6, <3>1, <3>2, <3>3 DEF Signing, In, Does
    <2>5. QED
      BY <2>1, <2>2, <2>3, <2>4 DEF Knows
  <1>10. ASSUME NEW q \in Procs, q # p
         PROVE  Knows(q)'
    <2>0. /\ Knows(q) /\ proc'[q] = proc[q] /\ proc[q] \in ProcType
          /\ ~(p = "worker" /\ q = "worker") /\ (q = "worker" \/ q = "operator")
      BY <1>0, <1>3, <1>10 DEF PositionInv, Only, Procs
    <2>1. Shape(q)' /\ Locked(q)'
      BY <1>0, <2>0 DEF Knows, Shape, Locked, In, Does
    <2>2. Starting(q)' /\ proc'[q].tx <= Len(txs)'
      BY <1>0, <1>2, <1>6, <2>0 DEF Knows, Starting, In, ProcType
    <2>3. Depositing(q)'
      <3>1. ~(Does(q, {"start"}) /\ In(q, {"allow"} \cup Sending))
        BY <1>0, <1>1, <2>0 DEF Knows, Depositing, Shape, Does, PlanType
      <3>2. ~(Does(q, {"deposit"}) /\ In(q, {"again", "allow"} \cup Sending))
        BY <1>0, <1>1, <1>10, <2>0 DEF Knows, Locked, Shape, In, Does, Sending
      <3>3. QED
        BY <2>0, <3>1, <3>2 DEF Depositing, In, Does
    <2>4. Withdrawing(q)'
      <3>1. ~In(q, {"build"}) /\ ~(In(q, Sending) /\ Does(q, Redeemer \cup Runner))
        BY <1>0, <1>1, <1>10, <2>0 DEF Knows, Withdrawing, Locked, In, Does, Sending, Redeemer, Runner,
          PlanType
      <3>2. QED
        BY <1>0, <2>0, <3>1 DEF Knows, Withdrawing, In, Does
    <2>5. Cycling(q)'
      <3>1. \A j \in Unfinished : (Inner(j)' <=> Inner(j)) /\ (Deposit(j)' <=> Deposit(j))
                                  /\ txs'[j].receipt = txs[j].receipt
        BY <1>2, <1>5, <1>6
      <3>2. In(q, {"body", "buy"}) => /\ Deposit(n)' /\ ~Inner(n)' /\ kind.owner = "judge"
                                      /\ q = "operator"
        BY <1>1, <1>6, <1>10, <2>0 DEF Knows, Locked, In, Does
      <3>3. QED
        BY <1>0, <1>2, <1>5, <2>0, <3>1, <3>2 DEF Knows, Cycling, In, Does
    <2>6. Signing(q)'
      <3>1. SUFFICES ASSUME In(q, Sent), NEW i, i = proc[q].tx
                     PROVE  Signing(q)'
        BY <2>0 DEF Signing, In
      <3>2. /\ i \in DOMAIN txs /\ (Does(q, {"start", "deposit"}) <=> Deposit(i))
            /\ (Does(q, Runner) <=> Inner(i))
            /\ Redeem(i) => \A j \in Unfinished : Redeem(j) => j = i
            /\ In(q, {"apply"}) => txs[i].status = "CONFIRMED"
        BY <2>0, <3>1 DEF Knows, Signing, Tx
      <3>3. Redeem(i) => ~Redeem(n)'
        <4>1. SUFFICES ASSUME Redeem(i)
                       PROVE  ~Redeem(n)'
          OBVIOUS
        <4>2. ~Does(q, {"start"})
          BY <3>2, <4>1 DEF Deposit, Redeem, Does
        <4>3. lock = q
          BY <2>0, <3>1, <4>2 DEF Knows, Locked, In
        <4>4. QED
          BY <1>1, <1>6, <1>10, <4>3
      <3>4. \A j \in Unfinished : Redeem(j)' <=> Redeem(j)
        BY <1>5, <1>6
      <3>5. QED
        BY <1>2, <1>5, <1>6, <2>0, <3>1, <3>2, <3>3, <3>4 DEF Signing, In, Does, Tx
    <2>7. QED
      BY <2>1, <2>2, <2>3, <2>4, <2>5, <2>6 DEF Knows
  <1>11. QED
    BY <1>4, <1>8, <1>9, <1>10 DEF PositionInv

-----------------------------------------------------------------------------
(* Booking                                                                 *)

\* The row after transaction i is booked, whoever books it.
Books(i) ==
    /\ plan' \in PlanType
    /\ Deposit(i) => plan'.principal = plan.principal + 1 /\ plan'.vt = plan.vt + txs[i].units
    /\ Redeem(i) => plan'.vt = plan.vt - txs[i].units
    /\ Redeem(i) /\ Inner(i) => plan'.principal = plan.principal
    /\ Redeem(i) /\ ~Inner(i) => plan'.principal = 0 /\ plan'.status # "active"
    /\ plan'.reason = "awaiting_run" => plan.reason = "awaiting_run"
    /\ plan'.status = "active" => plan.status = "active"

\* Booked takes off no more than the row has.
LEMMA BookedRow ==
  ASSUME Types, Facts, NEW i \in DOMAIN txs, Due(i)
  PROVE  /\ Booked(plan, i) \in PlanType
         /\ Booked(plan, i).status = plan.status /\ Booked(plan, i).reason = plan.reason
         /\ Deposit(i) => /\ Booked(plan, i).principal = plan.principal + 1
                          /\ Booked(plan, i).vt = plan.vt + txs[i].units
         /\ Redeem(i) => /\ Booked(plan, i).vt = plan.vt - txs[i].units
                         /\ Booked(plan, i).principal = IF Inner(i) THEN plan.principal ELSE 0
         /\ txs[i].units \in Nat /\ (Redeem(i) => txs[i].units <= plan.vt)
         /\ Deposit(i) \/ Redeem(i)
  <1>1. /\ plan \in PlanType /\ plan.principal \in Nat /\ plan.vt \in Nat /\ txs[i].units \in Nat
        /\ txs[i].inCycle \in BOOLEAN /\ txs[i].what \in {"deposit", "redeem"}
    BY TxFields DEF Types, PlanType
  <1>2. Redeem(i) => txs[i].units <= plan.vt
    BY DueMeans DEF Facts, Covered
  <1>3. Redeem(i) => Less(plan.vt, txs[i].units) = plan.vt - txs[i].units
    BY <1>1, <1>2 DEF Less
  <1>4. CASE Deposit(i)
    <2>1. Booked(plan, i) = [plan EXCEPT !.principal = plan.principal + 1, !.vt = plan.vt + txs[i].units]
      BY <1>4 DEF Booked, Deposit
    <2>2. plan.principal + 1 \in Nat /\ plan.vt + txs[i].units \in Nat /\ ~Redeem(i)
      BY <1>1, <1>4 DEF Deposit, Redeem
    <2>3. /\ Booked(plan, i) \in PlanType
          /\ Booked(plan, i).status = plan.status /\ Booked(plan, i).reason = plan.reason
          /\ Booked(plan, i).principal = plan.principal + 1
          /\ Booked(plan, i).vt = plan.vt + txs[i].units
      BY <1>1, <2>1, <2>2 DEF PlanType
    <2>4. QED
      BY <1>1, <1>4, <2>2, <2>3
  <1>5. CASE Redeem(i) /\ Inner(i)
    <2>1. Booked(plan, i) = [plan EXCEPT !.vt = plan.vt - txs[i].units]
      BY <1>3, <1>5 DEF Booked, Redeem, Inner
    <2>2. plan.vt - txs[i].units \in Nat /\ ~Deposit(i)
      BY <1>1, <1>2, <1>5 DEF Deposit, Redeem
    <2>3. /\ Booked(plan, i) \in PlanType
          /\ Booked(plan, i).status = plan.status /\ Booked(plan, i).reason = plan.reason
          /\ Booked(plan, i).principal = plan.principal
          /\ Booked(plan, i).vt = plan.vt - txs[i].units
      BY <1>1, <2>1, <2>2 DEF PlanType
    <2>4. QED
      BY <1>1, <1>2, <1>5, <2>2, <2>3
  <1>6. CASE Redeem(i) /\ ~Inner(i)
    <2>1. Booked(plan, i) = [plan EXCEPT !.principal = 0, !.vt = plan.vt - txs[i].units]
      BY <1>3, <1>6 DEF Booked, Redeem, Inner
    <2>2. plan.vt - txs[i].units \in Nat /\ ~Deposit(i)
      BY <1>1, <1>2, <1>6 DEF Deposit, Redeem
    <2>3. /\ Booked(plan, i) \in PlanType
          /\ Booked(plan, i).status = plan.status /\ Booked(plan, i).reason = plan.reason
          /\ Booked(plan, i).principal = 0
          /\ Booked(plan, i).vt = plan.vt - txs[i].units
      <3>1. PICK v \in Nat : v = plan.vt - txs[i].units
        BY <2>2
      <3>2. PICK z \in Nat : z = 0
        OBVIOUS
      <3>3. Booked(plan, i) = [plan EXCEPT !.principal = z, !.vt = v]
        BY <2>1, <3>1, <3>2
      <3>4. /\ Booked(plan, i) \in PlanType
            /\ Booked(plan, i).status = plan.status /\ Booked(plan, i).reason = plan.reason
            /\ Booked(plan, i).principal = z /\ Booked(plan, i).vt = v
        BY <1>1, <3>3 DEF PlanType
      <3>5. QED
        BY <3>1, <3>2, <3>4
    <2>4. QED
      BY <1>1, <1>2, <1>6, <2>2, <2>3
  <1>7. QED
    BY <1>1, <1>4, <1>5, <1>6 DEF Deposit, Redeem

\* The rows the code writes with a receipt are all booked ones.
LEMMA WrittenRows ==
  ASSUME Types, Facts, NEW i \in DOMAIN txs, Due(i)
  PROVE  /\ plan' = Booked(plan, i) /\ (Deposit(i) \/ Inner(i)) => Books(i)
         /\ plan' = Settled(plan, i) => Books(i)
         /\ plan' = [Settled(plan, i) EXCEPT !.reason = "other"] => Books(i)
         /\ \A status \in Outs, reason \in Whys :
              plan' = [Booked(plan, i) EXCEPT !.status = status, !.reason = reason]
                => Books(i)
  <1> DEFINE b == Booked(plan, i)
  <1>1. /\ b \in PlanType /\ b.status = plan.status /\ b.reason = plan.reason
        /\ Deposit(i) => b.principal = plan.principal + 1 /\ b.vt = plan.vt + txs[i].units
        /\ Redeem(i) => /\ b.vt = plan.vt - txs[i].units
                        /\ b.principal = IF Inner(i) THEN plan.principal ELSE 0
    BY BookedRow
  <1>2. (Deposit(i) => ~Inner(i) /\ ~Redeem(i)) /\ (Deposit(i) \/ Redeem(i))
    BY TxFields DEF Deposit, Redeem, Facts, Rows
  <1>3. Settled(plan, i) = IF Redeem(i) /\ ~Inner(i) /\ plan.status = "active"
                           THEN [b EXCEPT !.status = "paused", !.reason = "other"] ELSE b
    BY DEF Settled, Redeem, Inner
  <1> HIDE DEF b
  <1>4. ASSUME NEW status \in Statuses, NEW reason \in Reasons,
               plan' = [b EXCEPT !.status = status, !.reason = reason]
        PROVE  /\ plan' \in PlanType /\ plan'.status = status /\ plan'.reason = reason
               /\ plan'.principal = b.principal /\ plan'.vt = b.vt
    BY <1>1, <1>4 DEF PlanType
  <1>5. "paused" \in Statuses /\ "other" \in Reasons /\ Outs \subseteq Statuses /\ Whys \subseteq Reasons
        /\ "active" \notin Outs /\ "awaiting_run" \notin Whys
    BY DEF Statuses, Reasons, Outs, Whys
  <1>6. ASSUME plan' \in PlanType, plan'.principal = b.principal, plan'.vt = b.vt,
               plan'.reason = "awaiting_run" => plan.reason = "awaiting_run",
               plan'.status = "active" => plan.status = "active",
               Redeem(i) /\ ~Inner(i) => plan'.status # "active"
        PROVE  Books(i)
    BY <1>1, <1>2, <1>6 DEF Books
  <1>a. plan' = b /\ (Deposit(i) \/ Inner(i)) => Books(i)
    BY <1>1, <1>2, <1>6
  <1>7. plan' = Settled(plan, i) => Books(i)
    <2>1. CASE Redeem(i) /\ ~Inner(i) /\ plan.status = "active"
      <3>1. SUFFICES ASSUME plan' = [b EXCEPT !.status = "paused", !.reason = "other"]
                     PROVE  Books(i)
        BY <1>3, <2>1
      <3>2. /\ plan' \in PlanType /\ plan'.status = "paused" /\ plan'.reason = "other"
            /\ plan'.principal = b.principal /\ plan'.vt = b.vt
        BY <1>4, <1>5, <3>1
      <3>3. QED
        BY <1>6, <3>2
    <2>2. CASE ~(Redeem(i) /\ ~Inner(i) /\ plan.status = "active")
      BY <1>1, <1>3, <1>6, <2>2
    <2>3. QED
      BY <2>1, <2>2
  <1>8. plan' = [Settled(plan, i) EXCEPT !.reason = "other"] => Books(i)
    <2>1. CASE Redeem(i) /\ ~Inner(i) /\ plan.status = "active"
      <3>1. [Settled(plan, i) EXCEPT !.reason = "other"] = [b EXCEPT !.status = "paused", !.reason = "other"]
        BY <1>1, <1>3, <2>1 DEF PlanType
      <3>2. SUFFICES ASSUME plan' = [b EXCEPT !.status = "paused", !.reason = "other"]
                     PROVE  Books(i)
        BY <3>1
      <3>3. /\ plan' \in PlanType /\ plan'.status = "paused" /\ plan'.reason = "other"
            /\ plan'.principal = b.principal /\ plan'.vt = b.vt
        BY <1>4, <1>5, <3>2
      <3>4. QED
        BY <1>6, <3>3
    <2>2. CASE ~(Redeem(i) /\ ~Inner(i) /\ plan.status = "active")
      <3>1. SUFFICES ASSUME plan' = [b EXCEPT !.reason = "other"]
                     PROVE  Books(i)
        BY <1>3, <2>2
      <3>2. /\ plan' \in PlanType /\ plan'.status = b.status /\ plan'.reason = "other"
            /\ plan'.principal = b.principal /\ plan'.vt = b.vt
        BY <1>1, <1>5, <3>1 DEF PlanType
      <3>3. QED
        BY <1>1, <1>6, <2>2, <3>2
    <2>3. QED
      BY <2>1, <2>2
  <1>9. ASSUME NEW status \in Outs, NEW reason \in Whys,
               plan' = [b EXCEPT !.status = status, !.reason = reason]
        PROVE  Books(i)
    <2>1. /\ plan' \in PlanType /\ plan'.status = status /\ plan'.reason = reason
          /\ plan'.principal = b.principal /\ plan'.vt = b.vt
      BY <1>4, <1>5, <1>9
    <2>2. status # "active" /\ reason # "awaiting_run"
      BY <1>5
    <2>3. QED
      BY <1>6, <2>1, <2>2
  <1>10. QED
    BY <1>a, <1>7, <1>8, <1>9 DEF b

\* A mined transaction is booked: the row and the chain agree on it from now on.
LEMMA BookFacts ==
  ASSUME PositionInv, NEW i \in DOMAIN txs, Due(i), Books(i),
         txs' = [txs EXCEPT ![i].receipt = TRUE],
         UNCHANGED <<kind, own, lock>>, proc' \in [Procs -> ProcType],
         \/ cycle' = cycle
         \/ /\ cycle = "awaiting" /\ cycle' = "none" /\ txs[i].status = "CONFIRMED"
            /\ \A j \in Unfinished : Inner(j) => j = i
  PROVE  /\ Types' /\ Facts'
         /\ \A q \in Procs : q = "worker" \/ txs[i].status = "CONFIRMED" => Gentle(q)
         /\ (Begun => Begun') /\ (Deposit(i) => Begun')
         /\ \A j \in Unfinished' : j \in Unfinished /\ (txs[i].status = "CONFIRMED" => j # i)
         /\ Len(txs)' = Len(txs) /\ txs'[i].receipt
         /\ \A j \in DOMAIN txs : txs'[j].what = txs[j].what /\ txs'[j].inCycle = txs[j].inCycle
  <1>0. /\ Types /\ Facts /\ plan \in PlanType /\ plan' \in PlanType
        /\ plan.vt \in Nat /\ plan.principal \in Nat /\ plan'.vt \in Nat /\ plan'.principal \in Nat
        /\ txs[i].units \in Nat /\ own \in Int /\ Minted \in Nat
        /\ i \in Unfinished /\ ~txs[i].receipt /\ txs[i].mined = "success"
    BY TxFields, DueMeans, MintedAssumption DEF PositionInv, Types, PlanType, Books
  <1>1. /\ txs' \in Seq(TxType) /\ Len(txs)' = Len(txs) /\ DOMAIN txs' = DOMAIN txs
        /\ \A j \in DOMAIN txs :
             /\ txs'[j].what = txs[j].what /\ txs'[j].units = txs[j].units
             /\ txs'[j].inCycle = txs[j].inCycle /\ txs'[j].status = txs[j].status
             /\ txs'[j].mined = txs[j].mined
             /\ j # i => txs'[j].receipt = txs[j].receipt
        /\ txs'[i].receipt = TRUE
    BY <1>0, ReceiptRow
  <1>2. Types'
    BY <1>0, <1>1 DEF Types
  <1>3. \A j \in Unfinished' : /\ j \in Unfinished /\ j \in DOMAIN txs
                               /\ txs[i].status = "CONFIRMED" => j # i
    BY <1>1, UnfinishedMeans DEF Unfinished, Open
  <1>4. /\ \A j \in DOMAIN txs : (Deposit(j)' <=> Deposit(j)) /\ (Redeem(j)' <=> Redeem(j))
                                 /\ (Inner(j)' <=> Inner(j)) /\ (Due(j)' <=> Due(j) /\ j # i)
        /\ Begun' <=> Begun \/ Deposit(i)
    BY <1>1 DEF Begun, Deposit, Redeem, Inner, Due
  <1>5. /\ Deposit(i) => ~Inner(i) /\ ~Redeem(i) /\ txs[i].units = Minted
        /\ Deposit(i) \/ Redeem(i)
        /\ Redeem(i) => txs[i].units <= plan.vt
    BY <1>0, TxFields DEF Facts, Rows, Covered, Deposit, Redeem
  <1>6. \A j \in Unfinished : j # i => txs[j].what # txs[i].what
    BY <1>0, OnlyOne
  <1>7. Rows'
    BY <1>0, <1>1, <1>4 DEF Facts, Rows
  <1>8. Few'
    BY <1>0, <1>1, <1>3, <1>4 DEF Facts, Few
  <1>9. Balance'
    <2>1. \A j \in DOMAIN txs : Due(j) /\ j # i => txs[j].what # txs[i].what
      BY <1>0, <1>6, DueMeans
    <2>2. \A j \in DOMAIN txs : txs[j].units \in Nat
      BY <1>0, TxFields
    <2>3. CASE Deposit(i)
      <3>1. Coming = Minted
        BY <2>3 DEF Coming
      <3>2. Coming' = 0
        BY <1>1, <1>4, <2>1, <2>3 DEF Coming, Deposit
      <3>3. \A j \in DOMAIN txs : Due(j)' /\ Redeem(j)' <=> Due(j) /\ Redeem(j)
        BY <1>4, <1>5, <2>3
      <3>4. plan'.vt = plan.vt + Minted
        BY <1>5, <2>3 DEF Books
      <3>5. /\ \A j \in DOMAIN txs : Due(j) /\ Redeem(j) => own = plan.vt + Minted - txs[j].units
            /\ (\A j \in DOMAIN txs : ~(Due(j) /\ Redeem(j))) => own = plan.vt + Minted
        BY <1>0, <3>1 DEF Facts, Balance
      <3>6. /\ \A j \in DOMAIN txs : Due(j) /\ Redeem(j) => own = plan'.vt + 0 - txs[j].units
            /\ (\A j \in DOMAIN txs : ~(Due(j) /\ Redeem(j))) => own = plan'.vt + 0
        BY <1>0, <2>2, <3>4, <3>5
      <3>7. QED
        BY <1>0, <1>1, <3>2, <3>3, <3>6 DEF Balance
    <2>4. CASE Redeem(i)
      <3>1. Coming' = Coming /\ Coming \in Nat
        BY <1>0, <1>1, <1>4, <1>5, <2>4 DEF Coming
      <3>2. own = plan.vt + Coming - txs[i].units
        BY <1>0, <2>4 DEF Facts, Balance
      <3>3. plan'.vt = plan.vt - txs[i].units
        BY <2>4 DEF Books
      <3>4. own = plan'.vt + Coming
        BY <1>0, <3>1, <3>2, <3>3
      <3>5. \A j \in DOMAIN txs : ~(Due(j)' /\ Redeem(j)')
        BY <1>4, <2>1, <2>4 DEF Redeem
      <3>6. QED
        BY <1>0, <1>1, <3>1, <3>4, <3>5 DEF Balance
    <2>5. QED
      BY <1>5, <2>3, <2>4
  <1>10. \A j \in Unfinished' : ~txs'[j].receipt =>
           /\ j \in Unfinished /\ j # i /\ ~txs[j].receipt /\ j \in DOMAIN txs
           /\ txs[j].what # txs[i].what
    BY <1>1, <1>3, <1>6
  <1>11. Covered'
    <2>1. ASSUME NEW j \in Unfinished', ~txs'[j].receipt
          PROVE  /\ Redeem(j)' => txs'[j].units <= plan'.vt
                 /\ Redeem(j)' /\ ~Inner(j)' => plan'.vt <= txs'[j].units + 1
                 /\ Deposit(j)' => plan'.principal < MaxPrincipal
                 /\ Deposit(j)' /\ kind'.owner = "judge" => plan'.vt <= 1
      <3>0. /\ j \in Unfinished /\ j # i /\ ~txs[j].receipt /\ j \in DOMAIN txs
            /\ txs[j].what # txs[i].what /\ txs[j].units \in Nat
        BY <1>0, <1>10, <2>1, TxFields
      <3>1. CASE Deposit(i)
        <4>1. plan'.vt = plan.vt + Minted /\ ~Deposit(j)
          BY <1>5, <3>0, <3>1 DEF Books, Deposit
        <4>2. Redeem(j) => Inner(j) /\ txs[j].units <= plan.vt
          BY <1>0, <3>0 DEF Facts, Few, Covered
        <4>3. QED
          BY <1>0, <1>1, <1>4, <3>0, <4>1, <4>2
      <3>2. CASE Redeem(i)
        <4>1. Inner(i) /\ ~Redeem(j)
          BY <1>0, <3>0, <3>2 DEF Facts, Few, Redeem
        <4>2. plan'.vt = plan.vt - txs[i].units /\ plan'.principal = plan.principal
          BY <3>2, <4>1 DEF Books
        <4>3. Deposit(j) => plan.principal < MaxPrincipal /\ (kind.owner = "judge" => plan.vt <= 1)
          BY <1>0, <3>0 DEF Facts, Covered
        <4>4. QED
          BY <1>0, <1>1, <1>4, <3>0, <4>1, <4>2, <4>3
      <3>3. QED
        BY <1>5, <3>1, <3>2
    <2>2. QED
      BY <2>1 DEF Covered
  <1>12. Backing'
    <2>0. /\ plan.vt > 1 => plan.principal > 0
          /\ plan.status = "active" => plan.principal > 0
          /\ plan.principal <= MaxPrincipal
          /\ plan.vt + Unbooked <= Len(txs) * Minted
          /\ Len(txs) <= kind.txs
      BY <1>0 DEF Facts, Backing
    <2>1. Len(txs) * Minted \in Int /\ Unbooked \in Nat /\ Unbooked' \in Nat
      <3>1. Len(txs) \in Int
        BY <1>0 DEF Types
      <3>2. QED
        BY <1>0, <3>1 DEF Unbooked
    <2>2. CASE Deposit(i)
      <3>1. Unbooked = Minted
        BY <1>0, <2>2 DEF Unbooked
      <3>2. Unbooked' = 0
        BY <1>1, <1>4, <1>10, <2>2 DEF Unbooked, Deposit
      <3>3. plan'.vt = plan.vt + Minted /\ plan'.principal = plan.principal + 1
        BY <1>5, <2>2 DEF Books
      <3>4. plan.principal < MaxPrincipal
        BY <1>0, <2>2 DEF Facts, Covered
      <3>5. plan'.principal <= MaxPrincipal /\ plan'.principal > 0
        BY <1>0, <3>3, <3>4, MaxPrincipalAssumption
      <3>6. plan'.vt + Unbooked' <= Len(txs) * Minted
        BY <1>0, <2>0, <2>1, <3>1, <3>2, <3>3
      <3>7. QED
        BY <1>0, <1>1, <2>0, <3>5, <3>6 DEF Backing
    <2>3. CASE Redeem(i)
      <3>1. Unbooked' <= Unbooked
        <4>1. (\E j \in Unfinished' : ~txs'[j].receipt /\ Deposit(j)') =>
                \E j \in Unfinished : ~txs[j].receipt /\ Deposit(j)
          BY <1>4, <1>10
        <4>2. QED
          BY <1>0, <4>1 DEF Unbooked
      <3>2. plan'.vt = plan.vt - txs[i].units /\ plan'.vt <= plan.vt
        BY <1>0, <2>3 DEF Books
      <3>3. plan'.vt + Unbooked' <= Len(txs) * Minted
        BY <1>0, <2>0, <2>1, <3>1, <3>2
      <3>4. CASE Inner(i)
        <4>1. /\ plan'.principal = plan.principal
              /\ plan'.status = "active" => plan.status = "active"
          BY <2>3, <3>4 DEF Books
        <4>2. QED
          BY <1>0, <1>1, <2>0, <3>2, <3>3, <4>1 DEF Backing
      <3>5. CASE ~Inner(i)
        <4>1. plan'.principal = 0 /\ plan'.status # "active"
          BY <2>3, <3>5 DEF Books
        <4>2. plan.vt <= txs[i].units + 1
          BY <1>0, <2>3, <3>5 DEF Facts, Covered
        <4>3. ~(plan'.vt > 1)
          BY <1>0, <3>2, <4>2
        <4>4. QED
          BY <1>0, <1>1, <2>0, <3>3, <4>1, <4>3, MaxPrincipalAssumption DEF Backing
      <3>6. QED
        BY <3>4, <3>5
    <2>4. QED
      BY <1>5, <2>2, <2>3
  <1>13. Waiting'
    <2>0. /\ plan.principal > 0 => Begun
          /\ plan.reason = "awaiting_run" =>
               /\ Begun => plan.principal > 0
               /\ \A j \in Unfinished : ~(Redeem(j) /\ ~Inner(j))
               /\ cycle # "held"
      BY <1>0 DEF Facts, Waiting
    <2>1. plan'.principal > 0 => Begun'
      BY <1>0, <1>4, <1>5, <2>0 DEF Books
    <2>2. ASSUME plan'.reason = "awaiting_run"
          PROVE  /\ Begun' => plan'.principal > 0
                 /\ \A j \in Unfinished' : ~(Redeem(j)' /\ ~Inner(j)')
                 /\ cycle' # "held"
      <3>1. plan.reason = "awaiting_run"
        BY <2>2 DEF Books
      <3>2. ~(Redeem(i) /\ ~Inner(i))
        BY <1>0, <2>0, <3>1
      <3>3. Begun' => plan'.principal > 0
        BY <1>0, <1>4, <1>5, <2>0, <3>1, <3>2 DEF Books
      <3>4. QED
        BY <1>3, <1>4, <2>0, <3>1, <3>3
    <2>3. QED
      BY <2>1, <2>2 DEF Waiting
  <1>14. Over'
    BY <1>0, <1>3, <1>4 DEF Facts, Over
  <1>15. ASSUME NEW q \in Procs, q = "worker" \/ txs[i].status = "CONFIRMED"
         PROVE  Gentle(q)
    <2>1. Kept1
      BY <1>0, <1>1 DEF Kept1, Types
    <2>2. \A j \in Unfinished' : j \in Unfinished /\ (txs'[j].receipt => txs[j].receipt \/ q = "worker")
      BY <1>1, <1>3, <1>15
    <2>3. (\A j \in Unfinished : Inner(j)) => plan'.principal = plan.principal
      BY <1>0, <1>5 DEF Books
    <2>4. plan'.reason = "awaiting_run" => plan.reason = "awaiting_run"
      BY DEF Books
    <2>5. QED
      BY <1>0, <2>1, <2>2, <2>3, <2>4 DEF Gentle
  <1>16. QED
    BY <1>1, <1>2, <1>3, <1>4, <1>7, <1>8, <1>9, <1>11, <1>12, <1>13, <1>14, <1>15 DEF Facts

-----------------------------------------------------------------------------
(* The steps that book                                                     *)

\* Booking lets no plan run that does not.
Rests == plan'.status = "active" => plan.status = "active"

\* A confirmed transaction not booked yet is due.
LEMMA ConfirmedIsDue ==
  ASSUME Types, Facts, NEW i \in DOMAIN txs, txs[i].status = "CONFIRMED", ~txs[i].receipt
  PROVE  Due(i)
  BY DEF Facts, Rows, Due

LEMMA OrphanStep ==
  ASSUME PositionInv, NEW p \in Procs, NEW i \in DOMAIN txs, Orphan(p, i)
  PROVE  PositionInv' /\ Rests
  <1>0. /\ Types /\ Facts /\ Knows(p) /\ proc[p].pc = "settle" /\ "late" \in Pcs
        /\ UNCHANGED <<kind, own, lock, cycle>>
        /\ i \in Unfinished \ Open /\ Apply(i, Settled(plan, i))
        /\ \/ kind.owner = "judge" /\ Deposit(i) /\ Goto(p, "late")
           \/ UNCHANGED proc
    BY DEF PositionInv, Orphan, At, fixed, Pcs, Deposit
  <1>1. txs[i].status = "CONFIRMED" /\ ~txs[i].receipt /\ Due(i)
    BY <1>0, ConfirmedIsDue, UnfinishedMeans DEF Open
  <1>2. txs' = [txs EXCEPT ![i].receipt = TRUE] /\ plan' = Settled(plan, i)
    BY <1>0, <1>1 DEF Apply
  <1>3. Books(i)
    BY <1>0, <1>1, <1>2, WrittenRows
  <1>4. proc' \in [Procs -> ProcType] /\ \A q \in Procs : q # p => proc'[q] = proc[q]
    <2>1. CASE Goto(p, "late")
      BY <1>0, <2>1, Went DEF Only
    <2>2. CASE UNCHANGED proc
      BY <1>0, <2>2 DEF Types
    <2>3. QED
      BY <1>0, <2>1, <2>2
  <1>5. /\ Types' /\ Facts' /\ (\A q \in Procs : Gentle(q)) /\ (Deposit(i) => Begun')
        /\ Begun => Begun'
        /\ Len(txs)' = Len(txs)
    <2>1. UNCHANGED <<kind, own, lock>> /\ cycle' = cycle /\ proc' \in [Procs -> ProcType]
      BY <1>0, <1>4
    <2>2. /\ Types' /\ Facts'
          /\ \A q \in Procs : q = "worker" \/ txs[i].status = "CONFIRMED" => Gentle(q)
          /\ (Begun => Begun') /\ (Deposit(i) => Begun')
          /\ Len(txs)' = Len(txs)
      BY <1>1, <1>2, <1>3, <2>1, BookFacts
    <2>3. QED
      BY <1>1, <2>2
  <1>6. ASSUME NEW q \in Procs, proc'[q] = proc[q]
        PROVE  Knows(q)'
    BY <1>0, <1>5, <1>6, OthersKnow DEF PositionInv
  <1>7. CASE Goto(p, "late") /\ Deposit(i)
    <2>1. /\ proc'[p].pc = "late" /\ proc'[p].task = proc[p].task
          /\ proc'[p].waiting = proc[p].waiting /\ proc'[p].tx = proc[p].tx
      BY <1>0, <1>7, Went
    <2>2. Shape(p)' /\ Locked(p)' /\ Starting(p)' /\ proc'[p].tx <= Len(txs)'
      BY <1>0, <1>5, <1>7, <2>1 DEF Knows, Shape, Locked, Starting, In, Does, Sending, Sent, Marked,
        Redeemer, Runner
    <2>3. Depositing(p)' /\ Withdrawing(p)' /\ Cycling(p)' /\ Signing(p)'
      BY <2>1 DEF Depositing, Withdrawing, Cycling, Signing, In, Does, Sending, Sent, Marked
    <2>4. Knows(p)'
      BY <2>2, <2>3 DEF Knows
    <2>5. QED
      BY <1>3, <1>4, <1>5, <1>6, <2>4 DEF PositionInv, Rests, Books
  <1>8. CASE UNCHANGED proc
    BY <1>3, <1>5, <1>6, <1>8 DEF PositionInv, Rests, Books
  <1>9. QED
    BY <1>0, <1>7, <1>8

\* An awaited cycle is settled; nothing of it is out.
LEMMA CompleteStep ==
  ASSUME PositionInv, NEW p \in Procs, Complete(p)
  PROVE  PositionInv' /\ Rests
  <1>0. /\ Types /\ Facts /\ Knows(p) /\ proc[p].pc = "settle" /\ cycle = "awaiting"
        /\ UNCHANGED <<kind, own, lock, proc>>
        /\ "paused" \in Statuses /\ "needs_review" \in Reasons
        /\ proc \in [Procs -> ProcType]
    BY DEF PositionInv, Complete, At, fixed, Types, Statuses, Reasons
  <1>1. ASSUME NEW i \in Unfinished, Inner(i), Apply(i, Booked(plan, i)), cycle' = "none"
        PROVE  PositionInv' /\ Rests
    <2>1. /\ i \in DOMAIN txs /\ txs[i].status = "CONFIRMED" /\ ~txs[i].receipt
      BY <1>1, UnfinishedMeans DEF Complete, Open, Inner
    <2>2. Due(i) /\ txs' = [txs EXCEPT ![i].receipt = TRUE] /\ plan' = Booked(plan, i)
      BY <1>0, <1>1, <2>1, ConfirmedIsDue DEF Apply
    <2>3. Books(i)
      BY <1>0, <1>1, <2>1, <2>2, WrittenRows
    <2>4. \A j \in Unfinished : Inner(j) => j = i
      <3>1. SUFFICES ASSUME NEW j \in Unfinished, Inner(j)
                     PROVE  j = i
        OBVIOUS
      <3>2. j \in DOMAIN txs
        BY UnfinishedMeans
      <3>3. txs[i].what = "redeem" /\ txs[j].what = "redeem"
        BY <1>0, <1>1, <2>1, <3>1, <3>2, TxFields DEF Facts, Rows, Deposit
      <3>4. QED
        BY <1>0, <3>3, OnlyOne
    <2>5. Types' /\ Facts' /\ \A q \in Procs : Gentle(q)
      BY <1>0, <1>1, <2>1, <2>2, <2>3, <2>4, BookFacts
    <2>6. \A q \in Procs : Knows(q)'
      BY <1>0, <2>5, OthersKnow DEF PositionInv
    <2>7. QED
      BY <2>3, <2>5, <2>6 DEF PositionInv, Rests, Books
  <1>2. ASSUME ~\E i \in Unfinished : Inner(i), UNCHANGED txs,
               \/ cycle' = "none" /\ UNCHANGED plan
               \/ cycle' = "held" /\ Wrote("paused", "needs_review")
        PROVE  PositionInv' /\ Rests
    <2>1. /\ plan' \in PlanType /\ plan'.principal = plan.principal /\ plan'.vt = plan.vt
          /\ plan'.reason = "awaiting_run" => plan.reason = "awaiting_run"
          /\ plan'.status = "active" => plan.status = "active"
          /\ cycle' = "held" => plan'.reason # "awaiting_run"
      <3>1. CASE UNCHANGED plan /\ cycle' = "none"
        BY <1>0, <3>1 DEF Types
      <3>2. CASE Wrote("paused", "needs_review")
        BY <1>0, <3>2, WroteRow
      <3>3. QED
        BY <1>2, <3>1, <3>2
    <2>2. Rewrites(p)
      BY <1>0, <1>2, <2>1 DEF Rewrites, Types, Only
    <2>3. Types' => Knows(p)'
      <3>1. Begun' <=> Begun
        BY <1>2 DEF Begun, Deposit
      <3>2. Shape(p)' /\ Locked(p)' /\ Starting(p)' /\ proc'[p].tx <= Len(txs)'
        BY <1>0, <1>2, <3>1 DEF Knows, Shape, Locked, Starting, In, Does, Sending, Sent, Marked, Redeemer,
          Runner
      <3>3. Depositing(p)' /\ Withdrawing(p)' /\ Cycling(p)' /\ Signing(p)'
        BY <1>0 DEF Depositing, Withdrawing, Cycling, Signing, In, Does, Sending, Sent, Marked
      <3>4. QED
        BY <3>2, <3>3 DEF Knows
    <2>4. QED
      BY <2>1, <2>2, <2>3, RewriteStep DEF Rests
  <1>3. CASE {i \in Unfinished : txs[i].inCycle} # {}
    BY <1>1, <1>3 DEF Complete, Inner
  <1>4. CASE {i \in Unfinished : txs[i].inCycle} = {}
    BY <1>2, <1>4 DEF Complete, Inner
  <1>5. QED
    BY <1>3, <1>4

\* What the process signed is confirmed: it writes the receipt, unless a settle did.
LEMMA EffectStep ==
  ASSUME PositionInv, NEW p \in Procs, Effect(p)
  PROVE  PositionInv' /\ Rests
  <1> SUFFICES ASSUME NEW i, i = proc[p].tx
               PROVE  PositionInv' /\ Rests
    OBVIOUS
  <1>0. /\ Types /\ Facts /\ Knows(p) /\ proc[p].pc = "apply" /\ {"start", "buy"} \subseteq Pcs
        /\ UNCHANGED <<kind, own, lock, cycle>> /\ proc[p] \in ProcType /\ txs \in Seq(TxType)
    BY DEF PositionInv, Effect, At, fixed, Pcs, Types
  <1>1. /\ i \in DOMAIN txs /\ (Does(p, {"start", "deposit"}) <=> Deposit(i))
        /\ (Does(p, Runner) <=> Inner(i))
        /\ Redeem(i) => \A j \in Unfinished : Redeem(j) => j = i
        /\ txs[i].status = "CONFIRMED"
    BY <1>0 DEF Knows, Signing, In, Sent, Tx
  <1>2. /\ Deposit(i) => ~Inner(i) /\ ~Redeem(i)
        /\ Deposit(i) \/ Redeem(i)
    BY <1>0, <1>1, TxFields DEF Facts, Rows, Deposit, Redeem
  <1>3. /\ Deposit(i) => Apply(i, Booked(plan, i))
        /\ Inner(i) => Apply(i, Booked(plan, i))
        /\ Redeem(i) /\ ~Inner(i) =>
             Apply(i, [Booked(plan, i) EXCEPT !.status = proc[p].want.status, !.reason = proc[p].want.reason])
    BY <1>2 DEF Effect, Tx, Deposit, Redeem, Inner
  <1>4. \/ Does(p, {"start"}) /\ Deposit(i) /\ Goto(p, "start")
        \/ Inner(i) /\ Goto(p, "buy")
        \/ Leave(p)
    BY <1>2 DEF Effect, Tx, Deposit, Redeem, Inner, Does
  <1>5. Redeem(i) /\ ~Inner(i) => proc[p].want.status \in Outs /\ proc[p].want.reason \in Whys
    <2>1. Redeem(i) /\ ~Inner(i) => Does(p, Redeemer)
      BY <1>0, <1>1, <1>2 DEF Knows, Shape, In, Does, Sent, Redeemer, Runner
    <2>2. QED
      BY <1>0, <2>1 DEF Knows, Shape, In, Marked
  <1>6. /\ Only(p) /\ (proc'[p].waiting => proc[p].waiting)
        /\ \/ /\ proc'[p].pc = "start" /\ Does(p, {"start"}) /\ Deposit(i)
              /\ proc'[p].task = proc[p].task /\ proc'[p].tx = proc[p].tx
           \/ /\ proc'[p].pc = "buy" /\ Inner(i)
              /\ proc'[p].task = proc[p].task /\ proc'[p].tx = proc[p].tx
           \/ proc'[p].pc = "idle" /\ proc'[p].task = "none" /\ proc'[p].tx = 0
           \/ proc'[p].pc = "release" /\ proc'[p].task = proc[p].task /\ lock = p /\ proc'[p].tx = 0
    <2>1. CASE Does(p, {"start"}) /\ Deposit(i) /\ Goto(p, "start")
      BY <1>0, <2>1, Went
    <2>2. CASE Inner(i) /\ Goto(p, "buy")
      BY <1>0, <2>2, Went
    <2>3. CASE Leave(p)
      BY <1>0, <2>3, Left
    <2>4. QED
      BY <1>4, <2>1, <2>2, <2>3
  <1>7. /\ Types' /\ Facts' /\ (\A q \in Procs : Gentle(q)) /\ (Begun => Begun') /\ (Deposit(i) => Begun')
        /\ \A j \in Unfinished' : j \in Unfinished /\ j # i
        /\ Len(txs)' = Len(txs)
        /\ \A j \in DOMAIN txs : txs'[j].what = txs[j].what /\ txs'[j].inCycle = txs[j].inCycle
        /\ Rests
    <2>0. proc' \in [Procs -> ProcType]
      BY <1>6 DEF Only
    <2>1. CASE txs[i].receipt
      <3>1. UNCHANGED <<plan, txs>>
        BY <1>2, <1>3, <2>1 DEF Apply
      <3>2. Types'
        BY <1>0, <2>0, <3>1 DEF Types
      <3>3. Facts'
        BY <1>0, <3>1 DEF Facts, Rows, Few, Balance, Covered, Backing, Waiting, Over,
          Unfinished, Open, Deposit, Redeem, Inner, Due, Coming, Unbooked, Begun
      <3>4. /\ Unfinished' = Unfinished /\ i \notin Unfinished /\ (Begun' <=> Begun)
        BY <1>1, <2>1, <3>1, UnfinishedMeans DEF Unfinished, Open, Begun, Deposit
      <3>5. \A q \in Procs : Gentle(q)
        BY <1>0, <3>1, <3>4 DEF Gentle, Kept1
      <3>6. Deposit(i) => Begun
        BY <1>1, <2>1 DEF Begun
      <3>7. QED
        BY <3>1, <3>2, <3>3, <3>4, <3>5, <3>6 DEF Rests
    <2>2. CASE ~txs[i].receipt
      <3>1. Due(i) /\ txs' = [txs EXCEPT ![i].receipt = TRUE]
        BY <1>0, <1>1, <1>2, <1>3, <2>2, ConfirmedIsDue DEF Apply
      <3>2. Books(i)
        <4>1. CASE Deposit(i) \/ Inner(i)
          <5>1. plan' = Booked(plan, i)
            BY <1>3, <2>2, <4>1 DEF Apply
          <5>2. QED
            BY <1>0, <1>1, <3>1, <4>1, <5>1, WrittenRows
        <4>2. CASE Redeem(i) /\ ~Inner(i)
          <5>1. PICK status \in Outs, reason \in Whys :
                  status = proc[p].want.status /\ reason = proc[p].want.reason
            BY <1>5, <4>2
          <5>2. plan' = [Booked(plan, i) EXCEPT !.status = status, !.reason = reason]
            BY <1>3, <2>2, <4>2, <5>1 DEF Apply
          <5>3. QED
            BY <1>0, <1>1, <3>1, <5>2, WrittenRows
        <4>3. QED
          BY <1>2, <4>1, <4>2
      <3>3. UNCHANGED <<kind, own, lock>> /\ cycle' = cycle
        BY <1>0
      <3>4. /\ Types' /\ Facts'
            /\ \A q \in Procs : q = "worker" \/ txs[i].status = "CONFIRMED" => Gentle(q)
            /\ (Begun => Begun') /\ (Deposit(i) => Begun')
            /\ \A j \in Unfinished' : j \in Unfinished /\ (txs[i].status = "CONFIRMED" => j # i)
            /\ Len(txs)' = Len(txs)
            /\ \A j \in DOMAIN txs : txs'[j].what = txs[j].what /\ txs'[j].inCycle = txs[j].inCycle
        BY <1>1, <2>0, <3>1, <3>2, <3>3, BookFacts
      <3>5. QED
        BY <1>1, <3>2, <3>4 DEF Rests, Books
    <2>3. QED
      BY <2>1, <2>2
  <1>8. ASSUME NEW q \in Procs, q # p
        PROVE  Knows(q)'
    BY <1>0, <1>6, <1>7, <1>8, OthersKnow DEF PositionInv, Only
  <1>9. Knows(p)'
    <2>1. proc'[p].waiting => Begun'
      BY <1>0, <1>6, <1>7 DEF Knows, Starting
    <2>2. CASE proc'[p].pc = "start"
      <3>0. proc'[p].task = proc[p].task /\ Does(p, {"start"}) /\ Begun' /\ proc'[p].tx = proc[p].tx
        BY <1>6, <1>7, <2>2
      <3>1. Shape(p)' /\ Locked(p)' /\ Starting(p)' /\ proc'[p].tx <= Len(txs)'
        BY <1>0, <1>7, <2>1, <2>2, <3>0 DEF Knows, Shape, Locked, Starting, In, Does, Sending, Sent,
          Marked, Redeemer, Runner
      <3>2. Depositing(p)' /\ Withdrawing(p)' /\ Cycling(p)' /\ Signing(p)'
        BY <2>2 DEF Depositing, Withdrawing, Cycling, Signing, In, Does, Sending, Sent, Marked
      <3>3. QED
        BY <3>1, <3>2 DEF Knows
    <2>3. CASE proc'[p].pc = "buy"
      <3>0. proc'[p].task = proc[p].task /\ Inner(i) /\ Does(p, Runner) /\ proc'[p].tx = proc[p].tx
        BY <1>1, <1>6, <2>3
      <3>1. Shape(p)' /\ Locked(p)' /\ Starting(p)' /\ proc'[p].tx <= Len(txs)'
        BY <1>0, <1>7, <2>1, <2>3, <3>0 DEF Knows, Shape, Locked, Starting, In, Does, Sending, Sent,
          Marked, Redeemer, Runner
      <3>2. Depositing(p)' /\ Withdrawing(p)' /\ Signing(p)'
        BY <2>3 DEF Depositing, Withdrawing, Signing, In, Does, Sending, Sent, Marked
      <3>3. \A j \in Unfinished' : ~Inner(j)'
        <4>1. SUFFICES ASSUME NEW j \in Unfinished'
                       PROVE  ~Inner(j)'
          OBVIOUS
        <4>2. j \in Unfinished /\ j # i /\ j \in DOMAIN txs /\ (Inner(j)' <=> Inner(j))
          BY <1>7, UnfinishedMeans DEF Inner
        <4>3. Redeem(i)
          BY <1>2, <3>0
        <4>4. ~Redeem(j)
          BY <1>1, <4>2, <4>3
        <4>5. Inner(j) => Redeem(j)
          BY <1>0, <4>2, TxFields DEF Facts, Rows, Deposit, Redeem
        <4>6. QED
          BY <4>2, <4>4, <4>5
      <3>4. cycle = "running"
        BY <1>0, <3>0 DEF Knows, Cycling, In, Sent
      <3>5. Cycling(p)'
        BY <1>0, <2>3, <3>3, <3>4 DEF Cycling, In
      <3>6. QED
        BY <3>1, <3>2, <3>5 DEF Knows
    <2>4. CASE proc'[p].pc \in {"idle", "release"}
      BY <1>0, <1>6, <1>7, <2>1, <2>4, AtRest DEF Knows, Shape, Does
    <2>5. QED
      BY <1>6, <2>2, <2>3, <2>4
  <1>10. QED
    BY <1>7, <1>8, <1>9 DEF PositionInv

\* The operator records what the chain shows, whatever the row says.
LEMMA RecordScriptStep ==
  ASSUME PositionInv, NEW i \in DOMAIN txs, RecordScript(i)
  PROVE  PositionInv' /\ Rests
  <1>0. /\ Types /\ Facts /\ "operator" \in Procs /\ "worker" \in Procs /\ proc["operator"].pc = "idle"
        /\ UNCHANGED <<kind, own, lock, cycle, proc>> /\ txs[i].mined = "success" /\ ~Inner(i)
        /\ proc \in [Procs -> ProcType]
    BY DEF PositionInv, RecordScript, At, fixed, Procs, Inner, Types
  <1>1. CASE txs[i].receipt
    <2>1. UNCHANGED <<plan, txs>>
      BY <1>1 DEF RecordScript, Apply
    <2>2. QED
      BY <1>0, <2>1, AllSame DEF Rests
  <1>2. CASE ~txs[i].receipt
    <2>1. /\ Due(i) /\ txs' = [txs EXCEPT ![i].receipt = TRUE]
          /\ \/ Deposit(i) /\ plan' = Booked(plan, i)
             \/ plan' = [Settled(plan, i) EXCEPT !.reason = "other"]
      BY <1>0, <1>2 DEF RecordScript, Apply, Due, Deposit
    <2>2. Books(i)
      BY <1>0, <2>1, WrittenRows
    <2>3. /\ Types' /\ Facts' /\ Gentle("worker") /\ (Begun => Begun')
          /\ Len(txs)' = Len(txs)
      BY <1>0, <2>1, <2>2, BookFacts
    <2>4. Knows("worker")'
      BY <1>0, <2>3, OthersKnow DEF PositionInv
    <2>5. Knows("operator")'
      <3>1. Knows("operator")
        BY <1>0 DEF PositionInv
      <3>2. Shape("operator")' /\ Locked("operator")' /\ Starting("operator")'
            /\ proc'["operator"].tx <= Len(txs)'
        BY <1>0, <2>3, <3>1 DEF Knows, Shape, Locked, Starting, In, Does, Sending, Sent, Marked, Redeemer,
          Runner
      <3>3. /\ Depositing("operator")' /\ Withdrawing("operator")' /\ Cycling("operator")'
            /\ Signing("operator")'
        BY <1>0 DEF Depositing, Withdrawing, Cycling, Signing, In, Does, Sending, Sent, Marked
      <3>4. QED
        BY <3>2, <3>3 DEF Knows
    <2>6. QED
      BY <2>2, <2>3, <2>4, <2>5 DEF PositionInv, Procs, Rests, Books
  <1>3. QED
    BY <1>1, <1>2

-----------------------------------------------------------------------------
(* The theorems                                                            *)

LEMMA InitKeeps ==
  ASSUME Init
  PROVE  PositionInv
  <1>1. /\ kind \in Kinds /\ kind.txs \in Nat /\ kind.owner \in {"judge", "house"}
        /\ txs = <<>> /\ Len(txs) = 0 /\ DOMAIN txs = {} /\ txs \in Seq(TxType)
        /\ cycle = "none" /\ own = 0
    BY KindsAssumption DEF Init
  <1>2. /\ plan \in PlanType /\ plan.vt = 0 /\ plan.principal = 0 /\ plan.status = "paused"
    BY DEF Init, PlanType, Statuses, Reasons
  <1>3. Types
    <2>1. proc \in [Procs -> ProcType]
      BY IdleFields DEF Init
    <2>2. lock \in Procs \cup {Free} /\ own \in Int
      BY <1>1 DEF Init
    <2>3. QED
      BY <1>1, <1>2, <2>1, <2>2 DEF Types
  <1>4. Unfinished = {} /\ Open = {}
    BY <1>1 DEF Unfinished, Open
  <1>5. Coming = 0 /\ Unbooked = 0 /\ ~Begun
    BY <1>1, <1>4 DEF Coming, Unbooked, Begun
  <1>6. Rows /\ Few /\ Balance /\ Covered /\ Over /\ Waiting
    BY <1>1, <1>2, <1>4, <1>5 DEF Rows, Few, Balance, Covered, Over, Waiting
  <1>7. Backing
    BY <1>1, <1>2, <1>5, MintedAssumption, MaxPrincipalAssumption DEF Backing
  <1>8. ASSUME NEW p \in Procs
        PROVE  Knows(p)
    <2>1. /\ proc[p].pc = "idle" /\ proc[p].task = "none" /\ ~proc[p].waiting /\ proc[p].tx = 0
      BY IdleFields DEF Init
    <2>2. Shape(p) /\ Locked(p)
      BY <2>1 DEF Shape, Locked, In, Does, Sending, Sent, Marked, Redeemer, Runner
    <2>3. Depositing(p) /\ Withdrawing(p) /\ Cycling(p) /\ Signing(p) /\ Starting(p)
      BY <2>1 DEF Depositing, Withdrawing, Cycling, Signing, Starting, In, Does, Sending, Sent, Marked
    <2>4. QED
      BY <1>1, <2>1, <2>2, <2>3 DEF Knows
  <1>9. QED
    BY <1>3, <1>6, <1>7, <1>8 DEF PositionInv, Facts

LEMMA NextKeeps ==
  ASSUME PositionInv, [Next]_vars
  PROVE  PositionInv'
  <1>1. CASE Worker
    <2>1. CASE Settle \/ GuardianTick \/ StopJob \/ Tick
      BY <2>1, BeginsStep
    <2>2. CASE RunJob
      BY <2>2, BeginsStep, RunJobStep
    <2>3. CASE Start \/ Started
      BY <2>3, StartSteps
    <2>4. CASE Disable
      BY <2>4, DisableStep
    <2>5. QED
      BY <1>1, <2>1, <2>2, <2>3, <2>4 DEF Worker
  <1>2. CASE Operator
    <2>1. CASE DepositScript \/ RedeemScript \/ CycleOnce \/ AskActivate \/ CloseReview
      BY <2>1, BeginsStep
    <2>2. CASE Pause
      BY <2>2, PauseStep
    <2>3. CASE Activate
      BY <2>3, ActivateStep
    <2>4. CASE Closing
      BY <2>4, ClosingStep
    <2>5. CASE Again
      BY <2>5, AgainStep
    <2>6. CASE \E i \in DOMAIN txs : RecordScript(i)
      BY <2>6, RecordScriptStep
    <2>7. QED
      BY <1>2, <2>1, <2>2, <2>3, <2>4, <2>5, <2>6 DEF Operator
  <1>3. CASE World
    BY <1>3, WorldSteps, MineStep DEF World
  <1>4. ASSUME NEW p \in Procs, Shared(p)
        PROVE  PositionInv'
    <2>1. CASE \E i \in DOMAIN txs : Reconcile(p, i) \/ Orphan(p, i)
      BY <2>1, ReconcileStep, OrphanStep
    <2>2. CASE Complete(p) \/ LateStart(p) \/ SettleDone(p)
      BY <2>2, CompleteStep, LateStartStep, SettleDoneStep
    <2>3. CASE Mark(p) \/ Look(p) \/ Lock(p) \/ Fresh(p) \/ Build(p)
      BY <2>3, MarkStep, LookStep, LockStep, FreshStep, BuildStep
    <2>4. CASE Hold(p) \/ Release(p) \/ Check(p) \/ Sign(p)
      BY <2>4, HoldStep, ReleaseStep, CheckStep, SignStep
    <2>5. CASE Confirmed(p) \/ Failed(p) \/ Pending(p) \/ Effect(p)
      BY <2>5, ConfirmedStep, FailedStep, PendingStep, EffectStep
    <2>6. CASE Allow(p) \/ Cycle(p) \/ Body(p) \/ Buy(p) \/ Die(p)
      BY <2>6, AllowStep, CycleStep, BodyStep, BuyStep, WorldSteps
    <2>7. QED
      BY <1>4, <2>1, <2>2, <2>3, <2>4, <2>5, <2>6 DEF Shared
  <1>5. CASE UNCHANGED vars
    BY <1>5, AllSame DEF vars
  <1>6. QED
    BY <1>1, <1>2, <1>3, <1>4, <1>5 DEF Next

\* What is always so of the plan, its transactions, the chain and the two processes, each
\* conjunct said above where it is defined.
THEOREM PositionInvariant == Spec => []PositionInv
  <1>1. Init => PositionInv
    BY InitKeeps
  <1>2. PositionInv /\ [Next]_vars => PositionInv'
    BY NextKeeps
  <1>3. QED
    BY <1>1, <1>2, PTL DEF Spec

\* The plan's redeems never burn vTokens that other plans' deposits minted, whichever process
\* dies and whatever is mined late (guardian.ts:206).
THEOREM NeverOverdrawn == Spec => []OwnOnly
  <1>1. ASSUME PositionInv
        PROVE  OwnOnly
    <2>1. /\ Types /\ Facts /\ own \in Int /\ plan.vt \in Nat /\ Minted \in Nat
          /\ Coming \in Nat
      BY <1>1, MintedAssumption DEF PositionInv, Types, PlanType, Coming
    <2>2. CASE \E i \in DOMAIN txs : Due(i) /\ Redeem(i)
      <3>1. PICK i \in DOMAIN txs : Due(i) /\ Redeem(i)
        BY <2>2
      <3>2. txs[i].units <= plan.vt /\ txs[i].units \in Nat
        BY <2>1, <3>1, DueMeans, TxFields DEF Facts, Covered
      <3>3. own = plan.vt + Coming - txs[i].units
        BY <2>1, <3>1 DEF Facts, Balance
      <3>4. QED
        BY <2>1, <3>2, <3>3 DEF OwnOnly
    <2>3. CASE ~\E i \in DOMAIN txs : Due(i) /\ Redeem(i)
      <3>1. own = plan.vt + Coming
        BY <2>1, <2>3 DEF Facts, Balance
      <3>2. QED
        BY <2>1, <3>1 DEF OwnOnly
    <2>4. QED
      BY <2>2, <2>3
  <1>2. QED
    BY <1>1, PositionInvariant, PTL

\* Once nothing of the plan is unfinished its row is what the chain holds for it, and a position
\* has principal on record (record.ts:5, schema.ts:194).
THEOREM RecordIsTrue == Spec => []RecordTrue
  <1>1. ASSUME PositionInv, Unfinished = {}
        PROVE  plan.vt = own /\ (own > 1 => plan.principal > 0)
    <2>1. Types /\ Facts /\ plan.vt \in Nat
      BY <1>1 DEF PositionInv, Types, PlanType
    <2>2. \A i \in DOMAIN txs : ~Due(i)
      BY <1>1, <2>1, DueMeans
    <2>3. own = plan.vt
      BY <2>1, <2>2 DEF Facts, Balance, Coming
    <2>4. QED
      BY <2>1, <2>3 DEF Facts, Backing
  <1>2. PositionInv => RecordTrue
    BY <1>1 DEF RecordTrue
  <1>3. QED
    BY <1>2, PositionInvariant, PTL

\* No step but the operator's confirmed activation makes a plan active, save one that finds it
\* waiting for its first run and no cycle of it held for review (plans.ts:219).
Stands ==
    (plan.status # "active" /\ plan'.status = "active") =>
        \/ At("operator", "confirm")
        \/ (plan.status = "paused" /\ plan.reason = "awaiting_run" /\ cycle # "held")

\* The writes of a status: none is "active" but for a start of a plan that waits.
LEMMA StatusWrites ==
  ASSUME PositionInv
  PROVE  /\ \A status \in Statuses \ {"active"}, reason \in Reasons : Wrote(status, reason) => Stands
         /\ \A status \in Statuses :
              WroteIf("paused", "awaiting_run", status, "other") => Stands
         /\ WroteIf("paused", "needs_review", "paused", "other") => Stands
         /\ UNCHANGED plan => Stands
         /\ Rests => Stands
  <1>1. Types /\ plan \in PlanType /\ "other" \in Reasons /\ "paused" \in Statuses
    BY DEF PositionInv, Types, Reasons, Statuses
  <1>2. ASSUME NEW status \in Statuses \ {"active"}, NEW reason \in Reasons, Wrote(status, reason)
        PROVE  Stands
    <2>1. plan'.status = status
      BY <1>1, <1>2, WroteRow
    <2>2. QED
      BY <1>2, <2>1 DEF Stands
  <1>3. UNCHANGED plan => Stands
    BY DEF Stands
  <1>4. ASSUME NEW status \in Statuses, WroteIf("paused", "awaiting_run", status, "other")
        PROVE  Stands
    <2>1. CASE plan.status = "paused" /\ plan.reason = "awaiting_run"
      BY <2>1 DEF PositionInv, Facts, Waiting, Stands
    <2>2. CASE ~(plan.status = "paused" /\ plan.reason = "awaiting_run")
      BY <1>3, <1>4, <2>2 DEF WroteIf
    <2>3. QED
      BY <2>1, <2>2
  <1>5. WroteIf("paused", "needs_review", "paused", "other") => Stands
    BY <1>1, <1>2, <1>3 DEF WroteIf
  <1>6. QED
    BY <1>2, <1>3, <1>4, <1>5 DEF Stands, Rests

LEMMA NextStands ==
  ASSUME PositionInv, [Next]_vars
  PROVE  Stands
  <1>0. /\ {"paused", "stopped"} \subseteq Statuses \ {"active"} /\ "active" \in Statuses
        /\ {"other", "needs_review"} \subseteq Reasons
        /\ Outs \subseteq Statuses \ {"active"} /\ Whys \subseteq Reasons
        /\ Types /\ plan \in PlanType
    BY DEF Statuses, Reasons, Outs, Whys, PositionInv, Types
  <1>1. CASE Worker
    <2>1. CASE Settle \/ GuardianTick \/ RunJob \/ StopJob \/ Tick
      <3>1. UNCHANGED plan
        BY <2>1 DEF Settle, GuardianTick, RunJob, StopJob, Tick
      <3>2. QED
        BY <3>1, StatusWrites
    <2>2. CASE Start \/ Started
      <3>1. PICK status \in Statuses : \/ WroteIf("paused", "awaiting_run", status, "other")
                                       \/ UNCHANGED plan
        BY <1>0, <2>2 DEF Start, Started
      <3>2. QED
        BY <3>1, StatusWrites
    <2>3. CASE Disable
      BY <1>0, <2>3, StatusWrites DEF Disable
    <2>4. QED
      BY <1>1, <2>1, <2>2, <2>3 DEF Worker
  <1>2. CASE Operator
    <2>1. CASE DepositScript \/ RedeemScript \/ CycleOnce \/ AskActivate \/ CloseReview \/ Again
      <3>1. UNCHANGED plan
        BY <2>1 DEF DepositScript, RedeemScript, CycleOnce, AskActivate, CloseReview, Again
      <3>2. QED
        BY <3>1, StatusWrites
    <2>2. CASE Pause
      BY <1>0, <2>2, StatusWrites DEF Pause
    <2>3. CASE Activate
      BY <2>3 DEF Activate, Stands
    <2>4. CASE Closing
      BY <2>4, StatusWrites DEF Closing
    <2>5. CASE \E i \in DOMAIN txs : RecordScript(i)
      BY <2>5, RecordScriptStep, StatusWrites
    <2>6. QED
      BY <1>2, <2>1, <2>2, <2>3, <2>4, <2>5 DEF Operator
  <1>3. CASE World
    <2>1. UNCHANGED plan
      BY <1>3 DEF World, Expire, Lapse, Mine
    <2>2. QED
      BY <2>1, StatusWrites
  <1>4. ASSUME NEW p \in Procs, Shared(p)
        PROVE  Stands
    <2>1. CASE \/ \E i \in DOMAIN txs : Reconcile(p, i)
               \/ SettleDone(p) \/ Look(p) \/ Lock(p) \/ Fresh(p) \/ Build(p) \/ Check(p) \/ Sign(p)
               \/ Confirmed(p) \/ Failed(p) \/ Pending(p) \/ Allow(p) \/ Cycle(p) \/ Body(p) \/ Die(p)
      <3>1. UNCHANGED plan
        BY <2>1 DEF Reconcile, SettleDone, Look, Lock, Fresh, Build, Check, Sign, Confirmed, Failed,
          Pending, Allow, Cycle, Body, Die
      <3>2. QED
        BY <3>1, StatusWrites
    <2>2. CASE (\E i \in DOMAIN txs : Orphan(p, i)) \/ Complete(p) \/ Effect(p)
      BY <2>2, OrphanStep, CompleteStep, EffectStep, StatusWrites
    <2>3. CASE LateStart(p)
      BY <1>0, <2>3, StatusWrites DEF LateStart
    <2>4. CASE Mark(p)
      <3>1. proc[p].want.status \in Outs /\ proc[p].want.reason \in Whys
        BY <2>4 DEF PositionInv, Knows, Shape, In, Does, Mark, At
      <3>2. QED
        BY <1>0, <2>4, <3>1, StatusWrites DEF Mark
    <2>5. CASE Hold(p)
      <3>1. plan'.status = plan.status
        BY <1>0, <2>5 DEF Hold, PlanType
      <3>2. QED
        BY <3>1 DEF Stands
    <2>6. CASE Release(p)
      <3>1. plan'.status \in {"stopped", plan.status}
        BY <1>0, <2>6 DEF Release, PlanType
      <3>2. QED
        BY <3>1 DEF Stands
    <2>7. CASE Buy(p)
      BY <1>0, <2>7, StatusWrites DEF Buy
    <2>8. QED
      BY <1>4, <2>1, <2>2, <2>3, <2>4, <2>5, <2>6, <2>7 DEF Shared
  <1>5. CASE UNCHANGED vars
    BY <1>5, StatusWrites DEF vars
  <1>6. QED
    BY <1>1, <1>2, <1>3, <1>4, <1>5 DEF Next

\* A stop, a pause or a review hold stands until the operator activates the plan: whatever the
\* worker had read before, it starts only a plan still waiting for its first run (plans.ts:219).
THEOREM HoldsAreKept == Spec => HoldsStand
  <1>1. PositionInv /\ [Next]_vars => [Stands]_vars
    BY NextStands
  <1>2. [Stands]_vars => [(plan.status # "active" /\ plan'.status = "active") =>
        \/ At("operator", "confirm")
        \/ (plan.status = "paused" /\ plan.reason = "awaiting_run" /\ cycle # "held")]_vars
    BY DEF Stands
  <1>3. QED
    BY <1>1, <1>2, PositionInvariant, PTL DEF Spec, HoldsStand

\* The row keeps its types and the checks of its table: a status, a reason the code knows, a
\* principal within the cap and never an active plan without any (schema.ts:194).
THEOREM PositionTypes == Spec => []TypeOK
  <1>1. ASSUME PositionInv
        PROVE  TypeOK
    <2>1. /\ Types /\ Facts /\ plan \in PlanType /\ plan.vt \in Nat /\ plan.principal \in Nat
          /\ plan.status \in Statuses /\ plan.reason \in Reasons /\ kind.txs \in Nat
          /\ Len(txs) \in Nat /\ Minted \in Nat /\ MaxPrincipal \in Nat
      BY <1>1, KindsAssumption, MintedAssumption, MaxPrincipalAssumption DEF PositionInv, Types, PlanType
    <2>2. /\ plan.principal <= MaxPrincipal /\ (plan.status = "active" => plan.principal > 0)
          /\ plan.vt + Unbooked <= Len(txs) * Minted /\ Len(txs) <= kind.txs
      BY <2>1 DEF Facts, Backing
    <2>3. plan.vt <= kind.txs * Minted
      <3>1. \A m, n, k \in Nat : m <= n => m * k <= n * k
        <4>1. ASSUME NEW m \in Nat, NEW n \in Nat, NEW k \in Nat, m <= n
              PROVE  m * k <= n * k
          <5>1. PICK d \in Nat : n = m + d
            BY <4>1
          <5>2. n * k = m * k + d * k /\ d * k \in Nat /\ m * k \in Nat
            BY <5>1
          <5>3. QED
            BY <5>2
        <4>2. QED
          BY <4>1
      <3>2. Len(txs) * Minted <= kind.txs * Minted
        BY <2>1, <2>2, <3>1
      <3>3. Unbooked \in Nat /\ Len(txs) * Minted \in Nat /\ kind.txs * Minted \in Nat
        BY <2>1 DEF Unbooked
      <3>4. QED
        BY <2>1, <2>2, <3>2, <3>3
    <2>4. \A p \in Procs : proc[p].pc \in Pcs /\ proc[p].tx \in 0..Len(txs)
      BY <1>1, <2>1, ProcFields DEF PositionInv, Types, Knows
    <2>5. \A i \in DOMAIN txs : txs[i].status = "CONFIRMED" \/ txs[i].receipt => txs[i].mined = "success"
      BY <2>1 DEF Facts, Rows
    <2>6. QED
      BY <2>1, <2>2, <2>3, <2>4, <2>5 DEF TypeOK, Types, Statuses
  <1>2. QED
    BY <1>1, PositionInvariant, PTL
===============================================================================
