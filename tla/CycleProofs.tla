----------------------------- MODULE CycleProofs ------------------------------
(***************************************************************************)
(* For any processes, slots, manual requests and kinds of transactions, as *)
(* long as no call fails in a cycle whose lock has lapsed already          *)
(* (~LateCatch): a plan has one cycle out at a time, and a transaction is  *)
(* signed only for a cycle that is running, decided and reserved.          *)
(*                                                                         *)
(* The argument is rely and guarantee.  Own(p) is what process p may rely  *)
(* on between two awaits: what it remembers fits where it is, a step that  *)
(* is shorter than the lease still has the lock, and while the lock is its *)
(* own its cycle runs and its spend is reserved.  Guarantees(p) is what a  *)
(* step of p does to the others: it takes the lock only where nobody holds *)
(* it, changes a running cycle only under the lock, and lets a cycle out   *)
(* only where none is.  Each action keeps the types (TypeStep), guarantees *)
(* (GuaranteeStep) and re-establishes its process's own part (OwnStep);    *)
(* what the others relied on follows from the guarantee alone              *)
(* (OthersKeep).                                                           *)
(***************************************************************************)
EXTENDS Cycle, TLAPS

\* Where a process knows its cycle, its transaction, the outcome it will write.
Keyed == (Body \cup Locked \cup Completing) \ {"dead", "check", "open"}
Kinded == {"sign", "record", "wait", "apply", "effects"}
Ending == {"finish", "closing", "unspend", "conclude"}

\* What a process's program counter says of what it remembers.
Remembers(p) ==
  /\ proc[p].pc \in Keyed => Key(p) \in Keys
  /\ At(p, "open") /\ proc[p].task # "manual" => Key(p) \in Slots
  /\ proc[p].pc \in Body /\ proc[p].task = "tick" => Key(p) \in Slots
  /\ proc[p].pc \in Kinded => proc[p].kind \in Kinds
  /\ proc[p].pc \in Ending => proc[p].outcome \in Outcomes
  /\ At(p, "note") => cycle[Key(p)].signed # <<>>
  /\ proc[p].pc \in Completing => proc[p].task = "complete"
  /\ proc[p].task = "complete" => proc[p].pc \in Completing \cup {"pausing"}
  /\ proc[p].pc \in Locked \cup {"idle", "acquire"} => ~proc[p].reserved

\* Inside a step that is shorter than the lease the lock is the process's own.
Holds(p) ==
  proc[p].pc \in (Body \cup Locked) \ Slow /\ proc[p].task # "complete" => lock = p /\ live

\* Where the cycle a process works on is running, as long as the lock is its own.
Working == (Body \ {"freeing", "pausing"})
             \cup {"recover", "note", "reopen", "free", "advance", "close"}

\* What the lock's holder knows: of its cycle, of the plan's other cycles, of its spend.
Knows(p) ==
  /\ lock = p /\ proc[p].pc \in Working => Running(Key(p))
  /\ proc[p].task = "complete" => cycle[Key(p)].state \in {"awaiting", "done"}
  /\ At(p, "check") => \A c \in Keys : ~Running(c)
  /\ At(p, "open") => \A c \in Keys : cycle[c].state \in {"none", "done"}
  /\ proc[p].pc \in {"reserve", "reserving", "next", "sign", "record", "wait", "apply"}
       => cycle[Key(p)].decided
  /\ /\ lock = p
     /\ \/ proc[p].pc \in {"next", "sign", "record", "wait", "apply"}
        \/ At(p, "decide") /\ proc[p].reserved
     => spend[Key(p)] = "reserved"

Own(p) == Remembers(p) /\ Holds(p) /\ Knows(p)

Inv == TypeOK /\ (\A p \in Procs : Own(p)) /\ OneOut

\* What a step of p guarantees the others.
Guarantees(p) ==
  /\ \A q \in Procs \ {p} : proc'[q] = proc[q]
  /\ \/ UNCHANGED <<lock, live>>
     \/ lock = p /\ lock' \in {p, None}
     \/ (lock = None \/ ~live) /\ lock' = p
  /\ \A c \in Keys :
       /\ cycle[c].decided => cycle'[c].decided
       /\ cycle[c].signed # <<>> => cycle'[c].signed # <<>>
       /\ cycle[c].state \in {"awaiting", "done"} => cycle'[c].state \in {"awaiting", "done"}
       /\ \/ lock = p /\ live
          \/ cycle'[c].state = cycle[c].state /\ spend'[c] = spend[c]
          \/ /\ cycle[c].state \in {"awaiting", "done"}
             /\ cycle'[c].state \in {cycle[c].state, "done"}
       /\ cycle'[c].state \in {"running", "awaiting"} =>
            \/ cycle[c].state \in {"running", "awaiting"}
            \/ \A d \in Keys : d # c => cycle'[d].state \in {"none", "done"}
       /\ cycle'[c].signed # cycle[c].signed =>
            Running(c) /\ cycle[c].decided /\ spend[c] = "reserved"

\* A step of one process.
Step(p) ==
  \/ \E task \in {"tick", "manual"} : Start(p, task)
  \/ \E c \in Keys : FindOrphaned(p, c) \/ FindAwaiting(p, c) \/ Review(p, c)
  \/ Run(p) \/ Settle(p) \/ Close(p) \/ Throw(p) \/ Crash(p)

-------------------------------------------------------------------------------
(***************************************************************************)
(* Types.                                                                  *)
(***************************************************************************)
\* The updates that the steps make of what a process remembers keep its type.
LEMMA Updates ==
  ASSUME NEW r \in Proc, NEW x \in Places
  PROVE  /\ [r EXCEPT !.pc = x] \in Proc
         /\ \A t \in {"tick", "manual"} : [r EXCEPT !.pc = x, !.task = t] \in Proc
         /\ \A k \in Keys \cup Nat : [r EXCEPT !.pc = x, !.key = k] \in Proc
         /\ \A k \in Kinds : [r EXCEPT !.pc = x, !.kind = k] \in Proc
         /\ \A m \in Nat \cup {None} : [r EXCEPT !.pc = x, !.move = m] \in Proc
         /\ [r EXCEPT !.pc = x, !.reserved = TRUE] \in Proc
  BY ZenonT(60) DEF Proc

\* A cycle's end, decided.
LEMMA EndUpdates ==
  ASSUME NEW r \in Proc, NEW x \in Places, NEW o \in Outcomes, NEW f \in {"none", "gas_only"}
  PROVE  /\ [r EXCEPT !.pc = x, !.outcome = o] \in Proc
         /\ [r EXCEPT !.pc = x, !.outcome = o, !.funds = f] \in Proc
         /\ \A m \in Nat \cup {None} :
              [r EXCEPT !.pc = x, !.outcome = o, !.funds = f, !.move = m] \in Proc
  BY ZenonT(60) DEF Proc

\* Something was sent.
LEMMA SentUpdate == \A r \in Proc : [r EXCEPT !.sent = TRUE] \in Proc
  BY DEF Proc

\* A task that has ended.
LEMMA IdleType == Idle \in Proc
  BY DEF Proc, Idle, Outcomes, Places

\* A task that ends but for its release.
LEMMA IdleUpdate == \A x \in Places : [Idle EXCEPT !.pc = x] \in Proc
  BY DEF Proc, Idle, Outcomes, Places

\* A task that begins with its cycle.
LEMMA TaskUpdates ==
  ASSUME NEW x \in Places, NEW c \in Keys
  PROVE  /\ \A t \in {"settle", "review"} :
              [Idle EXCEPT !.pc = x, !.task = t, !.key = c] \in Proc
         /\ \A k \in Kinds :
              [Idle EXCEPT !.pc = x, !.task = "complete", !.key = c, !.kind = k] \in Proc
  BY ZenonT(60) DEF Proc, Idle, Outcomes, Places

\* The updates of a cycle's row.
LEMMA RowUpdates ==
  ASSUME NEW r \in Row
  PROVE  /\ \A x \in {"running", "awaiting", "done"} : [r EXCEPT !.state = x] \in Row
         /\ [r EXCEPT !.decided = TRUE] \in Row
         /\ \A k \in Kinds \cup {None} : [r EXCEPT !.waits = k] \in Row
         /\ \A o \in Outcomes, f \in {"none", "gas_only"} :
              [r EXCEPT !.state = "done", !.outcome = o, !.funds = f] \in Row
  BY Zenon DEF Row

\* A row whose transaction is recorded.
LEMMA RowSigned ==
  ASSUME NEW r \in Row, NEW k \in Kinds
  PROVE  [r EXCEPT !.signed = Append(@, k)] \in Row
  <1>1. Append(r.signed, k) \in Seq(Kinds)
    BY DEF Row
  <1>2. QED
    BY <1>1 DEF Row

\* Renewing the lock, or losing it.
LEMMA HoldType ==
  ASSUME TypeOK, NEW p \in Procs, NEW r \in Proc, Hold(p, r)
  PROVE  proc' \in [Procs -> Proc] /\ lock' \in Procs \cup {None} /\ live' \in BOOLEAN
  <1>1. proc \in [Procs -> Proc] /\ lock \in Procs \cup {None} /\ live \in BOOLEAN
    BY DEF TypeOK
  <1>2. proc' \in [Procs -> Proc]
    BY <1>1, IdleType DEF Hold
  <1>3. QED
    BY <1>1, <1>2 DEF Hold, locks

\* Ending a cycle's rounds.
LEMMA ToFinishType ==
  ASSUME proc \in [Procs -> Proc], NEW p \in Procs,
         NEW o \in Outcomes, NEW f \in {"none", "gas_only"}, ToFinish(p, o, f)
  PROVE  proc' \in [Procs -> Proc]
  <1>1. \A g \in {"none", "gas_only"} :
          [proc[p] EXCEPT !.pc = "finish", !.outcome = o, !.funds = g] \in Proc
    BY EndUpdates, ZenonT(60) DEF Places, Body
  <1>2. QED
    BY <1>1, Zenon DEF ToFinish

\* Failing in them.
LEMMA ToCatchType ==
  ASSUME proc \in [Procs -> Proc], NEW p \in Procs, Key(p) \in Keys, ToCatch(p)
  PROVE  proc' \in [Procs -> Proc]
  <1>1. [Idle EXCEPT !.pc = "catch", !.task = "settle", !.key = Key(p)] \in Proc
    BY TaskUpdates, Zenon DEF Places, Locked
  <1>2. QED
    BY <1>1 DEF ToCatch

\* A schedule that moves on stays a schedule.
LEMMA NextDueType == \A c \in Nat : \A o : NextDue(c, o) \in Nat
  BY DEF NextDue, Never

\* A plan that moves on stays a plan.
LEMMA MovedType ==
  ASSUME plan \in [status : {"active", "paused", "stopped"}, review : BOOLEAN, due : Nat],
         NEW m \in Nat \cup {None}
  PROVE  Moved(m) \in [status : {"active", "paused", "stopped"}, review : BOOLEAN, due : Nat]
  BY DEF Moved, Never

\* Every step keeps the types.
LEMMA TypeStep ==
  TypeOK /\ (\A p \in Procs : Remembers(p)) /\ [Next]_vars => TypeOK'
  <1> SUFFICES ASSUME TypeOK, \A p \in Procs : Remembers(p), [Next]_vars
               PROVE  TypeOK'
    OBVIOUS
  <1>0. proc \in [Procs -> Proc] /\ cycle \in [Keys -> Row]
    BY DEF TypeOK
  <1>1. ASSUME NEW p \in Procs, Acquire(p)
        PROVE  TypeOK'
    <2>1. CASE lock # None /\ live
      BY <1>0, <1>1, <2>1, IdleType DEF Acquire, locks, books, outbox, TypeOK
    <2>2. CASE ~(lock # None /\ live)
      <3>1. [proc[p] EXCEPT !.pc = "dead"] \in Proc
        BY <1>0, Updates, Zenon DEF Places, Locked
      <3>2. proc' \in [Procs -> Proc]
        BY <1>0, <1>1, <2>2, <3>1 DEF Acquire, Goto
      <3>3. QED
        BY <1>1, <2>2, <3>2, Zenon DEF Acquire, TakeLock, books, outbox, TypeOK
    <2>3. QED
      BY <2>1, <2>2
  <1>2. ASSUME NEW p \in Procs, FindDead(p)
        PROVE  TypeOK'
    <2>1. /\ \A c \in Keys : [proc[p] EXCEPT !.pc = "recover", !.key = c] \in Proc
          /\ [proc[p] EXCEPT !.pc = "check"] \in Proc
      BY <1>0, Updates, Zenon DEF Places, Locked
    <2>2. proc' \in [Procs -> Proc]
      BY <1>0, <1>2, <2>1, ZenonT(60) DEF FindDead, Goto
    <2>3. QED
      BY <1>2, <2>2, ZenonT(60) DEF FindDead, locks, books, outbox, TypeOK
  <1>3. ASSUME NEW p \in Procs, Check(p)
        PROVE  TypeOK'
    <2>1. plan.due \in Nat
      BY <1>0, <1>3 DEF Check, TypeOK
    <2>2. proc' \in [Procs -> Proc]
      BY <1>0, <1>3, <2>1, Updates, Zenon DEF Check, Places, Body, Locked, Completing, Goto
    <2>3. QED
      BY <1>3, <2>1, <2>2 DEF Check, locks, books, outbox, TypeOK
  <1>4. ASSUME NEW p \in Procs, OpenCycle(p)
        PROVE  TypeOK'
    <2>1. /\ \A c \in Keys : [proc[p] EXCEPT !.pc = "decide", !.key = c] \in Proc
          /\ \A m \in Nat \cup {None} : [proc[p] EXCEPT !.pc = "release", !.move = m] \in Proc
      BY <1>0, Updates, ZenonT(60) DEF Places, Body
    <2>2. \A c \in Keys : [cycle[c] EXCEPT !.state = "running"] \in Row
      BY <1>0, RowUpdates, Zenon
    <2>3. At(p, "open") /\ (proc[p].task # "manual" => Key(p) \in Slots)
      BY <1>4, Zenon DEF OpenCycle, Remembers, At
    <2>4. (IF proc[p].task = "tick" /\ cycle[Key(p)].state = "done"
           THEN NextDue(Key(p), cycle[Key(p)].outcome) ELSE None) \in Nat \cup {None}
      BY SlotsAssumption, <2>3, NextDueType
    <2>5. CASE \E c \in Keys :
                 /\ cycle' = [cycle EXCEPT ![c].state = "running"]
                 /\ proc' = [proc EXCEPT ![p] = [@ EXCEPT !.pc = "decide", !.key = c]]
      <3>1. proc' \in [Procs -> Proc] /\ cycle' \in [Keys -> Row]
        BY <1>0, <2>1, <2>2, <2>5, Zenon
      <3>2. QED
        BY <1>4, <3>1, Zenon DEF OpenCycle, locks, books, outbox, TypeOK
    <2>6. CASE /\ cycle' = cycle
               /\ \E m \in Nat \cup {None} :
                    proc' = [proc EXCEPT ![p] = [@ EXCEPT !.pc = "release", !.move = m]]
      <3>1. proc' \in [Procs -> Proc]
        BY <1>0, <2>1, <2>6, Zenon
      <3>2. QED
        BY <1>4, <2>6, <3>1, Zenon DEF OpenCycle, locks, books, outbox, TypeOK
    <2>7. QED
      BY <1>4, <2>3, <2>4, <2>5, <2>6, ZenonT(60) DEF OpenCycle, Keys
  <1>5. ASSUME NEW p \in Procs, Decide(p)
        PROVE  TypeOK'
    <2>1. Key(p) \in Keys
      BY <1>5 DEF Decide, Remembers, Keyed, Body, Locked, Completing, At
    <2>2. CASE \E o \in {"SKIPPED", "DEFERRED", "QUOTE"} :
                 ToFinish(p, o, "none") /\ UNCHANGED cycle
      <3>1. proc' \in [Procs -> Proc]
        BY <1>0, <2>2, ToFinishType DEF Outcomes
      <3>2. QED
        BY <1>5, <2>2, <3>1 DEF Decide, locks, books, outbox, TypeOK
    <2>3. CASE /\ cycle' = [cycle EXCEPT ![Key(p)].decided = TRUE]
               /\ Goto(p, IF proc[p].reserved THEN "next" ELSE "reserve")
      <3>1. /\ \A x \in {"next", "reserve"} : [proc[p] EXCEPT !.pc = x] \in Proc
            /\ [cycle[Key(p)] EXCEPT !.decided = TRUE] \in Row
        BY <1>0, <2>1, Updates, RowUpdates, Zenon DEF Places, Body
      <3>2. proc' \in [Procs -> Proc] /\ cycle' \in [Keys -> Row]
        BY <1>0, <2>1, <2>3, <3>1 DEF Goto
      <3>3. QED
        BY <1>5, <3>2 DEF Decide, locks, books, outbox, TypeOK
    <2>4. QED
      BY <1>5, <2>2, <2>3 DEF Decide
  <1>6. ASSUME NEW p \in Procs, Reserve(p)
        PROVE  TypeOK'
    <2>1. [proc[p] EXCEPT !.pc = "reserving"] \in Proc
      BY <1>0, <1>6, Updates, Zenon DEF Reserve, Places, Body, Locked, Completing
    <2>2. QED
      BY <1>6, <2>1, HoldType DEF Reserve, locks, books, outbox, TypeOK
  <1>7. ASSUME NEW p \in Procs, ReserveSpend(p)
        PROVE  TypeOK'
    <2>1. Key(p) \in Keys
      BY <1>7 DEF ReserveSpend, Remembers, Keyed, Body, Locked, Completing, At
    <2>2. [proc[p] EXCEPT !.pc = "next", !.reserved = TRUE] \in Proc
      BY <1>0, Updates, Zenon DEF Places, Body
    <2>3. ToFinish(p, "SKIPPED", "none") => proc' \in [Procs -> Proc]
      BY <1>0, ToFinishType DEF Outcomes
    <2>4. proc' \in [Procs -> Proc]
      BY <1>0, <1>7, <2>2, <2>3 DEF ReserveSpend
    <2>5. QED
      BY <1>7, <2>1, <2>4 DEF ReserveSpend, locks, outbox, TypeOK
  <1>8. ASSUME NEW p \in Procs, NextTx(p)
        PROVE  TypeOK'
    <2>1. \A k \in Kinds : [proc[p] EXCEPT !.pc = "sign", !.kind = k] \in Proc
      BY <1>0, Updates, Zenon DEF Places, Body
    <2>2. CASE \E k \in Kinds : Hold(p, [proc[p] EXCEPT !.pc = "sign", !.kind = k])
      <3>1. proc' \in [Procs -> Proc] /\ lock' \in Procs \cup {None} /\ live' \in BOOLEAN
        BY <2>1, <2>2, HoldType, Zenon
      <3>2. QED
        BY <1>8, <3>1, Zenon DEF NextTx, books, outbox, TypeOK
    <2>3. CASE ToFinish(p, "FAILED", "none") /\ UNCHANGED locks
      <3>1. proc' \in [Procs -> Proc]
        BY <1>0, <2>3, ToFinishType DEF Outcomes
      <3>2. QED
        BY <1>8, <2>3, <3>1, Zenon DEF NextTx, locks, books, outbox, TypeOK
    <2>4. QED
      BY <1>8, <2>2, <2>3, ZenonT(60) DEF NextTx
  <1>9. ASSUME NEW p \in Procs, Requote(p)
        PROVE  TypeOK'
    <2>1. proc' \in [Procs -> Proc]
      BY <1>0, <1>9, Updates, Zenon DEF Requote, Places, Body, Locked, Completing, Goto
    <2>2. QED
      BY <1>9, <2>1 DEF Requote, locks, books, outbox, TypeOK
  <1>10. ASSUME NEW p \in Procs, SignTx(p)
        PROVE  TypeOK'
    <2>1. Key(p) \in Keys
      BY <1>10 DEF SignTx, Remembers, Keyed, Body, Locked, Completing, At
    <2>2. CASE ToCatch(p) /\ UNCHANGED locks
      <3>1. proc' \in [Procs -> Proc]
        BY <1>0, <2>1, <2>2, ToCatchType
      <3>2. QED
        BY <1>10, <2>2, <3>1 DEF SignTx, locks, books, outbox, TypeOK
    <2>3. CASE Hold(p, [proc[p] EXCEPT !.pc = "record"])
      <3>1. [proc[p] EXCEPT !.pc = "record"] \in Proc
        BY <1>0, Updates, Zenon DEF Places, Body
      <3>2. proc' \in [Procs -> Proc] /\ lock' \in Procs \cup {None} /\ live' \in BOOLEAN
        BY <2>3, <3>1, HoldType
      <3>3. QED
        BY <1>10, <3>2 DEF SignTx, books, outbox, TypeOK
    <2>4. QED
      BY <1>10, <2>2, <2>3 DEF SignTx
  <1>11. ASSUME NEW p \in Procs, RecordSigned(p)
        PROVE  TypeOK'
    <2>1. Key(p) \in Keys /\ proc[p].kind \in Kinds
      BY <1>0, <1>11 DEF RecordSigned, Remembers, Keyed, Kinded, Body, Locked, Completing, At
    <2>2. proc' \in [Procs -> Proc]
      BY <1>0, <1>11, <2>1, Updates, Zenon
      DEF RecordSigned, Places, Body, Locked, Completing, Goto
    <2>3. cycle' \in [Keys -> Row]
      BY <1>0, <1>11, <2>1, <2>2, RowSigned DEF RecordSigned
    <2>4. QED
      BY <1>11, <2>1, <2>2, <2>3
      DEF RecordSigned, Sent!Sign, Tx, Sent!Mined, locks, books, outbox, TypeOK
  <1>12. ASSUME NEW p \in Procs, WaitTx(p)
        PROVE  TypeOK'
    <2>1. <<Key(p), proc[p].kind>> \in Tx
      BY <1>12 DEF WaitTx, Remembers, Keyed, Kinded, Body, Locked, Completing, At, Tx
    <2>2. \A x \in {"apply", "await"} : [proc[p] EXCEPT !.pc = x] \in Proc
      BY <1>0, Updates, Zenon DEF Places, Body
    <2>3. \A f \in {"none", "gas_only"} : ToFinish(p, "FAILED", f) => proc' \in [Procs -> Proc]
      BY <1>0, ToFinishType DEF Outcomes
    <2>4. proc' \in [Procs -> Proc]
      BY <1>0, <1>12, <2>2, <2>3 DEF WaitTx, Goto
    <2>5. verdict' \in [Tx -> {"none", "open", "notSent"} \cup Sent!Mined] /\ fate' = fate
      <3>1. verdict \in [Tx -> {"none", "open", "notSent"} \cup Sent!Mined]
        BY DEF TypeOK
      <3>2. QED
        BY <1>12, <2>1, <3>1 DEF WaitTx, Sent!Settle, Sent!Refuse
    <2>6. QED
      BY <1>12, <2>4, <2>5 DEF WaitTx, locks, books, TypeOK
  <1>13. ASSUME NEW p \in Procs, ApplyTx(p)
        PROVE  TypeOK'
    <2>1. Key(p) \in Keys /\ proc[p].kind \in Kinds
      BY <1>0, <1>13 DEF ApplyTx, Remembers, Keyed, Kinded, Body, Locked, Completing, At
    <2>2. [proc[p] EXCEPT !.sent = TRUE] \in Proc
      BY <1>0, <1>13, <2>1, SentUpdate DEF ApplyTx
    <2>3. proc' \in [Procs -> Proc]
      BY <1>0, <1>13, <2>1, <2>2, Updates, EndUpdates, ZenonT(60)
      DEF ApplyTx, Places, Body, Locked, Completing, Goto, Outcomes
    <2>4. QED
      BY <1>13, <2>1, <2>2, <2>3 DEF ApplyTx, Written, Tx, locks, books, outbox, TypeOK
  <1>14. ASSUME NEW p \in Procs, NoteAnomaly(p)
        PROVE  TypeOK'
    <2>1. Key(p) \in Keys
      BY <1>0, <1>14 DEF NoteAnomaly, Remembers, Keyed, Body, Locked, Completing, At
    <2>2. proc' \in [Procs -> Proc]
      BY <1>0, <1>14, <2>1, Updates, ZenonT(60)
      DEF NoteAnomaly, Places, Body, Locked, Completing, Goto
    <2>3. cycle' \in [Keys -> Row]
      BY <1>0, <1>14, <2>1, <2>2, RowUpdates, Zenon DEF NoteAnomaly
    <2>4. QED
      BY <1>14, <2>1, <2>2, <2>3 DEF NoteAnomaly, locks, books, outbox, TypeOK
  <1>15. ASSUME NEW p \in Procs, HoldCycle(p)
        PROVE  TypeOK'
    <2>1. Key(p) \in Keys
      BY <1>0, <1>15 DEF HoldCycle, Remembers, Keyed, Body, Locked, Completing, At
    <2>2. proc' \in [Procs -> Proc]
      BY <1>0, <1>15, <2>1, Updates, ZenonT(60)
      DEF HoldCycle, Places, Body, Locked, Completing, Goto
    <2>3. cycle' \in [Keys -> Row]
      BY <1>0, <1>15, <2>1, <2>2, RowUpdates, Zenon DEF HoldCycle
    <2>4. QED
      BY <1>15, <2>1, <2>2, <2>3 DEF HoldCycle, locks, books, outbox, TypeOK
  <1>16. ASSUME NEW p \in Procs, PausePlan(p)
        PROVE  TypeOK'
    <2>1. [proc[p] EXCEPT !.pc = "release"] \in Proc
      BY <1>0, Updates, Zenon DEF Places
    <2>2. proc' \in [Procs -> Proc]
      BY <1>0, <1>16, <2>1, IdleType DEF PausePlan
    <2>3. QED
      BY <1>16, <2>2, Zenon DEF PausePlan, locks, books, outbox, TypeOK
  <1>17. ASSUME NEW p \in Procs, Await(p)
        PROVE  TypeOK'
    <2>1. [proc[p] EXCEPT !.pc = "awaiting"] \in Proc
      BY <1>0, <1>17, Updates, Zenon DEF Await, Places, Body, Locked, Completing
    <2>2. QED
      BY <1>17, <2>1, HoldType DEF Await, locks, books, outbox, TypeOK
  <1>18. ASSUME NEW p \in Procs, NoteAwaiting(p)
        PROVE  TypeOK'
    <2>1. Key(p) \in Keys
      BY <1>0, <1>18 DEF NoteAwaiting, Remembers, Keyed, Body, Locked, Completing, At
    <2>2. proc[p].kind \in Kinds \cup {None}
      BY <1>0, <1>18, <2>1 DEF NoteAwaiting, Proc
    <2>3. proc' \in [Procs -> Proc]
      BY <1>0, <1>18, <2>1, <2>2, Updates, ZenonT(60)
      DEF NoteAwaiting, Places, Body, Locked, Completing, Goto
    <2>4. cycle' \in [Keys -> Row]
      BY <1>0, <1>18, <2>1, <2>2, <2>3, RowUpdates, Zenon DEF NoteAwaiting
    <2>5. QED
      BY <1>18, <2>1, <2>2, <2>3, <2>4 DEF NoteAwaiting, locks, books, outbox, TypeOK
  <1>19. ASSUME NEW p \in Procs, Park(p)
        PROVE  TypeOK'
    <2>1. Key(p) \in Keys
      BY <1>0, <1>19 DEF Park, Remembers, Keyed, Body, Locked, Completing, At
    <2>2. proc' \in [Procs -> Proc]
      BY <1>0, <1>19, <2>1, Updates, ZenonT(60) DEF Park, Places, Body, Locked, Completing, Goto
    <2>3. cycle' \in [Keys -> Row]
      BY <1>0, <1>19, <2>1, <2>2, RowUpdates, Zenon DEF Park
    <2>4. QED
      BY <1>19, <2>1, <2>2, <2>3 DEF Park, locks, books, outbox, TypeOK
  <1>20. ASSUME NEW p \in Procs, Finish(p)
        PROVE  TypeOK'
    <2>1. [proc[p] EXCEPT !.pc = "closing"] \in Proc
      BY <1>0, <1>20, Updates, Zenon DEF Finish, Places, Body, Locked, Completing
    <2>2. QED
      BY <1>20, <2>1, HoldType DEF Finish, locks, books, outbox, TypeOK
  <1>21. ASSUME NEW p \in Procs, CloseCycle(p)
        PROVE  TypeOK'
    <2>1. Key(p) \in Keys
      BY <1>0, <1>21 DEF CloseCycle, Remembers, Keyed, Body, Locked, Completing, At
    <2>2. proc[p].outcome \in Outcomes /\ proc[p].funds \in {"none", "gas_only"}
      BY <1>0, <1>21, <2>1 DEF CloseCycle, Remembers, At, Proc, Ending
    <2>3. proc' \in [Procs -> Proc]
      BY <1>0, <1>21, <2>1, <2>2, Updates, ZenonT(60)
      DEF CloseCycle, Places, Body, Locked, Completing, Goto
    <2>4. cycle' \in [Keys -> Row]
      BY <1>0, <1>21, <2>1, <2>2, <2>3, RowUpdates, Zenon DEF CloseCycle, Closed
    <2>5. QED
      BY <1>21, <2>1, <2>2, <2>3, <2>4 DEF CloseCycle, locks, books, outbox, TypeOK
  <1>22. ASSUME NEW p \in Procs, FreeSpend(p)
        PROVE  TypeOK'
    <2>1. Key(p) \in Keys
      BY <1>0, <1>22 DEF FreeSpend, Remembers, Keyed, Body, Locked, Completing, At
    <2>2. proc[p].task = "tick" => NextDue(Key(p), proc[p].outcome) \in Nat
      BY SlotsAssumption, <1>0, <1>22, <2>1, NextDueType DEF FreeSpend, Remembers, At, Body
    <2>3. proc' \in [Procs -> Proc]
      BY <1>0, <1>22, <2>1, <2>2, Updates, Zenon
      DEF FreeSpend, Places, Body, Locked, Completing, Goto
    <2>4. QED
      BY <1>22, <2>1, <2>2, <2>3 DEF FreeSpend, Released, locks, books, outbox, TypeOK
  <1>23. ASSUME NEW p \in Procs, Release(p)
        PROVE  TypeOK'
    <2>1. Moved(proc[p].move)
            \in [status : {"active", "paused", "stopped"}, review : BOOLEAN, due : Nat]
      BY <1>0, <1>23, MovedType DEF Release, TypeOK, Proc
    <2>2. proc' \in [Procs -> Proc]
      BY <1>0, <1>23, <2>1, IdleType DEF Release, Places, Body, Locked, Completing, Goto
    <2>3. QED
      BY <1>23, <2>1, <2>2 DEF Release, locks, books, outbox, TypeOK
  <1>24. ASSUME NEW p \in Procs, Recheck(p)
        PROVE  TypeOK'
    <2>1. proc' \in [Procs -> Proc]
      BY <1>0, <1>24, Updates, ZenonT(60) DEF Recheck, Places, Body, Locked, Completing, Goto
    <2>2. QED
      BY <1>24, <2>1 DEF Recheck, locks, books, outbox, TypeOK
  <1>25. ASSUME NEW p \in Procs, Recover(p)
        PROVE  TypeOK'
    <2>1. proc' \in [Procs -> Proc]
      BY <1>0, <1>25, Updates, Zenon DEF Recover, Places, Body, Locked, Completing, Goto
    <2>2. QED
      BY <1>25, <2>1 DEF Recover, locks, books, outbox, TypeOK
  <1>26. ASSUME NEW p \in Procs, NoteSigned(p)
        PROVE  TypeOK'
    <2>1. Key(p) \in Keys
      BY <1>0, <1>26 DEF NoteSigned, Remembers, Keyed, Body, Locked, Completing, At
    <2>2. cycle[Key(p)].signed \in Seq(Kinds) /\ cycle[Key(p)].signed # <<>>
      BY <1>0, <1>26, <2>1 DEF NoteSigned, Row, Remembers
    <2>3. Latest(Key(p)) \in Kinds
      BY <1>0, <1>26, <2>1, <2>2 DEF NoteSigned, Latest
    <2>4. proc' \in [Procs -> Proc]
      BY <1>0, <1>26, <2>1, <2>2, <2>3, Updates, ZenonT(60)
      DEF NoteSigned, Places, Body, Locked, Completing, Goto
    <2>5. cycle' \in [Keys -> Row]
      BY <1>0, <1>26, <2>1, <2>2, <2>3, <2>4, RowUpdates, Zenon DEF NoteSigned
    <2>6. QED
      BY <1>26, <2>1, <2>2, <2>3, <2>4, <2>5 DEF NoteSigned, locks, books, outbox, TypeOK
  <1>27. ASSUME NEW p \in Procs, Reopen(p)
        PROVE  TypeOK'
    <2>1. Key(p) \in Keys
      BY <1>0, <1>27 DEF Reopen, Remembers, Keyed, Body, Locked, Completing, At
    <2>2. proc' \in [Procs -> Proc]
      BY <1>0, <1>27, <2>1, Updates, ZenonT(60)
      DEF Reopen, Places, Body, Locked, Completing, Goto, Recovered
    <2>3. cycle' \in [Keys -> Row]
      BY <1>0, <1>27, <2>1, <2>2, RowUpdates, Zenon DEF Reopen
    <2>4. QED
      BY <1>27, <2>1, <2>2, <2>3 DEF Reopen, locks, books, outbox, TypeOK
  <1>28. ASSUME NEW p \in Procs, FreeInterrupted(p)
        PROVE  TypeOK'
    <2>1. Key(p) \in Keys
      BY <1>0, <1>28 DEF FreeInterrupted, Remembers, Keyed, Body, Locked, Completing, At
    <2>2. proc' \in [Procs -> Proc]
      BY <1>0, <1>28, <2>1, Updates, Zenon
      DEF FreeInterrupted, Places, Body, Locked, Completing, Goto
    <2>3. QED
      BY <1>28, <2>1, <2>2 DEF FreeInterrupted, Released, locks, books, outbox, TypeOK
  <1>29. ASSUME NEW p \in Procs, AdvanceInterrupted(p)
        PROVE  TypeOK'
    <2>1. Key(p) \in Keys
      BY <1>0, <1>29 DEF AdvanceInterrupted, Remembers, Keyed, Body, Locked, Completing, At
    <2>2. proc' \in [Procs -> Proc]
      BY <1>0, <1>29, <2>1, Updates, Zenon
      DEF AdvanceInterrupted, Places, Body, Locked, Completing, Goto
    <2>3. QED
      BY <1>29, <2>1, <2>2, MovedType, NextDueType, Zenon
      DEF AdvanceInterrupted, locks, books, outbox, TypeOK
  <1>30. ASSUME NEW p \in Procs, CloseInterrupted(p)
        PROVE  TypeOK'
    <2>1. Key(p) \in Keys
      BY <1>0, <1>30 DEF CloseInterrupted, Remembers, Keyed, Body, Locked, Completing, At
    <2>2. proc' \in [Procs -> Proc]
      BY <1>0, <1>30, <2>1, Updates, ZenonT(60)
      DEF CloseInterrupted, Places, Body, Locked, Completing, Goto, Recovered
    <2>3. cycle' \in [Keys -> Row]
      BY <1>0, <1>30, <2>1, <2>2, RowUpdates, Zenon DEF CloseInterrupted, Closed, Outcomes
    <2>4. QED
      BY <1>30, <2>1, <2>2, <2>3 DEF CloseInterrupted, locks, books, outbox, TypeOK
  <1>31. ASSUME NEW p \in Procs, ApplyConfirmed(p)
        PROVE  TypeOK'
    <2>1. Key(p) \in Keys
      BY <1>0, <1>31 DEF ApplyConfirmed, Remembers, Keyed, Body, Locked, Completing, At
    <2>2. QED
      BY <1>31, <2>1, ZenonT(60)
      DEF ApplyConfirmed, Written, Unwritten, SignedTx, locks, books, outbox, TypeOK
  <1>32. ASSUME NEW p \in Procs, Conclude(p)
        PROVE  TypeOK'
    <2>1. Key(p) \in Keys
      BY <1>32 DEF Conclude, Remembers, Keyed, Body, Locked, Completing, At
    <2>2. (IF plan.due = Key(p) THEN NextDue(Key(p), "FAILED") ELSE None) \in Nat \cup {None}
      BY NextDueType DEF TypeOK
    <2>3. CASE cycle' = [cycle EXCEPT ![Key(p)].waits = None] /\ Goto(p, "pausing")
      <3>1. /\ [proc[p] EXCEPT !.pc = "pausing"] \in Proc
            /\ [cycle[Key(p)] EXCEPT !.waits = None] \in Row
        BY <1>0, <2>1, Updates, RowUpdates, Zenon DEF Places, Body
      <3>2. proc' \in [Procs -> Proc] /\ cycle' \in [Keys -> Row]
        BY <1>0, <2>1, <2>3, <3>1 DEF Goto
      <3>3. QED
        BY <1>32, <3>2 DEF Conclude, locks, books, outbox, TypeOK
    <2>4. CASE /\ cycle' = cycle
               /\ \E x \in {"conclude", "unspend"}, o \in {"BOUGHT", "FAILED"},
                     f \in {"none", "gas_only"}, m \in Nat \cup {None} :
                    proc' = [proc EXCEPT ![p] = [@ EXCEPT !.pc = x, !.outcome = o, !.funds = f,
                                                          !.move = m]]
      <3>1. \A x \in {"conclude", "unspend"}, o \in {"BOUGHT", "FAILED"},
               f \in {"none", "gas_only"}, m \in Nat \cup {None} :
              [proc[p] EXCEPT !.pc = x, !.outcome = o, !.funds = f, !.move = m] \in Proc
        BY NoneAssumption, KindsAssumption, <1>0, EndUpdates, ZenonT(60) DEF Places, Completing, Outcomes
      <3>2. PICK x \in {"conclude", "unspend"}, o \in {"BOUGHT", "FAILED"},
                 f \in {"none", "gas_only"}, m \in Nat \cup {None} :
              proc' = [proc EXCEPT ![p] = [@ EXCEPT !.pc = x, !.outcome = o, !.funds = f,
                                                    !.move = m]]
        BY <2>4, Zenon
      <3>3. proc' \in [Procs -> Proc]
        BY <1>0, <3>1, <3>2, Zenon
      <3>4. QED
        BY <1>32, <2>4, <3>3 DEF Conclude, locks, books, outbox, TypeOK
    <2>5. QED
      BY <1>32, <2>2, <2>3, <2>4, Zenon DEF Conclude
  <1>33. ASSUME NEW p \in Procs, FreeAwaiting(p)
        PROVE  TypeOK'
    <2>1. Key(p) \in Keys
      BY <1>0, <1>33 DEF FreeAwaiting, Remembers, Keyed, Body, Locked, Completing, At
    <2>2. proc' \in [Procs -> Proc]
      BY <1>0, <1>33, <2>1, Updates, Zenon
      DEF FreeAwaiting, Places, Body, Locked, Completing, Goto
    <2>3. QED
      BY <1>33, <2>1, <2>2 DEF FreeAwaiting, Released, locks, books, outbox, TypeOK
  <1>34. ASSUME NEW p \in Procs, CloseAwaiting(p)
        PROVE  TypeOK'
    <2>1. Key(p) \in Keys
      BY <1>0, <1>34 DEF CloseAwaiting, Remembers, Keyed, Body, Locked, Completing, At
    <2>2. proc[p].outcome \in Outcomes /\ proc[p].funds \in {"none", "gas_only"}
      BY <1>0, <1>34, <2>1 DEF CloseAwaiting, Remembers, At, Proc, Ending
    <2>3. proc' \in [Procs -> Proc]
      BY <1>0, <1>34, <2>1, <2>2, Updates, ZenonT(60)
      DEF CloseAwaiting, Places, Body, Locked, Completing, Goto
    <2>4. cycle' \in [Keys -> Row]
      BY <1>0, <1>34, <2>1, <2>2, <2>3, RowUpdates, Zenon DEF CloseAwaiting, Closed
    <2>5. QED
      BY <1>34, <2>1, <2>2, <2>3, <2>4 DEF CloseAwaiting, locks, books, outbox, TypeOK
  <1>35. ASSUME NEW p \in Procs, MovePlan(p)
        PROVE  TypeOK'
    <2>1. Moved(proc[p].move)
            \in [status : {"active", "paused", "stopped"}, review : BOOLEAN, due : Nat]
      BY <1>0, <1>35, MovedType, Zenon DEF MovePlan, TypeOK, Proc
    <2>2. proc' \in [Procs -> Proc]
      BY <1>0, <1>35, <2>1, IdleType DEF MovePlan, Places, Body, Locked, Completing, Goto
    <2>3. QED
      BY <1>35, <2>1, <2>2 DEF MovePlan, locks, books, outbox, TypeOK
  <1>36. ASSUME NEW p \in Procs, Reviewed(p)
        PROVE  TypeOK'
    <2>1. proc' \in [Procs -> Proc]
      BY <1>0, <1>36, Updates, Zenon DEF Reviewed, Places, Body, Locked, Completing, Goto
    <2>2. QED
      BY <1>36, <2>1 DEF Reviewed, locks, books, outbox, TypeOK
  <1>37. ASSUME NEW p \in Procs, SpendReviewed(p)
        PROVE  TypeOK'
    <2>1. Key(p) \in Keys
      BY <1>0, <1>37 DEF SpendReviewed, Remembers, Keyed, Body, Locked, Completing, At
    <2>2. proc' \in [Procs -> Proc]
      BY <1>0, <1>37, <2>1, Updates, Zenon
      DEF SpendReviewed, Places, Body, Locked, Completing, Goto
    <2>3. QED
      BY <1>37, <2>1, <2>2 DEF SpendReviewed, locks, books, outbox, TypeOK
  <1>38. ASSUME NEW p \in Procs, CloseReviewed(p)
        PROVE  TypeOK'
    <2>1. Key(p) \in Keys
      BY <1>0, <1>38 DEF CloseReviewed, Remembers, Keyed, Body, Locked, Completing, At
    <2>2. proc' \in [Procs -> Proc]
      BY <1>0, <1>38, <2>1, Updates, ZenonT(60)
      DEF CloseReviewed, Places, Body, Locked, Completing, Goto
    <2>3. cycle' \in [Keys -> Row]
      BY <1>0, <1>38, <2>1, <2>2, RowUpdates, Zenon DEF CloseReviewed, Closed, Outcomes
    <2>4. QED
      BY <1>38, <2>1, <2>2, <2>3 DEF CloseReviewed, locks, books, outbox, TypeOK
  <1>39. ASSUME NEW p \in Procs, UnholdPlan(p)
        PROVE  TypeOK'
    <2>1. proc' \in [Procs -> Proc]
      BY <1>0, <1>39, Updates, Zenon DEF UnholdPlan, Places, Body, Locked, Completing, Goto
    <2>2. QED
      BY <1>39, <2>1, Zenon DEF UnholdPlan, locks, books, outbox, TypeOK
  <1>40. ASSUME NEW p \in Procs, Throw(p)
        PROVE  TypeOK'
    <2>1. proc[p].pc \in Body => Key(p) \in Keys
      BY DEF Remembers, Keyed, Body
    <2>2. [Idle EXCEPT !.pc = "release"] \in Proc
      BY IdleUpdate DEF Places
    <2>3. proc' \in [Procs -> Proc]
      BY <1>0, <1>40, <2>1, <2>2, IdleType, ToCatchType DEF Throw
    <2>4. QED
      BY <1>40, <2>3 DEF Throw, locks, books, outbox, TypeOK
  <1>41. ASSUME NEW p \in Procs, Crash(p)
        PROVE  TypeOK'
    <2>1. proc' \in [Procs -> Proc]
      BY <1>0, <1>41, IdleType DEF Crash, Places, Body, Locked, Completing, Goto
    <2>2. QED
      BY <1>41, <2>1 DEF Crash, locks, books, outbox, TypeOK
  <1>42. ASSUME NEW p \in Procs, NEW task \in {"tick", "manual"}, Start(p, task)
        PROVE  TypeOK'
    <2>1. proc' \in [Procs -> Proc]
      BY <1>0, <1>42, Updates DEF Start, Places, Body, Locked, Completing, Goto
    <2>2. QED
      BY <1>42, <2>1 DEF Start, locks, books, outbox, TypeOK
  <1>43. ASSUME NEW p \in Procs, NEW c \in Keys, FindOrphaned(p, c)
        PROVE  TypeOK'
    <2>1. proc' \in [Procs -> Proc]
      BY <1>0, <1>43, TaskUpdates DEF FindOrphaned, Places, Body, Locked, Completing, Goto
    <2>2. QED
      BY <1>43, <2>1 DEF FindOrphaned, TakeLock, locks, books, outbox, TypeOK
  <1>44. ASSUME NEW p \in Procs, NEW c \in Keys, FindAwaiting(p, c)
        PROVE  TypeOK'
    <2>1. cycle[c].waits \in Kinds
      BY <1>0, <1>44 DEF FindAwaiting, Row, Held
    <2>2. proc' \in [Procs -> Proc]
      BY <1>0, <1>44, <2>1, TaskUpdates DEF FindAwaiting, Places, Body, Locked, Completing, Goto
    <2>3. QED
      BY <1>44, <2>1, <2>2 DEF FindAwaiting, locks, books, outbox, TypeOK
  <1>45. ASSUME NEW p \in Procs, NEW c \in Keys, Review(p, c)
        PROVE  TypeOK'
    <2>1. proc' \in [Procs -> Proc]
      BY <1>0, <1>45, TaskUpdates DEF Review, Places, Body, Locked, Completing, Goto
    <2>2. QED
      BY <1>45, <2>1 DEF Review, TakeLock, locks, books, outbox, TypeOK
  <1>46. ASSUME NEW t \in Tx, Reconcile(t)
        PROVE  TypeOK'
    BY <1>46 DEF Reconcile, Sent!Settle, Sent!Mined, locks, books, outbox, TypeOK
  <1>47. ASSUME NEW t \in Tx, Leave(t)
        PROVE  TypeOK'
    BY <1>47 DEF Leave, Sent!Leave, Sent!Mined, locks, books, outbox, TypeOK
  <1>48. ASSUME NEW t \in Tx, Mine(t)
        PROVE  TypeOK'
    BY <1>48 DEF Mine, Sent!Mine, Sent!Mined, locks, books, outbox, TypeOK
  <1>49. ASSUME Lapse
        PROVE  TypeOK'
    BY <1>49 DEF Lapse, Unlocked, locks, books, outbox, TypeOK
  <1>50. ASSUME Stop
        PROVE  TypeOK'
    BY <1>50 DEF Stop, locks, books, outbox, TypeOK
  <1>51. ASSUME UNCHANGED vars
        PROVE  TypeOK'
    BY <1>51 DEF vars, locks, books, outbox, TypeOK
  <1>52. QED
    BY <1>1, <1>2, <1>3, <1>4, <1>5, <1>6, <1>7, <1>8, <1>9, <1>10, <1>11, <1>12, <1>13, <1>14,
       <1>15, <1>16, <1>17, <1>18, <1>19, <1>20, <1>21, <1>22, <1>23, <1>24, <1>25, <1>26,
       <1>27, <1>28, <1>29, <1>30, <1>31, <1>32, <1>33, <1>34, <1>35, <1>36, <1>37, <1>38,
       <1>39, <1>40, <1>41, <1>42, <1>43, <1>44, <1>45, <1>46, <1>47, <1>48, <1>49, <1>50, <1>51
    DEF Next, Run, Settle, Close

-------------------------------------------------------------------------------
(***************************************************************************)
(* What a step does to the others.                                         *)
(***************************************************************************)
\* Every step of a process keeps its guarantee.
LEMMA GuaranteeStep ==
  ASSUME Inv, ~LateCatch, NEW p \in Procs, Step(p)
  PROVE  Guarantees(p)
  <1>0. /\ proc \in [Procs -> Proc]
        /\ cycle \in [Keys -> Row]
        /\ lock \in Procs \cup {None}
        /\ spend \in [Keys -> {"none", "reserved", "spent", "released"}]
    BY DEF Inv, TypeOK
  <1> USE DEF Running
  <1>1. ASSUME Acquire(p)
        PROVE  Guarantees(p)
    BY <1>0, <1>1 DEF Acquire, TakeLock, Guarantees, locks, books, outbox, Goto, Idle
  <1>2. ASSUME FindDead(p)
        PROVE  Guarantees(p)
    <2>1. lock = p /\ live
      BY <1>2 DEF FindDead, Inv, Own, Holds, Remembers, Completing, Slow, Body, Locked, At
    <2>2. QED
      BY <1>0, <1>2, <2>1 DEF FindDead, Guarantees, locks, books, outbox, Goto, Idle
  <1>3. ASSUME Check(p)
        PROVE  Guarantees(p)
    <2>1. lock = p /\ live
      BY <1>3 DEF Check, Inv, Own, Holds, Remembers, Completing, Slow, Body, Locked, At
    <2>2. QED
      BY <1>0, <1>3, <2>1 DEF Check, Runs, Guarantees, locks, books, outbox, Goto, Idle
  <1>4. ASSUME OpenCycle(p)
        PROVE  Guarantees(p)
    <2>1. lock = p /\ live
      BY <1>4 DEF OpenCycle, Inv, Own, Holds, Remembers, Completing, Slow, Body, Locked, At
    <2>2. \A c \in Keys : cycle[c].state \in {"none", "done"}
      BY <1>4 DEF OpenCycle, Inv, Own, Knows, At
    <2>3. (\A q \in Procs \ {p} : proc'[q] = proc[q]) /\ UNCHANGED <<lock, live, spend>>
      BY <1>4, <1>0 DEF OpenCycle, locks, books
    <2>4. CASE UNCHANGED cycle
      BY <2>3, <2>4 DEF Guarantees
    <2>5. ASSUME NEW c \in Keys, cycle[c].state = "none",
                 cycle' = [cycle EXCEPT ![c].state = "running"]
          PROVE  Guarantees(p)
      BY <2>1, <2>2, <2>3, <2>5, <1>0 DEF Guarantees
    <2>6. proc[p].task # "manual" => Key(p) \in Slots
      BY <1>4 DEF OpenCycle, Inv, Own, Remembers, At
    <2>7. QED
      BY <1>4, <2>4, <2>5, <2>6 DEF OpenCycle, Keys
  <1>5. ASSUME Decide(p)
        PROVE  Guarantees(p)
    <2>1. Key(p) \in Keys
      BY <1>5 DEF Decide, Inv, Own, Remembers, Keyed, Body, Locked, Completing, At
    <2>2. (\A q \in Procs \ {p} : proc'[q] = proc[q]) /\ UNCHANGED <<lock, live, spend>>
      BY <1>5, <1>0 DEF Decide, ToFinish, Goto, locks, books
    <2>3. CASE UNCHANGED cycle
      BY <2>2, <2>3 DEF Guarantees
    <2>4. CASE cycle' = [cycle EXCEPT ![Key(p)].decided = TRUE]
      <3>1. \A c \in Keys :
              /\ cycle'[c].state = cycle[c].state /\ cycle'[c].signed = cycle[c].signed
              /\ cycle[c].decided => cycle'[c].decided
        BY <2>1, <2>4, <1>0 DEF Row
      <3>2. QED
        BY <2>2, <3>1 DEF Guarantees
    <2>5. QED
      BY <1>5, <2>3, <2>4 DEF Decide
  <1>6. ASSUME Reserve(p)
        PROVE  Guarantees(p)
    <2>1. Key(p) \in Keys
      BY <1>6 DEF Reserve, Inv, Own, Remembers, Keyed, Body, Locked, Completing, At
    <2>2. QED
      BY <1>0, <1>6, <2>1 DEF Reserve, Hold, Guarantees, locks, books, outbox, Goto, Idle
  <1>7. ASSUME ReserveSpend(p)
        PROVE  Guarantees(p)
    <2>1. Key(p) \in Keys
      BY <1>7 DEF ReserveSpend, Inv, Own, Remembers, Keyed, Body, Locked, Completing, At
    <2>2. lock = p /\ live
      BY <1>7 DEF ReserveSpend, Inv, Own, Holds, Remembers, Completing, Slow, Body, Locked, At
    <2>3. Running(Key(p))
      BY <1>7, <2>2 DEF ReserveSpend, Inv, Own, Knows, Working, Body, At
    <2>4. QED
      BY <1>0, <1>7, <2>1, <2>2, <2>3
      DEF ReserveSpend, ToFinish, Guarantees, locks, books, outbox, Goto, Idle
  <1>8. ASSUME NextTx(p)
        PROVE  Guarantees(p)
    <2>1. Key(p) \in Keys
      BY <1>8 DEF NextTx, Inv, Own, Remembers, Keyed, Body, Locked, Completing, At
    <2>2. QED
      BY <1>0, <1>8, <2>1 DEF NextTx, Hold, ToFinish, Guarantees, locks, books, outbox, Goto, Idle
  <1>9. ASSUME Requote(p)
        PROVE  Guarantees(p)
    <2>1. Key(p) \in Keys
      BY <1>9 DEF Requote, Inv, Own, Remembers, Keyed, Body, Locked, Completing, At
    <2>2. QED
      BY <1>0, <1>9, <2>1 DEF Requote, Guarantees, locks, books, outbox, Goto, Idle
  <1>10. ASSUME SignTx(p)
        PROVE  Guarantees(p)
    <2>1. Key(p) \in Keys
      BY <1>10 DEF SignTx, Inv, Own, Remembers, Keyed, Body, Locked, Completing, At
    <2>2. QED
      BY <1>0, <1>10, <2>1 DEF SignTx, Hold, ToCatch, Guarantees, locks, books, outbox, Goto, Idle
  <1>11. ASSUME RecordSigned(p)
        PROVE  Guarantees(p)
    <2>1. Key(p) \in Keys
      BY <1>11 DEF RecordSigned, Inv, Own, Remembers, Keyed, Body, Locked, Completing, At
    <2>2. lock = p /\ live
      BY <1>11 DEF RecordSigned, Inv, Own, Holds, Remembers, Completing, Slow, Body, Locked, At
    <2>3. Running(Key(p)) /\ cycle[Key(p)].decided /\ spend[Key(p)] = "reserved"
      BY <1>11, <2>2 DEF RecordSigned, Inv, Own, Knows, Working, Body, At
    <2>4. (\A q \in Procs \ {p} : proc'[q] = proc[q]) /\ UNCHANGED <<lock, live, spend>>
      BY <1>11, <1>0 DEF RecordSigned, Goto, locks, books
    <2>5. \A c \in Keys :
            /\ cycle'[c].state = cycle[c].state /\ cycle'[c].decided = cycle[c].decided
            /\ cycle'[c].signed # cycle[c].signed => c = Key(p)
      BY <1>11, <2>1, <1>0 DEF RecordSigned, Row
    <2>6. cycle[Key(p)].signed # <<>> => cycle'[Key(p)].signed # <<>>
      <3>1. cycle'[Key(p)].signed = Append(cycle[Key(p)].signed, proc[p].kind)
        BY <1>11, <2>1, <1>0 DEF RecordSigned, Row
      <3>2. cycle[Key(p)].signed \in Seq(Kinds) /\ proc[p].kind \in Kinds
        BY <1>11, <2>1, <1>0 DEF RecordSigned, Row, Inv, Own, Remembers, Kinded, At
      <3>3. QED
        BY <3>1, <3>2
    <2>7. QED
      BY <2>2, <2>3, <2>4, <2>5, <2>6 DEF Guarantees
  <1>12. ASSUME WaitTx(p)
        PROVE  Guarantees(p)
    <2>1. Key(p) \in Keys
      BY <1>12 DEF WaitTx, Inv, Own, Remembers, Keyed, Body, Locked, Completing, At
    <2>2. lock = p /\ live
      BY <1>12 DEF WaitTx, Inv, Own, Holds, Remembers, Completing, Slow, Body, Locked, At
    <2>3. Running(Key(p))
      BY <1>12, <2>2 DEF WaitTx, Inv, Own, Knows, Working, Body, At
    <2>4. QED
      BY <1>0, <1>12, <2>1, <2>2, <2>3
      DEF WaitTx, ToFinish, Guarantees, locks, books, outbox, Goto, Idle
  <1>13. ASSUME ApplyTx(p)
        PROVE  Guarantees(p)
    <2>1. Key(p) \in Keys
      BY <1>13 DEF ApplyTx, Inv, Own, Remembers, Keyed, Body, Locked, Completing, At
    <2>2. lock = p /\ live
      BY <1>13 DEF ApplyTx, Inv, Own, Holds, Remembers, Completing, Slow, Body, Locked, At
    <2>3. Running(Key(p))
      BY <1>13, <2>2 DEF ApplyTx, Inv, Own, Knows, Working, Body, At
    <2>4. QED
      BY <1>0, <1>13, <2>1, <2>2, <2>3
      DEF ApplyTx, Written, Guarantees, locks, books, outbox, Goto, Idle
  <1>14. ASSUME NoteAnomaly(p)
        PROVE  Guarantees(p)
    <2>1. Key(p) \in Keys
      BY <1>14 DEF NoteAnomaly, Inv, Own, Remembers, Keyed, Body, Locked, Completing, At
    <2>2. lock = p /\ live
      BY <1>14 DEF NoteAnomaly, Inv, Own, Holds, Remembers, Completing, Slow, Body, Locked, At
    <2>3. Running(Key(p))
      BY <1>14, <2>2 DEF NoteAnomaly, Inv, Own, Knows, Working, Body, At
    <2>4. QED
      BY <1>0, <1>14, <2>1, <2>2, <2>3
      DEF NoteAnomaly, Guarantees, locks, books, outbox, Goto, Idle
  <1>15. ASSUME HoldCycle(p)
        PROVE  Guarantees(p)
    <2>1. Key(p) \in Keys
      BY <1>15 DEF HoldCycle, Inv, Own, Remembers, Keyed, Body, Locked, Completing, At
    <2>2. lock = p /\ live
      BY <1>15 DEF HoldCycle, Inv, Own, Holds, Remembers, Completing, Slow, Body, Locked, At
    <2>3. Running(Key(p))
      BY <1>15, <2>2 DEF HoldCycle, Inv, Own, Knows, Working, Body, At
    <2>4. QED
      BY <1>0, <1>15, <2>1, <2>2, <2>3 DEF HoldCycle, Guarantees, locks, books, outbox, Goto, Idle
  <1>16. ASSUME PausePlan(p)
        PROVE  Guarantees(p)
    BY <1>0, <1>16 DEF PausePlan, Guarantees, locks, books, outbox, Goto, Idle
  <1>17. ASSUME Await(p)
        PROVE  Guarantees(p)
    <2>1. Key(p) \in Keys
      BY <1>17 DEF Await, Inv, Own, Remembers, Keyed, Body, Locked, Completing, At
    <2>2. QED
      BY <1>0, <1>17, <2>1 DEF Await, Hold, Guarantees, locks, books, outbox, Goto, Idle
  <1>18. ASSUME NoteAwaiting(p)
        PROVE  Guarantees(p)
    <2>1. Key(p) \in Keys
      BY <1>18 DEF NoteAwaiting, Inv, Own, Remembers, Keyed, Body, Locked, Completing, At
    <2>2. lock = p /\ live
      BY <1>18 DEF NoteAwaiting, Inv, Own, Holds, Remembers, Completing, Slow, Body, Locked, At
    <2>3. Running(Key(p))
      BY <1>18, <2>2 DEF NoteAwaiting, Inv, Own, Knows, Working, Body, At
    <2>4. QED
      BY <1>0, <1>18, <2>1, <2>2, <2>3
      DEF NoteAwaiting, Guarantees, locks, books, outbox, Goto, Idle
  <1>19. ASSUME Park(p)
        PROVE  Guarantees(p)
    <2>1. Key(p) \in Keys
      BY <1>19 DEF Park, Inv, Own, Remembers, Keyed, Body, Locked, Completing, At
    <2>2. lock = p /\ live
      BY <1>19 DEF Park, Inv, Own, Holds, Remembers, Completing, Slow, Body, Locked, At
    <2>3. Running(Key(p))
      BY <1>19, <2>2 DEF Park, Inv, Own, Knows, Working, Body, At
    <2>4. QED
      BY <1>0, <1>19, <2>1, <2>2, <2>3 DEF Park, Guarantees, locks, books, outbox, Goto, Idle
  <1>20. ASSUME Finish(p)
        PROVE  Guarantees(p)
    <2>1. Key(p) \in Keys
      BY <1>20 DEF Finish, Inv, Own, Remembers, Keyed, Body, Locked, Completing, At
    <2>2. QED
      BY <1>0, <1>20, <2>1 DEF Finish, Hold, Guarantees, locks, books, outbox, Goto, Idle
  <1>21. ASSUME CloseCycle(p)
        PROVE  Guarantees(p)
    <2>1. Key(p) \in Keys
      BY <1>21 DEF CloseCycle, Inv, Own, Remembers, Keyed, Body, Locked, Completing, At
    <2>2. lock = p /\ live
      BY <1>21 DEF CloseCycle, Inv, Own, Holds, Remembers, Completing, Slow, Body, Locked, At
    <2>3. Running(Key(p))
      BY <1>21, <2>2 DEF CloseCycle, Inv, Own, Knows, Working, Body, At
    <2>4. QED
      BY <1>0, <1>21, <2>1, <2>2, <2>3
      DEF CloseCycle, Closed, Guarantees, locks, books, outbox, Goto, Idle
  <1>22. ASSUME FreeSpend(p)
        PROVE  Guarantees(p)
    <2>1. Key(p) \in Keys
      BY <1>22 DEF FreeSpend, Inv, Own, Remembers, Keyed, Body, Locked, Completing, At
    <2>2. lock = p /\ live
      BY <1>22 DEF FreeSpend, Inv, Own, Holds, Remembers, Completing, Slow, Body, Locked, At
    <2>3. QED
      BY <1>0, <1>22, <2>1, <2>2
      DEF FreeSpend, Released, NextDue, Never, Guarantees, locks, books, outbox, Goto, Idle
  <1>23. ASSUME Release(p)
        PROVE  Guarantees(p)
    BY <1>0, <1>23 DEF Release, Moved, Guarantees, locks, books, outbox, Goto, Idle
  <1>24. ASSUME Recheck(p)
        PROVE  Guarantees(p)
    <2>1. Key(p) \in Keys
      BY <1>24 DEF Recheck, Inv, Own, Remembers, Keyed, Body, Locked, Completing, At
    <2>2. lock = p /\ live
      BY <1>24 DEF Recheck, Inv, Own, Holds, Remembers, Completing, Slow, Body, Locked, At
    <2>3. QED
      BY <1>0, <1>24, <2>1, <2>2 DEF Recheck, Guarantees, locks, books, outbox, Goto, Idle
  <1>25. ASSUME Recover(p)
        PROVE  Guarantees(p)
    <2>1. Key(p) \in Keys
      BY <1>25 DEF Recover, Inv, Own, Remembers, Keyed, Body, Locked, Completing, At
    <2>2. lock = p /\ live
      BY <1>25 DEF Recover, Inv, Own, Holds, Remembers, Completing, Slow, Body, Locked, At
    <2>3. Running(Key(p))
      BY <1>25, <2>2 DEF Recover, Inv, Own, Knows, Working, Body, At
    <2>4. QED
      BY <1>0, <1>25, <2>1, <2>2, <2>3 DEF Recover, Guarantees, locks, books, outbox, Goto, Idle
  <1>26. ASSUME NoteSigned(p)
        PROVE  Guarantees(p)
    <2>1. Key(p) \in Keys
      BY <1>26 DEF NoteSigned, Inv, Own, Remembers, Keyed, Body, Locked, Completing, At
    <2>2. lock = p /\ live
      BY <1>26 DEF NoteSigned, Inv, Own, Holds, Remembers, Completing, Slow, Body, Locked, At
    <2>3. Running(Key(p))
      BY <1>26, <2>2 DEF NoteSigned, Inv, Own, Knows, Working, Body, At
    <2>4. QED
      BY <1>0, <1>26, <2>1, <2>2, <2>3
      DEF NoteSigned, Latest, Guarantees, locks, books, outbox, Goto, Idle
  <1>27. ASSUME Reopen(p)
        PROVE  Guarantees(p)
    <2>1. Key(p) \in Keys
      BY <1>27 DEF Reopen, Inv, Own, Remembers, Keyed, Body, Locked, Completing, At
    <2>2. lock = p /\ live
      BY <1>27 DEF Reopen, Inv, Own, Holds, Remembers, Completing, Slow, Body, Locked, At
    <2>3. Running(Key(p))
      BY <1>27, <2>2 DEF Reopen, Inv, Own, Knows, Working, Body, At
    <2>4. QED
      BY <1>0, <1>27, <2>1, <2>2, <2>3
      DEF Reopen, Recovered, Guarantees, locks, books, outbox, Goto, Idle
  <1>28. ASSUME FreeInterrupted(p)
        PROVE  Guarantees(p)
    <2>1. Key(p) \in Keys
      BY <1>28 DEF FreeInterrupted, Inv, Own, Remembers, Keyed, Body, Locked, Completing, At
    <2>2. lock = p /\ live
      BY <1>28 DEF FreeInterrupted, Inv, Own, Holds, Remembers, Completing, Slow, Body, Locked, At
    <2>3. Running(Key(p))
      BY <1>28, <2>2 DEF FreeInterrupted, Inv, Own, Knows, Working, Body, At
    <2>4. QED
      BY <1>0, <1>28, <2>1, <2>2, <2>3
      DEF FreeInterrupted, Released, Guarantees, locks, books, outbox, Goto, Idle
  <1>29. ASSUME AdvanceInterrupted(p)
        PROVE  Guarantees(p)
    <2>1. Key(p) \in Keys
      BY <1>29 DEF AdvanceInterrupted, Inv, Own, Remembers, Keyed, Body, Locked, Completing, At
    <2>2. lock = p /\ live
      BY <1>29
      DEF AdvanceInterrupted, Inv, Own, Holds, Remembers, Completing, Slow, Body, Locked, At
    <2>3. Running(Key(p))
      BY <1>29, <2>2 DEF AdvanceInterrupted, Inv, Own, Knows, Working, Body, At
    <2>4. QED
      BY <1>0, <1>29, <2>1, <2>2, <2>3
      DEF AdvanceInterrupted, Moved, NextDue, Never, Guarantees, locks, books, outbox, Goto,
         Idle
  <1>30. ASSUME CloseInterrupted(p)
        PROVE  Guarantees(p)
    <2>1. Key(p) \in Keys
      BY <1>30 DEF CloseInterrupted, Inv, Own, Remembers, Keyed, Body, Locked, Completing, At
    <2>2. lock = p /\ live
      BY <1>30
      DEF CloseInterrupted, Inv, Own, Holds, Remembers, Completing, Slow, Body, Locked, At
    <2>3. Running(Key(p))
      BY <1>30, <2>2 DEF CloseInterrupted, Inv, Own, Knows, Working, Body, At
    <2>4. QED
      BY <1>0, <1>30, <2>1, <2>2, <2>3
      DEF CloseInterrupted, Closed, Recovered, Guarantees, locks, books, outbox, Goto, Idle
  <1>31. ASSUME ApplyConfirmed(p)
        PROVE  Guarantees(p)
    <2>1. Key(p) \in Keys
      BY <1>31 DEF ApplyConfirmed, Inv, Own, Remembers, Keyed, Body, Locked, Completing, At
    <2>2. cycle[Key(p)].state \in {"awaiting", "done"}
      BY <1>31 DEF ApplyConfirmed, Inv, Own, Remembers, Completing, Knows, At
    <2>3. QED
      BY <1>0, <1>31, <2>1, <2>2
      DEF ApplyConfirmed, Written, Unwritten, SignedTx, Guarantees, locks, books, outbox, Goto,
         Idle
  <1>32. ASSUME Conclude(p)
        PROVE  Guarantees(p)
    <2>1. Key(p) \in Keys
      BY <1>32 DEF Conclude, Inv, Own, Remembers, Keyed, Body, Locked, Completing, At
    <2>2. (\A q \in Procs \ {p} : proc'[q] = proc[q]) /\ UNCHANGED <<lock, live, spend>>
      BY <1>32, <1>0 DEF Conclude, Goto, locks, books
    <2>3. CASE UNCHANGED cycle
      BY <2>2, <2>3 DEF Guarantees
    <2>4. CASE cycle' = [cycle EXCEPT ![Key(p)].waits = None]
      <3>1. \A c \in Keys :
              /\ cycle'[c].state = cycle[c].state /\ cycle'[c].signed = cycle[c].signed
              /\ cycle'[c].decided = cycle[c].decided
        BY <2>1, <2>4, <1>0 DEF Row
      <3>2. QED
        BY <2>2, <3>1 DEF Guarantees
    <2>5. QED
      BY <1>32, <2>3, <2>4 DEF Conclude
  <1>33. ASSUME FreeAwaiting(p)
        PROVE  Guarantees(p)
    <2>1. Key(p) \in Keys
      BY <1>33 DEF FreeAwaiting, Inv, Own, Remembers, Keyed, Body, Locked, Completing, At
    <2>2. cycle[Key(p)].state \in {"awaiting", "done"}
      BY <1>33 DEF FreeAwaiting, Inv, Own, Remembers, Completing, Knows, At
    <2>3. QED
      BY <1>0, <1>33, <2>1, <2>2
      DEF FreeAwaiting, Released, Guarantees, locks, books, outbox, Goto, Idle
  <1>34. ASSUME CloseAwaiting(p)
        PROVE  Guarantees(p)
    <2>1. Key(p) \in Keys
      BY <1>34 DEF CloseAwaiting, Inv, Own, Remembers, Keyed, Body, Locked, Completing, At
    <2>2. cycle[Key(p)].state \in {"awaiting", "done"}
      BY <1>34 DEF CloseAwaiting, Inv, Own, Remembers, Completing, Knows, At
    <2>3. QED
      BY <1>0, <1>34, <2>1, <2>2
      DEF CloseAwaiting, Closed, Guarantees, locks, books, outbox, Goto, Idle
  <1>35. ASSUME MovePlan(p)
        PROVE  Guarantees(p)
    <2>1. cycle[Key(p)].state \in {"awaiting", "done"}
      BY <1>35 DEF MovePlan, Inv, Own, Remembers, Completing, Knows, At
    <2>2. QED
      BY <1>0, <1>35, <2>1 DEF MovePlan, Moved, Guarantees, locks, books, outbox, Goto, Idle
  <1>36. ASSUME Reviewed(p)
        PROVE  Guarantees(p)
    <2>1. Key(p) \in Keys
      BY <1>36 DEF Reviewed, Inv, Own, Remembers, Keyed, Body, Locked, Completing, At
    <2>2. lock = p /\ live
      BY <1>36 DEF Reviewed, Inv, Own, Holds, Remembers, Completing, Slow, Body, Locked, At
    <2>3. QED
      BY <1>0, <1>36, <2>1, <2>2 DEF Reviewed, Guarantees, locks, books, outbox, Goto, Idle
  <1>37. ASSUME SpendReviewed(p)
        PROVE  Guarantees(p)
    <2>1. Key(p) \in Keys
      BY <1>37 DEF SpendReviewed, Inv, Own, Remembers, Keyed, Body, Locked, Completing, At
    <2>2. lock = p /\ live
      BY <1>37 DEF SpendReviewed, Inv, Own, Holds, Remembers, Completing, Slow, Body, Locked, At
    <2>3. QED
      BY <1>0, <1>37, <2>1, <2>2 DEF SpendReviewed, Guarantees, locks, books, outbox, Goto, Idle
  <1>38. ASSUME CloseReviewed(p)
        PROVE  Guarantees(p)
    <2>1. Key(p) \in Keys
      BY <1>38 DEF CloseReviewed, Inv, Own, Remembers, Keyed, Body, Locked, Completing, At
    <2>2. lock = p /\ live
      BY <1>38 DEF CloseReviewed, Inv, Own, Holds, Remembers, Completing, Slow, Body, Locked, At
    <2>3. QED
      BY <1>0, <1>38, <2>1, <2>2
      DEF CloseReviewed, Closed, Guarantees, locks, books, outbox, Goto, Idle
  <1>39. ASSUME UnholdPlan(p)
        PROVE  Guarantees(p)
    <2>1. Key(p) \in Keys
      BY <1>39 DEF UnholdPlan, Inv, Own, Remembers, Keyed, Body, Locked, Completing, At
    <2>2. lock = p /\ live
      BY <1>39 DEF UnholdPlan, Inv, Own, Holds, Remembers, Completing, Slow, Body, Locked, At
    <2>3. QED
      BY <1>0, <1>39, <2>1, <2>2 DEF UnholdPlan, Guarantees, locks, books, outbox, Goto, Idle
  <1>40. ASSUME Throw(p)
        PROVE  Guarantees(p)
    BY <1>0, <1>40 DEF Throw, ToCatch, Reading, Guarantees, locks, books, outbox, Goto, Idle
  <1>41. ASSUME Crash(p)
        PROVE  Guarantees(p)
    BY <1>0, <1>41 DEF Crash, Guarantees, locks, books, outbox, Goto, Idle
  <1>42. ASSUME NEW task \in {"tick", "manual"}, Start(p, task)
        PROVE  Guarantees(p)
    BY <1>0, <1>42 DEF Start, Runs, Guarantees, locks, books, outbox, Goto, Idle
  <1>43. ASSUME NEW c \in Keys, FindOrphaned(p, c)
        PROVE  Guarantees(p)
    BY <1>0, <1>43 DEF FindOrphaned, TakeLock, Guarantees, locks, books, outbox, Goto, Idle
  <1>44. ASSUME NEW c \in Keys, FindAwaiting(p, c)
        PROVE  Guarantees(p)
    BY <1>0, <1>44 DEF FindAwaiting, Held, Guarantees, locks, books, outbox, Goto, Idle
  <1>45. ASSUME NEW c \in Keys, Review(p, c)
        PROVE  Guarantees(p)
    BY <1>0, <1>45 DEF Review, TakeLock, Held, Guarantees, locks, books, outbox, Goto, Idle
  <1>46. QED
    BY <1>1, <1>2, <1>3, <1>4, <1>5, <1>6, <1>7, <1>8, <1>9, <1>10, <1>11, <1>12, <1>13, <1>14,
       <1>15, <1>16, <1>17, <1>18, <1>19, <1>20, <1>21, <1>22, <1>23, <1>24, <1>25, <1>26,
       <1>27, <1>28, <1>29, <1>30, <1>31, <1>32, <1>33, <1>34, <1>35, <1>36, <1>37, <1>38,
       <1>39, <1>40, <1>41, <1>42, <1>43, <1>44, <1>45
    DEF Step, Run, Settle, Close


-------------------------------------------------------------------------------
(***************************************************************************)
(* What a process relies on.                                               *)
(***************************************************************************)
\* A process that has stopped relies on nothing.
LEMMA IdleOwn ==
  ASSUME NEW p \in Procs, proc'[p] = Idle
  PROVE  Own(p)'
  BY DEF Own, Remembers, Holds, Knows, Keyed, Kinded, Ending, Working, Body, Locked, Completing,
     Slow, At, Key, Running, Idle

\* A process that ends its cycle's rounds.
LEMMA FinishOwn ==
  ASSUME NEW p \in Procs, NEW o \in Outcomes, NEW f, ToFinish(p, o, f),
         proc \in [Procs -> Proc], Key(p) \in Keys, proc[p].task # "complete",
         proc[p].task = "tick" => Key(p) \in Slots,
         lock = p => Running(Key(p)), UNCHANGED <<lock, live, cycle, spend>>
  PROVE  Own(p)'
  <1>1. \E g : proc'[p] = [proc[p] EXCEPT !.pc = "finish", !.outcome = o, !.funds = g]
    BY DEF ToFinish
  <1>2. QED
    BY <1>1
    DEF Own, Remembers, Holds, Knows, Keyed, Kinded, Ending, Working, Body, Locked, Completing,
       Slow, At, Key, Running

\* A process whose cycle's body failed holds the lock still, unless LateCatch.
LEMMA CatchOwn ==
  ASSUME ~LateCatch, NEW p \in Procs, InTime(p), ToCatch(p), proc \in [Procs -> Proc],
         Key(p) \in Keys, UNCHANGED <<lock, live>>
  PROVE  Own(p)'
  <1>1. proc'[p] = [Idle EXCEPT !.pc = "catch", !.task = "settle", !.key = Key(p)]
    BY DEF ToCatch
  <1>2. QED
    BY <1>1
    DEF Own, Remembers, Holds, Knows, Keyed, Kinded, Ending, Working, Body, Locked, Completing,
       Slow, At, Key, Running, Idle, InTime


\* After a step of its own, a process has what it relies on next.
LEMMA OwnStep ==
  ASSUME Inv, ~LateCatch, NEW p \in Procs, Step(p)
  PROVE  Own(p)'
  <1>0. /\ proc \in [Procs -> Proc]
        /\ cycle \in [Keys -> Row]
        /\ lock \in Procs \cup {None}
        /\ spend \in [Keys -> {"none", "reserved", "spent", "released"}]
    BY DEF Inv, TypeOK
  <1> USE DEF Running
  <1>1. ASSUME Acquire(p)
        PROVE  Own(p)'
    <2>1. CASE proc'[p] = Idle
      BY <2>1, IdleOwn
    <2>2. CASE /\ proc'[p] = [proc[p] EXCEPT !.pc = "dead"] /\ lock' = p /\ live'
      <3>1. At(p, "acquire") /\ ~proc[p].reserved /\ proc[p].task # "complete"
        BY <1>1 DEF Acquire, Inv, Own, Remembers, Completing, At
      <3>2. QED
        BY <2>2, <3>1, <1>0
        DEF Own, Remembers, Holds, Knows, Keyed, Kinded, Ending, Working, Body, Locked,
           Completing, Slow, At, Key, Running
    <2>3. QED
      BY <1>1, <1>0, <2>1, <2>2 DEF Acquire, TakeLock, Goto
  <1>2. ASSUME FindDead(p)
        PROVE  Own(p)'
    <2>1. lock = p /\ live /\ proc[p].task # "complete" /\ ~proc[p].reserved
      BY <1>2 DEF FindDead, Inv, Own, Holds, Remembers, Completing, Slow, Body, Locked, At
    <2>2. UNCHANGED <<lock, live, cycle, spend>>
      BY <1>2 DEF FindDead, locks, books
    <2>3. ASSUME NEW c \in Keys, Running(c),
                 proc'[p] = [proc[p] EXCEPT !.pc = "recover", !.key = c]
          PROVE  Own(p)'
      BY <2>1, <2>2, <2>3, <1>0
      DEF Own, Remembers, Holds, Knows, Keyed, Kinded, Ending, Working, Body, Locked,
         Completing, Slow, At, Key, Running
    <2>4. CASE (\A c \in Keys : ~Running(c)) /\ proc'[p] = [proc[p] EXCEPT !.pc = "check"]
      BY <2>1, <2>2, <2>4, <1>0
      DEF Own, Remembers, Holds, Knows, Keyed, Kinded, Ending, Working, Body, Locked,
         Completing, Slow, At, Key, Running
    <2>5. QED
      BY <1>2, <1>0, <2>3, <2>4 DEF FindDead, Goto
  <1>3. ASSUME Check(p)
        PROVE  Own(p)'
    <2>1. /\ lock = p /\ live /\ proc[p].task # "complete" /\ ~proc[p].reserved
          /\ \A c \in Keys : ~Running(c)
      BY <1>3 DEF Check, Inv, Own, Holds, Knows, Remembers, Completing, Slow, Body, Locked, At
    <2>2. UNCHANGED <<lock, live, cycle, spend>>
      BY <1>3 DEF Check, locks, books
    <2>3. CASE /\ \A c \in Keys : cycle[c].state # "awaiting"
               /\ Runs(proc[p].task)
      <3>1. proc'[p] = [proc[p] EXCEPT !.pc = "open", !.key = plan.due]
        BY <1>3, <1>0, <2>3 DEF Check
      <3>2. proc[p].task # "manual" => plan.due \in Slots
        BY <2>3 DEF Runs
      <3>3. \A c \in Keys : cycle[c].state \in {"none", "done"}
        BY <1>0, <2>1, <2>3 DEF Row, Running
      <3>4. QED
        BY <2>1, <2>2, <3>1, <3>2, <3>3, <1>0
        DEF Own, Remembers, Holds, Knows, Keyed, Kinded, Ending, Working, Body, Locked,
           Completing, Slow, At, Key, Running
    <2>4. CASE proc'[p] = [proc[p] EXCEPT !.pc = "release", !.key = plan.due]
      BY <2>1, <2>2, <2>4, <1>0
      DEF Own, Remembers, Holds, Knows, Keyed, Kinded, Ending, Working, Body, Locked,
         Completing, Slow, At, Key, Running
    <2>5. QED
      BY <1>3, <1>0, <2>3, <2>4 DEF Check
  <1>4. ASSUME OpenCycle(p)
        PROVE  Own(p)'
    <2>1. /\ lock = p /\ live /\ proc[p].task # "complete" /\ ~proc[p].reserved
          /\ proc[p].task # "manual" => Key(p) \in Slots
      BY <1>4 DEF OpenCycle, Inv, Own, Holds, Remembers, Completing, Slow, Body, Locked, At
    <2>2. UNCHANGED <<lock, live, spend>>
      BY <1>4 DEF OpenCycle, locks, books
    <2>3. ASSUME NEW c \in Keys, proc[p].task # "manual" => c = Key(p),
                 cycle' = [cycle EXCEPT ![c].state = "running"],
                 proc'[p] = [proc[p] EXCEPT !.pc = "decide", !.key = c]
          PROVE  Own(p)'
      <3>1. cycle'[c].state = "running"
        BY <2>3, <1>0 DEF Row
      <3>2. QED
        BY <2>1, <2>2, <2>3, <3>1, <1>0
        DEF Own, Remembers, Holds, Knows, Keyed, Kinded, Ending, Working, Body, Locked,
           Completing, Slow, At, Key, Running
    <2>4. ASSUME NEW m, proc'[p] = [proc[p] EXCEPT !.pc = "release", !.move = m]
          PROVE  Own(p)'
      BY <2>1, <2>4, <1>0
      DEF Own, Remembers, Holds, Knows, Keyed, Kinded, Ending, Working, Body, Locked,
         Completing, Slow, At, Key, Running
    <2>5. QED
      BY <1>4, <1>0, <2>1, <2>3, <2>4 DEF OpenCycle, Keys
  <1>5. ASSUME Decide(p)
        PROVE  Own(p)'
    <2>1. Key(p) \in Keys
      BY <1>5 DEF Decide, Inv, Own, Remembers, Keyed, Body, Locked, Completing, At
    <2>2. /\ proc[p].task # "complete" /\ (proc[p].task = "tick" => Key(p) \in Slots)
          /\ lock = p => Running(Key(p)) /\ (proc[p].reserved => spend[Key(p)] = "reserved")
      BY <1>5 DEF Decide, Inv, Own, Remembers, Knows, Working, Body, Completing, At
    <2>3. UNCHANGED <<lock, live, spend>>
      BY <1>5 DEF Decide, locks, books
    <2>4. CASE \E o \in {"SKIPPED", "DEFERRED", "QUOTE"} :
                 ToFinish(p, o, "none") /\ UNCHANGED cycle
      BY <2>1, <2>2, <2>3, <2>4, <1>0, FinishOwn DEF Outcomes
    <2>5. CASE /\ cycle' = [cycle EXCEPT ![Key(p)].decided = TRUE]
               /\ Goto(p, IF proc[p].reserved THEN "next" ELSE "reserve")
      <3>1. cycle'[Key(p)].decided /\ cycle'[Key(p)].state = cycle[Key(p)].state
        BY <2>1, <2>5, <1>0 DEF Row
      <3>2. CASE proc[p].reserved
        BY <2>1, <2>2, <2>3, <2>5, <3>1, <3>2, <1>0
        DEF Own, Remembers, Holds, Knows, Keyed, Kinded, Ending, Working, Body, Locked,
           Completing, Slow, At, Key, Running, Goto
      <3>3. CASE ~proc[p].reserved
        BY <2>1, <2>2, <2>3, <2>5, <3>1, <3>3, <1>0
        DEF Own, Remembers, Holds, Knows, Keyed, Kinded, Ending, Working, Body, Locked,
           Completing, Slow, At, Key, Running, Goto
      <3>4. QED
        BY <3>2, <3>3
    <2>6. QED
      BY <1>5, <2>4, <2>5 DEF Decide
  <1>6. ASSUME Reserve(p)
        PROVE  Own(p)'
    <2>1. Key(p) \in Keys
      BY <1>6 DEF Reserve, Inv, Own, Remembers, Keyed, Body, Locked, Completing, At
    <2>2. CASE lock # p
      <3>1. proc'[p] = Idle
        BY <1>6, <2>2, <1>0 DEF Reserve, Hold
      <3>2. QED
        BY <3>1, IdleOwn
    <2>3. CASE lock = p
      <3>1. /\ Running(Key(p)) /\ proc[p].task # "complete"
            /\ proc[p].task = "tick" => Key(p) \in Slots
            /\ cycle[Key(p)].decided
        BY <1>6, <2>3
        DEF Reserve, Inv, Own, Remembers, Knows, Ending, Working, Body, Completing, At
      <3>2. /\ proc'[p] = [proc[p] EXCEPT !.pc = "reserving"]
            /\ lock' = p /\ live' /\ UNCHANGED <<cycle, spend>>
        BY <1>6, <2>3, <1>0 DEF Reserve, Hold, books
      <3>3. QED
        BY <2>1, <3>1, <3>2, <1>0
        DEF Own, Remembers, Holds, Knows, Keyed, Kinded, Ending, Working, Body, Locked,
           Completing, Slow, At, Key, Running
    <2>4. QED
      BY <2>2, <2>3
  <1>7. ASSUME ReserveSpend(p)
        PROVE  Own(p)'
    <2>1. Key(p) \in Keys
      BY <1>7 DEF ReserveSpend, Inv, Own, Remembers, Keyed, Body, Locked, Completing, At
    <2>2. /\ lock = p /\ live /\ proc[p].task # "complete" /\ Running(Key(p))
          /\ cycle[Key(p)].decided /\ (proc[p].task = "tick" => Key(p) \in Slots)
      BY <1>7
      DEF ReserveSpend, Inv, Own, Holds, Remembers, Knows, Working, Completing, Slow, Body,
                 Locked, At
    <2>3. UNCHANGED <<lock, live, cycle>>
      BY <1>7 DEF ReserveSpend, locks
    <2>4. CASE ToFinish(p, "SKIPPED", "none") /\ UNCHANGED spend
      BY <2>1, <2>2, <2>3, <2>4, <1>0, FinishOwn DEF Outcomes
    <2>5. CASE /\ spend' = [spend EXCEPT ![Key(p)] = "reserved"]
               /\ proc'[p] = [proc[p] EXCEPT !.pc = "next", !.reserved = TRUE]
      BY <2>1, <2>2, <2>3, <2>5, <1>0
      DEF Own, Remembers, Holds, Knows, Keyed, Kinded, Ending, Working, Body, Locked,
         Completing, Slow, At, Key, Running
    <2>6. QED
      BY <1>7, <1>0, <2>4, <2>5 DEF ReserveSpend
  <1>8. ASSUME NextTx(p)
        PROVE  Own(p)'
    <2>1. Key(p) \in Keys
      BY <1>8 DEF NextTx, Inv, Own, Remembers, Keyed, Body, Locked, Completing, At
    <2>2. /\ cycle[Key(p)].decided /\ proc[p].task # "complete"
          /\ proc[p].task = "tick" => Key(p) \in Slots
          /\ lock = p => Running(Key(p)) /\ spend[Key(p)] = "reserved"
      BY <1>8 DEF NextTx, Inv, Own, Remembers, Knows, Working, Body, Completing, At
    <2>3. CASE lock = p /\ \E k \in Kinds : Hold(p, [proc[p] EXCEPT !.pc = "sign", !.kind = k])
      <3>1. PICK k \in Kinds : Hold(p, [proc[p] EXCEPT !.pc = "sign", !.kind = k])
        BY <2>3
      <3>2. /\ proc'[p] = [proc[p] EXCEPT !.pc = "sign", !.kind = k]
            /\ lock' = p /\ live' /\ UNCHANGED <<cycle, spend>>
        BY <1>8, <2>3, <3>1, <1>0 DEF NextTx, Hold, books
      <3>3. QED
        BY <2>1, <2>2, <2>3, <3>2, <1>0
        DEF Own, Remembers, Holds, Knows, Keyed, Kinded, Ending, Working, Body, Locked,
           Completing, Slow, At, Key, Running
    <2>4. CASE ToFinish(p, "FAILED", "none") /\ UNCHANGED locks
      <3>1. UNCHANGED <<lock, live, cycle, spend>>
        BY <1>8, <2>4 DEF NextTx, locks, books
      <3>2. QED
        BY <2>1, <2>2, <2>4, <3>1, <1>0, FinishOwn DEF Outcomes
    <2>5. CASE lock # p /\ \E k \in Kinds : Hold(p, [proc[p] EXCEPT !.pc = "sign", !.kind = k])
      <3>1. proc'[p] = Idle
        BY <2>5, <1>0 DEF Hold
      <3>2. QED
        BY <3>1, IdleOwn
    <2>6. QED
      BY <1>8, <2>3, <2>4, <2>5 DEF NextTx
  <1>9. ASSUME Requote(p)
        PROVE  Own(p)'
    <2>1. Key(p) \in Keys
      BY <1>9 DEF Requote, Inv, Own, Remembers, Keyed, Body, Locked, Completing, At
    <2>2. QED
      BY <1>0, <1>9, <2>1
      DEF Requote, Inv, Own, Remembers, Holds, Knows, Keyed, Kinded, Ending, Working, Body,
         Locked, Completing, Slow, At, Goto, Key, Idle, locks, books, outbox, Outcomes
  <1>10. ASSUME SignTx(p)
        PROVE  Own(p)'
    <2>1. Key(p) \in Keys
      BY <1>10 DEF SignTx, Inv, Own, Remembers, Keyed, Body, Locked, Completing, At
    <2>2. /\ cycle[Key(p)].decided /\ proc[p].task # "complete" /\ proc[p].kind \in Kinds
          /\ proc[p].task = "tick" => Key(p) \in Slots
          /\ lock = p => Running(Key(p)) /\ spend[Key(p)] = "reserved"
      BY <1>10 DEF SignTx, Inv, Own, Remembers, Kinded, Knows, Working, Body, Completing, At
    <2>3. CASE InTime(p) /\ ToCatch(p) /\ UNCHANGED locks
      BY <2>1, <2>3, <1>0, CatchOwn DEF locks
    <2>4. CASE Hold(p, [proc[p] EXCEPT !.pc = "record"]) /\ lock = p
      <3>1. /\ proc'[p] = [proc[p] EXCEPT !.pc = "record"]
            /\ lock' = p /\ live' /\ UNCHANGED <<cycle, spend>>
        BY <1>10, <2>4, <1>0 DEF SignTx, Hold, books
      <3>2. QED
        BY <2>1, <2>2, <2>4, <3>1, <1>0
        DEF Own, Remembers, Holds, Knows, Keyed, Kinded, Ending, Working, Body, Locked,
           Completing, Slow, At, Key, Running
    <2>5. CASE Hold(p, [proc[p] EXCEPT !.pc = "record"]) /\ lock # p
      <3>1. proc'[p] = Idle
        BY <2>5, <1>0 DEF Hold
      <3>2. QED
        BY <3>1, IdleOwn
    <2>6. QED
      BY <1>10, <2>3, <2>4, <2>5 DEF SignTx
  <1>11. ASSUME RecordSigned(p)
        PROVE  Own(p)'
    <2>1. Key(p) \in Keys
      BY <1>11 DEF RecordSigned, Inv, Own, Remembers, Keyed, Body, Locked, Completing, At
    <2>2. lock = p /\ live
      BY <1>11 DEF RecordSigned, Inv, Own, Holds, Remembers, Completing, Slow, Body, Locked, At
    <2>3. Running(Key(p))
      BY <1>11, <2>2 DEF RecordSigned, Inv, Own, Knows, Working, Body, At
    <2>4. cycle[Key(p)].decided /\ spend[Key(p)] = "reserved"
      BY <1>11, <2>2 DEF RecordSigned, Inv, Own, Knows, At
    <2>5. QED
      BY <1>0, <1>11, <2>1, <2>2, <2>3, <2>4
      DEF RecordSigned, Sent!Sign, Inv, Own, Remembers, Holds, Knows, Keyed, Kinded, Ending,
         Working, Body, Locked, Completing, Slow, At, Goto, Key, Idle, locks, books, outbox,
         Outcomes
  <1>12. ASSUME WaitTx(p)
        PROVE  Own(p)'
    <2>1. Key(p) \in Keys
      BY <1>12 DEF WaitTx, Inv, Own, Remembers, Keyed, Body, Locked, Completing, At
    <2>2. /\ lock = p /\ live /\ proc[p].task # "complete" /\ Running(Key(p))
          /\ cycle[Key(p)].decided /\ spend[Key(p)] = "reserved" /\ proc[p].kind \in Kinds
          /\ proc[p].task = "tick" => Key(p) \in Slots
      BY <1>12
      DEF WaitTx, Inv, Own, Holds, Remembers, Kinded, Knows, Working, Completing, Slow, Body,
                 Locked, At
    <2>3. UNCHANGED <<lock, live, cycle, spend>>
      BY <1>12 DEF WaitTx, locks, books
    <2>4. CASE \E f \in {"none", "gas_only"} : ToFinish(p, "FAILED", f)
      BY <2>1, <2>2, <2>3, <2>4, <1>0, FinishOwn DEF Outcomes
    <2>5. CASE Goto(p, "apply")
      BY <2>1, <2>2, <2>3, <2>5, <1>0
      DEF Own, Remembers, Holds, Knows, Keyed, Kinded, Ending, Working, Body, Locked,
         Completing, Slow, At, Key, Running, Goto
    <2>6. CASE Goto(p, "await")
      BY <2>1, <2>2, <2>3, <2>6, <1>0
      DEF Own, Remembers, Holds, Knows, Keyed, Kinded, Ending, Working, Body, Locked,
         Completing, Slow, At, Key, Running, Goto
    <2>7. QED
      BY <1>12, <2>4, <2>5, <2>6 DEF WaitTx
  <1>13. ASSUME ApplyTx(p)
        PROVE  Own(p)'
    <2>1. Key(p) \in Keys
      BY <1>13 DEF ApplyTx, Inv, Own, Remembers, Keyed, Body, Locked, Completing, At
    <2>2. lock = p /\ live
      BY <1>13 DEF ApplyTx, Inv, Own, Holds, Remembers, Completing, Slow, Body, Locked, At
    <2>3. Running(Key(p))
      BY <1>13, <2>2 DEF ApplyTx, Inv, Own, Knows, Working, Body, At
    <2>4. QED
      BY <1>0, <1>13, <2>1, <2>2, <2>3
      DEF ApplyTx, Written, Inv, Own, Remembers, Holds, Knows, Keyed, Kinded, Ending, Working,
         Body, Locked, Completing, Slow, At, Goto, Key, Idle, locks, books, outbox, Outcomes
  <1>14. ASSUME NoteAnomaly(p)
        PROVE  Own(p)'
    <2>1. Key(p) \in Keys
      BY <1>14 DEF NoteAnomaly, Inv, Own, Remembers, Keyed, Body, Locked, Completing, At
    <2>2. lock = p /\ live
      BY <1>14 DEF NoteAnomaly, Inv, Own, Holds, Remembers, Completing, Slow, Body, Locked, At
    <2>3. Running(Key(p))
      BY <1>14, <2>2 DEF NoteAnomaly, Inv, Own, Knows, Working, Body, At
    <2>4. QED
      BY <1>0, <1>14, <2>1, <2>2, <2>3
      DEF NoteAnomaly, Inv, Own, Remembers, Holds, Knows, Keyed, Kinded, Ending, Working, Body,
         Locked, Completing, Slow, At, Goto, Key, Idle, locks, books, outbox, Outcomes
  <1>15. ASSUME HoldCycle(p)
        PROVE  Own(p)'
    <2>1. Key(p) \in Keys
      BY <1>15 DEF HoldCycle, Inv, Own, Remembers, Keyed, Body, Locked, Completing, At
    <2>2. lock = p /\ live
      BY <1>15 DEF HoldCycle, Inv, Own, Holds, Remembers, Completing, Slow, Body, Locked, At
    <2>3. Running(Key(p))
      BY <1>15, <2>2 DEF HoldCycle, Inv, Own, Knows, Working, Body, At
    <2>4. QED
      BY <1>0, <1>15, <2>1, <2>2, <2>3
      DEF HoldCycle, Inv, Own, Remembers, Holds, Knows, Keyed, Kinded, Ending, Working, Body,
         Locked, Completing, Slow, At, Goto, Key, Idle, locks, books, outbox, Outcomes
  <1>16. ASSUME PausePlan(p)
        PROVE  Own(p)'
    BY <1>0, <1>16
    DEF PausePlan, Inv, Own, Remembers, Holds, Knows, Keyed, Kinded, Ending, Working, Body,
       Locked, Completing, Slow, At, Goto, Key, Idle, locks, books, outbox, Outcomes
  <1>17. ASSUME Await(p)
        PROVE  Own(p)'
    <2>1. Key(p) \in Keys
      BY <1>17 DEF Await, Inv, Own, Remembers, Keyed, Body, Locked, Completing, At
    <2>2. CASE lock # p
      <3>1. proc'[p] = Idle
        BY <1>17, <2>2, <1>0 DEF Await, Hold
      <3>2. QED
        BY <3>1, IdleOwn
    <2>3. CASE lock = p
      <3>1. /\ Running(Key(p)) /\ proc[p].task # "complete"
            /\ proc[p].task = "tick" => Key(p) \in Slots
        BY <1>17, <2>3
        DEF Await, Inv, Own, Remembers, Knows, Ending, Working, Body, Completing, At
      <3>2. /\ proc'[p] = [proc[p] EXCEPT !.pc = "awaiting"]
            /\ lock' = p /\ live' /\ UNCHANGED <<cycle, spend>>
        BY <1>17, <2>3, <1>0 DEF Await, Hold, books
      <3>3. QED
        BY <2>1, <3>1, <3>2, <1>0
        DEF Own, Remembers, Holds, Knows, Keyed, Kinded, Ending, Working, Body, Locked,
           Completing, Slow, At, Key, Running
    <2>4. QED
      BY <2>2, <2>3
  <1>18. ASSUME NoteAwaiting(p)
        PROVE  Own(p)'
    <2>1. Key(p) \in Keys
      BY <1>18 DEF NoteAwaiting, Inv, Own, Remembers, Keyed, Body, Locked, Completing, At
    <2>2. lock = p /\ live
      BY <1>18 DEF NoteAwaiting, Inv, Own, Holds, Remembers, Completing, Slow, Body, Locked, At
    <2>3. Running(Key(p))
      BY <1>18, <2>2 DEF NoteAwaiting, Inv, Own, Knows, Working, Body, At
    <2>4. QED
      BY <1>0, <1>18, <2>1, <2>2, <2>3
      DEF NoteAwaiting, Inv, Own, Remembers, Holds, Knows, Keyed, Kinded, Ending, Working, Body,
         Locked, Completing, Slow, At, Goto, Key, Idle, locks, books, outbox, Outcomes
  <1>19. ASSUME Park(p)
        PROVE  Own(p)'
    <2>1. Key(p) \in Keys
      BY <1>19 DEF Park, Inv, Own, Remembers, Keyed, Body, Locked, Completing, At
    <2>2. lock = p /\ live
      BY <1>19 DEF Park, Inv, Own, Holds, Remembers, Completing, Slow, Body, Locked, At
    <2>3. Running(Key(p))
      BY <1>19, <2>2 DEF Park, Inv, Own, Knows, Working, Body, At
    <2>4. QED
      BY <1>0, <1>19, <2>1, <2>2, <2>3
      DEF Park, Inv, Own, Remembers, Holds, Knows, Keyed, Kinded, Ending, Working, Body, Locked,
         Completing, Slow, At, Goto, Key, Idle, locks, books, outbox, Outcomes
  <1>20. ASSUME Finish(p)
        PROVE  Own(p)'
    <2>1. Key(p) \in Keys
      BY <1>20 DEF Finish, Inv, Own, Remembers, Keyed, Body, Locked, Completing, At
    <2>2. CASE lock # p
      <3>1. proc'[p] = Idle
        BY <1>20, <2>2, <1>0 DEF Finish, Hold
      <3>2. QED
        BY <3>1, IdleOwn
    <2>3. CASE lock = p
      <3>1. /\ Running(Key(p)) /\ proc[p].task # "complete"
            /\ proc[p].task = "tick" => Key(p) \in Slots
            /\ proc[p].outcome \in Outcomes
        BY <1>20, <2>3
        DEF Finish, Inv, Own, Remembers, Knows, Ending, Working, Body, Completing, At
      <3>2. /\ proc'[p] = [proc[p] EXCEPT !.pc = "closing"]
            /\ lock' = p /\ live' /\ UNCHANGED <<cycle, spend>>
        BY <1>20, <2>3, <1>0 DEF Finish, Hold, books
      <3>3. QED
        BY <2>1, <3>1, <3>2, <1>0
        DEF Own, Remembers, Holds, Knows, Keyed, Kinded, Ending, Working, Body, Locked,
           Completing, Slow, At, Key, Running
    <2>4. QED
      BY <2>2, <2>3
  <1>21. ASSUME CloseCycle(p)
        PROVE  Own(p)'
    <2>1. Key(p) \in Keys
      BY <1>21 DEF CloseCycle, Inv, Own, Remembers, Keyed, Body, Locked, Completing, At
    <2>2. lock = p /\ live
      BY <1>21 DEF CloseCycle, Inv, Own, Holds, Remembers, Completing, Slow, Body, Locked, At
    <2>3. Running(Key(p))
      BY <1>21, <2>2 DEF CloseCycle, Inv, Own, Knows, Working, Body, At
    <2>4. QED
      BY <1>0, <1>21, <2>1, <2>2, <2>3
      DEF CloseCycle, Closed, Inv, Own, Remembers, Holds, Knows, Keyed, Kinded, Ending, Working,
         Body, Locked, Completing, Slow, At, Goto, Key, Idle, locks, books, outbox, Outcomes
  <1>22. ASSUME FreeSpend(p)
        PROVE  Own(p)'
    <2>1. Key(p) \in Keys
      BY <1>22 DEF FreeSpend, Inv, Own, Remembers, Keyed, Body, Locked, Completing, At
    <2>2. lock = p /\ live
      BY <1>22 DEF FreeSpend, Inv, Own, Holds, Remembers, Completing, Slow, Body, Locked, At
    <2>3. QED
      BY <1>0, <1>22, <2>1, <2>2
      DEF FreeSpend, Released, NextDue, Never, Inv, Own, Remembers, Holds, Knows, Keyed, Kinded,
         Ending, Working, Body, Locked, Completing, Slow, At, Goto, Key, Idle, locks, books,
         outbox, Outcomes
  <1>23. ASSUME Release(p)
        PROVE  Own(p)'
    BY <1>0, <1>23
    DEF Release, Moved, Inv, Own, Remembers, Holds, Knows, Keyed, Kinded, Ending, Working, Body,
       Locked, Completing, Slow, At, Goto, Key, Idle, locks, books, outbox, Outcomes
  <1>24. ASSUME Recheck(p)
        PROVE  Own(p)'
    <2>1. Key(p) \in Keys
      BY <1>24 DEF Recheck, Inv, Own, Remembers, Keyed, Body, Locked, Completing, At
    <2>2. lock = p /\ live
      BY <1>24 DEF Recheck, Inv, Own, Holds, Remembers, Completing, Slow, Body, Locked, At
    <2>3. QED
      BY <1>0, <1>24, <2>1, <2>2
      DEF Recheck, Inv, Own, Remembers, Holds, Knows, Keyed, Kinded, Ending, Working, Body,
         Locked, Completing, Slow, At, Goto, Key, Idle, locks, books, outbox, Outcomes
  <1>25. ASSUME Recover(p)
        PROVE  Own(p)'
    <2>1. Key(p) \in Keys
      BY <1>25 DEF Recover, Inv, Own, Remembers, Keyed, Body, Locked, Completing, At
    <2>2. lock = p /\ live
      BY <1>25 DEF Recover, Inv, Own, Holds, Remembers, Completing, Slow, Body, Locked, At
    <2>3. Running(Key(p))
      BY <1>25, <2>2 DEF Recover, Inv, Own, Knows, Working, Body, At
    <2>4. QED
      BY <1>0, <1>25, <2>1, <2>2, <2>3
      DEF Recover, Inv, Own, Remembers, Holds, Knows, Keyed, Kinded, Ending, Working, Body,
         Locked, Completing, Slow, At, Goto, Key, Idle, locks, books, outbox, Outcomes
  <1>26. ASSUME NoteSigned(p)
        PROVE  Own(p)'
    <2>1. Key(p) \in Keys
      BY <1>26 DEF NoteSigned, Inv, Own, Remembers, Keyed, Body, Locked, Completing, At
    <2>2. lock = p /\ live
      BY <1>26 DEF NoteSigned, Inv, Own, Holds, Remembers, Completing, Slow, Body, Locked, At
    <2>3. Running(Key(p))
      BY <1>26, <2>2 DEF NoteSigned, Inv, Own, Knows, Working, Body, At
    <2>4. QED
      BY <1>0, <1>26, <2>1, <2>2, <2>3
      DEF NoteSigned, Latest, Inv, Own, Remembers, Holds, Knows, Keyed, Kinded, Ending, Working,
         Body, Locked, Completing, Slow, At, Goto, Key, Idle, locks, books, outbox, Outcomes
  <1>27. ASSUME Reopen(p)
        PROVE  Own(p)'
    <2>1. Key(p) \in Keys
      BY <1>27 DEF Reopen, Inv, Own, Remembers, Keyed, Body, Locked, Completing, At
    <2>2. lock = p /\ live
      BY <1>27 DEF Reopen, Inv, Own, Holds, Remembers, Completing, Slow, Body, Locked, At
    <2>3. Running(Key(p))
      BY <1>27, <2>2 DEF Reopen, Inv, Own, Knows, Working, Body, At
    <2>4. QED
      BY <1>0, <1>27, <2>1, <2>2, <2>3
      DEF Reopen, Recovered, Inv, Own, Remembers, Holds, Knows, Keyed, Kinded, Ending, Working,
         Body, Locked, Completing, Slow, At, Goto, Key, Idle, locks, books, outbox, Outcomes
  <1>28. ASSUME FreeInterrupted(p)
        PROVE  Own(p)'
    <2>1. Key(p) \in Keys
      BY <1>28 DEF FreeInterrupted, Inv, Own, Remembers, Keyed, Body, Locked, Completing, At
    <2>2. lock = p /\ live
      BY <1>28 DEF FreeInterrupted, Inv, Own, Holds, Remembers, Completing, Slow, Body, Locked, At
    <2>3. Running(Key(p))
      BY <1>28, <2>2 DEF FreeInterrupted, Inv, Own, Knows, Working, Body, At
    <2>4. QED
      BY <1>0, <1>28, <2>1, <2>2, <2>3
      DEF FreeInterrupted, Released, Inv, Own, Remembers, Holds, Knows, Keyed, Kinded, Ending,
         Working, Body, Locked, Completing, Slow, At, Goto, Key, Idle, locks, books, outbox,
         Outcomes
  <1>29. ASSUME AdvanceInterrupted(p)
        PROVE  Own(p)'
    <2>1. Key(p) \in Keys
      BY <1>29 DEF AdvanceInterrupted, Inv, Own, Remembers, Keyed, Body, Locked, Completing, At
    <2>2. lock = p /\ live
      BY <1>29
      DEF AdvanceInterrupted, Inv, Own, Holds, Remembers, Completing, Slow, Body, Locked, At
    <2>3. Running(Key(p))
      BY <1>29, <2>2 DEF AdvanceInterrupted, Inv, Own, Knows, Working, Body, At
    <2>4. QED
      BY <1>0, <1>29, <2>1, <2>2, <2>3
      DEF AdvanceInterrupted, Moved, NextDue, Never, Inv, Own, Remembers, Holds, Knows, Keyed,
         Kinded, Ending, Working, Body, Locked, Completing, Slow, At, Goto, Key, Idle, locks,
         books, outbox, Outcomes
  <1>30. ASSUME CloseInterrupted(p)
        PROVE  Own(p)'
    <2>1. Key(p) \in Keys
      BY <1>30 DEF CloseInterrupted, Inv, Own, Remembers, Keyed, Body, Locked, Completing, At
    <2>2. lock = p /\ live
      BY <1>30
      DEF CloseInterrupted, Inv, Own, Holds, Remembers, Completing, Slow, Body, Locked, At
    <2>3. Running(Key(p))
      BY <1>30, <2>2 DEF CloseInterrupted, Inv, Own, Knows, Working, Body, At
    <2>4. QED
      BY <1>0, <1>30, <2>1, <2>2, <2>3
      DEF CloseInterrupted, Closed, Recovered, Inv, Own, Remembers, Holds, Knows, Keyed, Kinded,
         Ending, Working, Body, Locked, Completing, Slow, At, Goto, Key, Idle, locks, books,
         outbox, Outcomes
  <1>31. ASSUME ApplyConfirmed(p)
        PROVE  Own(p)'
    <2>1. Key(p) \in Keys
      BY <1>31 DEF ApplyConfirmed, Inv, Own, Remembers, Keyed, Body, Locked, Completing, At
    <2>2. cycle[Key(p)].state \in {"awaiting", "done"}
      BY <1>31 DEF ApplyConfirmed, Inv, Own, Remembers, Completing, Knows, At
    <2>3. QED
      BY <1>0, <1>31, <2>1, <2>2
      DEF ApplyConfirmed, Written, Unwritten, SignedTx, Inv, Own, Remembers, Holds, Knows,
         Keyed, Kinded, Ending, Working, Body, Locked, Completing, Slow, At, Goto, Key, Idle,
         locks, books, outbox, Outcomes
  <1>32. ASSUME Conclude(p)
        PROVE  Own(p)'
    <2>1. Key(p) \in Keys
      BY <1>32 DEF Conclude, Inv, Own, Remembers, Keyed, Body, Locked, Completing, At
    <2>2. proc[p].task = "complete" /\ cycle[Key(p)].state \in {"awaiting", "done"}
      BY <1>32 DEF Conclude, Inv, Own, Remembers, Knows, Completing, At
    <2>3. UNCHANGED <<lock, live, spend>>
      BY <1>32 DEF Conclude, locks, books
    <2>4. CASE cycle' = [cycle EXCEPT ![Key(p)].waits = None] /\ Goto(p, "pausing")
      <3>1. cycle'[Key(p)].state = cycle[Key(p)].state
        BY <2>1, <2>4, <1>0 DEF Row
      <3>2. QED
        BY <2>1, <2>2, <2>3, <2>4, <3>1, <1>0
        DEF Own, Remembers, Holds, Knows, Keyed, Kinded, Ending, Working, Body, Locked,
           Completing, Slow, At, Key, Running, Goto
    <2>5. CASE /\ UNCHANGED cycle
               /\ \E x \in {"conclude", "unspend"}, o \in {"BOUGHT", "FAILED"} : \E f, m :
                    proc' = [proc EXCEPT ![p] = [@ EXCEPT !.pc = x, !.outcome = o, !.funds = f,
                                                          !.move = m]]
      <3>1. PICK x \in {"conclude", "unspend"}, o \in {"BOUGHT", "FAILED"} : \E f, m :
              proc' = [proc EXCEPT ![p] = [@ EXCEPT !.pc = x, !.outcome = o, !.funds = f,
                                                    !.move = m]]
        BY <2>5
      <3>2. PICK f, m : proc' = [proc EXCEPT ![p] = [@ EXCEPT !.pc = x, !.outcome = o,
                                                              !.funds = f, !.move = m]]
        BY <3>1
      <3>3. QED
        BY <2>1, <2>2, <2>3, <2>5, <3>1, <3>2, <1>0
        DEF Own, Remembers, Holds, Knows, Keyed, Kinded, Ending, Working, Body, Locked,
           Completing, Slow, At, Key, Running, Outcomes
    <2>6. QED
      BY <1>32, <2>4, <2>5 DEF Conclude
  <1>33. ASSUME FreeAwaiting(p)
        PROVE  Own(p)'
    <2>1. Key(p) \in Keys
      BY <1>33 DEF FreeAwaiting, Inv, Own, Remembers, Keyed, Body, Locked, Completing, At
    <2>2. cycle[Key(p)].state \in {"awaiting", "done"}
      BY <1>33 DEF FreeAwaiting, Inv, Own, Remembers, Completing, Knows, At
    <2>3. QED
      BY <1>0, <1>33, <2>1, <2>2
      DEF FreeAwaiting, Released, Inv, Own, Remembers, Holds, Knows, Keyed, Kinded, Ending,
         Working, Body, Locked, Completing, Slow, At, Goto, Key, Idle, locks, books, outbox,
         Outcomes
  <1>34. ASSUME CloseAwaiting(p)
        PROVE  Own(p)'
    <2>1. Key(p) \in Keys
      BY <1>34 DEF CloseAwaiting, Inv, Own, Remembers, Keyed, Body, Locked, Completing, At
    <2>2. cycle[Key(p)].state \in {"awaiting", "done"}
      BY <1>34 DEF CloseAwaiting, Inv, Own, Remembers, Completing, Knows, At
    <2>3. QED
      BY <1>0, <1>34, <2>1, <2>2
      DEF CloseAwaiting, Closed, Inv, Own, Remembers, Holds, Knows, Keyed, Kinded, Ending,
         Working, Body, Locked, Completing, Slow, At, Goto, Key, Idle, locks, books, outbox,
         Outcomes
  <1>35. ASSUME MovePlan(p)
        PROVE  Own(p)'
    <2>1. cycle[Key(p)].state \in {"awaiting", "done"}
      BY <1>35 DEF MovePlan, Inv, Own, Remembers, Completing, Knows, At
    <2>2. QED
      BY <1>0, <1>35, <2>1
      DEF MovePlan, Moved, Inv, Own, Remembers, Holds, Knows, Keyed, Kinded, Ending, Working,
         Body, Locked, Completing, Slow, At, Goto, Key, Idle, locks, books, outbox, Outcomes
  <1>36. ASSUME Reviewed(p)
        PROVE  Own(p)'
    <2>1. Key(p) \in Keys
      BY <1>36 DEF Reviewed, Inv, Own, Remembers, Keyed, Body, Locked, Completing, At
    <2>2. lock = p /\ live
      BY <1>36 DEF Reviewed, Inv, Own, Holds, Remembers, Completing, Slow, Body, Locked, At
    <2>3. QED
      BY <1>0, <1>36, <2>1, <2>2
      DEF Reviewed, Inv, Own, Remembers, Holds, Knows, Keyed, Kinded, Ending, Working, Body,
         Locked, Completing, Slow, At, Goto, Key, Idle, locks, books, outbox, Outcomes
  <1>37. ASSUME SpendReviewed(p)
        PROVE  Own(p)'
    <2>1. Key(p) \in Keys
      BY <1>37 DEF SpendReviewed, Inv, Own, Remembers, Keyed, Body, Locked, Completing, At
    <2>2. lock = p /\ live
      BY <1>37 DEF SpendReviewed, Inv, Own, Holds, Remembers, Completing, Slow, Body, Locked, At
    <2>3. QED
      BY <1>0, <1>37, <2>1, <2>2
      DEF SpendReviewed, Inv, Own, Remembers, Holds, Knows, Keyed, Kinded, Ending, Working,
         Body, Locked, Completing, Slow, At, Goto, Key, Idle, locks, books, outbox, Outcomes
  <1>38. ASSUME CloseReviewed(p)
        PROVE  Own(p)'
    <2>1. Key(p) \in Keys
      BY <1>38 DEF CloseReviewed, Inv, Own, Remembers, Keyed, Body, Locked, Completing, At
    <2>2. lock = p /\ live
      BY <1>38 DEF CloseReviewed, Inv, Own, Holds, Remembers, Completing, Slow, Body, Locked, At
    <2>3. QED
      BY <1>0, <1>38, <2>1, <2>2
      DEF CloseReviewed, Closed, Inv, Own, Remembers, Holds, Knows, Keyed, Kinded, Ending,
         Working, Body, Locked, Completing, Slow, At, Goto, Key, Idle, locks, books, outbox,
         Outcomes
  <1>39. ASSUME UnholdPlan(p)
        PROVE  Own(p)'
    <2>1. Key(p) \in Keys
      BY <1>39 DEF UnholdPlan, Inv, Own, Remembers, Keyed, Body, Locked, Completing, At
    <2>2. lock = p /\ live
      BY <1>39 DEF UnholdPlan, Inv, Own, Holds, Remembers, Completing, Slow, Body, Locked, At
    <2>3. QED
      BY <1>0, <1>39, <2>1, <2>2
      DEF UnholdPlan, Inv, Own, Remembers, Holds, Knows, Keyed, Kinded, Ending, Working, Body,
         Locked, Completing, Slow, At, Goto, Key, Idle, locks, books, outbox, Outcomes
  <1>40. ASSUME Throw(p)
        PROVE  Own(p)'
    <2>1. UNCHANGED <<lock, live, cycle, spend>>
      BY <1>40 DEF Throw, locks, books
    <2>2. CASE proc[p].pc \in Body /\ proc[p].task # "complete" /\ InTime(p) /\ ToCatch(p)
      <3>1. Key(p) \in Keys
        BY <2>2 DEF Inv, Own, Remembers, Keyed, Body
      <3>2. QED
        BY <2>1, <2>2, <3>1, <1>0, CatchOwn
    <2>3. CASE proc' = [proc EXCEPT ![p] = [Idle EXCEPT !.pc = "release"]]
      BY <2>3, <1>0
      DEF Own, Remembers, Holds, Knows, Keyed, Kinded, Ending, Working, Body, Locked,
         Completing, Slow, At, Key, Running, Idle
    <2>4. CASE proc' = [proc EXCEPT ![p] = Idle]
      BY <2>4, <1>0, IdleOwn
    <2>5. QED
      BY <1>40, <2>2, <2>3, <2>4 DEF Throw
  <1>41. ASSUME Crash(p)
        PROVE  Own(p)'
    BY <1>0, <1>41
    DEF Crash, Inv, Own, Remembers, Holds, Knows, Keyed, Kinded, Ending, Working, Body, Locked,
       Completing, Slow, At, Goto, Key, Idle, locks, books, outbox, Outcomes
  <1>42. ASSUME NEW task \in {"tick", "manual"}, Start(p, task)
        PROVE  Own(p)'
    <2>1. proc'[p] = [proc[p] EXCEPT !.pc = "acquire", !.task = task]
      BY <1>42, <1>0 DEF Start
    <2>2. ~proc[p].reserved /\ task # "complete"
      BY <1>42 DEF Start, Inv, Own, Remembers, At
    <2>3. QED
      BY <2>1, <2>2, <1>0
      DEF Own, Remembers, Holds, Knows, Keyed, Kinded, Ending, Working, Body, Locked,
         Completing, Slow, At, Key, Running
  <1>43. ASSUME NEW c \in Keys, FindOrphaned(p, c)
        PROVE  Own(p)'
    BY <1>0, <1>43
    DEF FindOrphaned, TakeLock, Inv, Own, Remembers, Holds, Knows, Keyed, Kinded, Ending,
       Working, Body, Locked, Completing, Slow, At, Goto, Key, Idle, locks, books, outbox,
       Outcomes
  <1>44. ASSUME NEW c \in Keys, FindAwaiting(p, c)
        PROVE  Own(p)'
    <2>1. cycle[c].state = "awaiting" /\ cycle[c].waits \in Kinds
      BY <1>44, <1>0 DEF FindAwaiting, Held, Row
    <2>2. UNCHANGED cycle /\ proc'[p] = [Idle EXCEPT !.pc = "effects", !.task = "complete",
                                                     !.key = c, !.kind = cycle[c].waits]
      BY <1>44, <1>0 DEF FindAwaiting
    <2>3. QED
      BY <2>1, <2>2, <1>0
      DEF Own, Remembers, Holds, Knows, Keyed, Kinded, Ending, Working, Body, Locked,
         Completing, Slow, At, Key, Running, Idle
  <1>45. ASSUME NEW c \in Keys, Review(p, c)
        PROVE  Own(p)'
    BY <1>0, <1>45
    DEF Review, TakeLock, Held, Inv, Own, Remembers, Holds, Knows, Keyed, Kinded, Ending,
       Working, Body, Locked, Completing, Slow, At, Goto, Key, Idle, locks, books, outbox,
       Outcomes
  <1>46. QED
    BY <1>1, <1>2, <1>3, <1>4, <1>5, <1>6, <1>7, <1>8, <1>9, <1>10, <1>11, <1>12, <1>13, <1>14,
       <1>15, <1>16, <1>17, <1>18, <1>19, <1>20, <1>21, <1>22, <1>23, <1>24, <1>25, <1>26,
       <1>27, <1>28, <1>29, <1>30, <1>31, <1>32, <1>33, <1>34, <1>35, <1>36, <1>37, <1>38,
       <1>39, <1>40, <1>41, <1>42, <1>43, <1>44, <1>45
    DEF Step, Run, Settle, Close

-------------------------------------------------------------------------------
(***************************************************************************)
(* The invariant, and what follows from it.                                *)
(***************************************************************************)
\* What the others relied on, they still have.
LEMMA OthersKeep ==
  ASSUME Inv, NEW p \in Procs, Guarantees(p), NEW q \in Procs, q # p
  PROVE  Own(q)'
  <1>1. proc'[q] = proc[q] /\ Own(q)
    BY DEF Guarantees, Inv
  <1>2. Remembers(q)'
    BY <1>1 DEF Own, Remembers, Guarantees, Keyed, Body, Locked, Completing, At, Key
  <1>3. lock' = q => lock = q
    BY NoneAssumption DEF Guarantees
  <1>4. lock = q /\ live => lock' = q /\ live'
    BY NoneAssumption DEF Guarantees
  <1>5. Holds(q)'
    BY <1>1, <1>4 DEF Own, Holds
  <1>6. Knows(q)'
    <2>1. ASSUME NEW c \in Keys, lock = q
          PROVE  /\ Running(c) => Running(c)'
                 /\ Running(c) => spend'[c] = spend[c]
      BY <2>1 DEF Guarantees, Running
    <2>2. ASSUME NEW c \in Keys
          PROVE  /\ cycle[c].state \in {"awaiting", "done"}
                      => cycle'[c].state \in {"awaiting", "done"}
                 /\ cycle[c].decided => cycle'[c].decided
      BY DEF Guarantees
    <2>3. ASSUME At(q, "check") \/ At(q, "open")
          PROVE  \A c \in Keys : cycle'[c].state \in {cycle[c].state, "done"}
      <3>1. lock = q
        BY <1>1, <2>3 DEF Own, Holds, Remembers, At, Body, Locked, Completing, Slow
      <3>2. QED
        BY <3>1 DEF Guarantees
    <2>4. QED
      BY <1>1, <1>3, <2>1, <2>2, <2>3
      DEF Own, Remembers, Knows, Keyed, Working, Body, Locked, Completing, At, Key, Running
  <1>7. QED
    BY <1>2, <1>5, <1>6 DEF Own

\* No second cycle comes out.
LEMMA OneOutKept ==
  ASSUME OneOut, NEW p \in Procs, Guarantees(p)
  PROVE  OneOut'
  BY DEF OneOut, Guarantees

\* The chain, the clock and the owner change nothing that a process knows.
LEMMA WorldStep ==
  ASSUME Inv,
         (\E t \in Tx : Reconcile(t) \/ Leave(t) \/ Mine(t)) \/ Lapse \/ Stop \/ UNCHANGED vars
  PROVE  (\A p \in Procs : Own(p)') /\ OneOut'
  <1>1. UNCHANGED <<proc, cycle, spend, lock>>
    BY DEF Reconcile, Leave, Mine, Lapse, Stop, vars, locks, books
  <1>2. ASSUME NEW p \in Procs, lock = p, live, proc[p].pc \in (Body \cup Locked) \ Slow,
               proc[p].task # "complete"
        PROVE  live'
    BY <1>2 DEF Reconcile, Leave, Mine, Lapse, Stop, vars, locks, Unlocked, At, Body, Locked, Slow
  <1>3. \A p \in Procs : Holds(p)'
    BY <1>1, <1>2 DEF Inv, Own, Holds
  <1>4. \A p \in Procs : Remembers(p)' /\ Knows(p)'
    BY <1>1 DEF Inv, Own, Remembers, Knows, At, Key, Running
  <1>5. QED
    BY <1>1, <1>3, <1>4 DEF Inv, Own, OneOut

\* The invariant holds initially.
LEMMA InvInit == Init => Inv
  <1> SUFFICES ASSUME Init
               PROVE  Inv
    OBVIOUS
  <1>1. Idle \in Proc /\ NoRow \in Row
    <2>1. <<>> \in Seq(Kinds)
      OBVIOUS
    <2>2. QED
      BY <2>1, IdleType DEF NoRow, Row
  <1>2. TypeOK
    BY <1>1 DEF Init, TypeOK, Sent!Init, Sent!Mined
  <1>3. \A p \in Procs : Own(p)
    BY DEF Init, Own, Remembers, Holds, Knows, Idle, At, Key, Keyed, Kinded, Ending, Working,
       Body,
           Locked, Completing
  <1>4. OneOut
    BY DEF Init, OneOut, NoRow
  <1>5. QED
    BY <1>2, <1>3, <1>4 DEF Inv

\* Every step keeps it.
LEMMA InvStep ==
  ASSUME ~LateCatch, Inv, [Next]_vars
  PROVE  Inv'
  <1>1. TypeOK'
    <2>1. TypeOK /\ \A p \in Procs : Remembers(p)
      BY DEF Inv, Own
    <2>2. QED
      BY <2>1, TypeStep
  <1>2. ASSUME NEW p \in Procs, Step(p)
        PROVE  (\A q \in Procs : Own(q)') /\ OneOut'
    <2>1. Guarantees(p) /\ Own(p)'
      BY <1>2, GuaranteeStep, OwnStep
    <2>2. \A q \in Procs : Own(q)'
      BY <2>1, OthersKeep
    <2>3. OneOut'
      BY <2>1, OneOutKept DEF Inv
    <2>4. QED
      BY <2>2, <2>3
  <1>3. (\E p \in Procs : Step(p)) \/
        (\E t \in Tx : Reconcile(t) \/ Leave(t) \/ Mine(t)) \/ Lapse \/ Stop \/ UNCHANGED vars
    BY DEF Next, Step
  <1>4. QED
    BY <1>1, <1>2, <1>3, WorldStep DEF Inv

\* Only a step of a process signs, and its guarantee says for what.
LEMMA SignsStep ==
  ASSUME ~LateCatch, Inv, [Next]_vars, NEW c \in Keys, cycle'[c].signed # cycle[c].signed
  PROVE  Running(c) /\ cycle[c].decided /\ spend[c] = "reserved"
  <1>1. ~((\E t \in Tx : Reconcile(t) \/ Leave(t) \/ Mine(t)) \/ Lapse \/ Stop \/ UNCHANGED vars)
    BY DEF Reconcile, Leave, Mine, Lapse, Stop, vars
  <1>2. PICK p \in Procs : Step(p)
    BY <1>1 DEF Next, Step
  <1>3. Guarantees(p)
    BY <1>2, GuaranteeStep
  <1>4. QED
    BY <1>3 DEF Guarantees

\* Every reachable state satisfies the invariant.
THEOREM CycleInvariant == ~LateCatch => (Spec => []Inv)
  <1> SUFFICES ASSUME ~LateCatch
               PROVE  Spec => []Inv
    OBVIOUS
  <1>1. Inv /\ [Next]_vars => Inv'
    BY InvStep
  <1>2. QED
    BY <1>1, InvInit, PTL DEF Spec

\* A plan never has two cycles out at once, whoever runs, recovers, completes or reviews them,
\* and whatever dies: cycle.ts:229, "An earlier cycle still out on chain decides first".
THEOREM OneCycleOut == ~LateCatch => (Spec => []OneOut)
  <1>1. Inv => OneOut
    BY DEF Inv
  <1>2. QED
    BY <1>1, CycleInvariant, PTL

\* The types of the plan's rows and of what the processes remember.
THEOREM CycleTypes == ~LateCatch => (Spec => []TypeOK)
  <1>1. Inv => TypeOK
    BY DEF Inv
  <1>2. QED
    BY <1>1, CycleInvariant, PTL

\* Nothing is signed for a cycle that another process recovered or closed meanwhile, nor without
\* the decision and the reservation on record (plan-lock.ts:27-30).
THEOREM SignsOnlyReserved == ~LateCatch => (Spec => SignsReserved)
  <1> SUFFICES ASSUME ~LateCatch
               PROVE  Spec => SignsReserved
    OBVIOUS
  <1>1. Inv /\ [Next]_vars =>
          [\A c \in Keys : cycle'[c].signed # cycle[c].signed =>
             Running(c) /\ cycle[c].decided /\ spend[c] = "reserved"]_vars
    BY SignsStep
  <1>2. QED
    BY <1>1, CycleInvariant, PTL DEF Spec, SignsReserved

-------------------------------------------------------------------------------
(***************************************************************************)
(* What becomes of a cycle's money, under the same assumptions: a swap is  *)
(* counted against the caps while it may still go through, an effect is on *)
(* record before its cycle is closed, what a closed cycle tells is what    *)
(* the chain did, and nobody rewrites it.                                  *)
(*                                                                         *)
(* MoneyTrue is not inductive: what a process will write depends on what   *)
(* it read and on transactions that settle meanwhile.  Ledger(c) adds what *)
(* the tables say of a cycle before it is closed; HolderKnows what the     *)
(* lock's holder may conclude from where it is; CompleterKnows what a      *)
(* completion, which takes no lock, may rely on although another may close *)
(* the cycle first: the outcome both would write is the same, as it        *)
(* follows from transactions that have settled.                            *)
(*                                                                         *)
(* Every step is one of a few effects on the tables (Effect), which says   *)
(* on what ground each is made.  An effect keeps what has settled (Keeps)  *)
(* and the tables (LedgerStep); a process without the lock also spares     *)
(* running and held cycles (Spares), and so what the holder knows          *)
(* (OthersKnow).  Each action has its effect and leaves its process with   *)
(* what it knows there (Moves).                                            *)
(***************************************************************************)

\* A cycle's swap, and the transactions it signed before its latest one.
Swap(c) == <<c, "swap">>
Earlier(c) == {<<c, cycle[c].signed[i]>> : i \in 1..(Len(cycle[c].signed) - 1)}
LastIs(c, k) == cycle[c].signed # <<>> /\ Latest(c) = k

\* What its transactions came to: all settled; settled and written down; each mined, written
\* down and no swap; a swap that brought its tokens, or did not; none; none that left.
Settled(c) == \A t \in SignedTx(c) : verdict[t] # "open"
AllWritten(c) ==
  \A t \in SignedTx(c) : verdict[t] # "open" /\ (verdict[t] = "success" => receipt[t] # "none")
Preparing(c) ==
  \A t \in SignedTx(c) : verdict[t] = "success" /\ receipt[t] # "none" /\ t # Swap(c)
Bought(c) == verdict[Swap(c)] = "success" /\ Swap(c) \notin empty
Anomalous(c) == verdict[Swap(c)] = "success" /\ Swap(c) \in empty
NoSwap(c) == verdict[Swap(c)] \notin {"open", "success"}
NothingSent(c) == \A t \in SignedTx(c) : verdict[t] = "notSent"

\* An outcome and what it says of the money, given what the transactions came to.
Fits(c, outcome, funds) ==
  /\ outcome = "BOUGHT" => Bought(c)
  /\ outcome \in {"SKIPPED", "DEFERRED", "FAILED", "QUOTE", "INTERRUPTED"} => NoSwap(c)
  /\ outcome = "INTERRUPTED" => cycle[c].signed = <<>>
  /\ outcome = "FAILED" /\ funds = "none" => NothingSent(c)
  /\ outcome = "CLOSED" => Anomalous(c)
  /\ outcome # "none"

\* The chain's word on a transaction, and the receipt's.
Chain(t) ==
  /\ verdict[t] \in Sent!Mined => fate[t] = verdict[t]
  /\ verdict[t] \in {"none", "notSent"} => fate[t] = "kept"
  /\ t \in empty => fate[t] = "success"
  /\ receipt[t] # "none" => verdict[t] = "success"

\* What the tables say of a cycle.
Ledger(c) ==
  /\ \A k \in Kinds : Chain(<<c, k>>) /\ (verdict[<<c, k>>] = "none" <=> <<c, k>> \notin SignedTx(c))
  /\ \A t \in Earlier(c) : verdict[t] = "success" /\ t # Swap(c)
  /\ receipt[Swap(c)] = "applied" => spend[c] = "spent"
  /\ receipt[Swap(c)] = "recorded" => Swap(c) \in empty
  /\ verdict[Swap(c)] \in {"open", "success"} => spend[c] \in {"reserved", "spent"}
  /\ cycle[c].state = "none" => cycle[c].signed = <<>>
  /\ cycle[c].state = "awaiting" =>
       IF cycle[c].waits = None THEN Anomalous(c) /\ AllWritten(c) ELSE LastIs(c, cycle[c].waits)
  /\ cycle[c].state = "done" => AllWritten(c) /\ Fits(c, cycle[c].outcome, cycle[c].funds)

\* What the lock's holder knows of its cycle's money.
HolderKnows(p) ==
  LET c == Key(p)
      t == <<c, proc[p].kind>> IN
  /\ proc[p].pc \in {"decide", "reserve", "reserving", "next", "sign", "record"} =>
       Preparing(c) /\ (~proc[p].sent => cycle[c].signed = <<>>)
  /\ proc[p].pc \in {"wait", "apply"} =>
       /\ LastIs(c, proc[p].kind) /\ receipt[t] = "none"
       /\ \A u \in Earlier(c) : receipt[u] # "none"
       /\ ~proc[p].sent => Earlier(c) = {}
  /\ At(p, "apply") => verdict[t] = "success"
  /\ proc[p].pc \in {"anomaly", "holding"} => Anomalous(c) /\ AllWritten(c)
  /\ At(p, "holding") => cycle[c].waits = None
  /\ proc[p].pc \in {"finish", "closing"} => AllWritten(c)
  /\ proc[p].pc \in {"finish", "closing", "freeing"} =>
       proc[p].outcome \notin {"INTERRUPTED", "CLOSED"} /\ Fits(c, proc[p].outcome, proc[p].funds)
  /\ proc[p].pc \in {"await", "awaiting", "parking"} => LastIs(c, proc[p].kind)
  /\ At(p, "parking") => cycle[c].waits = proc[p].kind
  /\ At(p, "reopen") => cycle[c].waits # None /\ LastIs(c, cycle[c].waits)
  /\ proc[p].pc \in {"free", "advance", "close"} => cycle[c].signed = <<>>
  /\ proc[p].pc \in {"spend", "closeReviewed"} => Held(c)

\* What a process that completes a cycle knows of it.
CompleterKnows(p) ==
  LET c == Key(p) IN
  /\ proc[p].pc \in {"effects", "unspend", "conclude"} =>
       /\ LastIs(c, proc[p].kind) /\ Settled(c)
       /\ cycle[c].state = "awaiting" \/ cycle[c].outcome \in {"BOUGHT", "FAILED", "CLOSED"}
  /\ proc[p].pc \in {"unspend", "conclude"} =>
       /\ AllWritten(c) /\ Fits(c, proc[p].outcome, proc[p].funds)
       /\ proc[p].outcome \in {"BOUGHT", "FAILED"}
  /\ At(p, "unspend") => proc[p].outcome = "FAILED"

MoneyKnown(p) == (lock = p => HolderKnows(p)) /\ CompleterKnows(p)

MoneyInv == (\A c \in Keys : Ledger(c)) /\ \A p \in Procs : MoneyKnown(p)

-------------------------------------------------------------------------------
(***************************************************************************)
(* The transactions of a cycle.                                            *)
(***************************************************************************)
\* They are of its kinds.
LEMMA SignedKinds ==
  ASSUME TypeOK, NEW c \in Keys
  PROVE  /\ \A t \in SignedTx(c) : t \in Tx /\ \E k \in Kinds : t = <<c, k>>
         /\ Swap(c) \in Tx
  <1>1. cycle[c].signed \in Seq(Kinds)
    BY DEF TypeOK, Row
  <1>2. ASSUME NEW t \in SignedTx(c)
        PROVE  t \in Tx /\ \E k \in Kinds : t = <<c, k>>
    <2>1. PICK i \in DOMAIN cycle[c].signed : t = <<c, cycle[c].signed[i]>>
      BY <1>2, Zenon DEF SignedTx
    <2>2. cycle[c].signed[i] \in Kinds
      BY <1>1, <2>1
    <2>3. QED
      BY <2>1, <2>2 DEF Tx
  <1>3. Swap(c) \in Tx
    BY KindsAssumption DEF Swap, Tx
  <1>4. QED
    BY <1>2, <1>3

\* So are its earlier ones.
LEMMA EarlierKinds ==
  ASSUME TypeOK, NEW c \in Keys
  PROVE  \A t \in Earlier(c) : \E k \in Kinds : t = <<c, k>>
  <1>1. cycle[c].signed \in Seq(Kinds)
    BY DEF TypeOK, Row
  <1>2. \A i \in 1..(Len(cycle[c].signed) - 1) : cycle[c].signed[i] \in Kinds
    BY <1>1
  <1>3. QED
    BY <1>2 DEF Earlier

\* The latest and the earlier ones.
LEMMA SignedSplit ==
  ASSUME TypeOK, NEW c \in Keys
  PROVE  /\ cycle[c].signed = <<>> => SignedTx(c) = {} /\ Earlier(c) = {}
         /\ cycle[c].signed # <<>> =>
              Latest(c) \in Kinds /\ SignedTx(c) = Earlier(c) \cup {<<c, Latest(c)>>}
  <1>1. cycle[c].signed \in Seq(Kinds)
    BY DEF TypeOK, Row
  <1>2. ASSUME NEW s \in Seq(Kinds), s # <<>>
        PROVE  Len(s) \in 1..Len(s) /\ s[Len(s)] \in Kinds
                 /\ 1..Len(s) = 1..(Len(s) - 1) \cup {Len(s)}
    BY <1>2
  <1>3. CASE cycle[c].signed = <<>>
    BY <1>3 DEF SignedTx, Earlier
  <1>4. CASE cycle[c].signed # <<>>
    <2>1. DOMAIN cycle[c].signed = 1..(Len(cycle[c].signed) - 1) \cup {Len(cycle[c].signed)}
      BY <1>1, <1>2, <1>4
    <2>2. QED
      BY <1>1, <1>2, <1>4, <2>1, Zenon DEF SignedTx, Earlier, Latest
  <1>5. QED
    BY <1>3, <1>4

\* Signing one more makes it the latest.
LEMMA SignedAppend ==
  ASSUME TypeOK, NEW c \in Keys, NEW k \in Kinds,
         cycle'[c].signed = Append(cycle[c].signed, k)
  PROVE  /\ LastIs(c, k)'
         /\ Earlier(c)' = SignedTx(c)
         /\ SignedTx(c)' = SignedTx(c) \cup {<<c, k>>}
  <1>1. cycle[c].signed \in Seq(Kinds)
    BY DEF TypeOK, Row
  <1>2. ASSUME NEW s \in Seq(Kinds)
        PROVE  /\ Append(s, k) # <<>> /\ Append(s, k)[Len(Append(s, k))] = k
               /\ Len(Append(s, k)) - 1 = Len(s) /\ 1..Len(s) = DOMAIN s
               /\ DOMAIN Append(s, k) = DOMAIN s \cup {Len(Append(s, k))}
               /\ \A i \in DOMAIN s : Append(s, k)[i] = s[i]
    BY <1>2
  <1>3. LastIs(c, k)'
    BY <1>1, <1>2, Zenon DEF LastIs, Latest
  <1>4. Earlier(c)' = SignedTx(c)
    <2>1. Earlier(c)' = {<<c, cycle'[c].signed[i]>> : i \in DOMAIN cycle[c].signed}
      BY <1>1, <1>2, Zenon DEF Earlier
    <2>2. \A i \in DOMAIN cycle[c].signed : cycle'[c].signed[i] = cycle[c].signed[i]
      BY <1>1, <1>2, Zenon
    <2>3. QED
      BY <2>1, <2>2 DEF SignedTx
  <1>5. SignedTx(c)' = SignedTx(c) \cup {<<c, k>>}
    <2>1. LastIs(c, k)' => SignedTx(c)' = Earlier(c)' \cup {<<c, k>>}
      <3>1. cycle'[c].signed # <<>> /\ cycle'[c].signed[Len(cycle'[c].signed)] = k
        BY <1>3 DEF LastIs, Latest
      <3>2. cycle'[c].signed \in Seq(Kinds)
        BY <1>1
      <3>3. DOMAIN cycle'[c].signed = 1..(Len(cycle'[c].signed) - 1) \cup {Len(cycle'[c].signed)}
        BY <3>1, <3>2
      <3>4. QED
        BY <3>1, <3>3 DEF SignedTx, Earlier
    <2>2. QED
      BY <1>3, <1>4, <2>1
  <1>6. QED
    BY <1>3, <1>4, <1>5

\* Where nothing is signed they stay the same.
LEMMA SignedSame ==
  ASSUME NEW c, cycle'[c].signed = cycle[c].signed
  PROVE  /\ SignedTx(c)' = SignedTx(c) /\ Earlier(c)' = Earlier(c)
         /\ \A k : LastIs(c, k)' <=> LastIs(c, k)
  BY Zenon DEF SignedTx, Earlier, LastIs, Latest

\* Before the swap nothing is open, and there is no swap.
LEMMA PreparingMeans ==
  ASSUME TypeOK, NEW c \in Keys, Ledger(c), Preparing(c)
  PROVE  /\ AllWritten(c) /\ NoSwap(c)
         /\ verdict[Swap(c)] = "none" /\ receipt[Swap(c)] = "none"
  <1>1. verdict[Swap(c)] = "none"
    BY KindsAssumption DEF Ledger, Preparing, Swap
  <1>2. receipt[Swap(c)] = "none"
    BY <1>1, KindsAssumption DEF Ledger, Chain, Swap
  <1>3. QED
    BY <1>1, <1>2 DEF Preparing, AllWritten, NoSwap

-------------------------------------------------------------------------------
(***************************************************************************)
(* What a step may do to the tables, whoever takes it, and on what ground. *)
(***************************************************************************)
data == <<cycle, spend, receipt, verdict, fate, empty>>
chain == <<verdict, fate, empty>>

Opening(c) ==
  /\ cycle[c].state = "none"
  /\ cycle' = [cycle EXCEPT ![c].state = "running"]
  /\ UNCHANGED <<spend, receipt, chain>>
Deciding(c) ==
  /\ cycle' = [cycle EXCEPT ![c].decided = TRUE]
  /\ UNCHANGED <<spend, receipt, chain>>
Reserving(c) ==
  /\ Running(c) /\ Preparing(c)
  /\ spend' = [spend EXCEPT ![c] = "reserved"]
  /\ UNCHANGED <<cycle, receipt, chain>>
SigningOne(c, k) ==
  /\ Running(c) /\ Preparing(c) /\ spend[c] = "reserved"
  /\ Sent!Sign(<<c, k>>)
  /\ cycle' = [cycle EXCEPT ![c].signed = Append(@, k)]
  /\ UNCHANGED <<spend, receipt, empty>>
Settling(t) == Sent!Settle(t) /\ UNCHANGED <<cycle, spend, receipt, empty>>
Refusing(t) == Sent!Refuse(t) /\ UNCHANGED <<cycle, spend, receipt, empty>>
Writing(t, how) ==
  /\ verdict[t] = "success"
  /\ how = "applied" \/ (how = "recorded" /\ t \in empty)
  /\ Written(t, how)
  /\ UNCHANGED <<cycle, chain>>
Noting(c, w) ==
  /\ Running(c) \/ (w = None /\ Anomalous(c) /\ AllWritten(c))
  /\ cycle' = [cycle EXCEPT ![c].waits = w]
  /\ UNCHANGED <<spend, receipt, chain>>
Parking(c) ==
  /\ Running(c)
  /\ IF cycle[c].waits = None THEN Anomalous(c) /\ AllWritten(c) ELSE LastIs(c, cycle[c].waits)
  /\ cycle' = [cycle EXCEPT ![c].state = "awaiting"]
  /\ UNCHANGED <<spend, receipt, chain>>
Closing(c, o, f) ==
  /\ AllWritten(c) /\ Fits(c, o, f)
  /\ cycle[c].state \in {"awaiting", "done"} => o \in {"BOUGHT", "FAILED", "CLOSED"}
  /\ cycle[c].state = "done" => cycle[c].outcome \in {"BOUGHT", "FAILED", "CLOSED"}
  /\ Closed(c, o, f)
  /\ UNCHANGED <<spend, receipt, chain>>
Freeing(c) == NoSwap(c) /\ Released(c) /\ UNCHANGED <<cycle, receipt, chain>>
Counting(c) ==
  /\ Held(c)
  /\ spend' = [spend EXCEPT ![c] = IF @ = "none" THEN @ ELSE "spent"]
  /\ UNCHANGED <<cycle, receipt, chain>>
Leaving(t) == Sent!Leave(t) /\ UNCHANGED <<cycle, spend, receipt, empty>>
Mining(t) ==
  /\ Sent!Mine(t)
  /\ empty' \in {empty, empty \cup {t}} /\ (empty' # empty => fate'[t] = "success")
  /\ UNCHANGED <<cycle, spend, receipt, verdict>>

OnTx(t) ==
  \/ Settling(t) \/ Refusing(t) \/ Leaving(t) \/ Mining(t)
  \/ \E how \in {"recorded", "applied"} : Writing(t, how)
Upkeep(c) ==
  \/ Opening(c) \/ Deciding(c) \/ Reserving(c) \/ Parking(c) \/ Freeing(c) \/ Counting(c)
  \/ \E w \in Kinds \cup {None} : Noting(c, w)
  \/ \E o \in Outcomes : \E f \in {"none", "gas_only"} : Closing(c, o, f)
OnCycle(c) == Upkeep(c) \/ \E k \in Kinds : SigningOne(c, k)
Effect == UNCHANGED data \/ (\E c \in Keys : OnCycle(c)) \/ \E t \in Tx : OnTx(t)

\* Nothing that has settled, or was written down, changes again, but where a cycle signs.
Keeps(c) ==
  /\ cycle'[c].signed = cycle[c].signed
  /\ \A k \in Kinds :
       /\ verdict[<<c, k>>] # "open" => verdict'[<<c, k>>] = verdict[<<c, k>>]
       /\ verdict[<<c, k>>] = "open" => verdict'[<<c, k>>] # "none"
       /\ receipt[<<c, k>>] # "none" => receipt'[<<c, k>>] = receipt[<<c, k>>]
       /\ verdict[<<c, k>>] # "open" => (<<c, k>> \in empty' <=> <<c, k>> \in empty)

\* What it leaves alone.
LEMMA KeepsFacts ==
  ASSUME TypeOK, NEW c \in Keys, Keeps(c)
  PROVE  /\ Settled(c) => Settled(c)'
         /\ AllWritten(c) => AllWritten(c)'
         /\ Preparing(c) => Preparing(c)'
         /\ Bought(c) => Bought(c)'
         /\ Anomalous(c) => Anomalous(c)'
         /\ NoSwap(c) => NoSwap(c)'
         /\ NothingSent(c) => NothingSent(c)'
         /\ \A k : LastIs(c, k)' <=> LastIs(c, k)
         /\ \A o, f : Fits(c, o, f) => Fits(c, o, f)'
  <1>1. /\ SignedTx(c)' = SignedTx(c) /\ \A k : LastIs(c, k)' <=> LastIs(c, k)
        /\ \A t \in SignedTx(c) : \E k \in Kinds : t = <<c, k>>
    BY SignedSame, SignedKinds DEF Keeps
  <1>2. Settled(c) => Settled(c)'
    BY <1>1 DEF Keeps, Settled
  <1>3. AllWritten(c) => AllWritten(c)'
    BY <1>1 DEF Keeps, AllWritten
  <1>4. Preparing(c) => Preparing(c)'
    BY <1>1 DEF Keeps, Preparing, Swap
  <1>5. NothingSent(c) => NothingSent(c)'
    BY <1>1 DEF Keeps, NothingSent
  <1>6. /\ Bought(c) => Bought(c)'
        /\ Anomalous(c) => Anomalous(c)'
        /\ NoSwap(c) => NoSwap(c)'
    BY KindsAssumption DEF Keeps, Bought, Anomalous, NoSwap, Swap
  <1>7. \A o, f : Fits(c, o, f) => Fits(c, o, f)'
    BY <1>5, <1>6 DEF Fits, Keeps
  <1>8. QED
    BY <1>1, <1>2, <1>3, <1>4, <1>5, <1>6, <1>7

\* What is done to a cycle, other than signing for it, leaves settled transactions alone.
LEMMA UpkeepKeeps ==
  ASSUME TypeOK, NEW d \in Keys, Upkeep(d), NEW c \in Keys
  PROVE  Keeps(c)
  <1>0. cycle \in [Keys -> Row]
    BY DEF TypeOK
  <1>1. ASSUME NEW r \in Row, NEW x, NEW w, NEW o, NEW f
        PROVE  /\ [r EXCEPT !.state = x].signed = r.signed
               /\ [r EXCEPT !.decided = TRUE].signed = r.signed
               /\ [r EXCEPT !.waits = w].signed = r.signed
               /\ [r EXCEPT !.state = "done", !.outcome = o, !.funds = f].signed = r.signed
    BY DEF Row
  <1>2. CASE Opening(d)
    BY <1>0, <1>1, <1>2 DEF Opening, chain, Keeps
  <1>3. CASE Deciding(d)
    BY <1>0, <1>1, <1>3 DEF Deciding, chain, Keeps
  <1>4. CASE Parking(d)
    BY <1>0, <1>1, <1>4 DEF Parking, chain, Keeps
  <1>5. CASE \E w \in Kinds \cup {None} : Noting(d, w)
    BY <1>0, <1>1, <1>5 DEF Noting, chain, Keeps
  <1>6. CASE \E o \in Outcomes : \E f \in {"none", "gas_only"} : Closing(d, o, f)
    BY <1>0, <1>1, <1>6 DEF Closing, Closed, chain, Keeps
  <1>7. CASE Reserving(d) \/ Freeing(d) \/ Counting(d)
    BY <1>7 DEF Reserving, Freeing, Counting, chain, Keeps
  <1>8. QED
    BY <1>2, <1>3, <1>4, <1>5, <1>6, <1>7 DEF Upkeep

\* So does what is done to a transaction, given the truth of the verdicts: what is mined now
\* was still out, and open.
LEMMA TxKeeps ==
  ASSUME TypeOK, NEW c \in Keys, Ledger(c), NEW t \in Tx, OnTx(t)
  PROVE  Keeps(c)
  <1>0. /\ receipt \in [Tx -> {"none", "recorded", "applied"}]
        /\ verdict \in [Tx -> {"none", "open", "notSent"} \cup Sent!Mined]
        /\ fate \in [Tx -> {"kept", "out"} \cup Sent!Mined]
        /\ \A k \in Kinds : <<c, k>> \in Tx
    BY DEF TypeOK, Tx
  <1>1. CASE Settling(t)
    BY <1>0, <1>1 DEF Settling, Sent!Settle, Sent!Mined, Keeps
  <1>2. CASE Refusing(t)
    BY <1>0, <1>2 DEF Refusing, Sent!Refuse, Keeps
  <1>3. CASE Leaving(t)
    BY <1>3 DEF Leaving, Sent!Leave, Keeps
  <1>4. CASE Mining(t)
    <2>1. \A k \in Kinds : verdict[<<c, k>>] # "open" => fate[<<c, k>>] # "out"
      BY <1>0, Zenon DEF Ledger, Chain, Sent!Mined
    <2>2. fate[t] = "out"
      BY <1>4 DEF Mining, Sent!Mine
    <2>3. \A k \in Kinds : verdict[<<c, k>>] # "open" => (<<c, k>> \in empty' <=> <<c, k>> \in empty)
      BY <1>4, <2>1, <2>2 DEF Mining
    <2>4. QED
      BY <1>4, <2>3 DEF Mining, Sent!Mine, Keeps
  <1>5. ASSUME NEW how \in {"recorded", "applied"}, Writing(t, how)
        PROVE  Keeps(c)
    BY <1>0, <1>5 DEF Writing, Written, chain, Keeps
  <1>6. QED
    BY <1>1, <1>2, <1>3, <1>4, <1>5 DEF OnTx

\* Every step leaves a cycle's settled transactions alone, or signs one.
LEMMA EffectKeeps ==
  ASSUME TypeOK, \A c \in Keys : Ledger(c), Effect, NEW c \in Keys
  PROVE  Keeps(c) \/ \E k \in Kinds : SigningOne(c, k)
  <1>0. cycle \in [Keys -> Row] /\ verdict \in [Tx -> {"none", "open", "notSent"} \cup Sent!Mined]
    BY DEF TypeOK
  <1>1. CASE UNCHANGED data
    BY <1>1 DEF data, Keeps
  <1>2. ASSUME NEW d \in Keys, NEW k \in Kinds, SigningOne(d, k), c # d
        PROVE  Keeps(c)
    BY <1>0, <1>2 DEF SigningOne, Sent!Sign, Keeps, Tx
  <1>3. QED
    BY <1>1, <1>2, UpkeepKeeps, TxKeeps DEF Effect, OnCycle

-------------------------------------------------------------------------------
(***************************************************************************)
(* The tables.                                                             *)
(***************************************************************************)
\* A cycle none of whose rows changed.
LEMMA LedgerSame ==
  ASSUME NEW c \in Keys, Ledger(c), TypeOK,
         cycle'[c] = cycle[c], spend'[c] = spend[c],
         \A k \in Kinds :
           /\ verdict'[<<c, k>>] = verdict[<<c, k>>] /\ fate'[<<c, k>>] = fate[<<c, k>>]
           /\ receipt'[<<c, k>>] = receipt[<<c, k>>]
           /\ <<c, k>> \in empty' <=> <<c, k>> \in empty
  PROVE  Ledger(c)'
  <1>1. Keeps(c)
    BY DEF Keeps
  <1>2. SignedTx(c)' = SignedTx(c) /\ Earlier(c)' = Earlier(c)
    BY SignedSame
  <1>3. \A k \in Kinds : Chain(<<c, k>>)'
    BY DEF Ledger, Chain
  <1>4. \A t \in Earlier(c)' : verdict'[t] = "success" /\ t # Swap(c)
    <2>1. \A t \in Earlier(c) : \E k \in Kinds : t = <<c, k>>
      BY EarlierKinds
    <2>2. QED
      BY <1>2, <2>1 DEF Ledger, Swap
  <1>5. "swap" \in Kinds
    BY KindsAssumption
  <1>6. QED
    BY <1>1, <1>2, <1>3, <1>4, <1>5, KeepsFacts DEF Ledger, Swap

\* What is left to show of a step that keeps the cycle's transactions.
LEMMA LedgerKept ==
  ASSUME NEW c \in Keys, Ledger(c), TypeOK, Keeps(c),
         \A k \in Kinds : Chain(<<c, k>>)',
         receipt'[Swap(c)] = "applied" => spend'[c] = "spent",
         receipt'[Swap(c)] = "recorded" => Swap(c) \in empty',
         verdict'[Swap(c)] \in {"open", "success"} => spend'[c] \in {"reserved", "spent"},
         cycle'[c].state = "none" => cycle[c].state = "none",
         cycle'[c].state = "awaiting" =>
           \/ cycle[c].state = "awaiting" /\ cycle'[c].waits = cycle[c].waits
           \/ IF cycle'[c].waits = None THEN Anomalous(c) /\ AllWritten(c)
              ELSE LastIs(c, cycle'[c].waits),
         cycle'[c].state = "done" =>
           \/ /\ cycle[c].state = "done"
              /\ cycle'[c].outcome = cycle[c].outcome /\ cycle'[c].funds = cycle[c].funds
           \/ AllWritten(c) /\ Fits(c, cycle'[c].outcome, cycle'[c].funds)
  PROVE  Ledger(c)'
  <1>1. SignedTx(c)' = SignedTx(c) /\ Earlier(c)' = Earlier(c)
    BY SignedSame DEF Keeps
  <1>2. \A t \in Earlier(c)' : verdict'[t] = "success" /\ t # Swap(c)'
    <2>1. \A t \in Earlier(c) : \E k \in Kinds : t = <<c, k>>
      BY EarlierKinds
    <2>2. QED
      BY <1>1, <2>1 DEF Ledger, Swap, Keeps
  <1>3. \A k \in Kinds : verdict'[<<c, k>>] = "none" <=> <<c, k>> \notin SignedTx(c)'
    BY <1>1 DEF Ledger, Keeps
  <1>4. (cycle[c].state = "awaiting" =>
           IF cycle[c].waits = None THEN Anomalous(c) /\ AllWritten(c)
           ELSE LastIs(c, cycle[c].waits))'
    <2>1. \A k : LastIs(c, k) => LastIs(c, k)'
      BY KeepsFacts
    <2>2. (Anomalous(c) => Anomalous(c)') /\ (AllWritten(c) => AllWritten(c)')
      BY KeepsFacts
    <2>3. cycle[c].state = "awaiting" =>
            IF cycle[c].waits = None THEN Anomalous(c) /\ AllWritten(c)
            ELSE LastIs(c, cycle[c].waits)
      BY DEF Ledger
    <2>4. QED
      BY <2>1, <2>2, <2>3
  <1>5. (cycle[c].state = "done" => AllWritten(c) /\ Fits(c, cycle[c].outcome, cycle[c].funds))'
    <2>1. \A o, f : Fits(c, o, f) => Fits(c, o, f)'
      BY KeepsFacts
    <2>2. AllWritten(c) => AllWritten(c)'
      BY KeepsFacts
    <2>3. cycle[c].state = "done" => AllWritten(c) /\ Fits(c, cycle[c].outcome, cycle[c].funds)
      BY DEF Ledger
    <2>4. QED
      BY <2>1, <2>2, <2>3
  <1>6. cycle'[c].state = "none" => cycle'[c].signed = <<>>
    BY DEF Ledger, Keeps
  <1>7. QED
    BY <1>2, <1>3, <1>4, <1>5, <1>6 DEF Ledger, Swap

\* What an effect other than a signature leaves to show, for each kind of effect.
LEMMA LedgerOfCycle ==
  ASSUME TypeOK, NEW d \in Keys, NEW c \in Keys, Ledger(c), Keeps(c),
         \/ Opening(d) \/ Deciding(d) \/ Parking(d)
         \/ \E w \in Kinds \cup {None} : Noting(d, w)
         \/ \E o \in Outcomes : \E f \in {"none", "gas_only"} : Closing(d, o, f)
  PROVE  Ledger(c)'
  <1>0. cycle \in [Keys -> Row]
    BY DEF TypeOK
  <1>1. UNCHANGED <<spend, receipt, verdict, fate, empty>>
    BY DEF Opening, Deciding, Parking, Noting, Closing, chain
  <1>2. /\ \A k \in Kinds : Chain(<<c, k>>)'
        /\ receipt'[Swap(c)] = "applied" => spend'[c] = "spent"
        /\ receipt'[Swap(c)] = "recorded" => Swap(c) \in empty'
        /\ verdict'[Swap(c)] \in {"open", "success"} => spend'[c] \in {"reserved", "spent"}
    BY <1>1 DEF Ledger, Chain
  <1>3. CASE Opening(d)
    <2>1. /\ cycle'[c].state \in {cycle[c].state, "running"}
          /\ cycle'[c].waits = cycle[c].waits
          /\ cycle'[c].outcome = cycle[c].outcome /\ cycle'[c].funds = cycle[c].funds
      BY <1>0, <1>3 DEF Opening, Row
    <2>2. QED
      BY <1>2, <2>1, LedgerKept
  <1>4. CASE Deciding(d)
    <2>1. /\ cycle'[c].state = cycle[c].state
          /\ cycle'[c].waits = cycle[c].waits
          /\ cycle'[c].outcome = cycle[c].outcome /\ cycle'[c].funds = cycle[c].funds
      BY <1>0, <1>4 DEF Deciding, Row
    <2>2. QED
      BY <1>2, <2>1, LedgerKept
  <1>5. CASE Parking(d)
    <2>1. /\ cycle'[c].state = IF c = d THEN "awaiting" ELSE cycle[c].state
          /\ cycle'[c].waits = cycle[c].waits
          /\ cycle'[c].outcome = cycle[c].outcome /\ cycle'[c].funds = cycle[c].funds
      BY <1>0, <1>5 DEF Parking, Row
    <2>2. c = d => IF cycle[c].waits = None THEN Anomalous(c) /\ AllWritten(c)
                   ELSE LastIs(c, cycle[c].waits)
      BY <1>5 DEF Parking
    <2>3. QED
      BY <1>2, <2>1, <2>2, LedgerKept
  <1>6. ASSUME NEW w \in Kinds \cup {None}, Noting(d, w)
        PROVE  Ledger(c)'
    <2>1. /\ cycle'[c].state = cycle[c].state
          /\ cycle'[c].waits = IF c = d THEN w ELSE cycle[c].waits
          /\ cycle'[c].outcome = cycle[c].outcome /\ cycle'[c].funds = cycle[c].funds
      BY <1>0, <1>6 DEF Noting, Row
    <2>2. c = d => Running(c) \/ (w = None /\ Anomalous(c) /\ AllWritten(c))
      BY <1>6 DEF Noting
    <2>3. cycle'[c].state = "awaiting" =>
            \/ cycle[c].state = "awaiting" /\ cycle'[c].waits = cycle[c].waits
            \/ cycle'[c].waits = None /\ Anomalous(c) /\ AllWritten(c)
      BY <2>1, <2>2 DEF Running
    <2>4. QED
      BY <1>2, <2>1, <2>3, LedgerKept
  <1>7. ASSUME NEW o \in Outcomes, NEW f \in {"none", "gas_only"}, Closing(d, o, f)
        PROVE  Ledger(c)'
    <2>1. CASE c = d
      <3>1. cycle'[c].state = "done" /\ cycle'[c].outcome = o /\ cycle'[c].funds = f
        BY <1>0, <1>7, <2>1 DEF Closing, Closed, Row
      <3>2. AllWritten(c) /\ Fits(c, o, f)
        BY <1>7, <2>1 DEF Closing
      <3>3. QED
        BY <1>2, <3>1, <3>2, LedgerKept
    <2>2. CASE c # d
      <3>1. cycle'[c] = cycle[c]
        BY <1>0, <1>7, <2>2 DEF Closing, Closed
      <3>2. QED
        BY <1>1, <3>1, LedgerSame
    <2>3. QED
      BY <2>1, <2>2
  <1>8. QED
    BY <1>3, <1>4, <1>5, <1>6, <1>7

LEMMA LedgerOfSpend ==
  ASSUME TypeOK, NEW d \in Keys, NEW c \in Keys, Ledger(c), Keeps(c),
         Reserving(d) \/ Freeing(d) \/ Counting(d)
  PROVE  Ledger(c)'
  <1>0. spend \in [Keys -> {"none", "reserved", "spent", "released"}]
    BY DEF TypeOK
  <1>1. UNCHANGED <<cycle, receipt, verdict, fate, empty>>
    BY DEF Reserving, Freeing, Counting, chain
  <1>2. \A k \in Kinds : Chain(<<c, k>>)'
    BY <1>1 DEF Ledger, Chain
  <1>3. CASE c # d
    <2>1. spend'[c] = spend[c]
      BY <1>0, <1>3 DEF Reserving, Freeing, Released, Counting
    <2>2. QED
      BY <1>1, <2>1, LedgerSame
  <1>4. CASE c = d
    <2>1. /\ receipt'[Swap(c)] = "applied" => spend'[c] = "spent"
          /\ verdict'[Swap(c)] \in {"open", "success"} => spend'[c] \in {"reserved", "spent"}
      <3>1. CASE Reserving(d)
        BY <1>0, <1>1, <1>4, <3>1, PreparingMeans DEF Reserving
      <3>2. CASE Freeing(d)
        BY <1>0, <1>1, <1>4, <3>2 DEF Freeing, Released, NoSwap, Ledger
      <3>3. CASE Counting(d)
        BY <1>0, <1>1, <1>4, <3>3 DEF Counting, Ledger
      <3>4. QED
        BY <3>1, <3>2, <3>3
    <2>2. receipt'[Swap(c)] = "recorded" => Swap(c) \in empty'
      BY <1>1 DEF Ledger
    <2>3. QED
      BY <1>1, <1>2, <2>1, <2>2, LedgerKept
  <1>5. QED
    BY <1>3, <1>4

LEMMA LedgerOfTx ==
  ASSUME TypeOK, NEW t \in Tx, NEW c \in Keys, Ledger(c), Keeps(c), OnTx(t)
  PROVE  Ledger(c)'
  <1>0. /\ receipt \in [Tx -> {"none", "recorded", "applied"}]
        /\ verdict \in [Tx -> {"none", "open", "notSent"} \cup Sent!Mined]
        /\ fate \in [Tx -> {"kept", "out"} \cup Sent!Mined]
        /\ spend \in [Keys -> {"none", "reserved", "spent", "released"}]
        /\ (\A k \in Kinds : <<c, k>> \in Tx) /\ Swap(c) \in Tx /\ Swap(c) = <<c, "swap">>
    BY SignedKinds DEF TypeOK, Tx, Swap
  <1>1. \A k \in Kinds : Chain(<<c, k>>)
    BY DEF Ledger
  <1>2. Chain(Swap(c))
    BY <1>1, KindsAssumption DEF Swap
  <1>3. UNCHANGED cycle
    BY DEF OnTx, Settling, Refusing, Leaving, Mining, Writing
  <1>4. /\ receipt[Swap(c)] = "applied" => spend[c] = "spent"
        /\ receipt[Swap(c)] = "recorded" => Swap(c) \in empty
        /\ verdict[Swap(c)] \in {"open", "success"} => spend[c] \in {"reserved", "spent"}
    BY DEF Ledger
  <1>5. CASE Settling(t)
    <2>1. \A k \in Kinds : Chain(<<c, k>>)'
      BY <1>0, <1>1, <1>5 DEF Settling, Sent!Settle, Chain, Sent!Mined
    <2>2. verdict'[Swap(c)] \in {"open", "success"} => spend'[c] \in {"reserved", "spent"}
      BY <1>0, <1>4, <1>5 DEF Settling, Sent!Settle, Sent!Mined
    <2>3. UNCHANGED <<spend, receipt, empty>>
      BY <1>5 DEF Settling
    <2>4. QED
      BY <1>3, <1>4, <2>1, <2>2, <2>3, LedgerKept
  <1>6. CASE Refusing(t)
    <2>1. \A k \in Kinds : Chain(<<c, k>>)'
      BY <1>0, <1>1, <1>6 DEF Refusing, Sent!Refuse, Chain, Sent!Mined
    <2>2. verdict'[Swap(c)] \in {"open", "success"} => spend'[c] \in {"reserved", "spent"}
      BY <1>0, <1>4, <1>6 DEF Refusing, Sent!Refuse
    <2>3. UNCHANGED <<spend, receipt, empty>>
      BY <1>6 DEF Refusing
    <2>4. QED
      BY <1>3, <1>4, <2>1, <2>2, <2>3, LedgerKept
  <1>7. CASE Leaving(t)
    <2>1. \A k \in Kinds : Chain(<<c, k>>)'
      BY <1>0, <1>1, <1>7 DEF Leaving, Sent!Leave, Chain, Sent!Mined
    <2>2. UNCHANGED <<spend, receipt, empty, verdict>>
      BY <1>7 DEF Leaving, Sent!Leave
    <2>3. QED
      BY <1>3, <1>4, <2>1, <2>2, LedgerKept
  <1>8. CASE Mining(t)
    <2>1. \A k \in Kinds : Chain(<<c, k>>)'
      BY <1>0, <1>1, <1>8 DEF Mining, Sent!Mine, Chain, Sent!Mined
    <2>2. UNCHANGED <<spend, receipt, verdict>> /\ empty \subseteq empty'
      BY <1>8 DEF Mining, Sent!Mine
    <2>3. QED
      BY <1>3, <1>4, <2>1, <2>2, LedgerKept
  <1>9. ASSUME NEW how \in {"recorded", "applied"}, Writing(t, how)
        PROVE  Ledger(c)'
    <2>1. UNCHANGED <<verdict, fate, empty>>
      BY <1>9 DEF Writing, chain
    <2>2. \A k \in Kinds : Chain(<<c, k>>)'
      BY <1>0, <1>1, <1>9, <2>1 DEF Writing, Written, Chain
    <2>3. receipt'[Swap(c)] = "recorded" => Swap(c) \in empty'
      BY <1>0, <1>4, <1>9, <2>1 DEF Writing, Written
    <2>4. t[1] \in Keys /\ t = <<t[1], t[2]>>
      BY DEF Tx
    <2>5. spend'[c] \in {spend[c], "spent"}
      BY <1>0, <1>9, <2>4 DEF Writing, Written
    <2>6. receipt'[Swap(c)] = "applied" => spend'[c] = "spent"
      <3>1. CASE receipt[Swap(c)] = "applied"
        BY <1>4, <2>5, <3>1
      <3>2. CASE t = Swap(c) /\ receipt[t] = "none" /\ how = "applied"
        BY <1>0, <1>4, <1>9, <3>2 DEF Writing, Written, Swap
      <3>3. CASE receipt'[Swap(c)] # "applied"
        BY <3>3
      <3>4. QED
        BY <1>0, <1>9, <3>1, <3>2, <3>3 DEF Writing, Written
    <2>7. QED
      BY <1>3, <1>4, <2>1, <2>2, <2>3, <2>5, <2>6, LedgerKept
  <1>10. QED
    BY <1>5, <1>6, <1>7, <1>8, <1>9 DEF OnTx

LEMMA LedgerOfSign ==
  ASSUME TypeOK, NEW c \in Keys, Ledger(c), NEW k \in Kinds, SigningOne(c, k)
  PROVE  Ledger(c)'
  <1>0. /\ cycle \in [Keys -> Row]
        /\ verdict \in [Tx -> {"none", "open", "notSent"} \cup Sent!Mined]
        /\ spend \in [Keys -> {"none", "reserved", "spent", "released"}]
        /\ (\A l \in Kinds : <<c, l>> \in Tx)
    BY DEF TypeOK, Tx
  <1>1. /\ cycle'[c].signed = Append(cycle[c].signed, k)
        /\ cycle'[c].state = "running"
    BY <1>0 DEF SigningOne, Running, Row
  <1>2. /\ LastIs(c, k)' /\ Earlier(c)' = SignedTx(c)
        /\ SignedTx(c)' = SignedTx(c) \cup {<<c, k>>}
    BY <1>1, SignedAppend
  <1>3. /\ verdict[<<c, k>>] = "none" /\ verdict'[<<c, k>>] = "open"
        /\ \A l \in Kinds : l # k => verdict'[<<c, l>>] = verdict[<<c, l>>]
    BY <1>0 DEF SigningOne, Sent!Sign
  <1>4. UNCHANGED <<fate, spend, receipt, empty>> /\ spend[c] = "reserved" /\ Preparing(c)
    BY DEF SigningOne, Sent!Sign
  <1>5. \A l \in Kinds : /\ Chain(<<c, l>>)'
                         /\ verdict'[<<c, l>>] = "none" <=> <<c, l>> \notin SignedTx(c)'
    BY <1>0, <1>2, <1>3, <1>4 DEF Ledger, Chain, Sent!Mined
  <1>6. \A t \in Earlier(c)' : verdict'[t] = "success" /\ t # Swap(c)
    <2>1. \A t \in SignedTx(c) : \E l \in Kinds : t = <<c, l>>
      BY SignedKinds
    <2>2. QED
      BY <1>2, <1>3, <1>4, <2>1 DEF Preparing
  <1>7. receipt'[Swap(c)] = "none"
    BY <1>4, PreparingMeans
  <1>8. QED
    BY <1>1, <1>4, <1>5, <1>6, <1>7 DEF Ledger, Swap

\* Every step keeps the tables.
LEMMA LedgerStep ==
  ASSUME TypeOK, \A c \in Keys : Ledger(c), Effect, NEW c \in Keys
  PROVE  Ledger(c)'
  <1>1. CASE UNCHANGED data
    BY <1>1, LedgerSame DEF data
  <1>2. CASE \E k \in Kinds : SigningOne(c, k)
    BY <1>2, LedgerOfSign
  <1>3. ASSUME NEW d \in Keys, OnCycle(d), Keeps(c)
        PROVE  Ledger(c)'
    <2>1. CASE \E k \in Kinds : SigningOne(d, k)
      <3>1. CASE c = d
        BY <2>1, <3>1, LedgerOfSign
      <3>2. CASE c # d
        <4>1. cycle \in [Keys -> Row] /\ verdict \in [Tx -> {"none", "open", "notSent"} \cup Sent!Mined]
          BY DEF TypeOK
        <4>2. /\ UNCHANGED <<spend, receipt, empty, fate>> /\ cycle'[c] = cycle[c]
              /\ \A k \in Kinds : verdict'[<<c, k>>] = verdict[<<c, k>>]
          BY <2>1, <3>2, <4>1 DEF SigningOne, Sent!Sign, Tx
        <4>3. QED
          BY <4>2, LedgerSame
      <3>3. QED
        BY <3>1, <3>2
    <2>2. QED
      BY <1>3, <2>1, LedgerOfCycle, LedgerOfSpend DEF OnCycle, Upkeep
  <1>4. QED
    BY <1>1, <1>2, <1>3, EffectKeeps, LedgerOfTx DEF Effect

-------------------------------------------------------------------------------
(***************************************************************************)
(* What a step leaves the other processes.                                 *)
(***************************************************************************)
\* Without the lock it signs nothing, and leaves alone where a running cycle or one that is
\* held for a person stands.
Spares(c) ==
  /\ Keeps(c)
  /\ Running(c) =>
       /\ cycle'[c].waits = cycle[c].waits
       /\ \A k \in Kinds : receipt'[<<c, k>>] = receipt[<<c, k>>]
  /\ Held(c) => Held(c)'

\* A cycle that was closed stays as it was closed, and one that is held for a person is closed
\* by that person: the outcomes that fit a swap's fate exclude each other.
LEMMA Stays ==
  ASSUME TypeOK, NEW c \in Keys, Ledger(c), Effect
  PROVE  /\ Held(c) => Held(c)' \/ (cycle'[c].state = "done" /\ cycle'[c].outcome = "CLOSED")
         /\ cycle[c].state = "done" =>
              cycle'[c].state = "done" /\ cycle'[c].outcome = cycle[c].outcome
         /\ cycle[c].state = "awaiting" =>
              \/ cycle'[c].state = "awaiting"
              \/ cycle'[c].outcome \in {"BOUGHT", "FAILED", "CLOSED"}
  <1>0. cycle \in [Keys -> Row]
    BY DEF TypeOK
  <1>1. CASE cycle'[c] = cycle[c]
    BY <1>1 DEF Held
  <1>2. ASSUME NEW d \in Keys, OnCycle(d), cycle'[c] # cycle[c]
        PROVE  d = c
    <2>1. \/ cycle' = cycle
          \/ \E r : cycle' = [cycle EXCEPT ![d] = r]
      BY <1>2 DEF OnCycle, Upkeep, Opening, Deciding, Parking, Reserving, Freeing, Counting,
                  SigningOne, Noting, Closing, Closed
    <2>2. QED
      BY <1>0, <1>2, <2>1
  <1>3. \A t \in Tx : OnTx(t) => cycle' = cycle
    BY DEF OnTx, Settling, Refusing, Leaving, Mining, Writing
  <1>4. CASE OnCycle(c)
    <2>1. CASE Reserving(c) \/ Freeing(c) \/ Counting(c)
      BY <2>1, <1>1 DEF Reserving, Freeing, Counting
    <2>2. CASE Opening(c)
      BY <2>2 DEF Opening, Held
    <2>3. CASE Deciding(c)
      <3>1. /\ cycle'[c].state = cycle[c].state /\ cycle'[c].waits = cycle[c].waits
            /\ cycle'[c].outcome = cycle[c].outcome
        BY <1>0, <2>3 DEF Deciding, Row
      <3>2. QED
        BY <3>1 DEF Held
    <2>4. CASE Parking(c)
      BY <2>4 DEF Parking, Running, Held
    <2>5. CASE \E k \in Kinds : SigningOne(c, k)
      BY <2>5 DEF SigningOne, Running, Held
    <2>6. ASSUME NEW w \in Kinds \cup {None}, Noting(c, w)
          PROVE  /\ cycle'[c].state = cycle[c].state /\ cycle'[c].outcome = cycle[c].outcome
                 /\ Held(c) => Held(c)'
      <3>1. /\ cycle'[c].state = cycle[c].state /\ cycle'[c].waits = w
            /\ cycle'[c].outcome = cycle[c].outcome
        BY <1>0, <2>6 DEF Noting, Row
      <3>2. QED
        BY <2>6, <3>1 DEF Noting, Running, Held
    <2>7. ASSUME NEW o \in Outcomes, NEW f \in {"none", "gas_only"}, Closing(c, o, f)
          PROVE  /\ cycle'[c].state = "done"
                 /\ Held(c) => cycle'[c].outcome = "CLOSED"
                 /\ cycle[c].state = "done" => cycle'[c].outcome = cycle[c].outcome
                 /\ cycle[c].state = "awaiting" => cycle'[c].outcome \in {"BOUGHT", "FAILED", "CLOSED"}
      <3>1. cycle'[c].state = "done" /\ cycle'[c].outcome = o
        BY <1>0, <2>7 DEF Closing, Closed, Row
      <3>2. Fits(c, o, f)
        BY <2>7 DEF Closing
      <3>3. cycle[c].state \in {"awaiting", "done"} => o \in {"BOUGHT", "FAILED", "CLOSED"}
        BY <2>7 DEF Closing
      <3>4. Held(c) => Anomalous(c)
        BY DEF Held, Ledger
      <3>5. Held(c) => o = "CLOSED"
        BY <3>2, <3>3, <3>4 DEF Fits, Bought, Anomalous, NoSwap, Held
      <3>6. cycle[c].state = "done" =>
              /\ cycle[c].outcome \in {"BOUGHT", "FAILED", "CLOSED"}
              /\ Fits(c, cycle[c].outcome, cycle[c].funds)
        BY <2>7 DEF Closing, Ledger
      <3>7. cycle[c].state = "done" => o = cycle[c].outcome
        BY <3>2, <3>3, <3>6 DEF Fits, Bought, Anomalous, NoSwap
      <3>8. QED
        BY <3>1, <3>3, <3>5, <3>7
    <2>8. QED
      BY <1>4, <2>1, <2>2, <2>3, <2>4, <2>5, <2>6, <2>7 DEF OnCycle, Upkeep
  <1>5. QED
    BY <1>1, <1>2, <1>3, <1>4 DEF Effect, data

\* What another process knows still holds.
LEMMA OthersKnow ==
  ASSUME Inv, MoneyInv, Effect, NEW p \in Procs, proc'[p] = proc[p], lock' = p => lock = p,
         lock = p => \A c \in Keys : Spares(c)
  PROVE  MoneyKnown(p)'
  <1>0. TypeOK /\ Remembers(p) /\ Knows(p) /\ MoneyKnown(p)
    BY DEF Inv, Own, MoneyInv
  <1>1. (\A x : At(p, x)' <=> At(p, x)) /\ Key(p)' = Key(p)
    BY DEF At, Key
  <1>2. proc[p].pc \in Keyed => Key(p) \in Keys
    BY <1>0 DEF Remembers
  <1>3. ASSUME lock' = p, NEW c \in Keys, c = Key(p)
        PROVE  HolderKnows(p)'
    <2>1. HolderKnows(p) /\ Spares(c)
      BY <1>0, <1>3 DEF MoneyKnown
    <2>2. /\ Preparing(c) => Preparing(c)'
          /\ AllWritten(c) => AllWritten(c)'
          /\ Anomalous(c) => Anomalous(c)'
          /\ \A k : LastIs(c, k)' <=> LastIs(c, k)
          /\ \A o, f : Fits(c, o, f) => Fits(c, o, f)'
      BY <1>0, <2>1, KeepsFacts DEF Spares
    <2>3. /\ cycle'[c].signed = cycle[c].signed /\ Earlier(c)' = Earlier(c)
          /\ \A t \in Earlier(c) : \E k \in Kinds : t = <<c, k>>
      BY <1>0, <2>1, SignedSame, EarlierKinds DEF Spares, Keeps
    <2>4. proc[p].pc \in Working => Running(c)
      BY <1>0, <1>3 DEF Knows
    <2>5. Running(c) =>
            /\ cycle'[c].waits = cycle[c].waits
            /\ \A k \in Kinds : receipt'[<<c, k>>] = receipt[<<c, k>>]
      BY <2>1 DEF Spares
    <2>6. proc[p].pc \in {"wait", "apply"} =>
            /\ proc[p].kind \in Kinds
            /\ receipt[<<c, proc[p].kind>>] = "none"
            /\ \A t \in Earlier(c) : receipt[t] # "none"
      BY <1>0, <1>3, <2>1 DEF Remembers, Kinded, HolderKnows
    <2>7. proc[p].pc \in {"wait", "apply"} =>
            /\ receipt'[<<c, proc[p].kind>>] = "none"
            /\ \A t \in Earlier(c)' : receipt'[t] # "none"
      BY <2>3, <2>4, <2>5, <2>6 DEF Working, Body
    <2>8. At(p, "apply") => verdict'[<<c, proc[p].kind>>] = "success"
      BY <1>3, <2>1, <2>6 DEF HolderKnows, At, Spares, Keeps
    <2>9. /\ At(p, "holding") => cycle'[c].waits = None
          /\ At(p, "parking") => cycle'[c].waits = proc[p].kind
          /\ At(p, "reopen") => cycle'[c].waits # None /\ LastIs(c, cycle[c].waits)'
      BY <1>3, <2>1, <2>2, <2>4, <2>5 DEF HolderKnows, At, Working, Body
    <2>10. proc[p].pc \in {"spend", "closeReviewed"} => Held(c)'
      BY <1>3, <2>1 DEF HolderKnows, Spares
    <2>11. QED
      BY <1>1, <1>3, <2>1, <2>2, <2>3, <2>7, <2>8, <2>9, <2>10 DEF HolderKnows, At
  <1>4. ASSUME NEW c \in Keys, c = Key(p), proc[p].pc \in Completing
        PROVE  CompleterKnows(p)'
    <2>1. CompleterKnows(p) /\ cycle[c].state \in {"awaiting", "done"}
      BY <1>0, <1>4 DEF MoneyKnown, Remembers, Knows
    <2>2. Keeps(c)
      <3>1. ~Running(c)
        BY <2>1 DEF Running
      <3>2. QED
        BY <1>0, <3>1, EffectKeeps DEF MoneyInv, SigningOne
    <2>3. /\ Settled(c) => Settled(c)'
          /\ AllWritten(c) => AllWritten(c)'
          /\ \A k : LastIs(c, k)' <=> LastIs(c, k)
          /\ \A o, f : Fits(c, o, f) => Fits(c, o, f)'
      BY <1>0, <2>2, KeepsFacts
    <2>4. (cycle[c].state = "awaiting" \/ cycle[c].outcome \in {"BOUGHT", "FAILED", "CLOSED"})
          => (cycle'[c].state = "awaiting" \/ cycle'[c].outcome \in {"BOUGHT", "FAILED", "CLOSED"})
      BY <1>0, <2>1, Stays DEF MoneyInv
    <2>5. QED
      BY <1>1, <1>4, <2>1, <2>3, <2>4 DEF CompleterKnows, At
  <1>5. proc[p].pc \notin Completing => CompleterKnows(p)'
    BY <1>1 DEF CompleterKnows, Completing, At
  <1>6. proc[p].pc \notin Keyed => HolderKnows(p)'
    BY <1>1 DEF HolderKnows, Keyed, Body, Locked, Completing, At
  <1>7. (lock' = p => HolderKnows(p)') /\ CompleterKnows(p)'
    BY <1>2, <1>3, <1>4, <1>5, <1>6 DEF Keyed, Completing
  <1>8. QED
    BY <1>7 DEF MoneyKnown

-------------------------------------------------------------------------------
(***************************************************************************)
(* The steps of one process: what each does to the tables, what it spares, *)
(* what its process knows afterwards.                                      *)
(***************************************************************************)
Moves(p) ==
  /\ Effect
  /\ lock # p => \A c \in Keys : Spares(c)
  /\ MoneyKnown(p)'

\* Where a process knows nothing of the money.
Resting == {"idle", "acquire", "release", "dead", "check", "open", "catch", "recover", "note",
            "review", "reviewed", "pausing", "move"}

LEMMA RestingKnows ==
  ASSUME NEW p \in Procs, proc'[p].pc \in Resting
  PROVE  MoneyKnown(p)'
  BY DEF Resting, MoneyKnown, HolderKnows, CompleterKnows, At

\* A step that writes nothing.
LEMMA WritesNothing ==
  ASSUME TypeOK, UNCHANGED data
  PROVE  /\ Effect
         /\ \A c \in Keys :
              /\ Spares(c) /\ Keeps(c) /\ Earlier(c)' = Earlier(c)
              /\ SignedTx(c)' = SignedTx(c) /\ (Held(c) => Held(c)')
  BY SignedSame DEF Effect, data, Spares, Keeps, Held

\* What a process knows before its step.
LEMMA Before ==
  ASSUME Inv, MoneyInv, NEW p \in Procs
  PROVE  /\ TypeOK /\ proc \in [Procs -> Proc] /\ cycle \in [Keys -> Row]
         /\ Remembers(p) /\ Holds(p) /\ Knows(p)
         /\ proc[p].pc \in (Body \cup Locked) \ Slow /\ proc[p].task # "complete" => lock = p
         /\ proc[p].pc \in Body \cup Locked /\ proc[p].pc # "pausing" => proc[p].task # "complete"
         /\ lock = p => HolderKnows(p)
         /\ CompleterKnows(p)
         /\ \A c \in Keys : Ledger(c)
  <1>1. TypeOK /\ proc \in [Procs -> Proc] /\ cycle \in [Keys -> Row]
          /\ Remembers(p) /\ Holds(p) /\ Knows(p)
    BY DEF Inv, Own, TypeOK
  <1>2. proc[p].pc \in Body \cup Locked /\ proc[p].pc # "pausing" => proc[p].task # "complete"
    BY <1>1 DEF Remembers, Body, Locked, Completing
  <1>3. QED
    BY <1>1, <1>2 DEF Holds, MoneyInv, MoneyKnown

\* The holder's step: it may change what it likes of its cycle.
LEMMA HolderMoves ==
  ASSUME NEW p \in Procs, lock = p, Effect, MoneyKnown(p)'
  PROVE  Moves(p)
  BY DEF Moves

\* Starting, looking, failing, giving up: nothing is written and nothing is known yet.
LEMMA LookMoves ==
  ASSUME Inv, MoneyInv, NEW p \in Procs,
         \/ \E task \in {"tick", "manual"} : Start(p, task)
         \/ \E c \in Keys : FindOrphaned(p, c) \/ Review(p, c)
         \/ Acquire(p) \/ FindDead(p) \/ Check(p) \/ Recheck(p) \/ Throw(p) \/ Crash(p)
         \/ Release(p) \/ PausePlan(p) \/ MovePlan(p) \/ UnholdPlan(p)
  PROVE  Moves(p)
  <1>1. UNCHANGED data
    BY DEF Start, FindOrphaned, Review, Acquire, FindDead, Check, Recheck, Throw, Crash, Release,
           PausePlan, MovePlan, UnholdPlan, data, books, outbox
  <1>2. proc \in [Procs -> Proc]
    BY Before
  <1>3. proc'[p].pc \in Resting
    <2>1. \A t : [Idle EXCEPT !.pc = "catch", !.task = "settle", !.key = t].pc = "catch"
      BY DEF Idle
    <2>2. ASSUME ToCatch(p)
          PROVE  proc'[p].pc \in Resting
      BY <1>2, <2>1, <2>2 DEF ToCatch, Resting
    <2>3. ASSUME \E task \in {"tick", "manual"} : Start(p, task)
          PROVE  proc'[p].pc \in Resting
      BY <1>2, <2>3 DEF Start, Resting, Proc
    <2>4. ASSUME \E c \in Keys : FindOrphaned(p, c)
          PROVE  proc'[p].pc \in Resting
      BY <1>2, <2>4 DEF FindOrphaned, Idle, Resting, Proc
    <2>5. ASSUME \E c \in Keys : Review(p, c)
          PROVE  proc'[p].pc \in Resting
      BY <1>2, <2>5 DEF Review, Idle, Resting, Proc
    <2>6. ASSUME Acquire(p)
          PROVE  proc'[p].pc \in Resting
      BY <1>2, <2>6 DEF Acquire, Goto, Idle, Resting, Proc
    <2>7. ASSUME FindDead(p)
          PROVE  proc'[p].pc \in Resting
      <3>1. \A c : [proc[p] EXCEPT !.pc = "recover", !.key = c].pc = "recover"
        BY <1>2 DEF Proc
      <3>2. [proc[p] EXCEPT !.pc = "check"].pc = "check"
        BY <1>2 DEF Proc
      <3>3. \/ \E c \in Keys : proc'[p] = [proc[p] EXCEPT !.pc = "recover", !.key = c]
            \/ proc'[p] = [proc[p] EXCEPT !.pc = "check"]
        BY <1>2, <2>7, Zenon DEF FindDead, Goto
      <3>4. QED
        BY <3>1, <3>2, <3>3, Zenon DEF Resting
    <2>8. ASSUME Check(p)
          PROVE  proc'[p].pc \in Resting
      BY <1>2, <2>8 DEF Check, Resting, Proc
    <2>9. ASSUME Recheck(p)
          PROVE  proc'[p].pc \in Resting
      BY <1>2, <2>9 DEF Recheck, Goto, Resting, Proc
    <2>10. ASSUME Throw(p) \/ Crash(p)
          PROVE  proc'[p].pc \in Resting
      BY <1>2, <2>2, <2>10 DEF Throw, Crash, Idle, Resting
    <2>11. ASSUME Release(p) \/ PausePlan(p) \/ MovePlan(p) \/ UnholdPlan(p)
          PROVE  proc'[p].pc \in Resting
      BY <1>2, <2>11 DEF Release, PausePlan, MovePlan, UnholdPlan, Goto, Idle, Resting, Proc
    <2>12. QED
      BY <2>3, <2>4, <2>5, <2>6, <2>7, <2>8, <2>9, <2>10, <2>11
  <1>4. QED
    BY <1>1, <1>3, Before, WritesNothing, RestingKnows DEF Moves

\* What is done to a cycle that is neither running nor held for a person is no matter to others.
LEMMA UpkeepSpares ==
  ASSUME TypeOK, NEW d \in Keys, Upkeep(d), cycle[d].state \in {"awaiting", "done"},
         NEW c \in Keys, Held(c) => Held(c)'
  PROVE  Spares(c)
  <1>1. Keeps(c) /\ UNCHANGED receipt
    <2>1. UNCHANGED receipt
      BY DEF Upkeep, Opening, Deciding, Reserving, Parking, Freeing, Counting, Noting, Closing
    <2>2. QED
      BY <2>1, UpkeepKeeps
  <1>2. Running(c) => cycle'[c] = cycle[c]
    <2>1. cycle \in [Keys -> Row]
      BY DEF TypeOK
    <2>2. cycle' = cycle \/ \E r : cycle' = [cycle EXCEPT ![d] = r]
      BY DEF Upkeep, Opening, Deciding, Parking, Reserving, Freeing, Counting, Noting, Closing,
             Closed
    <2>3. QED
      BY <2>1, <2>2 DEF Running
  <1>3. QED
    BY <1>1, <1>2 DEF Spares

\* openCycle: a new cycle has signed nothing.
LEMMA OpenMoves ==
  ASSUME Inv, MoneyInv, NEW p \in Procs, OpenCycle(p)
  PROVE  Moves(p)
  <1>0. lock = p
    BY Before DEF OpenCycle, At, Locked, Slow
  <1>1. ASSUME NEW c \in Keys, cycle[c].state = "none",
               cycle' = [cycle EXCEPT ![c].state = "running"],
               proc' = [proc EXCEPT ![p] = [@ EXCEPT !.pc = "decide", !.key = c]],
               UNCHANGED <<books, outbox>>
        PROVE  Moves(p)
    <2>1. Opening(c)
      BY <1>1 DEF Opening, books, outbox, chain
    <2>2. Effect /\ Keeps(c)
      BY <2>1, Before, UpkeepKeeps DEF Effect, OnCycle, Upkeep
    <2>3. cycle'[c].signed = <<>>
      BY <1>1, <2>2, Before DEF Ledger, Keeps
    <2>4. Preparing(c)'
      BY <2>3 DEF Preparing, SignedTx
    <2>5. proc'[p].pc = "decide" /\ proc'[p].key = c
      BY <1>1, Before DEF Proc
    <2>6. MoneyKnown(p)'
      BY <2>3, <2>4, <2>5 DEF MoneyKnown, HolderKnows, CompleterKnows, At, Key
    <2>7. QED
      BY <1>0, <2>2, <2>6, HolderMoves
  <1>2. ASSUME UNCHANGED data, proc'[p].pc = "release"
        PROVE  Moves(p)
    BY <1>0, <1>2, Before, WritesNothing, RestingKnows, HolderMoves DEF Resting
  <1>3. proc[p].task # "manual" => Key(p) \in Keys
    BY Before DEF OpenCycle, Remembers, At, Keys
  <1>4. CASE \E c \in (IF proc[p].task = "manual" THEN Manual ELSE {Key(p)}) : cycle[c].state = "none"
    BY <1>1, <1>3, <1>4 DEF OpenCycle, Keys
  <1>5. CASE ~\E c \in (IF proc[p].task = "manual" THEN Manual ELSE {Key(p)}) : cycle[c].state = "none"
    <2>1. \A m : [proc[p] EXCEPT !.pc = "release", !.move = m].pc = "release"
      BY Before DEF Proc
    <2>2. proc'[p].pc = "release"
      <3>1. \E m : proc' = [proc EXCEPT ![p] = [@ EXCEPT !.pc = "release", !.move = m]]
        BY <1>5 DEF OpenCycle
      <3>2. QED
        BY <2>1, <3>1, Before
    <2>3. UNCHANGED data
      BY <1>5 DEF OpenCycle, data, books, outbox
    <2>4. QED
      BY <1>2, <2>2, <2>3
  <1>6. QED
    BY <1>4, <1>5

\* The holder's steps that decide and prepare a transaction, up to its signature: the cycle's
\* transactions so far are mined and written down.
LEMMA PrepareMoves ==
  ASSUME Inv, MoneyInv, NEW p \in Procs, NEW c \in Keys, c = Key(p), lock = p,
         proc[p].pc \in {"decide", "reserve", "reserving", "next", "sign", "record"},
         Keeps(c), Effect, Key(p)' = c, proc'[p].sent = proc[p].sent,
         \/ proc'[p].pc \in {"decide", "reserve", "reserving", "next", "sign", "record"}
         \/ /\ proc'[p].pc = "finish"
            /\ proc'[p].outcome \in {"SKIPPED", "DEFERRED", "QUOTE", "FAILED"}
            /\ proc'[p].outcome = "FAILED" /\ proc'[p].funds = "none" => ~proc[p].sent
  PROVE  Moves(p)
  <1>1. HolderKnows(p) /\ TypeOK /\ Ledger(c)
    BY Before
  <1>2. Preparing(c) /\ (~proc[p].sent => cycle[c].signed = <<>>)
    BY <1>1 DEF HolderKnows
  <1>3. AllWritten(c) /\ NoSwap(c) /\ (~proc[p].sent => NothingSent(c))
    <2>1. AllWritten(c) /\ NoSwap(c)
      BY <1>1, <1>2, PreparingMeans
    <2>2. ~proc[p].sent => NothingSent(c)
      BY <1>1, <1>2, SignedSplit DEF NothingSent
    <2>3. QED
      BY <2>1, <2>2
  <1>4. /\ Preparing(c)' /\ AllWritten(c)' /\ NoSwap(c)'
        /\ ~proc[p].sent => NothingSent(c)' /\ cycle'[c].signed = <<>>
    BY <1>1, <1>2, <1>3, KeepsFacts DEF Keeps
  <1>5. MoneyKnown(p)'
    <2>1. CASE proc'[p].pc \in {"decide", "reserve", "reserving", "next", "sign", "record"}
      BY <1>4, <2>1 DEF MoneyKnown, HolderKnows, CompleterKnows, At, Key
    <2>2. CASE /\ proc'[p].pc = "finish"
               /\ proc'[p].outcome \in {"SKIPPED", "DEFERRED", "QUOTE", "FAILED"}
               /\ proc'[p].outcome = "FAILED" /\ proc'[p].funds = "none" => ~proc[p].sent
      <3>1. Fits(c, proc[p].outcome, proc[p].funds)'
        BY <1>4, <2>2 DEF Fits
      <3>2. QED
        BY <1>4, <2>2, <3>1 DEF MoneyKnown, HolderKnows, CompleterKnows, At, Key
    <2>3. QED
      BY <2>1, <2>2
  <1>6. QED
    BY <1>5, HolderMoves

\* A cycle's end, as its process will write it.
LEMMA FinishWrites ==
  ASSUME NEW p \in Procs, proc \in [Procs -> Proc], NEW o, NEW f, ToFinish(p, o, f)
  PROVE  /\ proc'[p].pc = "finish" /\ proc'[p].key = proc[p].key /\ proc'[p].sent = proc[p].sent
         /\ proc'[p].outcome = o /\ proc'[p].kind = proc[p].kind
         /\ proc'[p].funds = IF o = "FAILED" /\ proc[p].sent THEN "gas_only" ELSE f
  BY DEF ToFinish, Proc

\* The same process elsewhere.
LEMMA GotoWrites ==
  ASSUME NEW p \in Procs, proc \in [Procs -> Proc], NEW x, Goto(p, x)
  PROVE  /\ proc'[p].pc = x /\ proc'[p].key = proc[p].key /\ proc'[p].sent = proc[p].sent
         /\ proc'[p].outcome = proc[p].outcome /\ proc'[p].kind = proc[p].kind
         /\ proc'[p].funds = proc[p].funds
  BY DEF Goto, Proc

\* decideCycle.
LEMMA DecideMoves ==
  ASSUME Inv, MoneyInv, NEW p \in Procs, Decide(p)
  PROVE  Moves(p)
  <1>0. /\ Key(p) \in Keys /\ proc \in [Procs -> Proc] /\ TypeOK /\ lock' = lock
        /\ proc[p].pc = "decide" /\ cycle \in [Keys -> Row]
    BY Before DEF Decide, Remembers, Keyed, Body, Locked, Completing, At, locks
  <1>1. CASE \E o \in {"SKIPPED", "DEFERRED", "QUOTE"} : ToFinish(p, o, "none") /\ UNCHANGED cycle
    <2>1. UNCHANGED data
      BY <1>1 DEF Decide, data, books, outbox
    <2>2. PICK o \in {"SKIPPED", "DEFERRED", "QUOTE"} : ToFinish(p, o, "none")
      BY <1>1
    <2>3. /\ proc'[p].pc = "finish" /\ proc'[p].key = proc[p].key /\ proc'[p].sent = proc[p].sent
          /\ proc'[p].outcome = o
      BY <1>0, <2>2, FinishWrites
    <2>4. CASE lock = p
      BY <1>0, <2>1, <2>3, <2>4, WritesNothing, PrepareMoves DEF Key
    <2>5. CASE lock # p
      <3>1. MoneyKnown(p)'
        BY <1>0, <2>3, <2>5 DEF MoneyKnown, CompleterKnows, At
      <3>2. QED
        BY <1>0, <2>1, <3>1, WritesNothing DEF Moves
    <2>6. QED
      BY <2>4, <2>5
  <1>2. CASE /\ cycle' = [cycle EXCEPT ![Key(p)].decided = TRUE]
             /\ Goto(p, IF proc[p].reserved THEN "next" ELSE "reserve")
    <2>1. Deciding(Key(p))
      BY <1>2 DEF Decide, Deciding, books, outbox, chain
    <2>2. Effect /\ \A c \in Keys : Keeps(c)
      BY <1>0, <2>1, UpkeepKeeps DEF Effect, OnCycle, Upkeep
    <2>3. /\ proc'[p].pc \in {"next", "reserve"} /\ proc'[p].key = proc[p].key
          /\ proc'[p].sent = proc[p].sent
      BY <1>0, <1>2, GotoWrites
    <2>4. CASE lock = p
      BY <1>0, <2>2, <2>3, <2>4, PrepareMoves DEF Key
    <2>5. CASE lock # p
      <3>1. MoneyKnown(p)'
        BY <1>0, <2>3, <2>5 DEF MoneyKnown, CompleterKnows, At
      <3>2. ASSUME NEW c \in Keys
            PROVE  Spares(c)
        <4>1. cycle'[c].waits = cycle[c].waits /\ cycle'[c].state = cycle[c].state
                /\ UNCHANGED receipt
          BY <1>0, <2>1 DEF Deciding, Row
        <4>2. QED
          BY <2>2, <4>1 DEF Spares, Held
      <3>3. QED
        BY <2>2, <3>1, <3>2 DEF Moves
    <2>6. QED
      BY <2>4, <2>5
  <1>3. QED
    BY <1>1, <1>2 DEF Decide

\* Renewing the lock, or ending as the one that lost it.
LEMMA HoldWrites ==
  ASSUME NEW p \in Procs, proc \in [Procs -> Proc], NEW r, Hold(p, r)
  PROVE  /\ lock' = lock
         /\ lock = p => proc'[p] = r
         /\ lock # p => proc'[p].pc = "idle"
  BY DEF Hold, locks, Idle

\* The renewals under which nothing is written: by who lost the lock nothing is known.
LEMMA LostMoves ==
  ASSUME Inv, MoneyInv, NEW p \in Procs, NEW r, Hold(p, r), lock # p, UNCHANGED data
  PROVE  Moves(p)
  <1>1. proc'[p].pc \in Resting
    BY Before, HoldWrites DEF Resting
  <1>2. QED
    BY <1>1, Before, WritesNothing, RestingKnows DEF Moves

\* The rest of the rounds.
LEMMA RoundMoves ==
  ASSUME Inv, MoneyInv, NEW p \in Procs,
         Reserve(p) \/ ReserveSpend(p) \/ NextTx(p) \/ Requote(p) \/ SignTx(p)
  PROVE  Moves(p)
  <1>0. /\ Key(p) \in Keys /\ proc \in [Procs -> Proc] /\ TypeOK
        /\ proc[p].pc \in {"reserve", "reserving", "next", "sign"}
        /\ proc[p].pc = "reserving" => lock = p
        /\ proc[p].task # "complete"
    BY Before DEF Reserve, ReserveSpend, NextTx, Requote, SignTx, Remembers, Keyed, Body, Locked,
                  Completing, At, Slow
  <1>1. CASE Reserve(p)
    <2>1. UNCHANGED data /\ Hold(p, [proc[p] EXCEPT !.pc = "reserving"])
      BY <1>1 DEF Reserve, data, books, outbox
    <2>2. CASE lock = p
      <3>1. proc'[p].pc = "reserving" /\ proc'[p].key = Key(p) /\ proc'[p].sent = proc[p].sent
        BY <1>0, <2>1, <2>2, HoldWrites DEF Proc, Key
      <3>2. QED
        BY <1>0, <2>1, <2>2, <3>1, WritesNothing, PrepareMoves DEF Key
    <2>3. QED
      BY <2>1, <2>2, LostMoves
  <1>2. CASE ReserveSpend(p)
    <2>1. CASE /\ spend' = [spend EXCEPT ![Key(p)] = "reserved"]
               /\ proc' = [proc EXCEPT ![p] = [@ EXCEPT !.pc = "next", !.reserved = TRUE]]
      <3>1. Running(Key(p)) /\ Preparing(Key(p))
        BY <1>0, <1>2, Before DEF ReserveSpend, At, Knows, Working, Body, HolderKnows
      <3>2. Reserving(Key(p))
        BY <1>2, <2>1, <3>1 DEF ReserveSpend, Reserving, outbox, chain
      <3>3. Effect /\ Keeps(Key(p))
        BY <1>0, <3>2, UpkeepKeeps DEF Effect, OnCycle, Upkeep
      <3>4. proc'[p].pc = "next" /\ proc'[p].key = Key(p) /\ proc'[p].sent = proc[p].sent
        BY <1>0, <2>1 DEF Proc, Key
      <3>5. QED
        BY <1>0, <1>2, <3>3, <3>4, PrepareMoves DEF ReserveSpend, At, Key
    <2>2. CASE ToFinish(p, "SKIPPED", "none") /\ UNCHANGED spend
      <3>1. UNCHANGED data
        BY <1>2, <2>2 DEF ReserveSpend, data, outbox
      <3>2. /\ proc'[p].pc = "finish" /\ proc'[p].key = Key(p) /\ proc'[p].sent = proc[p].sent
            /\ proc'[p].outcome = "SKIPPED"
        BY <1>0, <2>2, FinishWrites DEF Key
      <3>3. QED
        BY <1>0, <1>2, <3>1, <3>2, WritesNothing, PrepareMoves DEF ReserveSpend, At, Key
    <2>3. QED
      BY <1>2, <2>1, <2>2 DEF ReserveSpend
  <1>3. CASE NextTx(p)
    <2>1. UNCHANGED data
      BY <1>3 DEF NextTx, data, books, outbox
    <2>2. ASSUME NEW k \in Kinds, Hold(p, [proc[p] EXCEPT !.pc = "sign", !.kind = k])
          PROVE  Moves(p)
      <3>1. CASE lock = p
        <4>1. proc'[p].pc = "sign" /\ proc'[p].key = Key(p) /\ proc'[p].sent = proc[p].sent
          <5>1. proc'[p] = [proc[p] EXCEPT !.pc = "sign", !.kind = k]
            BY <1>0, <2>2, <3>1, HoldWrites
          <5>2. proc[p] \in Proc
            BY <1>0
          <5>3. QED
            BY <5>1, <5>2 DEF Proc, Key
        <4>2. QED
          BY <1>0, <2>1, <3>1, <4>1, WritesNothing, PrepareMoves DEF Key
      <3>2. QED
        BY <2>1, <2>2, <3>1, LostMoves
    <2>3. CASE ToFinish(p, "FAILED", "none") /\ UNCHANGED locks
      <3>1. /\ proc'[p].pc = "finish" /\ proc'[p].key = Key(p) /\ proc'[p].sent = proc[p].sent
            /\ proc'[p].outcome = "FAILED" /\ (proc'[p].funds = "none" => ~proc[p].sent)
        BY <1>0, <2>3, FinishWrites DEF Key
      <3>2. CASE lock = p
        BY <1>0, <2>1, <3>1, <3>2, WritesNothing, PrepareMoves DEF Key
      <3>3. CASE lock # p
        <4>1. MoneyKnown(p)'
          BY <2>3, <3>1, <3>3 DEF MoneyKnown, CompleterKnows, At, locks
        <4>2. QED
          BY <1>0, <2>1, <3>3, <4>1, WritesNothing DEF Moves
      <3>4. QED
        BY <3>2, <3>3
    <2>4. QED
      BY <1>3, <2>2, <2>3 DEF NextTx
  <1>4. CASE Requote(p)
    <2>1. UNCHANGED data /\ lock' = lock
      BY <1>4 DEF Requote, data, books, outbox, locks
    <2>2. proc'[p].pc = "decide" /\ proc'[p].key = Key(p) /\ proc'[p].sent = proc[p].sent
      BY <1>0, <1>4, GotoWrites DEF Requote, Key
    <2>3. CASE lock = p
      BY <1>0, <2>1, <2>2, <2>3, WritesNothing, PrepareMoves DEF Key
    <2>4. CASE lock # p
      <3>1. MoneyKnown(p)'
        BY <2>1, <2>2, <2>4 DEF MoneyKnown, CompleterKnows, At
      <3>2. QED
        BY <1>0, <2>1, <2>4, <3>1, WritesNothing DEF Moves
    <2>5. QED
      BY <2>3, <2>4
  <1>5. CASE SignTx(p)
    <2>1. UNCHANGED data
      BY <1>5 DEF SignTx, data, books, outbox
    <2>2. CASE ToCatch(p)
      <3>1. proc'[p].pc \in Resting
        BY <1>0, <2>2 DEF ToCatch, Idle, Resting
      <3>2. QED
        BY <1>0, <2>1, <3>1, WritesNothing, RestingKnows DEF Moves
    <2>3. CASE Hold(p, [proc[p] EXCEPT !.pc = "record"])
      <3>1. CASE lock = p
        <4>1. proc'[p].pc = "record" /\ proc'[p].key = Key(p) /\ proc'[p].sent = proc[p].sent
          BY <1>0, <2>3, <3>1, HoldWrites DEF Proc, Key
        <4>2. QED
          BY <1>0, <2>1, <3>1, <4>1, WritesNothing, PrepareMoves DEF Key
      <3>2. QED
        BY <2>1, <2>3, <3>1, LostMoves
    <2>4. QED
      BY <1>5, <2>2, <2>3 DEF SignTx
  <1>6. QED
    BY <1>1, <1>2, <1>3, <1>4, <1>5

\* The signature's record: nothing of the new transaction is written down yet.
LEMMA RecordMoves ==
  ASSUME Inv, MoneyInv, NEW p \in Procs, RecordSigned(p)
  PROVE  Moves(p)
  <1> SUFFICES ASSUME NEW c \in Keys, c = Key(p), NEW k \in Kinds, k = proc[p].kind
               PROVE  Moves(p)
    BY Before DEF RecordSigned, Remembers, Keyed, Kinded, Body, Locked, Completing, At
  <1>0. /\ proc \in [Procs -> Proc] /\ TypeOK /\ lock = p /\ Ledger(c)
        /\ Running(c) /\ Preparing(c) /\ spend[c] = "reserved"
        /\ ~proc[p].sent => cycle[c].signed = <<>>
    BY Before DEF RecordSigned, Body, Locked, At, Slow, Knows, Working, HolderKnows
  <1>1. /\ proc'[p].pc = "wait" /\ proc'[p].key = c /\ proc'[p].sent = proc[p].sent
        /\ proc'[p].kind = k
    BY <1>0, GotoWrites DEF RecordSigned, Key
  <1>2. SigningOne(c, k)
    BY <1>0 DEF RecordSigned, SigningOne, books, Sent!Sign
  <1>3. Effect
    BY <1>0, <1>2 DEF Effect, OnCycle
  <1>4. /\ LastIs(c, k)' /\ Earlier(c)' = SignedTx(c)
    <2>1. cycle'[c].signed = Append(cycle[c].signed, k)
      BY <1>0, <1>2 DEF SigningOne, TypeOK, Row
    <2>2. QED
      BY <1>0, <2>1, SignedAppend
  <1>5. receipt'[<<c, k>>] = "none" /\ \A t \in SignedTx(c) : receipt'[t] # "none"
    BY <1>0, <1>2 DEF SigningOne, Sent!Sign, Ledger, Chain, Preparing
  <1>6. ~proc[p].sent => SignedTx(c) = {}
    BY <1>0, SignedSplit
  <1>7. HolderKnows(p)' /\ CompleterKnows(p)'
    BY <1>1, <1>4, <1>5, <1>6 DEF HolderKnows, CompleterKnows, At, Key
  <1>8. QED
    BY <1>0, <1>3, <1>7, HolderMoves DEF MoneyKnown

\* The wait: what came of the transaction it sent last.
LEMMA WaitMoves ==
  ASSUME Inv, MoneyInv, NEW p \in Procs, WaitTx(p)
  PROVE  Moves(p)
  <1> SUFFICES ASSUME NEW c \in Keys, c = Key(p), NEW k \in Kinds, k = proc[p].kind,
                      NEW t, t = <<c, k>>
               PROVE  Moves(p)
    BY Before DEF WaitTx, Remembers, Keyed, Kinded, Body, Locked, Completing, At
  <1>0. /\ proc \in [Procs -> Proc] /\ TypeOK /\ lock = p
        /\ t \in Tx /\ Ledger(c) /\ HolderKnows(p) /\ proc[p].pc = "wait"
        /\ verdict \in [Tx -> {"none", "open", "notSent"} \cup Sent!Mined]
        /\ fate \in [Tx -> {"kept", "out"} \cup Sent!Mined]
    BY Before DEF WaitTx, Body, Locked, At, Slow, Tx, TypeOK
  <1>1. /\ LastIs(c, k) /\ receipt[t] = "none"
        /\ \A u \in Earlier(c) : receipt[u] # "none" /\ verdict[u] = "success" /\ u # Swap(c)
        /\ ~proc[p].sent => Earlier(c) = {}
    BY <1>0 DEF HolderKnows, Ledger
  <1>2. SignedTx(c) = Earlier(c) \cup {t}
    BY <1>0, <1>1, SignedSplit DEF LastIs
  <1>3. CASE Sent!Settle(t) \/ Sent!Refuse(t)
    <2>1. OnTx(t)
      BY <1>0, <1>3 DEF WaitTx, books, Settling, Refusing, OnTx, Sent!Settle, Sent!Refuse
    <2>2. Effect /\ Keeps(c) /\ UNCHANGED <<cycle, receipt, spend>>
      BY <1>0, <2>1, TxKeeps DEF Effect, WaitTx, books
    <2>3. /\ LastIs(c, k)' /\ Earlier(c)' = Earlier(c) /\ SignedTx(c)' = Earlier(c) \cup {t}
          /\ verdict'[t] \in {"success", "reverted", "notSent"}
          /\ \A u \in Earlier(c) : receipt'[u] # "none" /\ verdict'[u] = "success"
      <3>1. LastIs(c, k)' /\ Earlier(c)' = Earlier(c) /\ SignedTx(c)' = Earlier(c) \cup {t}
        BY <1>1, <1>2, <2>2, SignedSame
      <3>2. verdict'[t] \in {"success", "reverted", "notSent"}
        BY <1>0, <1>3 DEF Sent!Settle, Sent!Refuse, Sent!Mined
      <3>3. \A u \in Earlier(c) : \E l \in Kinds : u = <<c, l>>
        BY <1>0, EarlierKinds
      <3>4. QED
        BY <1>1, <2>2, <3>1, <3>2, <3>3 DEF Keeps
    <2>4. CASE verdict'[t] # "success"
      <3>1. AllWritten(c)'
        BY <1>1, <2>3, <2>4 DEF AllWritten
      <3>2. NoSwap(c)'
        <4>1. CASE t = Swap(c)
          BY <2>3, <2>4, <4>1 DEF NoSwap, Swap
        <4>2. CASE t # Swap(c)
          <5>1. verdict[Swap(c)] = "none"
            BY <1>0, <1>1, <1>2, <4>2, KindsAssumption DEF Ledger, Swap
          <5>2. QED
            BY <2>2, <5>1, KindsAssumption DEF Keeps, NoSwap, Swap
        <4>3. QED
          BY <4>1, <4>2
      <3>3. verdict'[t] = "notSent" /\ ~proc[p].sent => NothingSent(c)'
        BY <1>1, <2>3 DEF NothingSent
      <3>4. \E f \in {"none", "gas_only"} :
              /\ ToFinish(p, "FAILED", f)
              /\ f = "none" => verdict'[t] = "notSent"
        BY <1>0, <1>3, <2>4 DEF WaitTx, Sent!Settle, Sent!Refuse, Sent!Mined
      <3>5. /\ proc'[p].pc = "finish" /\ proc'[p].key = c /\ proc'[p].outcome = "FAILED"
            /\ proc'[p].funds = "none" => verdict'[t] = "notSent" /\ ~proc[p].sent
        BY <1>0, <3>4, FinishWrites DEF Key
      <3>6. Fits(c, proc[p].outcome, proc[p].funds)'
        BY <3>2, <3>3, <3>5 DEF Fits
      <3>7. HolderKnows(p)' /\ CompleterKnows(p)'
        BY <3>1, <3>5, <3>6 DEF HolderKnows, CompleterKnows, At, Key
      <3>8. QED
        BY <1>0, <2>2, <3>7, HolderMoves DEF MoneyKnown
    <2>5. CASE verdict'[t] = "success"
      <3>1. fate[t] = "success"
        BY <1>0, <1>3, <2>5 DEF Sent!Settle, Sent!Refuse
      <3>2. Goto(p, "apply")
        BY <1>0, <1>3, <2>5, <3>1 DEF WaitTx, Sent!Settle, Sent!Refuse, Sent!Mined
      <3>3. /\ proc'[p].pc = "apply" /\ proc'[p].key = c /\ proc'[p].sent = proc[p].sent
            /\ proc'[p].kind = k
        BY <1>0, <3>2, GotoWrites DEF Key
      <3>4. receipt'[t] = "none" /\ (~proc[p].sent => Earlier(c)' = {})
        BY <1>1, <2>2, <2>3
      <3>5. HolderKnows(p)' /\ CompleterKnows(p)'
        BY <2>3, <2>5, <3>3, <3>4 DEF HolderKnows, CompleterKnows, At, Key
      <3>6. QED
        BY <1>0, <2>2, <3>5, HolderMoves DEF MoneyKnown
    <2>6. QED
      BY <2>4, <2>5
  <1>4. CASE Goto(p, "await") /\ UNCHANGED <<verdict, fate>>
    <2>1. UNCHANGED data
      BY <1>4 DEF WaitTx, data, books
    <2>2. proc'[p].pc = "await" /\ proc'[p].key = c /\ proc'[p].kind = k
      BY <1>0, <1>4, GotoWrites DEF Key
    <2>3. LastIs(c, k)'
      BY <1>0, <1>1, <2>1, SignedSame DEF data
    <2>4. HolderKnows(p)' /\ CompleterKnows(p)'
      BY <2>2, <2>3 DEF HolderKnows, CompleterKnows, At, Key
    <2>5. QED
      BY <1>0, <2>1, <2>4, WritesNothing, HolderMoves DEF MoneyKnown
  <1>5. QED
    BY <1>3, <1>4 DEF WaitTx

\* The effect, written down the moment it is known.
LEMMA ApplyMoves ==
  ASSUME Inv, MoneyInv, NEW p \in Procs, ApplyTx(p)
  PROVE  Moves(p)
  <1> SUFFICES ASSUME NEW c \in Keys, c = Key(p), NEW k \in Kinds, k = proc[p].kind,
                      NEW t, t = <<c, k>>
               PROVE  Moves(p)
    BY Before DEF ApplyTx, Remembers, Keyed, Kinded, Body, Locked, Completing, At
  <1>0. /\ proc \in [Procs -> Proc] /\ TypeOK /\ lock = p
        /\ t \in Tx /\ Ledger(c) /\ HolderKnows(p) /\ proc[p].pc = "apply"
        /\ receipt \in [Tx -> {"none", "recorded", "applied"}]
    BY Before DEF ApplyTx, Body, Locked, At, Slow, Tx, TypeOK
  <1>1. /\ LastIs(c, k) /\ receipt[t] = "none" /\ verdict[t] = "success"
        /\ \A u \in Earlier(c) : receipt[u] # "none" /\ verdict[u] = "success" /\ u # Swap(c)
    BY <1>0 DEF HolderKnows, Ledger, At
  <1>2. SignedTx(c) = Earlier(c) \cup {t}
    BY <1>0, <1>1, SignedSplit DEF LastIs
  <1>3. \E how \in {"recorded", "applied"} : Writing(t, how)
    BY <1>1 DEF ApplyTx, Writing, outbox, chain
  <1>4. Effect /\ Keeps(c) /\ UNCHANGED <<cycle, verdict, empty>>
    BY <1>0, <1>3, TxKeeps DEF Effect, OnTx, Writing, chain
  <1>5. SignedTx(c)' = SignedTx(c) /\ \A u \in SignedTx(c) : verdict'[u] = "success" /\ receipt'[u] # "none"
    <2>1. \A u \in SignedTx(c) : \E l \in Kinds : u = <<c, l>>
      BY <1>0, SignedKinds
    <2>2. receipt'[t] # "none"
      BY <1>0, <1>1, <1>3 DEF Writing, Written
    <2>3. SignedTx(c)' = SignedTx(c)
      BY <1>4, SignedSame
    <2>4. QED
      BY <1>1, <1>2, <1>4, <2>1, <2>2, <2>3 DEF Keeps
  <1>6. AllWritten(c)'
    BY <1>5 DEF AllWritten
  <1>7. /\ proc'[p].key = c
        /\ k # "swap" => proc'[p].pc = "decide" /\ proc'[p].sent
        /\ k = "swap" /\ t \in empty => proc'[p].pc = "anomaly"
        /\ k = "swap" /\ t \notin empty => proc'[p].pc = "finish" /\ proc'[p].outcome = "BOUGHT"
    <2>1. ASSUME NEW r \in Proc
          PROVE  /\ [r EXCEPT !.sent = TRUE] \in Proc
                 /\ [r EXCEPT !.sent = TRUE].key = r.key /\ [r EXCEPT !.sent = TRUE].sent
      BY DEF Proc
    <2>2. ASSUME NEW r \in Proc
          PROVE  /\ \A x \in {"decide", "anomaly"} :
                      LET s == [r EXCEPT !.pc = x] IN
                      s.pc = x /\ s.key = r.key /\ s.sent = r.sent
                 /\ LET s == [r EXCEPT !.pc = "finish", !.outcome = "BOUGHT"] IN
                    s.pc = "finish" /\ s.key = r.key /\ s.outcome = "BOUGHT"
      BY DEF Proc
    <2>3. [proc[p] EXCEPT !.sent = TRUE] \in Proc /\ [proc[p] EXCEPT !.sent = TRUE].key = c
            /\ [proc[p] EXCEPT !.sent = TRUE].sent
      BY <1>0, <2>1 DEF Key
    <2> DEFINE n == [proc[p] EXCEPT !.sent = TRUE]
    <2>4. proc'[p] = IF k # "swap" THEN [n EXCEPT !.pc = "decide"]
                     ELSE IF t \in empty THEN [n EXCEPT !.pc = "anomaly"]
                     ELSE [n EXCEPT !.pc = "finish", !.outcome = "BOUGHT"]
      BY <1>0 DEF ApplyTx
    <2> HIDE DEF n
    <2>5. n \in Proc /\ n.key = c /\ n.sent
      BY <2>3 DEF n
    <2>6. QED
      BY <2>2, <2>4, <2>5
  <1>8. CASE k # "swap"
    <2>1. Preparing(c)'
      BY <1>1, <1>2, <1>5, <1>8 DEF Preparing, Swap
    <2>2. HolderKnows(p)' /\ CompleterKnows(p)'
      BY <1>7, <1>8, <2>1 DEF HolderKnows, CompleterKnows, At, Key
    <2>3. QED
      BY <1>0, <1>4, <2>2, HolderMoves DEF MoneyKnown
  <1>9. CASE k = "swap" /\ t \in empty
    <2>1. Anomalous(c)'
      BY <1>2, <1>4, <1>5, <1>9 DEF Anomalous, Swap
    <2>2. HolderKnows(p)' /\ CompleterKnows(p)'
      BY <1>6, <1>7, <1>9, <2>1 DEF HolderKnows, CompleterKnows, At, Key
    <2>3. QED
      BY <1>0, <1>4, <2>2, HolderMoves DEF MoneyKnown
  <1>10. CASE k = "swap" /\ t \notin empty
    <2>1. Bought(c)'
      BY <1>2, <1>4, <1>5, <1>10 DEF Bought, Swap
    <2>2. Fits(c, proc[p].outcome, proc[p].funds)'
      BY <1>7, <1>10, <2>1 DEF Fits
    <2>3. HolderKnows(p)' /\ CompleterKnows(p)'
      BY <1>6, <1>7, <1>10, <2>2 DEF HolderKnows, CompleterKnows, At, Key
    <2>4. QED
      BY <1>0, <1>4, <2>3, HolderMoves DEF MoneyKnown
  <1>11. QED
    BY <1>8, <1>9, <1>10

\* Noting what a cycle awaits, and parking it.
LEMMA ParkMoves ==
  ASSUME Inv, MoneyInv, NEW p \in Procs,
         \/ NoteAnomaly(p) \/ HoldCycle(p) \/ NoteAwaiting(p) \/ Park(p)
         \/ NoteSigned(p) \/ Reopen(p)
  PROVE  Moves(p)
  <1> SUFFICES ASSUME NEW c \in Keys, c = Key(p)
               PROVE  Moves(p)
    BY Before DEF NoteAnomaly, HoldCycle, NoteAwaiting, Park, NoteSigned, Reopen, Remembers, Keyed,
                  Body, Locked, Completing, At
  <1>0. /\ proc \in [Procs -> Proc] /\ cycle \in [Keys -> Row] /\ TypeOK /\ lock = p
        /\ HolderKnows(p) /\ Running(c)
        /\ At(p, "note") => cycle[c].signed # <<>>
    BY Before DEF NoteAnomaly, HoldCycle, NoteAwaiting, Park, NoteSigned, Reopen, Body, Locked, At,
                  Slow, Knows, Working, Remembers
  <1>1. \A w \in Kinds \cup {None} : Noting(c, w) =>
          /\ Effect /\ Keeps(c) /\ cycle'[c].waits = w
          /\ (AllWritten(c) => AllWritten(c)') /\ (Anomalous(c) => Anomalous(c)')
          /\ \A k : LastIs(c, k) => LastIs(c, k)'
    <2> SUFFICES ASSUME NEW w \in Kinds \cup {None}, Noting(c, w)
                 PROVE  /\ Effect /\ Keeps(c) /\ cycle'[c].waits = w
                        /\ (AllWritten(c) => AllWritten(c)') /\ (Anomalous(c) => Anomalous(c)')
                        /\ \A k : LastIs(c, k) => LastIs(c, k)'
      OBVIOUS
    <2>1. Effect /\ Keeps(c)
      BY <1>0, UpkeepKeeps DEF Effect, OnCycle, Upkeep
    <2>2. cycle'[c].waits = w
      BY <1>0 DEF Noting, Row
    <2>3. QED
      BY <1>0, <2>1, <2>2, KeepsFacts
  <1>2. Parking(c) => Effect
    BY DEF Effect, OnCycle, Upkeep
  <1>3. CASE NoteAnomaly(p)
    <2>1. Anomalous(c) /\ AllWritten(c)
      BY <1>0, <1>3 DEF NoteAnomaly, HolderKnows, At
    <2>2. Noting(c, None)
      BY <1>0, <1>3 DEF NoteAnomaly, Noting, books, outbox, chain
    <2>3. proc'[p].pc = "holding" /\ proc'[p].key = c
      BY <1>0, <1>3, GotoWrites DEF NoteAnomaly, Key
    <2>4. Anomalous(c)' /\ AllWritten(c)' /\ cycle'[c].waits = None /\ Effect
      BY <1>1, <2>1, <2>2
    <2>5. HolderKnows(p)' /\ CompleterKnows(p)'
      BY <2>3, <2>4 DEF HolderKnows, CompleterKnows, At, Key
    <2>6. QED
      BY <1>0, <2>4, <2>5, HolderMoves DEF MoneyKnown
  <1>4. CASE NoteAwaiting(p)
    <2>1. LastIs(c, proc[p].kind) /\ proc[p].kind \in Kinds
      <3>1. LastIs(c, proc[p].kind)
        BY <1>0, <1>4 DEF NoteAwaiting, HolderKnows, At
      <3>2. QED
        BY <1>0, <3>1, SignedSplit DEF LastIs
    <2>2. Noting(c, proc[p].kind)
      BY <1>0, <1>4 DEF NoteAwaiting, Noting, books, outbox, chain
    <2>3. proc'[p].pc = "parking" /\ proc'[p].key = c /\ proc'[p].kind = proc[p].kind
      BY <1>0, <1>4, GotoWrites DEF NoteAwaiting, Key
    <2>4. PICK k \in Kinds : k = proc[p].kind
      BY <2>1
    <2>5. LastIs(c, k)' /\ cycle'[c].waits = k /\ Effect
      BY <1>1, <2>1, <2>2, <2>4
    <2>6. HolderKnows(p)' /\ CompleterKnows(p)'
      BY <2>3, <2>4, <2>5 DEF HolderKnows, CompleterKnows, At, Key
    <2>7. QED
      BY <1>0, <2>5, <2>6, HolderMoves DEF MoneyKnown
  <1>5. CASE NoteSigned(p)
    <2>1. LastIs(c, Latest(c)) /\ Latest(c) \in Kinds
      BY <1>0, <1>5, SignedSplit DEF NoteSigned, LastIs
    <2>2. PICK k \in Kinds : k = Latest(c)
      BY <2>1
    <2>3. Noting(c, k)
      BY <1>0, <1>5, <2>2 DEF NoteSigned, Noting, books, outbox, chain
    <2>4. proc'[p].pc = "reopen" /\ proc'[p].key = c
      BY <1>0, <1>5, GotoWrites DEF NoteSigned, Key
    <2>5. LastIs(c, k)' /\ cycle'[c].waits = k /\ Effect
      BY <1>1, <2>1, <2>2, <2>3
    <2>6. cycle'[c].waits # None /\ LastIs(c, cycle[c].waits)'
      BY <2>5, NoneAssumption
    <2>7. HolderKnows(p)' /\ CompleterKnows(p)'
      BY <2>4, <2>6 DEF HolderKnows, CompleterKnows, At, Key
    <2>8. QED
      BY <1>0, <2>5, <2>7, HolderMoves DEF MoneyKnown
  <1>6. CASE HoldCycle(p)
    <2>1. Parking(c)
      BY <1>0, <1>6 DEF HoldCycle, Parking, HolderKnows, At, books, outbox, chain
    <2>2. proc'[p].pc \in Resting
      BY <1>0, <1>6, GotoWrites DEF HoldCycle, Resting
    <2>3. QED
      BY <1>0, <1>2, <2>1, <2>2, RestingKnows, HolderMoves
  <1>7. CASE Park(p)
    <2>1. /\ LastIs(c, proc[p].kind) /\ cycle[c].waits = proc[p].kind
          /\ proc[p].kind \in Kinds
      <3>1. LastIs(c, proc[p].kind) /\ cycle[c].waits = proc[p].kind
        BY <1>0, <1>7 DEF Park, HolderKnows, At
      <3>2. QED
        BY <1>0, <3>1, SignedSplit DEF LastIs
    <2>2. Parking(c)
      BY <1>0, <1>7, <2>1, NoneAssumption DEF Park, Parking, books, outbox, chain
    <2>3. proc'[p].pc \in Resting
      BY <1>0, <1>7, GotoWrites DEF Park, Resting
    <2>4. QED
      BY <1>0, <1>2, <2>2, <2>3, RestingKnows, HolderMoves
  <1>8. CASE Reopen(p)
    <2>1. Parking(c)
      BY <1>0, <1>8 DEF Reopen, Parking, HolderKnows, At, books, outbox, chain
    <2>2. proc'[p].pc \in Resting
      BY <1>0, <1>8, GotoWrites DEF Reopen, Recovered, Resting
    <2>3. QED
      BY <1>0, <1>2, <2>1, <2>2, RestingKnows, HolderMoves
  <1>9. QED
    BY <1>3, <1>4, <1>5, <1>6, <1>7, <1>8

\* The renewals before a cycle is parked or closed.
LEMMA RenewMoves ==
  ASSUME Inv, MoneyInv, NEW p \in Procs, Await(p) \/ Finish(p)
  PROVE  Moves(p)
  <1> SUFFICES ASSUME NEW c \in Keys, c = Key(p)
               PROVE  Moves(p)
    BY Before DEF Await, Finish, Remembers, Keyed, Body, Locked, Completing, At
  <1>0. proc \in [Procs -> Proc] /\ proc[p] \in Proc /\ TypeOK /\ UNCHANGED data
    BY Before DEF Await, Finish, data, books, outbox
  <1>1. CASE lock # p
    BY <1>0, <1>1, LostMoves DEF Await, Finish
  <1>2. ASSUME lock = p, Await(p)
        PROVE  Moves(p)
    <2>1. LastIs(c, proc[p].kind)
      BY <1>2, Before DEF Await, HolderKnows, At
    <2>2. \A k : LastIs(c, k)' <=> LastIs(c, k)
      BY <1>0, SignedSame DEF data
    <2>3. proc'[p] = [proc[p] EXCEPT !.pc = "awaiting"]
      BY <1>0, <1>2, HoldWrites DEF Await
    <2>4. proc'[p].pc = "awaiting" /\ proc'[p].key = c /\ proc'[p].kind = proc[p].kind
      BY <1>0, <2>3 DEF Proc, Key
    <2>5. HolderKnows(p)' /\ CompleterKnows(p)'
      BY <2>1, <2>2, <2>4 DEF HolderKnows, CompleterKnows, At, Key
    <2>6. QED
      BY <1>0, <1>2, <2>5, WritesNothing, HolderMoves DEF MoneyKnown
  <1>3. ASSUME lock = p, Finish(p)
        PROVE  Moves(p)
    <2>1. /\ AllWritten(c) /\ Fits(c, proc[p].outcome, proc[p].funds)
          /\ proc[p].outcome \notin {"INTERRUPTED", "CLOSED"}
      BY <1>3, Before DEF Finish, HolderKnows, At
    <2>2. AllWritten(c)' /\ \A o, f : Fits(c, o, f) => Fits(c, o, f)'
      BY <1>0, <2>1, WritesNothing, KeepsFacts
    <2>3. proc'[p] = [proc[p] EXCEPT !.pc = "closing"]
      BY <1>0, <1>3, HoldWrites DEF Finish
    <2>4. /\ proc'[p].pc = "closing" /\ proc'[p].key = c
          /\ proc'[p].outcome = proc[p].outcome /\ proc'[p].funds = proc[p].funds
      BY <1>0, <2>3 DEF Proc, Key
    <2>5. HolderKnows(p)' /\ CompleterKnows(p)'
      BY <2>1, <2>2, <2>4 DEF HolderKnows, CompleterKnows, At, Key
    <2>6. QED
      BY <1>0, <1>3, <2>5, WritesNothing, HolderMoves DEF MoneyKnown
  <1>4. QED
    BY <1>1, <1>2, <1>3

\* A close by the lock's holder.
LEMMA ClosingMoves ==
  ASSUME Inv, MoneyInv, NEW p \in Procs, lock = p, NEW c \in Keys, c = Key(p),
         NEW o \in Outcomes, NEW f \in {"none", "gas_only"}, Closing(c, o, f),
         \/ proc'[p].pc \in Resting
         \/ /\ proc'[p].pc = "freeing" /\ proc'[p].key = c
            /\ proc'[p].outcome = o /\ proc'[p].funds = f /\ o \notin {"INTERRUPTED", "CLOSED"}
  PROVE  Moves(p)
  <1>1. Effect /\ Keeps(c)
    BY Before, UpkeepKeeps DEF Effect, OnCycle, Upkeep
  <1>2. \A x, y : Fits(c, x, y) => Fits(c, x, y)'
    BY <1>1, Before, KeepsFacts
  <1>3. Fits(c, o, f)
    BY DEF Closing
  <1>4. MoneyKnown(p)'
    <2>1. CASE /\ proc'[p].pc = "freeing" /\ proc'[p].key = c
               /\ proc'[p].outcome = o /\ proc'[p].funds = f /\ o \notin {"INTERRUPTED", "CLOSED"}
      BY <1>2, <1>3, <2>1 DEF MoneyKnown, HolderKnows, CompleterKnows, At, Key
    <2>2. QED
      BY <2>1, RestingKnows
  <1>5. QED
    BY <1>1, <1>4, HolderMoves

\* finish: the outcome, and the reservation of what was not bought.
LEMMA EndMoves ==
  ASSUME Inv, MoneyInv, NEW p \in Procs, CloseCycle(p) \/ FreeSpend(p)
  PROVE  Moves(p)
  <1> SUFFICES ASSUME NEW c \in Keys, c = Key(p)
               PROVE  Moves(p)
    BY Before DEF CloseCycle, FreeSpend, Remembers, Keyed, Body, Locked, Completing, At
  <1>0. /\ proc \in [Procs -> Proc] /\ proc[p] \in Proc /\ TypeOK /\ lock = p /\ HolderKnows(p)
        /\ Fits(c, proc[p].outcome, proc[p].funds)
        /\ proc[p].outcome \notin {"INTERRUPTED", "CLOSED"}
    BY Before DEF CloseCycle, FreeSpend, Body, Locked, Slow, At, HolderKnows
  <1>1. CASE CloseCycle(p)
    <2>1. AllWritten(c) /\ Running(c)
      BY <1>0, <1>1, Before DEF CloseCycle, HolderKnows, At, Knows, Working, Body
    <2>2. PICK o \in Outcomes, f \in {"none", "gas_only"} : o = proc[p].outcome /\ f = proc[p].funds
      BY <1>0, <1>1, Before DEF CloseCycle, Remembers, Ending, At, Proc
    <2>3. Closing(c, o, f)
      BY <1>0, <1>1, <2>1, <2>2 DEF CloseCycle, Closing, Running, books, outbox, chain
    <2>4. /\ proc'[p].pc = "freeing" /\ proc'[p].key = c
          /\ proc'[p].outcome = o /\ proc'[p].funds = f
      BY <1>0, <1>1, <2>2, GotoWrites DEF CloseCycle, Key
    <2>5. QED
      BY <1>0, <2>2, <2>3, <2>4, ClosingMoves
  <1>2. CASE FreeSpend(p)
    <2>1. proc'[p].pc = "release"
      <3>1. \A m : [proc[p] EXCEPT !.pc = "release", !.move = m].pc = "release"
        BY <1>0 DEF Proc
      <3>2. \E m : proc' = [proc EXCEPT ![p] = [@ EXCEPT !.pc = "release", !.move = m]]
        BY <1>2 DEF FreeSpend
      <3>3. QED
        BY <1>0, <3>1, <3>2
    <2>2. CASE UNCHANGED spend
      <3>1. UNCHANGED data
        BY <1>2, <2>2 DEF FreeSpend, data, outbox
      <3>2. QED
        BY <1>0, <2>1, <3>1, WritesNothing, RestingKnows, HolderMoves DEF Resting
    <2>3. CASE proc[p].outcome # "BOUGHT" /\ Released(c)
      <3>1. NoSwap(c)
        <4>1. proc[p].outcome \in {"SKIPPED", "DEFERRED", "FAILED", "QUOTE"}
          BY <1>0, <2>3 DEF Proc, Outcomes, Fits
        <4>2. QED
          BY <1>0, <4>1 DEF Fits
      <3>2. Freeing(c)
        BY <1>2, <2>3, <3>1 DEF FreeSpend, Freeing, outbox, chain
      <3>3. Effect
        BY <3>2 DEF Effect, OnCycle, Upkeep
      <3>4. QED
        BY <1>0, <2>1, <3>3, RestingKnows, HolderMoves DEF Resting
    <2>4. QED
      BY <1>2, <2>2, <2>3 DEF FreeSpend
  <1>3. QED
    BY <1>1, <1>2

\* recoverInterrupted of a cycle that signed nothing.
LEMMA RecoverMoves ==
  ASSUME Inv, MoneyInv, NEW p \in Procs,
         Recover(p) \/ FreeInterrupted(p) \/ AdvanceInterrupted(p) \/ CloseInterrupted(p)
  PROVE  Moves(p)
  <1> SUFFICES ASSUME NEW c \in Keys, c = Key(p)
               PROVE  Moves(p)
    BY Before DEF Recover, FreeInterrupted, AdvanceInterrupted, CloseInterrupted, Remembers, Keyed,
                  Body, Locked, Completing, At
  <1>0. /\ proc \in [Procs -> Proc] /\ TypeOK /\ lock = p /\ HolderKnows(p) /\ Running(c)
        /\ Ledger(c) /\ "swap" \in Kinds
    BY Before, KindsAssumption DEF Recover, FreeInterrupted, AdvanceInterrupted, CloseInterrupted,
       Body, Locked, Slow, At, Knows, Working
  <1>1. cycle[c].signed = <<>> => AllWritten(c) /\ NoSwap(c)
    <2>1. cycle[c].signed = <<>> => SignedTx(c) = {}
      BY <1>0, SignedSplit
    <2>2. cycle[c].signed = <<>> => verdict[Swap(c)] = "none"
      BY <1>0, <2>1 DEF Ledger, Swap
    <2>3. QED
      BY <2>1, <2>2 DEF AllWritten, NoSwap
  <1>2. ASSUME Effect, Keeps(c), proc'[p].pc \in {"free", "advance", "close"}, proc'[p].key = c,
               cycle[c].signed = <<>>
        PROVE  Moves(p)
    <2>1. HolderKnows(p)' /\ CompleterKnows(p)'
      BY <1>2 DEF HolderKnows, CompleterKnows, At, Key, Keeps
    <2>2. QED
      BY <1>0, <1>2, <2>1, HolderMoves DEF MoneyKnown
  <1>3. CASE Recover(p)
    <2>1. UNCHANGED data
      BY <1>3 DEF Recover, data, books, outbox
    <2>2. CASE cycle[c].signed = <<>>
      <3>1. proc'[p].pc = "free" /\ proc'[p].key = c
        BY <1>0, <1>3, <2>2, GotoWrites DEF Recover, Key
      <3>2. QED
        BY <1>0, <1>2, <2>1, <2>2, <3>1, WritesNothing
    <2>3. CASE cycle[c].signed # <<>>
      <3>1. proc'[p].pc \in Resting
        BY <1>0, <1>3, <2>3, GotoWrites DEF Recover, Resting
      <3>2. QED
        BY <1>0, <2>1, <3>1, WritesNothing, RestingKnows, HolderMoves
    <2>4. QED
      BY <2>2, <2>3
  <1>4. CASE FreeInterrupted(p)
    <2>1. cycle[c].signed = <<>>
      BY <1>0, <1>4 DEF FreeInterrupted, HolderKnows, At
    <2>2. Freeing(c)
      BY <1>1, <1>4, <2>1 DEF FreeInterrupted, Freeing, outbox, chain
    <2>3. Effect /\ Keeps(c)
      BY <1>0, <2>2, UpkeepKeeps DEF Effect, OnCycle, Upkeep
    <2>4. proc'[p].pc = "advance" /\ proc'[p].key = c
      BY <1>0, <1>4, GotoWrites DEF FreeInterrupted, Key
    <2>5. QED
      BY <1>2, <2>1, <2>3, <2>4
  <1>5. CASE AdvanceInterrupted(p)
    <2>1. cycle[c].signed = <<>>
      BY <1>0, <1>5 DEF AdvanceInterrupted, HolderKnows, At
    <2>2. UNCHANGED data
      BY <1>5 DEF AdvanceInterrupted, data, books, outbox
    <2>3. proc'[p].pc = "close" /\ proc'[p].key = c
      BY <1>0, <1>5, GotoWrites DEF AdvanceInterrupted, Key
    <2>4. QED
      BY <1>0, <1>2, <2>1, <2>2, <2>3, WritesNothing
  <1>6. CASE CloseInterrupted(p)
    <2>1. cycle[c].signed = <<>>
      BY <1>0, <1>6 DEF CloseInterrupted, HolderKnows, At
    <2>2. Fits(c, "INTERRUPTED", "none")
      BY <1>1, <2>1 DEF Fits
    <2>3. Closing(c, "INTERRUPTED", "none")
      BY <1>0, <1>1, <1>6, <2>1, <2>2 DEF CloseInterrupted, Closing, Running, books, outbox, chain
    <2>4. proc'[p].pc \in Resting
      BY <1>0, <1>6, GotoWrites DEF CloseInterrupted, Recovered, Resting
    <2>5. QED
      BY <1>0, <2>3, <2>4, ClosingMoves DEF Outcomes
  <1>7. QED
    BY <1>3, <1>4, <1>5, <1>6

\* closeReviewedCycle.
LEMMA ReviewMoves ==
  ASSUME Inv, MoneyInv, NEW p \in Procs, Reviewed(p) \/ SpendReviewed(p) \/ CloseReviewed(p)
  PROVE  Moves(p)
  <1> SUFFICES ASSUME NEW c \in Keys, c = Key(p)
               PROVE  Moves(p)
    BY Before DEF Reviewed, SpendReviewed, CloseReviewed, Remembers, Keyed, Body, Locked,
                  Completing, At
  <1>0. /\ proc \in [Procs -> Proc] /\ TypeOK /\ lock = p /\ HolderKnows(p) /\ Ledger(c)
    BY Before DEF Reviewed, SpendReviewed, CloseReviewed, Body, Locked, Slow, At
  <1>1. ASSUME Effect, Held(c)', proc'[p].pc \in {"spend", "closeReviewed"}, proc'[p].key = c
        PROVE  Moves(p)
    <2>1. HolderKnows(p)' /\ CompleterKnows(p)'
      BY <1>1 DEF HolderKnows, CompleterKnows, At, Key
    <2>2. QED
      BY <1>0, <1>1, <2>1, HolderMoves DEF MoneyKnown
  <1>2. CASE Reviewed(p)
    <2>1. UNCHANGED data
      BY <1>2 DEF Reviewed, data, books, outbox
    <2>2. /\ proc'[p].key = c
          /\ proc'[p].pc = "release" \/ (proc'[p].pc = "spend" /\ Held(c))
      BY <1>0, <1>2, GotoWrites DEF Reviewed, Key
    <2>3. CASE proc'[p].pc = "release"
      BY <1>0, <2>1, <2>3, WritesNothing, RestingKnows, HolderMoves DEF Resting
    <2>4. CASE proc'[p].pc = "spend" /\ Held(c)
      BY <1>0, <1>1, <2>1, <2>2, <2>4, WritesNothing
    <2>5. QED
      BY <2>2, <2>3, <2>4
  <1>3. CASE SpendReviewed(p)
    <2>1. Held(c)
      BY <1>0, <1>3 DEF SpendReviewed, HolderKnows, At
    <2>2. Counting(c)
      BY <1>3, <2>1 DEF SpendReviewed, Counting, outbox, chain
    <2>3. Effect /\ Held(c)'
      BY <2>1, <2>2 DEF Effect, OnCycle, Upkeep, Counting, Held
    <2>4. proc'[p].pc = "closeReviewed" /\ proc'[p].key = c
      BY <1>0, <1>3, GotoWrites DEF SpendReviewed, Key
    <2>5. QED
      BY <1>1, <2>3, <2>4
  <1>4. CASE CloseReviewed(p)
    <2>1. Held(c)
      BY <1>0, <1>4 DEF CloseReviewed, HolderKnows, At
    <2>2. Anomalous(c) /\ AllWritten(c)
      BY <1>0, <2>1 DEF Held, Ledger
    <2>3. \A f : Fits(c, "CLOSED", f)
      BY <2>2 DEF Fits
    <2>4. PICK f \in {"none", "gas_only"} : Closed(c, "CLOSED", f)
      BY <1>4 DEF CloseReviewed
    <2>5. Closing(c, "CLOSED", f)
      BY <1>4, <2>1, <2>2, <2>3, <2>4 DEF CloseReviewed, Closing, Held, books, outbox, chain
    <2>6. proc'[p].pc \in Resting
      BY <1>0, <1>4, GotoWrites DEF CloseReviewed, Resting
    <2>7. QED
      BY <1>0, <2>4, <2>5, <2>6, ClosingMoves DEF Outcomes
  <1>5. QED
    BY <1>2, <1>3, <1>4

\* Completing a cycle takes no lock.  FindAwaiting reads one whose transactions have settled.
LEMMA FoundMoves ==
  ASSUME Inv, MoneyInv, NEW p \in Procs, NEW c \in Keys, FindAwaiting(p, c)
  PROVE  Moves(p)
  <1>0. proc \in [Procs -> Proc] /\ TypeOK /\ Ledger(c) /\ UNCHANGED data
    BY Before DEF FindAwaiting, data, books, outbox
  <1>1. /\ LastIs(c, cycle[c].waits) /\ Settled(c) /\ cycle[c].state = "awaiting"
    BY <1>0 DEF FindAwaiting, Held, Ledger, Settled
  <1>2. /\ \A k : LastIs(c, k)' <=> LastIs(c, k)
        /\ Settled(c)' /\ cycle'[c].state = "awaiting"
    BY <1>0, <1>1, WritesNothing, KeepsFacts DEF data
  <1>3. /\ proc'[p].pc = "effects" /\ proc'[p].key = c /\ proc'[p].kind = cycle[c].waits
    BY <1>0 DEF FindAwaiting, Idle
  <1>4. HolderKnows(p)' /\ CompleterKnows(p)'
    BY <1>1, <1>2, <1>3 DEF HolderKnows, CompleterKnows, At, Key
  <1>5. QED
    BY <1>0, <1>4, WritesNothing DEF Moves, MoneyKnown

\* What a completing process knows, expanded.
LEMMA CompletersCycle ==
  ASSUME Inv, MoneyInv, NEW p \in Procs, proc[p].pc \in {"effects", "unspend", "conclude"}
  PROVE  /\ Key(p) \in Keys /\ LastIs(Key(p), proc[p].kind) /\ Settled(Key(p))
         /\ proc[p].kind \in Kinds /\ Ledger(Key(p)) /\ TypeOK
         /\ SignedTx(Key(p)) = Earlier(Key(p)) \cup {<<Key(p), proc[p].kind>>}
         /\ cycle[Key(p)].state \in {"awaiting", "done"}
         /\ cycle[Key(p)].state = "awaiting" \/ cycle[Key(p)].outcome \in {"BOUGHT", "FAILED", "CLOSED"}
  <1>1. /\ Key(p) \in Keys /\ LastIs(Key(p), proc[p].kind) /\ Settled(Key(p)) /\ Ledger(Key(p))
        /\ cycle[Key(p)].state = "awaiting" \/ cycle[Key(p)].outcome \in {"BOUGHT", "FAILED", "CLOSED"}
        /\ TypeOK /\ cycle[Key(p)].state \in {"awaiting", "done"}
    BY Before DEF Remembers, Keyed, Completing, CompleterKnows, Knows
  <1>2. QED
    BY <1>1, SignedSplit DEF LastIs

\* Its writes are no matter to the others: the cycle is not running, and held only if its swap
\* brought nothing.
LEMMA CompleterMoves ==
  ASSUME Inv, MoneyInv, NEW p \in Procs, NEW c \in Keys, c = Key(p),
         proc[p].pc \in {"effects", "unspend", "conclude"}, Upkeep(c),
         Held(c) => Held(c)', MoneyKnown(p)'
  PROVE  Moves(p)
  <1>1. Effect
    BY DEF Effect, OnCycle
  <1>2. TypeOK /\ cycle[c].state \in {"awaiting", "done"}
    BY CompletersCycle
  <1>3. ASSUME NEW d \in Keys
        PROVE  Held(d) => Held(d)'
    <2>1. CASE d = c
      BY <2>1
    <2>2. CASE d # c
      <3>1. cycle \in [Keys -> Row]
        BY <1>2 DEF TypeOK
      <3>2. cycle' = cycle \/ \E r : cycle' = [cycle EXCEPT ![c] = r]
        BY DEF Upkeep, Opening, Deciding, Parking, Reserving, Freeing, Counting, Noting, Closing,
               Closed
      <3>3. QED
        BY <2>2, <3>1, <3>2 DEF Held
    <2>3. QED
      BY <2>1, <2>2
  <1>4. QED
    BY <1>1, <1>2, <1>3, UpkeepSpares DEF Moves

\* The effects that are not written down yet.
LEMMA ConfirmMoves ==
  ASSUME Inv, MoneyInv, NEW p \in Procs, ApplyConfirmed(p)
  PROVE  Moves(p)
  <1> SUFFICES ASSUME NEW c \in Keys, c = Key(p)
               PROVE  Moves(p)
    BY CompletersCycle DEF ApplyConfirmed, At
  <1>0. /\ TypeOK /\ LastIs(c, proc[p].kind) /\ Settled(c)
        /\ cycle[c].state \in {"awaiting", "done"}
        /\ cycle[c].state = "awaiting" \/ cycle[c].outcome \in {"BOUGHT", "FAILED", "CLOSED"}
        /\ proc[p].pc = "effects" /\ \A d \in Keys : Ledger(d)
    BY CompletersCycle, Before DEF ApplyConfirmed, At
  <1>1. PICK t \in Unwritten(c) : Written(t, "applied")
    BY DEF ApplyConfirmed
  <1>2. PICK k \in Kinds : t = <<c, k>>
    BY <1>0, SignedKinds DEF Unwritten
  <1>3. t \in Tx /\ Writing(t, "applied")
    BY <1>1, <1>2 DEF Unwritten, Writing, ApplyConfirmed, outbox, chain, Tx
  <1>4. Effect /\ UNCHANGED <<cycle, proc, lock>>
    BY <1>3 DEF Effect, OnTx, ApplyConfirmed, locks
  <1>5. ASSUME NEW d \in Keys
        PROVE  Spares(d)
    <2>1. Keeps(d)
      BY <1>0, <1>3, TxKeeps DEF OnTx
    <2>2. Running(d) => \A l \in Kinds : receipt'[<<d, l>>] = receipt[<<d, l>>]
      <3>1. receipt \in [Tx -> {"none", "recorded", "applied"}]
        BY <1>0 DEF TypeOK
      <3>2. Running(d) => d # c
        BY <1>0 DEF Running
      <3>3. QED
        BY <1>2, <1>3, <3>1, <3>2 DEF Writing, Written, Tx
    <2>3. QED
      BY <1>4, <2>1, <2>2 DEF Spares, Held
  <1>6. Settled(c)' /\ LastIs(c, proc[p].kind)'
    <2>1. Keeps(c) /\ UNCHANGED proc
      BY <1>4, <1>5 DEF Spares
    <2>2. Settled(c)' /\ \A x : LastIs(c, x)' <=> LastIs(c, x)
      BY <1>0, <2>1, KeepsFacts
    <2>3. QED
      BY <1>0, <2>1, <2>2
  <1>7. HolderKnows(p)' /\ CompleterKnows(p)'
    BY <1>0, <1>4, <1>6 DEF HolderKnows, CompleterKnows, At, Key
  <1>8. QED
    BY <1>4, <1>5, <1>7 DEF Moves, MoneyKnown

\* The outcome follows from the transaction it waited for.
LEMMA ConcludeMoves ==
  ASSUME Inv, MoneyInv, NEW p \in Procs, Conclude(p)
  PROVE  Moves(p)
  <1> SUFFICES ASSUME NEW c \in Keys, c = Key(p), NEW k \in Kinds, k = proc[p].kind,
                      NEW t, t = <<c, k>>
               PROVE  Moves(p)
    BY CompletersCycle DEF Conclude, At
  <1>0. /\ TypeOK /\ LastIs(c, k) /\ Settled(c) /\ Ledger(c)
        /\ SignedTx(c) = Earlier(c) \cup {t}
        /\ cycle[c].state \in {"awaiting", "done"}
        /\ cycle[c].state = "awaiting" \/ cycle[c].outcome \in {"BOUGHT", "FAILED", "CLOSED"}
        /\ proc[p].pc = "effects" /\ proc \in [Procs -> Proc]
    BY CompletersCycle, Before DEF Conclude, At
  <1>1. AllWritten(c)
    BY <1>0 DEF Conclude, Unwritten, Settled, AllWritten
  <1>2. CASE verdict[t] = "success" /\ k = "swap" /\ t \in empty
    <2>1. Anomalous(c)
      BY <1>2 DEF Anomalous, Swap
    <2>2. Noting(c, None)
      BY <1>1, <1>2, <2>1 DEF Conclude, Noting, books, outbox, chain
    <2>3. proc'[p].pc \in Resting
      <3>1. Goto(p, "pausing")
        BY <1>2 DEF Conclude
      <3>2. QED
        BY <1>0, <3>1, GotoWrites DEF Resting
    <2>4. Held(c) => Held(c)'
      BY <1>0, <2>2 DEF Noting, Held, TypeOK, Row
    <2>5. QED
      BY <1>0, <2>2, <2>3, <2>4, RestingKnows, CompleterMoves DEF Upkeep
  <1>3. CASE ~(verdict[t] = "success" /\ k = "swap" /\ t \in empty)
    <2> DEFINE bought == verdict[t] = "success" /\ k = "swap"
               mined == verdict[t] \in Sent!Mined \/ \E u \in SignedTx(c) : verdict[u] = "success"
    <2>1. UNCHANGED <<data, lock>>
      BY <1>3 DEF Conclude, data, books, outbox, locks
    <2>2. \E m : proc' = [proc EXCEPT ![p] =
                            [@ EXCEPT !.pc = IF bought THEN "conclude" ELSE "unspend",
                                      !.outcome = IF bought THEN "BOUGHT" ELSE "FAILED",
                                      !.funds = IF mined /\ ~bought THEN "gas_only" ELSE "none",
                                      !.move = m]]
      BY <1>3 DEF Conclude
    <2>3. /\ proc'[p].pc = IF bought THEN "conclude" ELSE "unspend"
          /\ proc'[p].key = c /\ proc'[p].kind = k
          /\ proc'[p].outcome = IF bought THEN "BOUGHT" ELSE "FAILED"
          /\ proc'[p].funds = IF mined /\ ~bought THEN "gas_only" ELSE "none"
      <3>1. ASSUME NEW r \in Proc, NEW x, NEW o, NEW f, NEW m
            PROVE  LET s == [r EXCEPT !.pc = x, !.outcome = o, !.funds = f, !.move = m] IN
                   s.pc = x /\ s.outcome = o /\ s.funds = f /\ s.key = r.key /\ s.kind = r.kind
        BY DEF Proc
      <3> HIDE DEF bought, mined
      <3>2. QED
        BY <1>0, <2>2, <3>1 DEF Key
    <2>4. bought => Bought(c)
      BY <1>3 DEF Bought, Swap
    <2>5. ~bought => NoSwap(c)
      <3>1. CASE k = "swap"
        BY <1>0, <3>1 DEF Settled, NoSwap, Swap
      <3>2. CASE k # "swap"
        <4>1. Swap(c) \notin SignedTx(c)
          BY <1>0, <3>2 DEF Ledger, Swap
        <4>2. verdict[Swap(c)] = "none"
          BY <4>1, <1>0, KindsAssumption DEF Ledger, Swap
        <4>3. QED
          BY <4>2 DEF NoSwap
      <3>3. QED
        BY <3>1, <3>2
    <2>6. ~mined => NothingSent(c)
      <3>1. ASSUME ~mined, NEW u \in SignedTx(c)
            PROVE  verdict[u] = "notSent"
        <4>1. u = t
          BY <1>0, <3>1 DEF Ledger
        <4>2. /\ verdict \in [Tx -> {"none", "open", "notSent"} \cup Sent!Mined] /\ t \in Tx
              /\ verdict[t] # "none" /\ verdict[t] # "open"
          BY <1>0, <3>1, <4>1 DEF TypeOK, Tx, Ledger, Settled
        <4>3. QED
          BY <3>1, <4>1, <4>2
      <3>2. QED
        BY <3>1 DEF NothingSent
    <2> HIDE DEF bought, mined
    <2>7. Fits(c, proc'[p].outcome, proc'[p].funds)
      BY <2>3, <2>4, <2>5, <2>6 DEF Fits
    <2>8. Fits(c, proc[p].outcome, proc[p].funds)'
      <3>1. \A o, f : Fits(c, o, f) => Fits(c, o, f)'
        BY <1>0, <2>1, WritesNothing, KeepsFacts
      <3>2. QED
        BY <2>7, <3>1
    <2>9. /\ AllWritten(c)' /\ Settled(c)' /\ LastIs(c, k)'
          /\ cycle'[c].state = "awaiting" \/ cycle'[c].outcome \in {"BOUGHT", "FAILED", "CLOSED"}
      BY <1>0, <1>1, <2>1, WritesNothing, KeepsFacts DEF data
    <2>10. HolderKnows(p)' /\ CompleterKnows(p)'
      BY <2>3, <2>8, <2>9 DEF HolderKnows, CompleterKnows, At, Key
    <2>11. QED
      BY <1>0, <2>1, <2>10, WritesNothing DEF Moves, MoneyKnown
  <1>4. QED
    BY <1>2, <1>3

\* The reservation freed, the cycle closed.
LEMMA CompleteMoves ==
  ASSUME Inv, MoneyInv, NEW p \in Procs, FreeAwaiting(p) \/ CloseAwaiting(p)
  PROVE  Moves(p)
  <1> SUFFICES ASSUME NEW c \in Keys, c = Key(p), NEW k \in Kinds, k = proc[p].kind
               PROVE  Moves(p)
    BY CompletersCycle DEF FreeAwaiting, CloseAwaiting, At
  <1>0. /\ TypeOK /\ LastIs(c, k) /\ Settled(c) /\ Ledger(c)
        /\ cycle[c].state \in {"awaiting", "done"}
        /\ cycle[c].state = "awaiting" \/ cycle[c].outcome \in {"BOUGHT", "FAILED", "CLOSED"}
        /\ proc[p].pc \in {"unspend", "conclude"} /\ proc \in [Procs -> Proc] /\ proc[p] \in Proc
        /\ cycle \in [Keys -> Row]
    BY CompletersCycle, Before DEF FreeAwaiting, CloseAwaiting, At
  <1>1. /\ AllWritten(c) /\ Fits(c, proc[p].outcome, proc[p].funds)
        /\ proc[p].outcome \in {"BOUGHT", "FAILED"}
        /\ At(p, "unspend") => proc[p].outcome = "FAILED"
    BY <1>0, Before DEF CompleterKnows
  <1>2. CASE FreeAwaiting(p)
    <2>1. NoSwap(c)
      BY <1>1, <1>2 DEF FreeAwaiting, Fits
    <2>2. Freeing(c)
      BY <1>2, <2>1 DEF FreeAwaiting, Freeing, outbox, chain
    <2>3. Keeps(c) /\ UNCHANGED cycle
      BY <1>0, <2>2, UpkeepKeeps DEF Upkeep, Freeing
    <2>4. /\ proc'[p].pc = "conclude" /\ proc'[p].key = c /\ proc'[p].kind = k
          /\ proc'[p].outcome = proc[p].outcome /\ proc'[p].funds = proc[p].funds
      BY <1>0, <1>2, GotoWrites DEF FreeAwaiting, Key
    <2>5. /\ AllWritten(c)' /\ Settled(c)' /\ LastIs(c, k)'
          /\ \A o, f : Fits(c, o, f) => Fits(c, o, f)'
          /\ cycle'[c].state = "awaiting" \/ cycle'[c].outcome \in {"BOUGHT", "FAILED", "CLOSED"}
      BY <1>0, <1>1, <2>3, KeepsFacts
    <2>6. HolderKnows(p)' /\ CompleterKnows(p)'
      BY <1>1, <2>4, <2>5 DEF HolderKnows, CompleterKnows, At, Key
    <2>7. QED
      BY <1>0, <2>2, <2>3, <2>6, CompleterMoves DEF Upkeep, MoneyKnown, Held
  <1>3. CASE CloseAwaiting(p)
    <2>1. PICK o \in Outcomes, f \in {"none", "gas_only"} : o = proc[p].outcome /\ f = proc[p].funds
      BY <1>0, <1>1 DEF Outcomes, Proc
    <2>2. Closing(c, o, f)
      BY <1>0, <1>1, <1>3, <2>1 DEF CloseAwaiting, Closing, books, outbox, chain
    <2>3. ~Held(c)
      BY <1>0, <1>1 DEF Held, Ledger, Fits, Bought, Anomalous, NoSwap
    <2>4. proc'[p].pc \in Resting
      BY <1>0, <1>3, GotoWrites DEF CloseAwaiting, Resting
    <2>5. QED
      BY <1>0, <2>1, <2>2, <2>3, <2>4, RestingKnows, CompleterMoves DEF Upkeep
  <1>4. QED
    BY <1>2, <1>3

-------------------------------------------------------------------------------
(***************************************************************************)
(* Every step, and the theorems.                                           *)
(***************************************************************************)
\* A step of a process.
LEMMA StepMoves ==
  ASSUME Inv, MoneyInv, NEW p \in Procs, Step(p)
  PROVE  Moves(p)
  <1>1. CASE Run(p)
    BY <1>1, LookMoves, OpenMoves, DecideMoves, RoundMoves, RecordMoves, WaitMoves, ApplyMoves,
       ParkMoves, RenewMoves, EndMoves DEF Run
  <1>2. CASE Settle(p)
    BY <1>2, LookMoves, ParkMoves, RecoverMoves, ConfirmMoves, ConcludeMoves, CompleteMoves
    DEF Settle
  <1>3. CASE Close(p)
    BY <1>3, LookMoves, ReviewMoves DEF Close
  <1>4. QED
    BY <1>1, <1>2, <1>3, LookMoves, FoundMoves DEF Step

\* A step of the world: a transaction leaves, is mined or settles, a lock lapses, the owner stops.
LEMMA WorldMoves ==
  ASSUME TypeOK, \A c \in Keys : Ledger(c),
         (\E t \in Tx : Reconcile(t) \/ Leave(t) \/ Mine(t)) \/ Lapse \/ Stop \/ UNCHANGED vars
  PROVE  Effect /\ UNCHANGED <<proc, lock>> /\ \A c \in Keys : Spares(c)
  <1>1. ASSUME NEW t \in Tx, Reconcile(t) \/ Leave(t) \/ Mine(t)
        PROVE  OnTx(t) /\ UNCHANGED <<proc, lock, cycle, receipt>>
    <2>1. CASE Reconcile(t)
      BY <2>1 DEF Reconcile, OnTx, Settling, Sent!Settle, books, locks
    <2>2. CASE Leave(t)
      BY <2>2 DEF Leave, OnTx, Leaving, Sent!Leave, books, locks
    <2>3. CASE Mine(t)
      BY <2>3 DEF Mine, OnTx, Mining, Sent!Mine, books, locks
    <2>4. QED
      BY <1>1, <2>1, <2>2, <2>3
  <1>2. ASSUME NEW t \in Tx, Reconcile(t) \/ Leave(t) \/ Mine(t), NEW c \in Keys
        PROVE  Spares(c)
    BY <1>1, <1>2, TxKeeps DEF Spares, Held
  <1>3. CASE Lapse \/ Stop \/ UNCHANGED vars
    <2>1. UNCHANGED <<data, proc, lock>>
      BY <1>3 DEF Lapse, Stop, vars, data, books, outbox, locks
    <2>2. QED
      BY <2>1, WritesNothing
  <1>4. QED
    BY <1>1, <1>2, <1>3 DEF Effect

\* Every step has one of the effects.
LEMMA NextEffect ==
  ASSUME Inv, MoneyInv, [Next]_vars
  PROVE  Effect
  <1>1. (\E p \in Procs : Step(p)) \/
        (\E t \in Tx : Reconcile(t) \/ Leave(t) \/ Mine(t)) \/ Lapse \/ Stop \/ UNCHANGED vars
    BY DEF Next, Step
  <1>2. QED
    BY <1>1, StepMoves, WorldMoves DEF Moves, Inv, MoneyInv

\* The invariant holds at first.
LEMMA MoneyInit == Init => MoneyInv
  <1> SUFFICES ASSUME Init
               PROVE  MoneyInv
    OBVIOUS
  <1>1. ASSUME NEW c \in Keys
        PROVE  Ledger(c)
    <2>1. cycle[c] = NoRow /\ cycle[c].signed = <<>> /\ cycle[c].state = "none"
      BY DEF Init, NoRow
    <2>2. SignedTx(c) = {} /\ Earlier(c) = {}
      BY <2>1 DEF SignedTx, Earlier
    <2>3. \A k \in Kinds : /\ <<c, k>> \in Tx /\ verdict[<<c, k>>] = "none"
                           /\ fate[<<c, k>>] = "kept" /\ receipt[<<c, k>>] = "none"
                           /\ <<c, k>> \notin empty
      BY DEF Init, Sent!Init, Tx
    <2>4. \A k \in Kinds : Chain(<<c, k>>)
      BY <2>3 DEF Chain, Sent!Mined
    <2>5. QED
      BY <2>1, <2>2, <2>3, <2>4, KindsAssumption DEF Ledger, Swap
  <1>2. \A p \in Procs : MoneyKnown(p)
    BY DEF Init, Idle, MoneyKnown, HolderKnows, CompleterKnows, At
  <1>3. QED
    BY <1>1, <1>2 DEF MoneyInv

\* Every step keeps it.
LEMMA MoneyStep ==
  ASSUME ~LateCatch, Inv, MoneyInv, [Next]_vars
  PROVE  MoneyInv'
  <1>1. \A c \in Keys : Ledger(c)'
    BY NextEffect, LedgerStep DEF Inv, MoneyInv
  <1>2. ASSUME NEW p \in Procs, Step(p), NEW q \in Procs
        PROVE  MoneyKnown(q)'
    <2>1. Moves(p) /\ Guarantees(p)
      BY <1>2, StepMoves, GuaranteeStep
    <2>2. CASE q = p
      BY <2>1, <2>2 DEF Moves
    <2>3. CASE q # p
      <3>1. proc'[q] = proc[q] /\ (lock' = q => lock = q)
        BY <2>1, <2>3, NoneAssumption DEF Guarantees
      <3>2. lock = q => \A c \in Keys : Spares(c)
        BY <2>1, <2>3 DEF Moves
      <3>3. QED
        BY <2>1, <3>1, <3>2, OthersKnow DEF Moves
    <2>4. QED
      BY <2>2, <2>3
  <1>3. ASSUME (\E t \in Tx : Reconcile(t) \/ Leave(t) \/ Mine(t)) \/ Lapse \/ Stop
               \/ UNCHANGED vars
        PROVE  \A q \in Procs : MoneyKnown(q)'
    BY <1>3, WorldMoves, OthersKnow DEF Inv, MoneyInv
  <1>4. (\E p \in Procs : Step(p)) \/
        (\E t \in Tx : Reconcile(t) \/ Leave(t) \/ Mine(t)) \/ Lapse \/ Stop \/ UNCHANGED vars
    BY DEF Next, Step
  <1>5. QED
    BY <1>1, <1>2, <1>3, <1>4 DEF MoneyInv

\* What the invariant says of the money.
LEMMA MoneySays ==
  ASSUME TypeOK, \A c \in Keys : Ledger(c)
  PROVE  MoneyTrue
  <1>1. SwapCounted
    BY DEF SwapCounted, Ledger, Swap
  <1>2. NothingLost
    BY DEF NothingLost, Ledger, AllWritten
  <1>3. ASSUME NEW c \in Keys, cycle[c].state = "done"
        PROVE  /\ cycle[c].outcome = "BOUGHT" =>
                    verdict[Swap(c)] = "success" /\ Swap(c) \notin empty /\ spend[c] = "spent"
               /\ cycle[c].outcome = "INTERRUPTED" => cycle[c].signed = <<>>
               /\ cycle[c].outcome = "FAILED" /\ cycle[c].funds = "none" =>
                    \A t \in SignedTx(c) : fate[t] = "kept"
               /\ verdict[Swap(c)] = "success" => cycle[c].outcome \in {"BOUGHT", "CLOSED"}
    <2>1. AllWritten(c) /\ Fits(c, cycle[c].outcome, cycle[c].funds) /\ Ledger(c)
      BY <1>3 DEF Ledger
    <2>2. cycle[c].outcome \in Outcomes \cup {"none"}
      BY DEF TypeOK, Row
    <2>3. Bought(c) => spend[c] = "spent"
      <3>1. Bought(c) => Swap(c) \in SignedTx(c)
        BY <2>1, KindsAssumption DEF Bought, Ledger, Swap
      <3>2. Bought(c) => receipt[Swap(c)] # "none"
        BY <2>1, <3>1 DEF Bought, AllWritten
      <3>3. receipt[Swap(c)] \in {"none", "recorded", "applied"}
        BY SignedKinds DEF TypeOK
      <3>4. QED
        BY <2>1, <3>2, <3>3 DEF Bought, Ledger
    <2>4. NothingSent(c) => \A t \in SignedTx(c) : fate[t] = "kept"
      <3>1. \A t \in SignedTx(c) : \E k \in Kinds : t = <<c, k>>
        BY SignedKinds
      <3>2. QED
        BY <2>1, <3>1 DEF NothingSent, Ledger, Chain
    <2>5. QED
      BY <2>1, <2>2, <2>3, <2>4 DEF Fits, Bought, NoSwap, Outcomes
  <1>4. OutcomeTrue
    BY <1>3 DEF OutcomeTrue, Swap
  <1>5. QED
    BY <1>1, <1>2, <1>4 DEF MoneyTrue

\* Every reachable state satisfies the invariant of the money.
THEOREM MoneyInvariant == ~LateCatch => (Spec => []MoneyInv)
  <1> SUFFICES ASSUME ~LateCatch
               PROVE  Spec => []MoneyInv
    OBVIOUS
  <1>1. Inv /\ MoneyInv /\ [Next]_vars => MoneyInv'
    BY MoneyStep
  <1>2. QED
    BY <1>1, MoneyInit, CycleInvariant, PTL DEF Spec

\* A swap that went through or still can is counted against the caps, a closed cycle has lost no
\* effect, and what it tells is what the chain did, whoever ran, recovered, completed or reviewed
\* it, and whatever died on the way (plan-lock.ts:25-30, cycle.ts:638).
THEOREM MoneyIsTrue == ~LateCatch => (Spec => []MoneyTrue)
  <1> SUFFICES ASSUME ~LateCatch
               PROVE  Spec => []MoneyTrue
    OBVIOUS
  <1>1. Inv /\ MoneyInv => MoneyTrue
    BY MoneySays DEF Inv, MoneyInv
  <1>2. QED
    BY <1>1, CycleInvariant, MoneyInvariant, PTL

\* What was closed is not opened or rewritten, also not by a completion that read the cycle
\* before another closed it; what is held for a person is closed by a person alone
\* (plan-lock.ts:10, review.ts:2-6).
THEOREM ClosedIsLeftAlone == ~LateCatch => (Spec => LeftAlone)
  <1> SUFFICES ASSUME ~LateCatch
               PROVE  Spec => LeftAlone
    OBVIOUS
  <1>1. Inv /\ MoneyInv /\ [Next]_vars =>
          [\A c \in Keys : cycle[c].state = "done" =>
             cycle'[c].state = "done" /\ cycle'[c].outcome = cycle[c].outcome]_vars
    BY NextEffect, Stays DEF Inv, MoneyInv
  <1>2. Inv /\ MoneyInv /\ [Next]_vars =>
          [\A c \in Keys : Held(c) => Held(c)' \/ cycle'[c].outcome = "CLOSED"]_vars
    BY NextEffect, Stays DEF Inv, MoneyInv
  <1>3. Spec => ClosedStays
    BY <1>1, CycleInvariant, MoneyInvariant, PTL DEF Spec, ClosedStays
  <1>4. Spec => HeldForPerson
    BY <1>2, CycleInvariant, MoneyInvariant, PTL DEF Spec, HeldForPerson
  <1>5. QED
    BY <1>3, <1>4 DEF LeftAlone
===============================================================================
