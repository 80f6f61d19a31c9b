----------------------------- MODULE OutboxProofs -----------------------------
(***************************************************************************)
(* The outbox, for any number of processes, plans and transactions, any    *)
(* lag of the node and any nonces: its types; that a settled row says what *)
(* the chain says and is never written again; that only the lock's holder  *)
(* records for a plan, and that nobody else sends what it is sending.      *)
(* With at most one process: one unsettled transaction, one transaction a  *)
(* nonce, and that Outbox implements TxOutcome.                            *)
(*                                                                         *)
(* OutboxInv is inductive.  What decides it is Apart: a process in the     *)
(* middle of a broadcast is within its lease (Leased), so that its plan's  *)
(* lock is in time and no reconciler takes its row up; a row changes hands *)
(* only through the lock.  A step is described by what it does to the rows *)
(* (RowMoves), to the chain (ChainMoves), to its own process and to the    *)
(* locks (ProcMoves, LocksMove); each part of the invariant follows from   *)
(* those, whichever action the step was.                                   *)
(*                                                                         *)
(* Alone, a process signs while nothing is unsettled and finds the rows of *)
(* its list as it left them (Alone); each of its steps then has one effect *)
(* (OwnEffect), which is a step of TxOutcome or none (PromiseStep).  With  *)
(* two processes AloneInv is not an invariant: a deposit job and a cycle   *)
(* may both pass the check of send.ts:153 before either records.           *)
(***************************************************************************)
EXTENDS Outbox, TLAPS

USE SignersAssumption, NoncesAssumption, LagAssumption, NoneAssumption

\* Where a process has a transaction of its own, or one it found unsettled.
Sending == {"api", "rpc", "mark", "wait"}
Looking == {"look", "resend", "remark", "rewait"}

\* What a process remembers fits the table: its plan, its transaction, its list.
Remembers(p) ==
  /\ proc[p].style # "none" => proc[p].plan \in Plans
  /\ proc[p].pc \in Signing \cup {"held"} => proc[p].style # "none"
  /\ proc[p].pc \in Sending \cup Looking => proc[p].tx \in Recorded
  /\ proc[p].pc \in Sending => row[proc[p].tx].plan = proc[p].plan
  /\ proc[p].todo \subseteq Recorded

\* A process inside a step shorter than the lease still has the lock, and its time.
Leased(p) == WithinLease(p) => HoldsLock(p) /\ live[proc[p].plan]

\* Nobody else sends what a process is sending, nor looks at it while the lock is held.
Apart(p, q) ==
  p # q /\ proc[p].pc \in Sending =>
    /\ proc[q].pc \in Sending => proc[q].tx # proc[p].tx
    /\ proc[p].style # "bare" /\ proc[q].pc \in Looking => proc[q].tx # proc[p].tx

\* What the table and the chain say of one transaction.
Truth(t) ==
  /\ t \in out => t \in Recorded
  /\ fate[t] # "none" => t \in out /\ row[t].nonce < height
  /\ row[t].status = "CONFIRMED" => fate[t] = "success"
  /\ row[t].status = "FAILED" /\ row[t].cause = "reverted" => fate[t] = "reverted"

OutboxInv ==
  /\ TypeOK
  /\ \A p \in Procs : Remembers(p) /\ Leased(p)
  /\ \A p, q \in Procs : Apart(p, q)
  /\ \A t \in Tx : Truth(t)

\* A step of process p, and a step of everything else.
Step(p) ==
  \/ \E l \in Plans, s \in Signers \ {"bare"} : Acquire(p, l, s)
  \/ \E l \in Plans : "bare" \in Signers /\ BeginBare(p, l)
  \/ Release(p) \/ Send(p) \/ Reconcile(p) \/ ReconcileStep(p) \/ Crash(p) \/ Throw(p)
Environment ==
  \/ \E l \in Plans : Lapse(l)
  \/ \E t \in Tx : Mine(t) \/ Gossip(t) \/ GrowStale(t)
  \/ MineForeign
-------------------------------------------------------------------------------
(***************************************************************************)
(* Types.                                                                  *)
(***************************************************************************)
Places == {"idle", "held"} \cup Signing \cup Reconciling
Replies == {"none", "answered", "silent", "ok", "definite", "unclear"}

\* The updates that the steps make of what a process remembers keep its type.
LEMMA Updates ==
  ASSUME NEW r \in Proc, NEW x \in Places
  PROVE  /\ [r EXCEPT !.pc = x] \in Proc
         /\ \A n \in Nat : [r EXCEPT !.pc = x, !.nonce = n] \in Proc
         /\ \A t \in Tx : [r EXCEPT !.pc = x, !.tx = t] \in Proc
         /\ \A a \in Replies : [r EXCEPT !.pc = x, !.reply = a] \in Proc
         /\ \A S \in SUBSET Tx : [r EXCEPT !.pc = x, !.tx = None, !.todo = S] \in Proc
  BY ZenonT(60) DEF Proc, Places, Replies

\* A task that begins.
LEMMA TaskUpdates ==
  /\ Idle \in Proc
  /\ \A x \in Places : \A s \in Styles \cup {"none"} : \A l \in Plans \cup {None} :
       [Idle EXCEPT !.pc = x, !.style = s, !.plan = l] \in Proc
  /\ \A x \in Places : \A S \in SUBSET Tx : [Idle EXCEPT !.pc = x, !.todo = S] \in Proc
  BY ZenonT(60) DEF Proc, Idle, Places, Replies

\* The updates of a row.
LEMMA RowUpdates ==
  ASSUME NEW r \in Row
  PROVE  /\ \A s \in Statuses : [r EXCEPT !.status = s] \in Row
         /\ \A s \in Statuses : \A c \in {"none", "refused", "reverted"} :
              [r EXCEPT !.status = s, !.cause = c] \in Row
         /\ \A s \in Statuses : [r EXCEPT !.status = s, !.sent = TRUE] \in Row
         /\ [r EXCEPT !.stale = TRUE] \in Row
  BY ZenonT(60) DEF Row

\* A new row.
LEMMA NewRow ==
  /\ NoRow \in Row
  /\ \A l \in Plans \cup {None} : \A k \in Kinds : \A n \in Nat :
       [NoRow EXCEPT !.status = "SIGNED", !.plan = l, !.kind = k, !.nonce = n] \in Row
  BY ZenonT(60) DEF Row, NoRow, Statuses, Unsettled

\* Returning to the caller.
LEMMA ReturnType ==
  ASSUME proc \in [Procs -> Proc], NEW p \in Procs, Return(p)
  PROVE  proc' \in [Procs -> Proc]
  <1>1. proc[p].style \in Styles \cup {"none"} /\ proc[p].plan \in Plans \cup {None}
    BY DEF Proc
  <1>2. [Idle EXCEPT !.pc = "held", !.style = proc[p].style, !.plan = proc[p].plan] \in Proc
    BY <1>1, TaskUpdates, Zenon DEF Places
  <1>3. QED
    BY <1>2, TaskUpdates, Zenon DEF Return

\* Going on with the list.
LEMMA NextRowType ==
  ASSUME proc \in [Procs -> Proc], NEW p \in Procs, NEW t, NextRow(p, t)
  PROVE  proc' \in [Procs -> Proc]
  <1>1. proc[p].todo \ {t} \in SUBSET Tx
    BY DEF Proc
  <1>2. [proc[p] EXCEPT !.pc = "next", !.tx = None, !.todo = proc[p].todo \ {t}] \in Proc
    BY <1>1, Updates, Zenon DEF Places, Reconciling
  <1>3. QED
    BY <1>2, TaskUpdates, Zenon DEF NextRow

\* A step on.
LEMMA GotoType ==
  ASSUME proc \in [Procs -> Proc], NEW p \in Procs, NEW x \in Places, Goto(p, x)
  PROVE  proc' \in [Procs -> Proc]
  <1>1. [proc[p] EXCEPT !.pc = x] \in Proc
    BY Updates
  <1>2. QED
    BY <1>1, Zenon DEF Goto

\* A broadcast's answer.
LEMMA ReplyType ==
  ASSUME proc \in [Procs -> Proc], NEW p \in Procs, NEW x \in Places, NEW a \in Replies,
         Reply(p, x, a)
  PROVE  proc' \in [Procs -> Proc]
  <1>1. [proc[p] EXCEPT !.pc = x, !.reply = a] \in Proc
    BY Updates, Zenon
  <1>2. QED
    BY <1>1, Zenon DEF Reply

\* Renewing the lock, or losing it.
LEMMA HoldType ==
  ASSUME TypeOK, NEW p \in Procs, NEW x \in Places, Hold(p, x)
  PROVE  /\ proc' \in [Procs -> Proc]
         /\ lock' = lock /\ live' \in [Plans -> BOOLEAN] /\ row' = row
  <1>1. proc \in [Procs -> Proc] /\ live \in [Plans -> BOOLEAN]
    BY DEF TypeOK
  <1>2. proc' \in [Procs -> Proc]
    BY <1>1, GotoType, TaskUpdates, Zenon DEF Hold
  <1>3. QED
    BY <1>1, <1>2 DEF Hold

\* A mark leaves a row a row.
LEMMA MarkedType ==
  ASSUME row \in [Tx -> Row], NEW t \in Tx, NEW from, NEW new \in Row, Marked(t, from, new)
  PROVE  row' \in [Tx -> Row]
  BY DEF Marked

\* The rows that marks write.
LEMMA MarksType ==
  ASSUME row \in [Tx -> Row], NEW t \in Tx
  PROVE  SettledRow(t) \in Row /\ PendingRow(t) \in Row /\ RefusedRow(t) \in Row
  BY RowUpdates, ZenonT(60) DEF SettledRow, PendingRow, RefusedRow, Statuses, Unsettled

\* Every step keeps the types.
LEMMA TypeStep ==
  ASSUME TypeOK, \A p \in Procs : Remembers(p), [Next]_vars
  PROVE  TypeOK'
  <1>0. /\ proc \in [Procs -> Proc] /\ row \in [Tx -> Row]
        /\ lock \in [Plans -> Procs \cup {None}] /\ live \in [Plans -> BOOLEAN]
    BY DEF TypeOK
  <1>1. ASSUME NEW p \in Procs, NEW l \in Plans, NEW s \in Signers, Acquire(p, l, s)
        PROVE  TypeOK'
    <2>1. [Idle EXCEPT !.pc = "held", !.style = s, !.plan = l] \in Proc
      BY TaskUpdates, Zenon DEF Places
    <2>2. proc' \in [Procs -> Proc]
      BY <1>0, <1>1, <2>1, Zenon DEF Acquire
    <2>3. QED
      BY <1>1, <2>2 DEF Acquire, network, TypeOK
  <1>2. ASSUME NEW p \in Procs, NEW l \in Plans, BeginBare(p, l)
        PROVE  TypeOK'
    <2>1. [Idle EXCEPT !.pc = "check", !.style = "bare", !.plan = l] \in Proc
      BY TaskUpdates, Zenon DEF Places, Signing, Styles
    <2>2. proc' \in [Procs -> Proc]
      BY <1>0, <1>2, <2>1, Zenon DEF BeginBare
    <2>3. QED
      BY <1>2, <2>2, Zenon DEF BeginBare, db, network, TypeOK
  <1>3. ASSUME NEW p \in Procs, Release(p)
        PROVE  TypeOK'
    BY <1>3, TaskUpdates DEF Release, network, TypeOK
  <1>4. ASSUME NEW p \in Procs, Begin(p)
        PROVE  TypeOK'
    <2>1. "check" \in Places
      BY DEF Places, Signing
    <2>2. QED
      BY <1>4, <2>1, HoldType DEF Begin, network, TypeOK
  <1>5. ASSUME NEW p \in Procs, CheckUnsettled(p)
        PROVE  TypeOK'
    <2>1. proc' \in [Procs -> Proc]
      BY <1>0, <1>5, GotoType, ReturnType DEF CheckUnsettled, Places, Signing
    <2>2. QED
      BY <1>5, <2>1, Zenon DEF CheckUnsettled, db, network, TypeOK
  <1>6. ASSUME NEW p \in Procs, ReadNonce(p)
        PROVE  TypeOK'
    <2>1. \A n \in PendingNonces : [proc[p] EXCEPT !.pc = "sign", !.nonce = n] \in Proc
      BY <1>0, Updates DEF PendingNonces, Places, Signing
    <2>2. proc' \in [Procs -> Proc]
      BY <1>0, <1>6, <2>1, Zenon DEF ReadNonce
    <2>3. QED
      BY <1>6, <2>2, Zenon DEF ReadNonce, db, network, TypeOK
  <1>7. ASSUME NEW p \in Procs, Sign(p)
        PROVE  TypeOK'
    <2>1. CASE Hold(p, "record")
      <3>1. "record" \in Places
        BY DEF Places, Signing
      <3>2. QED
        BY <1>7, <2>1, <3>1, HoldType DEF Sign, network, TypeOK
    <2>2. CASE Return(p) /\ UNCHANGED db
      BY <1>0, <1>7, <2>2, ReturnType DEF Sign, db, network, TypeOK
    <2>3. QED
      BY <1>7, <2>1, <2>2 DEF Sign
  <1>8. ASSUME NEW p \in Procs, Record(p)
        PROVE  TypeOK'
    <2>1. CASE Return(p) /\ UNCHANGED row
      BY <1>0, <1>8, <2>1, ReturnType DEF Record, network, TypeOK
    <2>2. CASE \E t \in Tx, k \in Kinds :
                 /\ row' = [row EXCEPT ![t] = [NoRow EXCEPT !.status = "SIGNED",
                              !.plan = proc[p].plan, !.kind = k, !.nonce = proc[p].nonce]]
                 /\ proc' = [proc EXCEPT ![p].pc = "api", ![p].tx = t]
      <3>1. PICK t \in Tx, k \in Kinds :
                 /\ row' = [row EXCEPT ![t] = [NoRow EXCEPT !.status = "SIGNED",
                              !.plan = proc[p].plan, !.kind = k, !.nonce = proc[p].nonce]]
                 /\ proc' = [proc EXCEPT ![p].pc = "api", ![p].tx = t]
        BY <2>2
      <3>2. proc[p].plan \in Plans \cup {None} /\ proc[p].nonce \in Nat
        BY <1>0 DEF Proc
      <3>3. [NoRow EXCEPT !.status = "SIGNED", !.plan = proc[p].plan, !.kind = k,
                          !.nonce = proc[p].nonce] \in Row
        BY <3>2, NewRow, Zenon
      <3>4. [proc[p] EXCEPT !.pc = "api", !.tx = t] \in Proc
        BY <1>0, Updates, Zenon DEF Places, Signing
      <3>5. row' \in [Tx -> Row] /\ proc' \in [Procs -> Proc]
        BY <1>0, <3>1, <3>3, <3>4, Zenon
      <3>6. QED
        BY <1>8, <3>5, Zenon DEF Record, network, TypeOK
    <2>3. QED
      BY <1>8, <2>1, <2>2, Zenon DEF Record
  <1>9. ASSUME NEW p \in Procs, Api(p)
        PROVE  TypeOK'
    <2>1. proc[p].tx \in Tx
      BY <1>9 DEF Api, At, Remembers, Sending, Recorded
    <2>2. proc' \in [Procs -> Proc]
      BY <1>0, <1>9, ReplyType DEF Api, Places, Signing, Replies
    <2>3. QED
      BY <1>9, <2>1, <2>2 DEF Api, KeptBack, GoOut, ReachNode, db, TypeOK
  <1>10. ASSUME NEW p \in Procs, Rpc(p)
         PROVE  TypeOK'
    <2>1. proc[p].tx \in Tx
      BY <1>10 DEF Rpc, At, Remembers, Sending, Recorded
    <2>2. proc' \in [Procs -> Proc]
      BY <1>0, <1>10, ReplyType DEF Rpc, NodePolicyReply, Places, Signing, Replies
    <2>3. QED
      BY <1>10, <2>1, <2>2 DEF Rpc, KeptBack, ReachNode, db, TypeOK
  <1>11. ASSUME NEW p \in Procs, Mark(p)
         PROVE  TypeOK'
    <2>1. proc[p].tx \in Tx
      BY <1>11 DEF Mark, At, Remembers, Sending, Recorded
    <2>2. proc' \in [Procs -> Proc]
      BY <1>0, <1>11, GotoType, ReturnType DEF Mark, Places, Signing
    <2>3. row' \in [Tx -> Row]
      BY <1>0, <1>11, <2>1, MarkedType, MarksType, Zenon DEF Mark
    <2>4. QED
      BY <1>11, <2>2, <2>3, Zenon DEF Mark, network, TypeOK
  <1>12. ASSUME NEW p \in Procs, Wait(p)
         PROVE  TypeOK'
    <2>1. proc[p].tx \in Tx
      BY <1>12 DEF Wait, At, Remembers, Sending, Recorded
    <2>2. proc' \in [Procs -> Proc]
      BY <1>0, <1>12, ReturnType DEF Wait
    <2>3. row' \in [Tx -> Row]
      BY <1>0, <1>12, <2>1, MarkedType, MarksType, Zenon DEF Wait
    <2>4. QED
      BY <1>12, <2>2, <2>3, Zenon DEF Wait, network, TypeOK
  <1>13. ASSUME NEW p \in Procs, Reconcile(p)
         PROVE  TypeOK'
    <2>1. UnsettledRows \in SUBSET Tx
      BY DEF UnsettledRows
    <2>2. [Idle EXCEPT !.pc = "next", !.todo = UnsettledRows] \in Proc
      BY <2>1, TaskUpdates, Zenon DEF Places, Reconciling
    <2>3. proc' \in [Procs -> Proc]
      BY <1>0, <1>13, <2>2, Zenon DEF Reconcile
    <2>4. QED
      BY <1>13, <2>3, Zenon DEF Reconcile, db, network, TypeOK
  <1>14. ASSUME NEW p \in Procs, LeaveToHolder(p)
         PROVE  TypeOK'
    <2>1. \A t \in Tx : [proc[p] EXCEPT !.pc = "look", !.tx = t] \in Proc
      BY <1>0, Updates, Zenon DEF Places, Reconciling
    <2>2. proc[p].todo \subseteq Tx
      BY <1>0 DEF Proc
    <2>3. PICK t \in proc[p].todo :
            IF BeingSent(t) THEN NextRow(p, t)
            ELSE proc' = [proc EXCEPT ![p].pc = "look", ![p].tx = t]
      BY <1>14 DEF LeaveToHolder
    <2>4. proc' \in [Procs -> Proc]
      <3>1. CASE NextRow(p, t)
        BY <1>0, <3>1, NextRowType
      <3>2. CASE proc' = [proc EXCEPT ![p].pc = "look", ![p].tx = t]
        BY <1>0, <2>1, <2>2, <3>2, Zenon
      <3>3. QED
        BY <2>3, <3>1, <3>2
    <2>5. QED
      BY <1>14, <2>4, Zenon DEF LeaveToHolder, db, network, TypeOK
  <1>15. ASSUME NEW p \in Procs, LookReceipt(p)
         PROVE  TypeOK'
    <2>1. proc[p].tx \in Tx
      BY <1>15 DEF LookReceipt, At, Remembers, Looking, Recorded
    <2>2. proc' \in [Procs -> Proc]
      BY <1>0, <1>15, NextRowType DEF LookReceipt
    <2>3. row' \in [Tx -> Row]
      BY <1>0, <1>15, <2>1, MarkedType, MarksType, Zenon DEF LookReceipt
    <2>4. QED
      BY <1>15, <2>2, <2>3, Zenon DEF LookReceipt, network, TypeOK
  <1>16. ASSUME NEW p \in Procs, LookUsed(p) \/ LookPool(p)
         PROVE  TypeOK'
    <2>1. proc' \in [Procs -> Proc]
      BY <1>0, <1>16, NextRowType, GotoType DEF LookUsed, LookPool, Places, Reconciling
    <2>2. QED
      BY <1>16, <2>1, Zenon DEF LookUsed, LookPool, db, network, TypeOK
  <1>17. ASSUME NEW p \in Procs, Resend(p)
         PROVE  TypeOK'
    <2>1. proc[p].tx \in Tx
      BY <1>17 DEF Resend, At, Remembers, Looking, Recorded
    <2>2. proc' \in [Procs -> Proc]
      BY <1>0, <1>17, GotoType DEF Resend, Places, Reconciling
    <2>3. QED
      BY <1>17, <2>1, <2>2 DEF Resend, KeptBack, ReachNode, db, TypeOK
  <1>18. ASSUME NEW p \in Procs, Remark(p) \/ Rewait(p)
         PROVE  TypeOK'
    <2>1. proc[p].tx \in Tx
      BY <1>18 DEF Remark, Rewait, At, Remembers, Looking, Recorded
    <2>2. proc' \in [Procs -> Proc]
      BY <1>0, <1>18, GotoType, NextRowType DEF Remark, Rewait, Places, Reconciling
    <2>3. row' \in [Tx -> Row]
      BY <1>0, <1>18, <2>1, MarkedType, MarksType, Zenon DEF Remark, Rewait
    <2>4. QED
      BY <1>18, <2>2, <2>3, Zenon DEF Remark, Rewait, network, TypeOK
  <1>19. ASSUME NEW p \in Procs, Crash(p) \/ Throw(p)
         PROVE  TypeOK'
    <2>1. proc' \in [Procs -> Proc]
      BY <1>0, <1>19, ReturnType, TaskUpdates DEF Crash, Throw
    <2>2. QED
      BY <1>19, <2>1, Zenon DEF Crash, Throw, db, network, TypeOK
  <1>20. ASSUME NEW l \in Plans, Lapse(l)
         PROVE  TypeOK'
    BY <1>20 DEF Lapse, network, TypeOK
  <1>21. ASSUME NEW t \in Tx, Mine(t) \/ Gossip(t)
         PROVE  TypeOK'
    BY <1>21 DEF Mine, Gossip, db, TypeOK
  <1>22. ASSUME NEW t \in Tx, GrowStale(t)
         PROVE  TypeOK'
    <2>1. [row[t] EXCEPT !.stale = TRUE] \in Row
      BY <1>0, RowUpdates
    <2>2. row' \in [Tx -> Row]
      BY <1>0, <1>22, <2>1, Zenon DEF GrowStale
    <2>3. QED
      BY <1>22, <2>2, Zenon DEF GrowStale, network, TypeOK
  <1>23. CASE MineForeign
    BY <1>23 DEF MineForeign, db, TypeOK
  <1>24. CASE UNCHANGED vars
    BY <1>24 DEF vars, TypeOK
  <1>25. QED
    BY <1>1, <1>2, <1>3, <1>4, <1>5, <1>6, <1>7, <1>8, <1>9, <1>10, <1>11, <1>12, <1>13, <1>14,
       <1>15, <1>16, <1>17, <1>18, <1>19, <1>20, <1>21, <1>22, <1>23, <1>24
    DEF Next, Send, ReconcileStep

-------------------------------------------------------------------------------
(***************************************************************************)
(* What a step may do to the table and to the chain.                       *)
(***************************************************************************)
\* A row is signed once; unsettled, it is marked, and settled by its receipt or a refusal.
RowMoves(t) ==
  \/ row'[t] = row[t]
  \/ row[t].status = "NEW" /\ row'[t].status = "SIGNED"
  \/ /\ row[t].status \in Unsettled
     /\ row'[t].status # "NEW"
     /\ row'[t].plan = row[t].plan /\ row'[t].nonce = row[t].nonce
     /\ row'[t].status = "CONFIRMED" => fate[t] = "success"
     /\ row'[t].status = "FAILED" /\ row'[t].cause = "reverted" => fate[t] = "reverted"

\* Recorded bytes leave once and for all, and are mined once, with their nonce.
ChainMoves(t) ==
  /\ t \in out => t \in out'
  /\ t \in out' => t \in out \cup Recorded
  /\ \/ fate'[t] = fate[t] /\ height <= height'
     \/ fate[t] = "none" /\ t \in out /\ row[t].nonce = height /\ height < height'

\* The three marks are such moves.
LEMMA MarksMove ==
  ASSUME row \in [Tx -> Row], fate \in [Tx -> {"none", "success", "reverted"}], NEW t \in Tx,
         \/ fate[t] # "none" /\ Marked(t, Unsettled, SettledRow(t))
         \/ Marked(t, Unsettled, PendingRow(t))
         \/ Marked(t, {"SIGNED"}, RefusedRow(t))
  PROVE  \A u \in Tx : RowMoves(u)
  <1>1. row[t] \in Row
    OBVIOUS
  <1>2. CASE fate[t] # "none" /\ Marked(t, Unsettled, SettledRow(t))
    BY <1>1, <1>2 DEF Marked, SettledRow, RowMoves, Row, Unsettled
  <1>3. CASE Marked(t, Unsettled, PendingRow(t))
    BY <1>1, <1>3 DEF Marked, PendingRow, RowMoves, Row, Unsettled
  <1>4. CASE Marked(t, {"SIGNED"}, RefusedRow(t))
    BY <1>1, <1>4 DEF Marked, RefusedRow, RowMoves, Row, Unsettled
  <1>5. QED
    BY <1>2, <1>3, <1>4

\* Every step moves the table that way.
LEMMA RowStep ==
  ASSUME TypeOK, \A p \in Procs : Remembers(p), [Next]_vars
  PROVE  \A t \in Tx : RowMoves(t)
  <1>0. row \in [Tx -> Row] /\ fate \in [Tx -> {"none", "success", "reverted"}]
    BY DEF TypeOK
  <1>1. ASSUME NEW p \in Procs, proc[p].pc \in Sending \cup Looking
        PROVE  proc[p].tx \in Tx
    BY <1>1 DEF Remembers, Recorded
  <1>2. CASE UNCHANGED row
    BY <1>2 DEF RowMoves
  <1>3. ASSUME NEW p \in Procs, Record(p)
        PROVE  \A t \in Tx : RowMoves(t)
    <2>1. CASE UNCHANGED row
      BY <2>1, <1>2
    <2>2. CASE \E t \in Tx \ Recorded, k \in Kinds :
                 row' = [row EXCEPT ![t] = [NoRow EXCEPT !.status = "SIGNED",
                           !.plan = proc[p].plan, !.kind = k, !.nonce = proc[p].nonce]]
      BY <1>0, <2>2 DEF Recorded, RowMoves, NoRow
    <2>3. QED
      BY <1>3, <2>1, <2>2, Zenon DEF Record
  <1>4. ASSUME NEW p \in Procs, Mark(p)
        PROVE  \A t \in Tx : RowMoves(t)
    BY <1>0, <1>1, <1>4, MarksMove DEF Mark, At, Sending
  <1>5. ASSUME NEW p \in Procs, Wait(p) \/ LookReceipt(p) \/ Rewait(p)
        PROVE  \A t \in Tx : RowMoves(t)
    BY <1>0, <1>1, <1>2, <1>5, MarksMove DEF Wait, LookReceipt, Rewait, At, Sending, Looking
  <1>6. ASSUME NEW p \in Procs, Remark(p)
        PROVE  \A t \in Tx : RowMoves(t)
    BY <1>0, <1>1, <1>6, MarksMove DEF Remark, At, Looking
  <1>7. ASSUME NEW t \in Tx, GrowStale(t)
        PROVE  \A u \in Tx : RowMoves(u)
    <2>1. row[t] \in Row
      BY <1>0
    <2>2. QED
      BY <1>0, <1>7, <2>1 DEF GrowStale, RowMoves, Row, Unsettled
  <1>8. ASSUME NEW p \in Procs,
               \/ \E l \in Plans, s \in Signers : Acquire(p, l, s)
               \/ \E l \in Plans : BeginBare(p, l)
               \/ Release(p) \/ Begin(p) \/ CheckUnsettled(p) \/ ReadNonce(p) \/ Sign(p)
               \/ Api(p) \/ Rpc(p) \/ Reconcile(p) \/ LeaveToHolder(p) \/ LookUsed(p)
               \/ LookPool(p) \/ Resend(p) \/ Crash(p) \/ Throw(p)
        PROVE  UNCHANGED row
    BY <1>8
    DEF Acquire, BeginBare, Release, Begin, Hold, CheckUnsettled, ReadNonce, Sign, Api, Rpc,
        Reconcile, LeaveToHolder, LookUsed, LookPool, Resend, Crash, Throw, db
  <1>9. ASSUME \/ \E l \in Plans : Lapse(l)
               \/ \E t \in Tx : Mine(t) \/ Gossip(t)
               \/ MineForeign \/ UNCHANGED vars
        PROVE  UNCHANGED row
    BY <1>9 DEF Lapse, Mine, Gossip, MineForeign, db, vars
  <1>10. QED
    BY <1>2, <1>3, <1>4, <1>5, <1>6, <1>7, <1>8, <1>9 DEF Next, Send, ReconcileStep

\* Every step moves the chain that way.
LEMMA ChainStep ==
  ASSUME TypeOK, \A p \in Procs : Remembers(p), \A t \in Tx : Truth(t), [Next]_vars
  PROVE  \A t \in Tx : ChainMoves(t)
  <1>0. fate \in [Tx -> {"none", "success", "reverted"}] /\ height \in Nat
    BY DEF TypeOK
  <1>1. CASE UNCHANGED <<out, fate, height>>
    BY <1>0, <1>1 DEF ChainMoves
  <1>2. ASSUME NEW p \in Procs, Api(p) \/ Rpc(p) \/ Resend(p)
        PROVE  \A t \in Tx : ChainMoves(t)
    <2>1. proc[p].tx \in Recorded
      BY <1>2 DEF Api, Rpc, Resend, At, Remembers, Sending, Looking
    <2>2. UNCHANGED <<fate, height>> /\ out' \in {out, out \cup {proc[p].tx}}
      BY <1>2 DEF Api, Rpc, Resend, KeptBack, GoOut, ReachNode
    <2>3. QED
      BY <1>0, <2>1, <2>2 DEF ChainMoves
  <1>3. ASSUME NEW t \in Tx, Mine(t)
        PROVE  \A u \in Tx : ChainMoves(u)
    <2>1. fate[t] = "none"
      BY <1>0, <1>3 DEF Mine, Truth
    <2>2. QED
      BY <1>0, <1>3, <2>1 DEF Mine, ChainMoves
  <1>4. CASE MineForeign
    BY <1>0, <1>4 DEF MineForeign, ChainMoves
  <1>5. ASSUME NEW p \in Procs,
               \/ \E l \in Plans, s \in Signers : Acquire(p, l, s)
               \/ \E l \in Plans : BeginBare(p, l)
               \/ Release(p) \/ Begin(p) \/ CheckUnsettled(p) \/ ReadNonce(p) \/ Sign(p)
               \/ Record(p) \/ Mark(p) \/ Wait(p) \/ Reconcile(p) \/ LeaveToHolder(p)
               \/ LookReceipt(p) \/ LookUsed(p) \/ LookPool(p) \/ Remark(p) \/ Rewait(p)
               \/ Crash(p) \/ Throw(p)
        PROVE  UNCHANGED <<out, fate, height>>
    BY <1>5
    DEF Acquire, BeginBare, Release, Begin, CheckUnsettled, ReadNonce, Sign, Record, Mark, Wait,
        Reconcile, LeaveToHolder, LookReceipt, LookUsed, LookPool, Remark, Rewait, Crash, Throw,
        network
  <1>6. ASSUME \/ \E l \in Plans : Lapse(l)
               \/ \E t \in Tx : Gossip(t) \/ GrowStale(t)
               \/ UNCHANGED vars
        PROVE  UNCHANGED <<out, fate, height>>
    BY <1>6 DEF Lapse, Gossip, GrowStale, network, vars
  <1>7. QED
    BY <1>1, <1>2, <1>3, <1>4, <1>5, <1>6 DEF Next, Send, ReconcileStep

\* What the table says of a transaction stays true.
LEMMA TruthKept ==
  ASSUME TypeOK, TypeOK', NEW t \in Tx, Truth(t), RowMoves(t), ChainMoves(t)
  PROVE  Truth(t)'
  <1>1. row[t] \in Row /\ row'[t] \in Row /\ height \in Nat /\ height' \in Nat
    BY DEF TypeOK
  <1>2. QED
    BY <1>1 DEF Truth, RowMoves, ChainMoves, Recorded, Row, Unsettled

-------------------------------------------------------------------------------
(***************************************************************************)
(* What a process's step does to itself and to the others.                 *)
(***************************************************************************)
\* It touches a lock only where nobody else holds it in time.
LocksMove(p) ==
  \A l \in Plans : \/ lock'[l] = lock[l] /\ live'[l] = live[l]
                   \/ lock[l] \in {None, p} \/ ~live[l]

\* It takes up a transaction only by recording it, or finding no lock held over it.
ProcMoves(p) ==
  /\ \A q \in Procs \ {p} : proc'[q] = proc[q]
  /\ proc'[p].pc \in Sending =>
       \/ proc[p].pc \in Sending /\ proc'[p].tx = proc[p].tx /\ proc'[p].style = proc[p].style
       \/ row[proc'[p].tx].status = "NEW"
  /\ proc'[p].pc \in Looking =>
       \/ proc[p].pc \in Looking /\ proc'[p].tx = proc[p].tx
       \/ ~live[row[proc'[p].tx].plan]

\* Where a process is, and what it remembers from one place to the next.
LEMMA ReturnMoves ==
  ASSUME proc \in [Procs -> Proc], NEW p \in Procs, Return(p)
  PROVE  /\ \A q \in Procs \ {p} : proc'[q] = proc[q]
         /\ proc'[p].pc \in {"idle", "held"} /\ proc'[p].todo = {}
         /\ proc'[p].pc = "held" => /\ proc'[p].style = proc[p].style /\ proc[p].style # "bare"
                                    /\ proc'[p].plan = proc[p].plan
         /\ proc'[p].pc = "idle" => proc'[p].style = "none"
  BY DEF Return, Idle

LEMMA NextRowMoves ==
  ASSUME proc \in [Procs -> Proc], NEW p \in Procs, NEW t, NextRow(p, t)
  PROVE  /\ \A q \in Procs \ {p} : proc'[q] = proc[q]
         /\ proc'[p].pc \in {"idle", "next"} /\ proc'[p].todo \subseteq proc[p].todo
         /\ proc'[p].style # "none" =>
              proc'[p].style = proc[p].style /\ proc'[p].plan = proc[p].plan
  <1>1. proc[p] \in Proc
    OBVIOUS
  <1>2. CASE proc[p].todo \subseteq {t}
    BY <1>2 DEF NextRow, Idle
  <1>3. CASE ~(proc[p].todo \subseteq {t})
    <2>1. proc' = [proc EXCEPT ![p] = [proc[p] EXCEPT !.pc = "next", !.tx = None,
                                                      !.todo = proc[p].todo \ {t}]]
      BY <1>3 DEF NextRow
    <2>2. QED
      BY <1>1, <2>1 DEF Proc
  <1>4. QED
    BY <1>2, <1>3

\* A process that has returned, or goes on with its list, keeps its own part.
LEMMA ReturnOwn ==
  ASSUME OutboxInv, NEW p \in Procs, proc[p].pc \in Signing, Return(p),
         UNCHANGED <<lock, live>>
  PROVE  ProcMoves(p) /\ LocksMove(p) /\ Remembers(p)' /\ Leased(p)'
  <1>1. proc \in [Procs -> Proc] /\ Remembers(p) /\ Leased(p)
    BY DEF OutboxInv, TypeOK
  <1>2. proc[p] \in Proc
    BY <1>1
  <1>3. ProcMoves(p) /\ LocksMove(p)
    BY <1>1, ReturnMoves DEF ProcMoves, LocksMove, Sending, Looking
  <1>4. Remembers(p)'
    BY <1>1, ReturnMoves DEF Remembers, Sending, Looking, Signing
  <1>5. Leased(p)'
    BY <1>1, ReturnMoves DEF Leased, WithinLease, HoldsLock
  <1>6. QED
    BY <1>3, <1>4, <1>5

LEMMA NextRowOwn ==
  ASSUME OutboxInv, NEW p \in Procs, NEW t, NextRow(p, t), UNCHANGED <<lock, live>>,
         \A u \in Tx : RowMoves(u)
  PROVE  ProcMoves(p) /\ LocksMove(p) /\ Remembers(p)' /\ Leased(p)'
  <1>1. proc \in [Procs -> Proc] /\ Remembers(p) /\ Leased(p)
    BY DEF OutboxInv, TypeOK
  <1>2. Recorded \subseteq Recorded'
    BY DEF Recorded, RowMoves
  <1>3. ProcMoves(p) /\ LocksMove(p)
    BY <1>1, NextRowMoves DEF ProcMoves, LocksMove, Sending, Looking
  <1>4. Remembers(p)'
    BY <1>1, <1>2, NextRowMoves DEF Remembers, Sending, Looking, Signing
  <1>5. Leased(p)'
    BY <1>1, NextRowMoves DEF Leased, WithinLease, HoldsLock
  <1>6. QED
    BY <1>3, <1>4, <1>5

\* An idle process has nothing to keep.
LEMMA IdleOwn ==
  ASSUME OutboxInv, NEW p \in Procs, proc' = [proc EXCEPT ![p] = Idle], UNCHANGED <<lock, live>>
  PROVE  ProcMoves(p) /\ LocksMove(p) /\ Remembers(p)' /\ Leased(p)'
  <1>1. proc \in [Procs -> Proc]
    BY DEF OutboxInv, TypeOK
  <1>2. QED
    BY <1>1 DEF ProcMoves, LocksMove, Remembers, Leased, WithinLease, Idle, Sending, Looking,
                Signing

\* Going on keeps the process's own part, unless it enters a step that it must be leased for.
LEMMA GotoOwn ==
  ASSUME OutboxInv, NEW p \in Procs, NEW x \in Places, Goto(p, x), UNCHANGED <<lock, live>>,
         \A u \in Tx : RowMoves(u),
         x \in Signing \cup {"held"} => proc[p].style # "none",
         x \in Sending => proc[p].pc \in Sending, x \in Looking => proc[p].pc \in Looking,
         x = "record" => proc[p].style # "leased" \/ (HoldsLock(p) /\ live[proc[p].plan])
  PROVE  ProcMoves(p) /\ LocksMove(p) /\ Remembers(p)' /\ Leased(p)'
  <1>1. proc \in [Procs -> Proc] /\ Remembers(p) /\ Leased(p) /\ row \in [Tx -> Row]
    BY DEF OutboxInv, TypeOK
  <1>2. proc'[p] = [proc[p] EXCEPT !.pc = x] /\ (\A q \in Procs \ {p} : proc'[q] = proc[q])
    BY <1>1 DEF Goto
  <1>3. /\ proc'[p].pc = x /\ proc'[p].style = proc[p].style /\ proc'[p].plan = proc[p].plan
        /\ proc'[p].tx = proc[p].tx /\ proc'[p].todo = proc[p].todo
    BY <1>1, <1>2 DEF Proc
  <1>4. Recorded \subseteq Recorded'
    BY DEF Recorded, RowMoves
  <1>5. ProcMoves(p) /\ LocksMove(p)
    BY <1>2, <1>3 DEF ProcMoves, LocksMove
  <1>6. Remembers(p)'
    <2>1. proc'[p].pc \in Sending => row'[proc'[p].tx].plan = proc'[p].plan
      BY <1>1, <1>3 DEF Remembers, RowMoves, Recorded
    <2>2. QED
      BY <1>1, <1>3, <1>4, <2>1 DEF Remembers
  <1>7. Leased(p)'
    BY <1>1, <1>3 DEF Leased, WithinLease, HoldsLock, Sending
  <1>8. QED
    BY <1>5, <1>6, <1>7

\* So does a broadcast's answer.
LEMMA ReplyOwn ==
  ASSUME OutboxInv, NEW p \in Procs, NEW x \in {"rpc", "mark"}, NEW a, Reply(p, x, a),
         proc[p].pc \in {"api", "rpc"}, UNCHANGED <<row, lock, live>>
  PROVE  ProcMoves(p) /\ LocksMove(p) /\ Remembers(p)' /\ Leased(p)'
  <1>1. proc \in [Procs -> Proc] /\ Remembers(p) /\ Leased(p) /\ row \in [Tx -> Row]
    BY DEF OutboxInv, TypeOK
  <1>2. /\ proc'[p].pc = x /\ proc'[p].style = proc[p].style /\ proc'[p].plan = proc[p].plan
        /\ proc'[p].tx = proc[p].tx /\ proc'[p].todo = proc[p].todo
        /\ \A q \in Procs \ {p} : proc'[q] = proc[q]
    BY <1>1 DEF Reply, Proc
  <1>3. ProcMoves(p) /\ LocksMove(p)
    BY <1>2 DEF ProcMoves, LocksMove, Sending, Looking
  <1>4. Remembers(p)'
    BY <1>1, <1>2 DEF Remembers, Sending, Looking, Signing, Recorded
  <1>5. Leased(p)'
    BY <1>1, <1>2 DEF Leased, WithinLease, HoldsLock
  <1>6. QED
    BY <1>3, <1>4, <1>5

\* Renewing the lock makes the process leased, and only the holder renews it.
LEMMA HoldOwn ==
  ASSUME OutboxInv, NEW p \in Procs, NEW x \in {"check", "record"}, Hold(p, x),
         proc[p].pc \in {"held", "sign"}
  PROVE  ProcMoves(p) /\ LocksMove(p) /\ Remembers(p)' /\ Leased(p)'
  <1>1. /\ proc \in [Procs -> Proc] /\ Remembers(p) /\ Leased(p) /\ row \in [Tx -> Row]
        /\ live \in [Plans -> BOOLEAN]
    BY DEF OutboxInv, TypeOK
  <1>2. UNCHANGED <<row, lock>> /\ proc[p].style # "none"
    BY <1>1 DEF Hold, Remembers, Signing
  <1>3. x \in Places /\ x \notin Sending \cup Looking /\ \A u \in Tx : RowMoves(u)
    BY <1>2 DEF Places, Signing, Sending, Looking, RowMoves
  <1>4. CASE proc[p].style # "leased"
    <2>1. Goto(p, x) /\ UNCHANGED live
      BY <1>4 DEF Hold
    <2>2. QED
      BY <1>2, <1>3, <1>4, <2>1, GotoOwn
  <1>5. CASE proc[p].style = "leased" /\ ~HoldsLock(p)
    BY <1>2, <1>5, IdleOwn DEF Hold
  <1>6. CASE proc[p].style = "leased" /\ HoldsLock(p)
    <2>1. Goto(p, x) /\ live' = [live EXCEPT ![proc[p].plan] = TRUE]
      BY <1>6 DEF Hold
    <2>2. /\ proc'[p].pc = x /\ proc'[p].style = proc[p].style /\ proc'[p].plan = proc[p].plan
          /\ proc'[p].todo = proc[p].todo /\ \A q \in Procs \ {p} : proc'[q] = proc[q]
      BY <1>1, <2>1 DEF Goto, Proc
    <2>3. proc[p].plan \in Plans
      BY <1>1, <1>6 DEF Remembers
    <2>4. ProcMoves(p)
      BY <1>3, <2>2 DEF ProcMoves
    <2>5. LocksMove(p)
      BY <1>1, <1>2, <1>6, <2>1 DEF LocksMove, HoldsLock
    <2>6. Remembers(p)'
      BY <1>1, <1>2, <1>3, <2>2 DEF Remembers, Recorded
    <2>7. Leased(p)'
      BY <1>1, <1>2, <1>6, <2>1, <2>2, <2>3 DEF Leased, HoldsLock
    <2>8. QED
      BY <2>4, <2>5, <2>6, <2>7
  <1>7. QED
    BY <1>4, <1>5, <1>6

\* Every step of a process keeps its own part.
LEMMA OwnStep ==
  ASSUME OutboxInv, NEW p \in Procs, Step(p), \A u \in Tx : RowMoves(u)
  PROVE  ProcMoves(p) /\ LocksMove(p) /\ Remembers(p)' /\ Leased(p)'
  <1> DEFINE Goal == ProcMoves(p) /\ LocksMove(p) /\ Remembers(p)' /\ Leased(p)'
  <1>0. /\ proc \in [Procs -> Proc] /\ row \in [Tx -> Row]
        /\ lock \in [Plans -> Procs \cup {None}] /\ live \in [Plans -> BOOLEAN]
        /\ Remembers(p) /\ Leased(p)
    BY DEF OutboxInv, TypeOK
  <1>1. ASSUME NEW l \in Plans, NEW s \in Signers \ {"bare"}, Acquire(p, l, s)
        PROVE  Goal
    <2>1. /\ proc'[p].pc = "held" /\ proc'[p].style = s /\ proc'[p].plan = l
          /\ proc'[p].todo = {} /\ \A q \in Procs \ {p} : proc'[q] = proc[q]
      BY <1>0, <1>1 DEF Acquire, Idle
    <2>2. /\ lock' = [lock EXCEPT ![l] = p] /\ live' = [live EXCEPT ![l] = TRUE]
          /\ lock[l] = None \/ ~live[l]
      BY <1>1 DEF Acquire
    <2>3. ProcMoves(p)
      BY <2>1 DEF ProcMoves, Sending, Looking
    <2>4. LocksMove(p)
      BY <1>0, <2>2 DEF LocksMove
    <2>5. Remembers(p)'
      BY <2>1 DEF Remembers, Sending, Looking, Signing, Styles
    <2>6. Leased(p)'
      BY <1>0, <2>1, <2>2 DEF Leased, HoldsLock
    <2>7. QED
      BY <2>3, <2>4, <2>5, <2>6
  <1>2. ASSUME NEW l \in Plans, BeginBare(p, l)
        PROVE  Goal
    BY <1>0, <1>2
    DEF BeginBare, Idle, ProcMoves, LocksMove, Remembers, Leased, WithinLease, Sending, Looking,
        Signing, db
  <1>3. CASE Release(p)
    <2>1. /\ proc'[p] = Idle /\ \A q \in Procs \ {p} : proc'[q] = proc[q]
      BY <1>0, <1>3 DEF Release
    <2>2. LocksMove(p)
      BY <1>0, <1>3 DEF Release, LocksMove, HoldsLock
    <2>3. ProcMoves(p) /\ Remembers(p)' /\ Leased(p)'
      BY <2>1 DEF ProcMoves, Remembers, Leased, WithinLease, Idle, Sending, Looking, Signing
    <2>4. QED
      BY <2>2, <2>3
  <1>4. CASE Begin(p)
    BY <1>4, HoldOwn DEF Begin, At
  <1>5. CASE CheckUnsettled(p)
    <2>1. At(p, "check") /\ UNCHANGED <<lock, live>> /\ (Goto(p, "nonce") \/ Return(p))
      BY <1>5 DEF CheckUnsettled, db
    <2>2. proc[p].pc \in Signing /\ proc[p].style # "none" /\ "nonce" \in Places
      BY <1>0, <2>1 DEF At, Remembers, Signing, Places
    <2>3. QED
      BY <2>1, <2>2, GotoOwn, ReturnOwn DEF Sending, Looking
  <1>6. CASE ReadNonce(p)
    <2>1. PICK n : proc' = [proc EXCEPT ![p].pc = "sign", ![p].nonce = n]
      BY <1>6 DEF ReadNonce
    <2>2. /\ proc'[p].pc = "sign" /\ proc'[p].style = proc[p].style
          /\ proc'[p].plan = proc[p].plan /\ proc'[p].todo = proc[p].todo
          /\ \A q \in Procs \ {p} : proc'[q] = proc[q]
      BY <1>0, <2>1 DEF Proc
    <2>3. At(p, "nonce") /\ UNCHANGED <<row, lock, live>>
      BY <1>6 DEF ReadNonce, db
    <2>4. ProcMoves(p) /\ LocksMove(p)
      BY <2>2, <2>3 DEF ProcMoves, LocksMove, Sending, Looking
    <2>5. Remembers(p)' /\ Leased(p)'
      BY <1>0, <2>2, <2>3
      DEF Remembers, Leased, WithinLease, HoldsLock, Sending, Looking, Signing, Recorded, At
    <2>6. QED
      BY <2>4, <2>5
  <1>7. CASE Sign(p)
    <2>1. CASE Hold(p, "record")
      BY <1>7, <2>1, HoldOwn DEF Sign, At
    <2>2. CASE Return(p) /\ UNCHANGED db
      BY <1>7, <2>2, ReturnOwn DEF Sign, At, Signing, db
    <2>3. QED
      BY <1>7, <2>1, <2>2 DEF Sign
  <1>8. CASE Record(p)
    <2>1. At(p, "record") /\ UNCHANGED <<lock, live>>
      BY <1>8 DEF Record
    <2>2. CASE Return(p)
      BY <2>1, <2>2, ReturnOwn DEF At, Signing
    <2>3. CASE \E t \in Tx \ Recorded, k \in Kinds :
                 /\ row' = [row EXCEPT ![t] = [NoRow EXCEPT !.status = "SIGNED",
                              !.plan = proc[p].plan, !.kind = k, !.nonce = proc[p].nonce]]
                 /\ proc' = [proc EXCEPT ![p].pc = "api", ![p].tx = t]
      <3>1. PICK t \in Tx \ Recorded, k \in Kinds :
                 /\ row' = [row EXCEPT ![t] = [NoRow EXCEPT !.status = "SIGNED",
                              !.plan = proc[p].plan, !.kind = k, !.nonce = proc[p].nonce]]
                 /\ proc' = [proc EXCEPT ![p].pc = "api", ![p].tx = t]
        BY <2>3
      <3>2. row'[t].status = "SIGNED" /\ row'[t].plan = proc[p].plan
        BY <1>0, <3>1 DEF NoRow
      <3>3. /\ proc'[p].pc = "api" /\ proc'[p].style = proc[p].style
            /\ proc'[p].plan = proc[p].plan /\ proc'[p].todo = proc[p].todo
            /\ proc'[p].tx = t /\ \A q \in Procs \ {p} : proc'[q] = proc[q]
        BY <1>0, <3>1 DEF Proc
      <3>4. row[t].status = "NEW" /\ Recorded \subseteq Recorded' /\ t \in Recorded'
        BY <3>1, <3>2 DEF Recorded, RowMoves
      <3>5. ProcMoves(p) /\ LocksMove(p)
        BY <2>1, <3>3, <3>4 DEF ProcMoves, LocksMove, Looking
      <3>6. Remembers(p)'
        BY <1>0, <2>1, <3>2, <3>3, <3>4 DEF Remembers, Signing, At
      <3>7. Leased(p)'
        BY <1>0, <2>1, <3>3 DEF Leased, WithinLease, HoldsLock, At
      <3>8. QED
        BY <3>5, <3>6, <3>7
    <2>4. QED
      BY <1>8, <2>2, <2>3, Zenon DEF Record
  <1>9. CASE Api(p)
    <2>1. /\ At(p, "api") /\ UNCHANGED <<row, lock, live>>
          /\ \E x \in {"rpc", "mark"} : \E a \in Replies : Reply(p, x, a)
      BY <1>9 DEF Api, db, Replies
    <2>2. QED
      BY <2>1, ReplyOwn DEF At
  <1>10. CASE Rpc(p)
    <2>1. At(p, "rpc") /\ UNCHANGED <<row, lock, live>> /\ \E a \in Replies : Reply(p, "mark", a)
      BY <1>10 DEF Rpc, NodePolicyReply, db, Replies
    <2>2. QED
      BY <2>1, ReplyOwn DEF At
  <1>11. CASE Mark(p)
    <2>1. At(p, "mark") /\ UNCHANGED <<lock, live>> /\ (Goto(p, "wait") \/ Return(p))
      BY <1>11 DEF Mark
    <2>2. /\ proc[p].pc \in Signing /\ proc[p].pc \in Sending /\ "wait" \in Places
          /\ proc[p].style # "none" /\ "wait" \notin Looking
      BY <1>0, <2>1 DEF At, Remembers, Signing, Sending, Looking, Places
    <2>3. QED
      BY <2>1, <2>2, GotoOwn, ReturnOwn
  <1>12. CASE Wait(p)
    BY <1>12, ReturnOwn DEF Wait, At, Signing
  <1>13. CASE Reconcile(p)
    <2>1. /\ proc'[p].pc = "next" /\ proc'[p].style = "none" /\ proc'[p].todo = UnsettledRows
          /\ \A q \in Procs \ {p} : proc'[q] = proc[q]
      BY <1>0, <1>13 DEF Reconcile, Idle
    <2>2. UnsettledRows \subseteq Recorded'
      BY <1>13 DEF Reconcile, UnsettledRows, Recorded, Unsettled, db
    <2>3. UNCHANGED <<lock, live>>
      BY <1>13 DEF Reconcile, db
    <2>4. QED
      BY <2>1, <2>2, <2>3
      DEF ProcMoves, LocksMove, Remembers, Leased, WithinLease, Sending, Looking, Signing
  <1>14. CASE LeaveToHolder(p)
    <2>1. At(p, "next") /\ UNCHANGED <<row, lock, live>>
      BY <1>14 DEF LeaveToHolder, db
    <2>2. PICK t \in proc[p].todo :
            IF BeingSent(t) THEN NextRow(p, t)
            ELSE proc' = [proc EXCEPT ![p].pc = "look", ![p].tx = t]
      BY <1>14 DEF LeaveToHolder
    <2>3. CASE NextRow(p, t)
      BY <2>1, <2>3, NextRowOwn
    <2>4. CASE ~live[row[t].plan] /\ proc' = [proc EXCEPT ![p].pc = "look", ![p].tx = t]
      <3>1. /\ proc'[p].pc = "look" /\ proc'[p].style = proc[p].style
            /\ proc'[p].plan = proc[p].plan /\ proc'[p].todo = proc[p].todo
            /\ proc'[p].tx = t /\ \A q \in Procs \ {p} : proc'[q] = proc[q]
        BY <1>0, <2>4 DEF Proc
      <3>2. t \in Recorded
        BY <1>0, <2>2 DEF Remembers
      <3>3. ProcMoves(p) /\ LocksMove(p)
        BY <2>1, <2>4, <3>1 DEF ProcMoves, LocksMove, Sending
      <3>4. Remembers(p)' /\ Leased(p)'
        BY <1>0, <2>1, <3>1, <3>2
        DEF Remembers, Leased, WithinLease, HoldsLock, Sending, Looking, Signing, Recorded
      <3>5. QED
        BY <3>3, <3>4
    <2>5. QED
      BY <2>2, <2>3, <2>4 DEF BeingSent
  <1>15. CASE LookReceipt(p) \/ LookUsed(p) \/ Rewait(p)
    <2>1. UNCHANGED <<lock, live>> /\ \E t : NextRow(p, t)
      BY <1>15 DEF LookReceipt, LookUsed, Rewait, db
    <2>2. QED
      BY <2>1, NextRowOwn
  <1>16. CASE LookPool(p)
    <2>1. /\ At(p, "look") /\ UNCHANGED <<lock, live>>
          /\ Goto(p, "remark") \/ Goto(p, "resend") \/ NextRow(p, proc[p].tx)
      BY <1>16 DEF LookPool, db
    <2>2. /\ proc[p].pc \in Looking /\ {"remark", "resend"} \subseteq Places
          /\ {"remark", "resend"} \cap (Sending \cup Signing \cup {"held", "record"}) = {}
      BY <2>1 DEF At, Looking, Sending, Signing, Places, Reconciling
    <2>3. QED
      BY <2>1, <2>2, GotoOwn, NextRowOwn
  <1>17. CASE Resend(p) \/ Remark(p)
    <2>1. /\ proc[p].pc \in Looking /\ UNCHANGED <<lock, live>>
          /\ \E x \in {"remark", "rewait"} : Goto(p, x)
      BY <1>17 DEF Resend, Remark, At, Looking, db
    <2>2. /\ {"remark", "rewait"} \subseteq Places
          /\ {"remark", "rewait"} \cap (Sending \cup Signing \cup {"held", "record"}) = {}
      BY DEF Looking, Sending, Signing, Places, Reconciling
    <2>3. QED
      BY <2>1, <2>2, GotoOwn
  <1>18. CASE Crash(p)
    BY <1>18, IdleOwn DEF Crash, db
  <1>19. CASE Throw(p)
    <2>1. UNCHANGED <<lock, live>>
      BY <1>19 DEF Throw, db
    <2>2. CASE proc[p].pc \in {"check", "nonce", "sign", "record", "api", "mark"} /\ Return(p)
      BY <2>1, <2>2, ReturnOwn DEF Signing
    <2>3. CASE proc' = [proc EXCEPT ![p] = Idle]
      BY <2>1, <2>3, IdleOwn
    <2>4. QED
      BY <1>19, <2>2, <2>3 DEF Throw
  <1>20. QED
    BY <1>1, <1>2, <1>3, <1>4, <1>5, <1>6, <1>7, <1>8, <1>9, <1>10, <1>11, <1>12, <1>13, <1>14,
       <1>15, <1>16, <1>17, <1>18, <1>19
    DEF Step, Send, ReconcileStep

-------------------------------------------------------------------------------
(***************************************************************************)
(* The invariant.                                                          *)
(***************************************************************************)
\* The others keep what they had.
LEMMA OthersKeep ==
  ASSUME OutboxInv, NEW p \in Procs, ProcMoves(p), LocksMove(p), \A u \in Tx : RowMoves(u),
         NEW q \in Procs, q # p
  PROVE  Remembers(q)' /\ Leased(q)'
  <1>1. proc'[q] = proc[q] /\ Remembers(q) /\ Leased(q)
    BY DEF ProcMoves, OutboxInv
  <1>2. Remembers(q)'
    <2>1. Recorded \subseteq Recorded'
      BY DEF Recorded, RowMoves
    <2>2. proc[q].pc \in Sending => row'[proc[q].tx].plan = row[proc[q].tx].plan
      BY <1>1 DEF Remembers, Recorded, RowMoves
    <2>3. QED
      BY <1>1, <2>1, <2>2 DEF Remembers
  <1>3. Leased(q)'
    BY <1>1 DEF Leased, WithinLease, HoldsLock, Remembers, LocksMove
  <1>4. QED
    BY <1>2, <1>3

\* Nobody comes to send, or look at, what another is sending.
LEMMA ApartStep ==
  ASSUME OutboxInv, NEW p \in Procs, ProcMoves(p), NEW q \in Procs, NEW r \in Procs
  PROVE  Apart(q, r)'
  <1>0. \A u \in Procs : proc[u].pc \in Sending \cup Looking => row[proc[u].tx].status # "NEW"
    BY DEF OutboxInv, Remembers, Recorded
  <1>1. CASE q # p /\ r # p
    BY <1>1 DEF OutboxInv, Apart, ProcMoves
  <1>2. CASE q = p /\ r # p
    <2>1. Apart(p, r) /\ proc'[r] = proc[r]
      BY <1>2 DEF OutboxInv, ProcMoves
    <2>2. QED
      BY <1>0, <1>2, <2>1 DEF Apart, ProcMoves
  <1>3. CASE q # p /\ r = p
    <2>1. Apart(p, q) /\ Apart(q, p) /\ proc'[q] = proc[q] /\ proc[q] \in Proc
      BY <1>3 DEF OutboxInv, ProcMoves, TypeOK
    <2>2. ASSUME proc[q].pc \in Sending, proc[q].style # "bare"
          PROVE  live[row[proc[q].tx].plan]
      <3>1. proc[q].style \in {"leased", "locked"}
        BY <2>1, <2>2 DEF OutboxInv, Remembers, Proc, Styles, Sending, Signing
      <3>2. WithinLease(q)
        BY <2>2, <3>1 DEF WithinLease, Sending
      <3>3. QED
        BY <2>2, <3>2 DEF OutboxInv, Leased, Remembers
    <2>3. QED
      BY <1>0, <1>3, <2>1, <2>2 DEF Apart, ProcMoves
  <1>4. CASE q = r
    BY <1>4 DEF Apart
  <1>5. QED
    BY <1>1, <1>2, <1>3, <1>4

\* The clock takes no lock from a process within its lease; the chain takes none at all.
LEMMA WorldKeeps ==
  ASSUME OutboxInv, Environment \/ UNCHANGED vars, \A u \in Tx : RowMoves(u)
  PROVE  /\ \A p \in Procs : Remembers(p)' /\ Leased(p)'
         /\ \A p, q \in Procs : Apart(p, q)'
  <1>1. UNCHANGED <<proc, lock>>
    BY DEF Environment, Lapse, Mine, Gossip, GrowStale, MineForeign, db, vars
  <1>2. \A p \in Procs : Remembers(p)'
    BY <1>1 DEF OutboxInv, Remembers, Recorded, RowMoves
  <1>3. \A p, q \in Procs : Apart(p, q)'
    BY <1>1 DEF OutboxInv, Apart
  <1>4. ASSUME NEW p \in Procs
        PROVE  Leased(p)'
    <2>1. CASE \E l \in Plans : Lapse(l)
      <3>1. PICK l \in Plans : Lapse(l)
        BY <2>1
      <3>2. live' = [live EXCEPT ![l] = FALSE] /\ live \in [Plans -> BOOLEAN]
        BY <3>1 DEF Lapse, OutboxInv, TypeOK
      <3>3. WithinLease(p) => proc[p].plan # l
        BY <3>1 DEF Lapse, OutboxInv, Leased, HoldsLock
      <3>4. QED
        BY <1>1, <3>2, <3>3 DEF OutboxInv, Leased, WithinLease, HoldsLock
    <2>2. CASE UNCHANGED live
      BY <1>1, <2>2 DEF OutboxInv, Leased, WithinLease, HoldsLock
    <2>3. QED
      BY <2>1, <2>2 DEF Environment, Mine, Gossip, GrowStale, MineForeign, db, vars
  <1>5. QED
    BY <1>2, <1>3, <1>4

\* The invariant holds initially.
LEMMA OutboxInit == Init => OutboxInv
  <1> SUFFICES ASSUME Init
               PROVE  OutboxInv
    OBVIOUS
  <1>1. TypeOK
    BY NewRow, TaskUpdates DEF Init, TypeOK
  <1>2. \A p \in Procs : Remembers(p) /\ Leased(p)
    BY DEF Init, Remembers, Leased, WithinLease, Idle, Sending, Looking, Signing
  <1>3. \A p, q \in Procs : Apart(p, q)
    BY DEF Init, Apart, Idle, Sending
  <1>4. \A t \in Tx : Truth(t)
    BY DEF Init, Truth, NoRow
  <1>5. QED
    BY <1>1, <1>2, <1>3, <1>4 DEF OutboxInv

\* A step is one of a process, or one of what surrounds them.
LEMMA Steps == Next <=> (\E p \in Procs : Step(p)) \/ Environment
  BY DEF Next, Step, Environment

\* Every step keeps it.
LEMMA OutboxStep ==
  ASSUME OutboxInv, [Next]_vars
  PROVE  OutboxInv'
  <1>1. TypeOK' /\ \A t \in Tx : RowMoves(t) /\ ChainMoves(t)
    BY TypeStep, RowStep, ChainStep DEF OutboxInv
  <1>2. \A t \in Tx : Truth(t)'
    BY <1>1, TruthKept DEF OutboxInv
  <1>3. ASSUME NEW p \in Procs, Step(p)
        PROVE  /\ \A q \in Procs : Remembers(q)' /\ Leased(q)'
               /\ \A q, r \in Procs : Apart(q, r)'
    <2>1. ProcMoves(p) /\ LocksMove(p) /\ Remembers(p)' /\ Leased(p)'
      BY <1>1, <1>3, OwnStep
    <2>2. QED
      BY <1>1, <2>1, OthersKeep, ApartStep
  <1>4. QED
    BY <1>1, <1>2, <1>3, Steps, WorldKeeps DEF OutboxInv

\* Every reachable state satisfies the invariant.
THEOREM OutboxInvariant == Spec => []OutboxInv
  <1>1. OutboxInv /\ [Next]_vars => OutboxInv'
    BY OutboxStep
  <1>2. QED
    BY <1>1, OutboxInit, PTL DEF Spec

\* The types of the table, the locks, the chain and what the processes remember.
THEOREM OutboxTypes == Spec => []TypeOK
  <1>1. OutboxInv => TypeOK
    BY DEF OutboxInv
  <1>2. QED
    BY <1>1, OutboxInvariant, PTL

\* Whoever settles a row, it says what the chain says: "A row is never marked FAILED on a
\* guess" (send.ts:284).
THEOREM ReceiptsDecideAll == Spec => []ReceiptsDecide
  <1>1. OutboxInv => ReceiptsDecide
    BY DEF OutboxInv, Truth, ReceiptsDecide
  <1>2. QED
    BY <1>1, OutboxInvariant, PTL

\* A process that read a row before another settled it does not write it again
\* (markOutbox's compare-and-set, queue.ts:92).
THEOREM SettledIsFinal == Spec => SettledFinal
  <1>1. OutboxInv /\ [Next]_vars =>
          [\A t \in Tx : row[t].status \in {"CONFIRMED", "FAILED"} => row'[t] = row[t]]_vars
    BY RowStep DEF OutboxInv, RowMoves, Unsettled
  <1>2. QED
    BY <1>1, OutboxInvariant, PTL DEF Spec, SettledFinal

\* A process records a transaction for a plan only while it holds the plan's lock, and nobody
\* else sends what it is broadcasting (send.ts:179, send.ts:288).
THEOREM HolderSends == Spec => HolderAlone
  <1>1. ASSUME OutboxInv, [Next]_vars, NEW p \in Procs, At(p, "record"), proc[p].style # "bare"
        PROVE  HoldsLock(p) /\ live[proc[p].plan]
    <2>1. proc[p] \in Proc /\ proc[p].style # "none"
      BY <1>1 DEF OutboxInv, TypeOK, Remembers, At, Signing
    <2>2. WithinLease(p)
      BY <1>1, <2>1 DEF WithinLease, Proc, Styles, At
    <2>3. QED
      BY <1>1, <2>2 DEF OutboxInv, Leased
  <1>2. ASSUME OutboxInv, [Next]_vars, NEW p \in Procs, proc[p].pc \in {"api", "rpc", "mark"},
               proc[p].style # "bare", proc[p].tx \in out' \ out
        PROVE  proc'[p] # proc[p]
    <2>1. PICK q \in Procs : (Api(q) \/ Rpc(q) \/ Resend(q)) /\ proc[q].tx = proc[p].tx
      <3>1. out' # out
        BY <1>2
      <3>2. \E q \in Procs : Api(q) \/ Rpc(q) \/ Resend(q)
        BY <1>2, <3>1
        DEF Next, Send, ReconcileStep, Acquire, BeginBare, Release, Begin, CheckUnsettled,
            ReadNonce, Sign, Record, Mark, Wait, Reconcile, LeaveToHolder, LookReceipt, LookUsed,
            LookPool, Remark, Rewait, Crash, Throw, Lapse, Mine, Gossip, GrowStale, MineForeign,
            network, vars
      <3>3. QED
        BY <1>2, <3>2 DEF Api, Rpc, Resend, KeptBack, GoOut, ReachNode
    <2>2. q = p
      BY <1>2, <2>1 DEF OutboxInv, Apart, Api, Rpc, Resend, At, Sending, Looking
    <2>3. Api(p) \/ Rpc(p)
      BY <1>2, <2>1, <2>2 DEF Resend, At
    <2>4. proc \in [Procs -> Proc]
      BY <1>2 DEF OutboxInv, TypeOK
    <2>5. QED
      BY <2>3, <2>4 DEF Api, Rpc, Reply, At, Proc
  <1>3. OutboxInv /\ [Next]_vars =>
          /\ [\A p \in Procs : At(p, "record") /\ proc'[p].pc = "api" /\ proc[p].style # "bare"
                                 => HoldsLock(p) /\ live[proc[p].plan]]_vars
          /\ [\A p \in Procs : proc[p].pc \in {"api", "rpc", "mark"} /\ proc[p].style # "bare"
                                 /\ proc[p].tx \in out' \ out => proc'[p] # proc[p]]_vars
    BY <1>1, <1>2
  <1>4. QED
    BY <1>3, OutboxInvariant, PTL DEF Spec, HolderAlone, HolderRecords, NotSentAround


-------------------------------------------------------------------------------
(***************************************************************************)
(* One process, which may die at any step and start again.                 *)
(***************************************************************************)
\* It signs while nothing is unsettled, and goes through a list of unsettled rows that
\* nobody else settles; what it is told was refused has not left.
Alone(p) ==
  /\ proc[p].pc \in {"nonce", "sign", "record"} => UnsettledRows = {}
  /\ proc[p].pc \in Sending => UnsettledRows = {proc[p].tx}
  /\ proc[p].pc \in Reconciling => proc[p].todo \subseteq UnsettledRows
  /\ proc[p].pc \in Looking => proc[p].tx \in proc[p].todo
  /\ proc[p].pc = "api" => proc[p].tx \notin out
  /\ proc[p].pc \in {"rpc", "mark"} /\ proc[p].reply \in {"answered", "definite"} =>
       proc[p].tx \notin out

\* A failure says why: it reverted on chain, or it was refused.
FailedWhy == \A t \in Tx : row[t].status = "FAILED" => row[t].cause # "none"

AloneInv ==
  /\ OneUnsettled
  /\ NotSentNeverLeft
  /\ FailedWhy
  /\ \A p \in Procs : Alone(p)

\* At most one process: the hypothesis of what follows.
AtMostOne == \A p, q \in Procs : p = q

\* Going on changes where a process is, and an answer what it was told.
LEMMA GotoSame ==
  ASSUME proc \in [Procs -> Proc], NEW p \in Procs, NEW x, Goto(p, x)
  PROVE  /\ proc'[p].pc = x /\ proc'[p].tx = proc[p].tx /\ proc'[p].todo = proc[p].todo
         /\ proc'[p].reply = proc[p].reply
  BY DEF Goto, Proc

LEMMA ReplySame ==
  ASSUME proc \in [Procs -> Proc], NEW p \in Procs, NEW x, NEW a, Reply(p, x, a)
  PROVE  /\ proc'[p].pc = x /\ proc'[p].tx = proc[p].tx /\ proc'[p].todo = proc[p].todo
         /\ proc'[p].reply = a
  BY DEF Reply, Proc

\* A process that waits for its next task has nothing to keep.
LEMMA RestingAlone ==
  ASSUME NEW p \in Procs, proc'[p].pc \in {"idle", "held", "check"}
  PROVE  Alone(p)'
  BY DEF Alone, Sending, Looking, Reconciling

\* Going on with the list: what is left of it was not touched.
LEMMA NextRowAlone ==
  ASSUME proc \in [Procs -> Proc], NEW p \in Procs, Alone(p), proc[p].pc \in Reconciling,
         NEW t, NextRow(p, t), UnsettledRows \ {t} \subseteq UnsettledRows'
  PROVE  Alone(p)'
  <1>1. proc[p] \in Proc
    OBVIOUS
  <1>2. CASE proc[p].todo \subseteq {t}
    BY <1>2, RestingAlone DEF NextRow, Idle
  <1>3. CASE ~(proc[p].todo \subseteq {t})
    <2>1. proc' = [proc EXCEPT ![p] = [proc[p] EXCEPT !.pc = "next", !.tx = None,
                                                      !.todo = proc[p].todo \ {t}]]
      BY <1>3 DEF NextRow
    <2>2. proc'[p].pc = "next" /\ proc'[p].todo = proc[p].todo \ {t}
      BY <1>1, <2>1 DEF Proc
    <2>3. QED
      BY <2>2 DEF Alone, Sending, Looking
  <1>4. QED
    BY <1>2, <1>3

\* A mark of an unsettled row settles that row at most.
LEMMA MarkedUnsettled ==
  ASSUME row \in [Tx -> Row], NEW t \in Tx, NEW from, from \subseteq Unsettled, NEW new,
         Marked(t, from, new)
  PROVE  /\ UnsettledRows \ {t} \subseteq UnsettledRows' /\ UnsettledRows' \subseteq UnsettledRows
         /\ new.status \in Unsettled => UnsettledRows' = UnsettledRows
  BY DEF Marked, UnsettledRows

\* The rows that a receipt, a broadcast and a refusal leave.
LEMMA MarkedRows ==
  ASSUME row \in [Tx -> Row], NEW t \in Tx
  PROVE  /\ PendingRow(t).status = "PENDING"
         /\ RefusedRow(t).status = "FAILED" /\ RefusedRow(t).cause = "refused"
         /\ SettledRow(t).status = IF fate[t] = "success" THEN "CONFIRMED" ELSE "FAILED"
         /\ fate[t] # "success" => SettledRow(t).cause = "reverted"
  <1>1. row[t] \in Row
    OBVIOUS
  <1>2. QED
    BY <1>1 DEF PendingRow, RefusedRow, SettledRow, Row

\* What a step of the process does to the rows and to the bytes that are out.
Quiet == UNCHANGED <<row, out, fate>>
Recording(t) ==
  /\ t \in Tx /\ row[t].status = "NEW" /\ UnsettledRows = {}
  /\ row'[t].status = "SIGNED"
  /\ \A u \in Tx \ {t} : row'[u] = row[u]
  /\ UNCHANGED <<out, fate>>
Leaving(t) ==
  /\ t \in UnsettledRows
  /\ out' = out \cup {t}
  /\ UNCHANGED <<row, fate>>
Settling(t) ==
  /\ t \in Tx /\ fate[t] # "none"
  /\ Marked(t, Unsettled, SettledRow(t))
  /\ UNCHANGED <<out, fate>>
Pending(t) ==
  /\ t \in Tx /\ Marked(t, Unsettled, PendingRow(t))
  /\ UNCHANGED <<out, fate>>
Refusing(t) ==
  /\ t \in Tx \ out /\ Marked(t, {"SIGNED"}, RefusedRow(t))
  /\ UNCHANGED <<out, fate>>
OwnEffect ==
  Quiet \/ \E t \in Tx : Recording(t) \/ Leaving(t) \/ Settling(t) \/ Pending(t) \/ Refusing(t)
Mining(t) ==
  /\ t \in Tx /\ t \in out /\ fate[t] = "none" /\ UNCHANGED <<row, out>>
  /\ \E f \in {"success", "reverted"} : fate' = [fate EXCEPT ![t] = f]
Staling(t) ==
  /\ t \in Tx /\ row[t].status \in Unsettled
  /\ row' = [row EXCEPT ![t].stale = TRUE] /\ UNCHANGED <<out, fate>>

\* Every step has one of these effects, and leaves the process what it is when alone.
LEMMA AloneStep ==
  ASSUME OutboxInv, NEW p \in Procs, Alone(p), Step(p)
  PROVE  OwnEffect /\ Alone(p)'
  <1>0. /\ proc \in [Procs -> Proc] /\ row \in [Tx -> Row] /\ proc[p] \in Proc
        /\ Remembers(p) /\ \A t \in Tx : Truth(t)
    BY DEF OutboxInv, TypeOK
  <1>a. UNCHANGED row => UnsettledRows' = UnsettledRows
    BY DEF UnsettledRows
  <1>1. CASE \/ \E l \in Plans, s \in Signers \ {"bare"} : Acquire(p, l, s)
             \/ \E l \in Plans : BeginBare(p, l)
    <2>1. Quiet
      BY <1>1 DEF Acquire, BeginBare, Quiet, db, network
    <2>2. proc'[p].pc \in {"held", "check"}
      <3>1. CASE \E l \in Plans, s \in Signers \ {"bare"} : Acquire(p, l, s)
        BY <1>0, <3>1 DEF Acquire, Idle
      <3>2. CASE \E l \in Plans : BeginBare(p, l)
        BY <1>0, <3>2 DEF BeginBare, Idle
      <3>3. QED
        BY <1>1, <3>1, <3>2
    <2>3. QED
      BY <2>1, <2>2, RestingAlone DEF OwnEffect
  <1>2. CASE Release(p) \/ Crash(p)
    <2>1. proc'[p].pc = "idle" /\ Quiet
      BY <1>0, <1>2 DEF Release, Crash, Idle, Quiet, db, network
    <2>2. QED
      BY <2>1, RestingAlone DEF OwnEffect
  <1>3. CASE Begin(p)
    <2>1. proc'[p].pc \in {"idle", "check"} /\ Quiet
      BY <1>0, <1>3, GotoSame DEF Begin, Hold, Idle, Quiet, network
    <2>2. QED
      BY <2>1, RestingAlone DEF OwnEffect
  <1>4. CASE CheckUnsettled(p)
    <2>1. Quiet /\ At(p, "check")
      BY <1>4 DEF CheckUnsettled, Quiet, db, network
    <2>2. CASE UnsettledRows = {} /\ Goto(p, "nonce")
      BY <1>0, <1>a, <2>1, <2>2, GotoSame
      DEF Alone, OwnEffect, Quiet, Sending, Looking, Reconciling
    <2>3. CASE Return(p)
      BY <1>0, <2>1, <2>3, ReturnMoves, RestingAlone DEF OwnEffect
    <2>4. QED
      BY <1>4, <2>2, <2>3 DEF CheckUnsettled
  <1>5. CASE ReadNonce(p)
    <2>1. Quiet /\ At(p, "nonce") /\ proc'[p].pc = "sign"
      BY <1>0, <1>5 DEF ReadNonce, Quiet, db, network, Proc
    <2>2. QED
      BY <1>a, <2>1 DEF Alone, At, OwnEffect, Quiet, Sending, Looking, Reconciling
  <1>6. CASE Sign(p)
    <2>1. Quiet /\ At(p, "sign") /\ proc'[p].pc \in {"idle", "held", "record"}
      BY <1>0, <1>6, GotoSame, ReturnMoves DEF Sign, Hold, Idle, Quiet, db, network
    <2>2. QED
      BY <1>a, <2>1 DEF Alone, At, OwnEffect, Quiet, Sending, Looking, Reconciling
  <1>7. CASE Record(p)
    <2>1. At(p, "record") /\ UnsettledRows = {} /\ UNCHANGED <<out, fate>>
      BY <1>7 DEF Record, At, Alone, network
    <2>2. CASE Return(p) /\ UNCHANGED row
      BY <1>0, <2>1, <2>2, ReturnMoves, RestingAlone DEF OwnEffect, Quiet
    <2>3. CASE \E t \in Tx \ Recorded, k \in Kinds :
                 /\ row' = [row EXCEPT ![t] = [NoRow EXCEPT !.status = "SIGNED",
                              !.plan = proc[p].plan, !.kind = k, !.nonce = proc[p].nonce]]
                 /\ proc' = [proc EXCEPT ![p].pc = "api", ![p].tx = t]
      <3>1. PICK t \in Tx \ Recorded, k \in Kinds :
                 /\ row' = [row EXCEPT ![t] = [NoRow EXCEPT !.status = "SIGNED",
                              !.plan = proc[p].plan, !.kind = k, !.nonce = proc[p].nonce]]
                 /\ proc' = [proc EXCEPT ![p].pc = "api", ![p].tx = t]
        BY <2>3
      <3>2. row'[t].status = "SIGNED" /\ \A u \in Tx \ {t} : row'[u] = row[u]
        BY <1>0, <3>1 DEF NoRow
      <3>3. Recording(t)
        BY <2>1, <3>1, <3>2 DEF Recording, Recorded
      <3>4. proc'[p].pc = "api" /\ proc'[p].tx = t
        BY <1>0, <3>1 DEF Proc
      <3>5. UnsettledRows' = {t}
        BY <2>1, <3>1, <3>2 DEF UnsettledRows, Unsettled
      <3>6. t \notin out'
        BY <1>0, <2>1, <3>1 DEF Truth
      <3>7. QED
        BY <3>3, <3>4, <3>5, <3>6 DEF OwnEffect, Alone, Sending, Looking, Reconciling
    <2>4. QED
      BY <1>7, <2>2, <2>3, Zenon DEF Record
  <1>8. CASE Api(p)
    <2>1. At(p, "api") /\ UnsettledRows = {proc[p].tx} /\ proc[p].tx \notin out
      BY <1>8 DEF Api, At, Alone, Sending
    <2>2. /\ UNCHANGED <<row, fate>> /\ out' \in {out, out \cup {proc[p].tx}}
          /\ \E x \in {"rpc", "mark"} : \E a \in Replies :
               Reply(p, x, a) /\ (a \in {"answered", "definite"} => out' = out)
      BY <1>8 DEF Api, KeptBack, GoOut, ReachNode, db, Replies
    <2>3. OwnEffect
      BY <2>1, <2>2 DEF OwnEffect, Quiet, Leaving, UnsettledRows
    <2>4. Alone(p)'
      BY <1>0, <1>a, <2>1, <2>2, ReplySame DEF Alone, Sending, Looking, Reconciling
    <2>5. QED
      BY <2>3, <2>4
  <1>9. CASE Rpc(p)
    <2>1. /\ At(p, "rpc") /\ UnsettledRows = {proc[p].tx}
          /\ proc[p].reply = "answered" => proc[p].tx \notin out
      BY <1>9 DEF Rpc, At, Alone, Sending
    <2>2. /\ UNCHANGED <<row, fate>> /\ out' \in {out, out \cup {proc[p].tx}}
          /\ \E a \in Replies \ {"answered"} :
               Reply(p, "mark", a) /\ (a = "definite" => out' = out /\ proc[p].tx \notin out)
      BY <1>9, <2>1 DEF Rpc, NodePolicyReply, KeptBack, ReachNode, db, Replies
    <2>3. OwnEffect
      BY <2>1, <2>2 DEF OwnEffect, Quiet, Leaving, UnsettledRows
    <2>4. Alone(p)'
      BY <1>0, <1>a, <2>1, <2>2, ReplySame DEF Alone, Sending, Looking, Reconciling
    <2>5. QED
      BY <2>3, <2>4
  <1>10. CASE Mark(p)
    <2>1. /\ At(p, "mark") /\ proc[p].tx \in Tx /\ UnsettledRows = {proc[p].tx}
          /\ proc[p].reply = "definite" => proc[p].tx \notin out
          /\ UNCHANGED <<out, fate>>
      BY <1>10 DEF Mark, At, Alone, Sending, UnsettledRows, network
    <2>2. CASE proc[p].reply = "definite" /\ Return(p)
      BY <1>0, <1>10, <2>1, <2>2, ReturnMoves, RestingAlone DEF Mark, OwnEffect, Refusing
    <2>3. CASE proc[p].reply # "definite" /\ Return(p)
      BY <1>0, <1>10, <2>1, <2>3, ReturnMoves, RestingAlone DEF Mark, OwnEffect, Pending
    <2>4. CASE proc[p].reply = "ok" /\ Goto(p, "wait")
      <3>1. Marked(proc[p].tx, Unsettled, PendingRow(proc[p].tx))
        BY <1>10, <2>4 DEF Mark
      <3>2. UnsettledRows' = UnsettledRows
        BY <1>0, <2>1, <3>1, MarkedUnsettled, MarkedRows DEF Unsettled
      <3>3. QED
        BY <1>0, <2>1, <2>4, <3>1, <3>2, GotoSame
        DEF OwnEffect, Pending, Alone, Sending, Looking, Reconciling
    <2>5. QED
      BY <1>10, <2>2, <2>3, <2>4 DEF Mark
  <1>11. CASE Wait(p)
    <2>1. /\ proc[p].tx \in Tx /\ Return(p) /\ UNCHANGED <<out, fate>>
          /\ \/ fate[proc[p].tx] # "none" /\ Marked(proc[p].tx, Unsettled, SettledRow(proc[p].tx))
             \/ UNCHANGED row
      BY <1>0, <1>11 DEF Wait, At, Remembers, Sending, Recorded, network
    <2>2. QED
      BY <1>0, <2>1, ReturnMoves, RestingAlone DEF OwnEffect, Quiet, Settling
  <1>12. CASE Reconcile(p)
    <2>1. proc'[p].pc = "next" /\ proc'[p].todo = UnsettledRows
      BY <1>0, <1>12 DEF Reconcile, Idle
    <2>2. Quiet
      BY <1>12 DEF Reconcile, Quiet, db, network
    <2>3. QED
      BY <1>a, <2>1, <2>2 DEF OwnEffect, Quiet, Alone, Sending, Looking
  <1>13. CASE LeaveToHolder(p)
    <2>1. Quiet /\ At(p, "next")
      BY <1>13 DEF LeaveToHolder, Quiet, db, network
    <2>2. PICK t \in proc[p].todo :
            NextRow(p, t) \/ proc' = [proc EXCEPT ![p].pc = "look", ![p].tx = t]
      BY <1>13 DEF LeaveToHolder
    <2>3. CASE NextRow(p, t)
      BY <1>0, <1>a, <2>1, <2>3, NextRowAlone DEF OwnEffect, Quiet, At, Reconciling
    <2>4. CASE proc' = [proc EXCEPT ![p].pc = "look", ![p].tx = t]
      <3>1. proc'[p].pc = "look" /\ proc'[p].tx = t /\ proc'[p].todo = proc[p].todo
        BY <1>0, <2>4 DEF Proc
      <3>2. QED
        BY <1>a, <2>1, <3>1 DEF OwnEffect, Quiet, At, Alone, Sending, Looking, Reconciling
    <2>5. QED
      BY <2>2, <2>3, <2>4
  <1>14. CASE LookReceipt(p) \/ Rewait(p)
    <2>1. /\ proc[p].pc \in Reconciling /\ proc[p].tx \in Tx /\ NextRow(p, proc[p].tx)
          /\ UNCHANGED <<out, fate>>
          /\ \/ fate[proc[p].tx] # "none" /\ Marked(proc[p].tx, Unsettled, SettledRow(proc[p].tx))
             \/ UNCHANGED row
      BY <1>0, <1>14
      DEF LookReceipt, Rewait, At, Remembers, Looking, Reconciling, Recorded, network
    <2>2. UnsettledRows \ {proc[p].tx} \subseteq UnsettledRows'
      BY <1>0, <1>a, <2>1, MarkedUnsettled
    <2>3. QED
      BY <1>0, <2>1, <2>2, NextRowAlone DEF OwnEffect, Quiet, Settling
  <1>15. CASE LookUsed(p)
    <2>1. proc[p].pc \in Reconciling /\ NextRow(p, proc[p].tx) /\ Quiet
      BY <1>15 DEF LookUsed, At, Reconciling, Quiet, db, network
    <2>2. QED
      BY <1>0, <1>a, <2>1, NextRowAlone DEF OwnEffect, Quiet
  <1>16. CASE LookPool(p)
    <2>1. /\ At(p, "look") /\ Quiet
          /\ Goto(p, "remark") \/ Goto(p, "resend") \/ NextRow(p, proc[p].tx)
      BY <1>16 DEF LookPool, Quiet, db, network
    <2>2. CASE NextRow(p, proc[p].tx)
      BY <1>0, <1>a, <2>1, <2>2, NextRowAlone DEF OwnEffect, Quiet, At, Reconciling
    <2>3. CASE \E x \in {"remark", "resend"} : Goto(p, x)
      BY <1>0, <1>a, <2>1, <2>3, GotoSame
      DEF OwnEffect, Quiet, At, Alone, Sending, Looking, Reconciling
    <2>4. QED
      BY <2>1, <2>2, <2>3
  <1>17. CASE Resend(p)
    <2>1. /\ At(p, "resend") /\ Goto(p, "remark") /\ UNCHANGED <<row, fate>>
          /\ out' \in {out, out \cup {proc[p].tx}} /\ proc[p].tx \in UnsettledRows
      BY <1>17 DEF Resend, At, Alone, Looking, Reconciling, ReachNode, KeptBack, db
    <2>2. OwnEffect
      BY <2>1 DEF OwnEffect, Quiet, Leaving, UnsettledRows
    <2>3. Alone(p)'
      BY <1>0, <1>a, <2>1, GotoSame DEF At, Alone, Sending, Looking, Reconciling
    <2>4. QED
      BY <2>2, <2>3
  <1>18. CASE Remark(p)
    <2>1. /\ At(p, "remark") /\ Goto(p, "rewait") /\ UNCHANGED <<out, fate>>
          /\ proc[p].tx \in Tx /\ Marked(proc[p].tx, Unsettled, PendingRow(proc[p].tx))
      BY <1>0, <1>18 DEF Remark, At, Remembers, Looking, Recorded, network
    <2>2. UnsettledRows' = UnsettledRows
      <3>1. PendingRow(proc[p].tx).status \in Unsettled
        BY <1>0, <2>1, MarkedRows DEF Unsettled
      <3>2. QED
        BY <1>0, <2>1, <3>1, MarkedUnsettled
    <2>3. QED
      BY <1>0, <2>1, <2>2, GotoSame
      DEF OwnEffect, Pending, At, Alone, Sending, Looking, Reconciling
  <1>19. CASE Throw(p)
    <2>1. proc'[p].pc \in {"idle", "held"} /\ Quiet
      BY <1>0, <1>19, ReturnMoves DEF Throw, Idle, Quiet, db, network
    <2>2. QED
      BY <2>1, RestingAlone DEF OwnEffect
  <1>20. QED
    BY <1>1, <1>2, <1>3, <1>4, <1>5, <1>6, <1>7, <1>8, <1>9, <1>10, <1>11, <1>12, <1>13, <1>14,
       <1>15, <1>16, <1>17, <1>18, <1>19
    DEF Step, Send, ReconcileStep

\* What surrounds the process: a transaction that is out is mined, a quote goes stale.
LEMMA WorldStep ==
  ASSUME OutboxInv, Environment \/ UNCHANGED vars
  PROVE  /\ UNCHANGED proc /\ out' = out
         /\ Quiet \/ \E t \in Tx : Mining(t) \/ Staling(t)
  <1>1. \A t \in Tx : fate[t] # "none" => row[t].nonce < height
    BY DEF OutboxInv, Truth
  <1>2. height \in Nat /\ row \in [Tx -> Row]
    BY DEF OutboxInv, TypeOK
  <1>3. CASE \E t \in Tx : Mine(t)
    <2>1. PICK t \in Tx : Mine(t)
      BY <1>3
    <2>2. fate[t] = "none"
      BY <1>1, <1>2, <2>1 DEF Mine
    <2>3. Mining(t) /\ UNCHANGED proc /\ out' = out
      BY <2>1, <2>2 DEF Mine, Mining, db
    <2>4. QED
      BY <2>3
  <1>4. CASE \E t \in Tx : GrowStale(t)
    BY <1>4 DEF GrowStale, Staling, network
  <1>5. CASE (\E l \in Plans : Lapse(l)) \/ (\E t \in Tx : Gossip(t)) \/ MineForeign \/ UNCHANGED vars
    BY <1>5 DEF Lapse, Gossip, MineForeign, Quiet, db, network, vars
  <1>6. QED
    BY <1>3, <1>4, <1>5 DEF Environment

\* A quote that went stale leaves the row's status and cause.
LEMMA StaleSame ==
  ASSUME row \in [Tx -> Row], NEW t \in Tx, Staling(t)
  PROVE  \A u \in Tx : row'[u].status = row[u].status /\ row'[u].cause = row[u].cause
  BY DEF Staling, Row

\* Whatever the step, no second row is unsettled, and what was refused stays here.
LEMMA EffectKept ==
  ASSUME OutboxInv, OneUnsettled, NotSentNeverLeft, FailedWhy,
         OwnEffect \/ \E t \in Tx : Mining(t) \/ Staling(t)
  PROVE  OneUnsettled' /\ NotSentNeverLeft' /\ FailedWhy'
  <1>0. row \in [Tx -> Row] /\ \A t \in Tx : Truth(t)
    BY DEF OutboxInv, TypeOK
  <1>1. CASE Quiet \/ \E t \in Tx : Mining(t)
    BY <1>1 DEF Quiet, Mining, OneUnsettled, NotSentNeverLeft, FailedWhy, UnsettledRows
  <1>2. ASSUME NEW t \in Tx, Recording(t)
        PROVE  OneUnsettled' /\ NotSentNeverLeft' /\ FailedWhy'
    BY <1>2 DEF Recording, OneUnsettled, NotSentNeverLeft, FailedWhy, UnsettledRows, Unsettled
  <1>3. ASSUME NEW t \in Tx, Leaving(t)
        PROVE  OneUnsettled' /\ NotSentNeverLeft' /\ FailedWhy'
    BY <1>3 DEF Leaving, OneUnsettled, NotSentNeverLeft, FailedWhy, UnsettledRows, Unsettled
  <1>4. ASSUME NEW t \in Tx, Settling(t) \/ Pending(t) \/ Refusing(t)
        PROVE  OneUnsettled' /\ NotSentNeverLeft' /\ FailedWhy'
    <2>1. OneUnsettled'
      BY <1>0, <1>4, MarkedUnsettled DEF Settling, Pending, Refusing, OneUnsettled, Unsettled
    <2>2. \A u \in Tx \ {t} : row'[u] = row[u]
      BY <1>0, <1>4 DEF Settling, Pending, Refusing, Marked
    <2>3. row'[t] = row[t] \/ row'[t] \in {SettledRow(t), PendingRow(t), RefusedRow(t)}
      BY <1>0, <1>4 DEF Settling, Pending, Refusing, Marked
    <2>4. row'[t] = RefusedRow(t) => row'[t] = row[t] \/ t \notin out
      BY <1>0, <1>4, MarkedRows DEF Settling, Pending, Refusing, Marked
    <2>5. out' = out
      BY <1>4 DEF Settling, Pending, Refusing
    <2>6. NotSentNeverLeft' /\ FailedWhy'
      BY <1>0, <2>2, <2>3, <2>4, <2>5, MarkedRows DEF NotSentNeverLeft, FailedWhy
    <2>7. QED
      BY <2>1, <2>6
  <1>5. ASSUME NEW t \in Tx, Staling(t)
        PROVE  OneUnsettled' /\ NotSentNeverLeft' /\ FailedWhy'
    BY <1>0, <1>5, StaleSame DEF Staling, OneUnsettled, NotSentNeverLeft, FailedWhy, UnsettledRows
  <1>6. QED
    BY <1>1, <1>2, <1>3, <1>4, <1>5 DEF OwnEffect

\* It holds initially, and every step keeps it.
LEMMA AloneInit == Init => AloneInv
  BY DEF Init, AloneInv, OneUnsettled, NotSentNeverLeft, FailedWhy, Alone, UnsettledRows, Unsettled, NoRow,
         Idle, Sending, Looking, Reconciling

LEMMA AloneKept ==
  ASSUME AtMostOne, OutboxInv, AloneInv, [Next]_vars
  PROVE  /\ AloneInv'
         /\ OwnEffect \/ \E t \in Tx : Mining(t) \/ Staling(t)
  <1>1. ASSUME NEW p \in Procs, Step(p)
        PROVE  OwnEffect /\ \A q \in Procs : Alone(q)'
    BY <1>1, AloneStep DEF AtMostOne, AloneInv
  <1>2. CASE Environment \/ UNCHANGED vars
    <2>1. /\ UNCHANGED <<proc, out>> /\ row \in [Tx -> Row]
          /\ Quiet \/ \E t \in Tx : Mining(t) \/ Staling(t)
      BY <1>2, WorldStep DEF OutboxInv, TypeOK
    <2>2. UnsettledRows' = UnsettledRows
      BY <2>1, StaleSame DEF Quiet, Mining, UnsettledRows
    <2>3. \A q \in Procs : Alone(q)'
      BY <2>1, <2>2 DEF AloneInv, Alone
    <2>4. QED
      BY <2>1, <2>3, EffectKept DEF AloneInv, OwnEffect
  <1>3. QED
    BY <1>1, <1>2, Steps, EffectKept DEF AloneInv

LEMMA AloneInvariant == ASSUME AtMostOne PROVE Spec => [](OutboxInv /\ AloneInv)
  <1>1. OutboxInv /\ AloneInv /\ [Next]_vars => (OutboxInv /\ AloneInv)'
    BY AloneKept, OutboxStep
  <1>2. QED
    BY <1>1, OutboxInit, AloneInit, PTL DEF Spec

\* With at most one process, at most one transaction of the wallet is unsettled: "nothing
\* new may be signed" (send.ts:62).
THEOREM OneAtATime == ASSUME AtMostOne PROVE Spec => []OneUnsettled
  <1>1. AloneInv => OneUnsettled
    BY DEF AloneInv
  <1>2. QED
    BY <1>1, AloneInvariant, PTL

\* With at most one process, two transactions that can both be mined never have one nonce,
\* although a refused one gives its nonce back (queue.ts:171).
THEOREM OneNonceEach == ASSUME AtMostOne PROVE Spec => []NoNonceRace
  <1>1. ASSUME OutboxInv, AloneInv, NEW t \in out, fate[t] = "none"
        PROVE  t \in UnsettledRows
    <2>1. t \in Recorded /\ row[t] \in Row /\ t \in Tx
      BY <1>1 DEF OutboxInv, TypeOK, Truth
    <2>2. row[t].status # "CONFIRMED" /\ row[t].status # "FAILED"
      BY <1>1, <2>1 DEF OutboxInv, AloneInv, Truth, NotSentNeverLeft, FailedWhy, Row
    <2>3. QED
      BY <2>1, <2>2 DEF Recorded, UnsettledRows, Row, Statuses
  <1>2. OutboxInv /\ AloneInv => NoNonceRace
    BY <1>1 DEF AloneInv, OneUnsettled, NoNonceRace, OutboxInv, TypeOK
  <1>3. QED
    BY <1>2, AloneInvariant, PTL

-------------------------------------------------------------------------------
(***************************************************************************)
(* The promise: with at most one process, Outbox implements TxOutcome.     *)
(***************************************************************************)
\* A step that leaves rows, bytes and the chain is no step of TxOutcome.
LEMMA QuietMaps == ASSUME Quiet PROVE UNCHANGED Outcome!vars
  BY DEF Quiet, Verdict, Whereabouts, Outcome!vars

\* What a verdict is.
LEMMA VerdictIs ==
  ASSUME NEW t \in Tx
  PROVE  /\ row[t].status = "NEW" => Verdict[t] = "none"
         /\ row[t].status \in Unsettled => Verdict[t] = "open"
         /\ row[t].status = "CONFIRMED" => Verdict[t] = "success"
         /\ row[t].status = "FAILED" =>
              Verdict[t] = IF row[t].cause = "refused" THEN "notSent" ELSE "reverted"
  BY DEF Verdict, Told, Unsettled

LEMMA VerdictIsNext ==
  ASSUME NEW t \in Tx
  PROVE  /\ row'[t].status = "NEW" => Verdict'[t] = "none"
         /\ row'[t].status \in Unsettled => Verdict'[t] = "open"
         /\ row'[t].status = "CONFIRMED" => Verdict'[t] = "success"
         /\ row'[t].status = "FAILED" =>
              Verdict'[t] = IF row'[t].cause = "refused" THEN "notSent" ELSE "reverted"
  BY DEF Verdict, Told, Unsettled

\* It depends on the row's status and cause alone.
LEMMA VerdictSame ==
  ASSUME TypeOK, NEW t \in Tx,
         row'[t].status = row[t].status, row'[t].cause = row[t].cause
  PROVE  Verdict'[t] = Verdict[t]
  <1>1. row[t].status \in Statuses
    BY DEF TypeOK, Row
  <1>2. QED
    BY <1>1, VerdictIs, VerdictIsNext DEF Statuses

\* A step that changes one verdict at most.
LEMMA VerdictChange ==
  ASSUME NEW t \in Tx, NEW v, Verdict'[t] = v, \A u \in Tx \ {t} : Verdict'[u] = Verdict[u]
  PROVE  Verdict' = [Verdict EXCEPT ![t] = v]
  <1>1. Verdict = [u \in Tx |-> Verdict[u]] /\ Verdict' = [u \in Tx |-> Verdict'[u]]
    BY Zenon DEF Verdict
  <1>2. QED
    BY <1>1

LEMMA VerdictUnchanged ==
  ASSUME \A u \in Tx : Verdict'[u] = Verdict[u]
  PROVE  UNCHANGED Verdict
  <1>1. Verdict = [u \in Tx |-> Verdict[u]] /\ Verdict' = [u \in Tx |-> Verdict'[u]]
    BY Zenon DEF Verdict
  <1>2. QED
    BY <1>1

\* Every step is a step of TxOutcome, or none.
LEMMA PromiseStep ==
  ASSUME OutboxInv, OutboxInv', AloneInv, OwnEffect \/ \E t \in Tx : Mining(t) \/ Staling(t)
  PROVE  [Outcome!Next]_Outcome!vars
  <1>0. /\ TypeOK /\ TypeOK' /\ row \in [Tx -> Row]
        /\ fate \in [Tx -> {"none", "success", "reverted"}]
        /\ \A t \in Tx : Truth(t)
    BY DEF OutboxInv, TypeOK
  <1>1. CASE Quiet
    BY <1>1, QuietMaps
  <1>2. ASSUME NEW t \in Tx, Recording(t)
        PROVE  Outcome!Sign(t)
    <2>1. Verdict[t] = "none" /\ Verdict'[t] = "open" /\ UNCHANGED Whereabouts
      BY <1>2, VerdictIs, VerdictIsNext DEF Recording, Whereabouts, Unsettled
    <2>2. \A u \in Tx \ {t} : Verdict'[u] = Verdict[u]
      BY <1>0, <1>2, VerdictSame DEF Recording
    <2>3. Verdict' = [Verdict EXCEPT ![t] = "open"]
      BY <2>1, <2>2, VerdictChange
    <2>4. QED
      BY <2>1, <2>3 DEF Outcome!Sign
  <1>3. ASSUME NEW t \in Tx, Leaving(t)
        PROVE  Outcome!Leave(t) \/ UNCHANGED Outcome!vars
    <2>1. CASE t \in out
      BY <1>3, <2>1, QuietMaps DEF Leaving, Quiet
    <2>2. CASE t \notin out
      <3>1. Verdict[t] = "open" /\ UNCHANGED Verdict
        BY <1>3 DEF Leaving, Verdict, Told, UnsettledRows, Unsettled
      <3>2. fate[t] = "none"
        BY <1>0, <2>2 DEF Truth
      <3>3. Whereabouts[t] = "kept" /\ Whereabouts' = [Whereabouts EXCEPT ![t] = "out"]
        BY <1>3, <2>2, <3>2 DEF Leaving, Whereabouts
      <3>4. QED
        BY <3>1, <3>3 DEF Outcome!Leave
    <2>3. QED
      BY <2>1, <2>2
  <1>4. ASSUME NEW t \in Tx, Settling(t), row[t].status \in Unsettled
        PROVE  Outcome!Settle(t)
    <2>1. row'[t] = SettledRow(t) /\ \A u \in Tx \ {t} : row'[u] = row[u]
      BY <1>0, <1>4 DEF Settling, Marked
    <2>2. Verdict[t] = "open" /\ Verdict'[t] = fate[t]
      BY <1>0, <1>4, <2>1, MarkedRows, VerdictIs, VerdictIsNext DEF Settling
    <2>3. \A u \in Tx \ {t} : Verdict'[u] = Verdict[u]
      BY <1>0, <2>1, VerdictSame
    <2>4. Whereabouts[t] = fate[t] /\ fate[t] \in {"success", "reverted"} /\ UNCHANGED Whereabouts
      BY <1>0, <1>4 DEF Settling, Whereabouts
    <2>5. Verdict' = [Verdict EXCEPT ![t] = Whereabouts[t]]
      BY <2>2, <2>3, <2>4, VerdictChange
    <2>6. QED
      BY <2>2, <2>4, <2>5 DEF Outcome!Settle, Outcome!Mined
  <1>5. ASSUME NEW t \in Tx, Refusing(t), row[t].status = "SIGNED"
        PROVE  Outcome!Refuse(t)
    <2>1. row'[t] = RefusedRow(t) /\ \A u \in Tx \ {t} : row'[u] = row[u]
      BY <1>0, <1>5 DEF Refusing, Marked
    <2>2. Verdict[t] = "open" /\ Verdict'[t] = "notSent"
      BY <1>0, <1>5, <2>1, MarkedRows, VerdictIs, VerdictIsNext DEF Unsettled
    <2>3. Verdict' = [Verdict EXCEPT ![t] = "notSent"]
      <3>1. \A u \in Tx \ {t} : Verdict'[u] = Verdict[u]
        BY <1>0, <2>1, VerdictSame
      <3>2. QED
        BY <2>2, <3>1, VerdictChange
    <2>4. Whereabouts[t] = "kept" /\ UNCHANGED Whereabouts
      BY <1>0, <1>5 DEF Refusing, Whereabouts, Truth
    <2>5. QED
      BY <2>2, <2>3, <2>4 DEF Outcome!Refuse
  <1>6. ASSUME NEW t \in Tx,
               \/ Settling(t) /\ row[t].status \notin Unsettled
               \/ Refusing(t) /\ row[t].status # "SIGNED"
        PROVE  UNCHANGED Outcome!vars
    <2>1. Quiet
      BY <1>0, <1>6 DEF Settling, Refusing, Marked, Quiet
    <2>2. QED
      BY <2>1, QuietMaps
  <1>7. ASSUME NEW t \in Tx, Pending(t) \/ Staling(t)
        PROVE  UNCHANGED Outcome!vars
    <2>1. /\ \A u \in Tx \ {t} : row'[u] = row[u]
          /\ \/ row'[t].status = row[t].status /\ row'[t].cause = row[t].cause
             \/ row[t].status \in Unsettled /\ row'[t].status \in Unsettled
      BY <1>0, <1>7, MarkedRows, StaleSame DEF Pending, Staling, Marked, Unsettled
    <2>2. \A u \in Tx : Verdict'[u] = Verdict[u]
      BY <1>0, <2>1, VerdictSame, VerdictIs, VerdictIsNext
    <2>3. UNCHANGED Whereabouts
      BY <1>7 DEF Pending, Staling, Whereabouts
    <2>4. UNCHANGED Verdict
      BY <2>2, VerdictUnchanged
    <2>5. QED
      BY <2>3, <2>4 DEF Outcome!vars
  <1>8. ASSUME NEW t \in Tx, Mining(t)
        PROVE  Outcome!Mine(t)
    <2>1. PICK f \in {"success", "reverted"} : fate' = [fate EXCEPT ![t] = f]
      BY <1>8 DEF Mining
    <2>2. Whereabouts[t] = "out" /\ Whereabouts' = [Whereabouts EXCEPT ![t] = f]
      BY <1>0, <1>8, <2>1 DEF Mining, Whereabouts
    <2>3. UNCHANGED Verdict
      BY <1>8 DEF Mining, Verdict
    <2>4. QED
      BY <2>2, <2>3 DEF Outcome!Mine, Outcome!Mined
  <1>9. QED
    BY <1>1, <1>2, <1>3, <1>4, <1>5, <1>6, <1>7, <1>8 DEF OwnEffect, Outcome!Next

\* With at most one process, which may die at any step and start again, every verdict is given
\* once and is the truth: what was reported not sent never left, and never leaves by a later
\* resend (send.ts:53-60).
THEOREM OutcomePromised == ASSUME AtMostOne PROVE Spec => Promise
  <1>1. Init => Outcome!Init
    <2>1. Verdict = [t \in Tx |-> Verdict[t]]
      BY Zenon DEF Verdict
    <2>2. Init => \A t \in Tx : Verdict[t] = "none"
      BY VerdictIs DEF Init, NoRow
    <2>3. QED
      BY <2>1, <2>2 DEF Init, Whereabouts, Outcome!Init
  <1>2. OutboxInv /\ AloneInv /\ [Next]_vars => [Outcome!Next]_Outcome!vars
    BY AloneKept, OutboxStep, PromiseStep
  <1>3. QED
    BY <1>1, <1>2, AloneInvariant, PTL DEF Spec, Promise, Outcome!Spec
===============================================================================
