-------------------------------- MODULE Outbox --------------------------------
(***************************************************************************)
(* Signed transactions of the house wallet: sendTransaction and            *)
(* reconcileOutbox (apps/agent/src/executor/send.ts) over the table        *)
(* tx_outbox (packages/db/src/queue.ts).                                   *)
(*                                                                         *)
(* Several processes may run this code on one database and one wallet: the *)
(* worker, and the operator's scripts.  A process signs for a plan while   *)
(* it holds the plan's lock, records the signed bytes before they leave,   *)
(* broadcasts them through the Transaction API and then by RPC, and waits  *)
(* for the receipt.  Before it signs, and at every tick, a process         *)
(* reconciles what earlier sends left SIGNED or PENDING.  Every await is   *)
(* a step boundary; a process may die at any of them.                      *)
(*                                                                         *)
(* The plan lock appears here as its holder and whether its time has       *)
(* passed: PlanLock shows that comparing lock_until identifies the holder. *)
(* The chain is the environment: bytes that left may be mined at any time, *)
(* the node may lose or learn them, and its answers may lag.               *)
(***************************************************************************)
EXTENDS Integers, FiniteSets

CONSTANTS
  Procs,       \* processes that run this code
  Plans,       \* plans of the house wallet
  Tx,          \* transactions that may be signed, named by their hash
  None,        \* null
  Signers,     \* how a process works for a plan (see Styles)
  Kinds,       \* kinds of transaction; only "swap" bytes go stale
  Faults,      \* whether a process may die and a call may throw
  Lag,         \* by how many blocks the node's answers may lag
  Foreign,     \* how many transactions the key may sign somewhere else
  Nonces       \* bound: the nonces considered, 0 to some maximum

\* "leased": a cycle, which renews the lock before every signature (cycle.ts:490).
\* "locked": a redeem, or the deposit script, under a lock it does not renew.
\* "bare":   a deposit job, which takes no lock (deposit.ts:95).
Styles == {"leased", "locked", "bare"}

ASSUME SignersAssumption == Signers \subseteq Styles
ASSUME NoncesAssumption == Nonces \subseteq Nat
ASSUME LagAssumption == Lag \in Nat
ASSUME NoneAssumption == None \notin Procs \cup Plans \cup Tx

VARIABLES
  row,      \* tx_outbox, by hash
  lock,     \* lock[l]: who wrote the value plan l's lock_until has
  live,     \* live[l]: lock_until is in the future
  proc,     \* proc[p]: what process p is doing
  out,      \* transactions whose bytes have left for the network
  held,     \* transactions the RPC node has in its pool
  fate,     \* how a transaction was mined
  height,   \* the wallet's nonce on chain
  refused   \* transactions the Transaction API turned down for compliance

vars == <<row, lock, live, proc, out, held, fate, height, refused>>
db == <<row, lock, live>>
network == <<out, held, fate, height, refused>>

Unsettled == {"SIGNED", "PENDING"}
Statuses == Unsettled \cup {"NEW", "CONFIRMED", "FAILED"}

\* A row of tx_outbox.  Status NEW: nothing signed under this hash yet.  `sent` says
\* that broadcast_via is not null; `cause` is what the column error says of a FAILED row.
Row == [status : Statuses, plan : Plans \cup {None}, kind : Kinds \cup {None},
        nonce : Nat, sent : BOOLEAN, stale : BOOLEAN,
        cause : {"none", "refused", "reverted"}]

NoRow == [status |-> "NEW", plan |-> None, kind |-> None, nonce |-> 0,
          sent |-> FALSE, stale |-> FALSE, cause |-> "none"]

\* The step a process waits at.  Signing: idle, held (has the lock, between two
\* transactions), check, nonce, sign, record, api, rpc, mark, wait.  Reconciling: next,
\* look, resend, remark, rewait.
Signing == {"check", "nonce", "sign", "record", "api", "rpc", "mark", "wait"}
Reconciling == {"next", "look", "resend", "remark", "rewait"}

Proc == [pc : {"idle", "held"} \cup Signing \cup Reconciling,
         style : Styles \cup {"none"}, plan : Plans \cup {None}, tx : Tx \cup {None},
         nonce : Nat, reply : {"none", "answered", "silent", "ok", "definite", "unclear"},
         todo : SUBSET Tx]

Idle == [pc |-> "idle", style |-> "none", plan |-> None, tx |-> None, nonce |-> 0,
         reply |-> "none", todo |-> {}]

Init ==
  /\ row = [t \in Tx |-> NoRow]
  /\ lock = [l \in Plans |-> None]
  /\ live = [l \in Plans |-> FALSE]
  /\ proc = [p \in Procs |-> Idle]
  /\ out = {}
  /\ held = {}
  /\ fate = [t \in Tx |-> "none"]
  /\ height = 0
  /\ refused = {}

-------------------------------------------------------------------------------
(***************************************************************************)
(* Helpers.                                                                *)
(***************************************************************************)
Recorded == {t \in Tx : row[t].status # "NEW"}
UnsettledRows == {t \in Tx : row[t].status \in Unsettled}

\* Answers of an RPC node that may lag: the nonce it has seen mined, and the next one
\* it would take, given the transactions in its pool.
MinedNonces == {n \in Nonces : n <= height /\ height <= n + Lag}
HeldAt(n) == \E t \in held : row[t].nonce = n
PendingNonces ==
  {n \in Nonces : /\ ~HeldAt(n)
                  /\ \E h \in MinedNonces :
                       h <= n /\ \A m \in Nonces : h <= m /\ m < n => HeldAt(m)}

\* tx_outbox_nonce_uq: a row that was refused everywhere gives its nonce back.
TakesNonce(t) == row[t].status # "NEW" /\ ~(row[t].status = "FAILED" /\ ~row[t].sent)

\* lastOutboxNonce: only rows with broadcast_via count.
AboveRecorded(n) == \A t \in Tx : row[t].sent => row[t].nonce < n

At(p, pc) == proc[p].pc = pc
Goto(p, pc) == proc' = [proc EXCEPT ![p].pc = pc]

\* sendTransaction returns, or throws, to its caller.
Return(p) ==
  proc' = [proc EXCEPT ![p] = IF @.style = "bare" THEN Idle
                              ELSE [Idle EXCEPT !.pc = "held", !.style = proc[p].style,
                                                !.plan = proc[p].plan]]

\* Mutant of Marked: the update does not compare the status.
MarkedBlindly(t, from, new) == row' = [row EXCEPT ![t] = new]

\* markOutbox: a compare-and-set from the statuses in `from`.
Marked(t, from, new) ==
  row' = [row EXCEPT ![t] = IF @.status \in from THEN new ELSE @]

\* Mutants of SettledRow: the receipt's own word is written down; it is not looked at.
SettledAsReceipt(t) == [row[t] EXCEPT !.status = fate[t]]
SettledAlways(t) == [row[t] EXCEPT !.status = "CONFIRMED"]

\* A receipt decides the row: CONFIRMED, or FAILED when it reverted.
SettledRow(t) ==
  IF fate[t] = "success" THEN [row[t] EXCEPT !.status = "CONFIRMED"]
  ELSE [row[t] EXCEPT !.status = "FAILED", !.cause = "reverted"]

PendingRow(t) == [row[t] EXCEPT !.status = "PENDING", !.sent = TRUE]
RefusedRow(t) == [row[t] EXCEPT !.status = "FAILED", !.cause = "refused"]

-------------------------------------------------------------------------------
(***************************************************************************)
(* The plan lock.                                                          *)
(***************************************************************************)
HoldsLock(p) == lock[proc[p].plan] = p

\* acquirePlanLock by a caller that signs under it.
Acquire(p, l, style) ==
  /\ At(p, "idle")
  /\ lock[l] = None \/ ~live[l]
  /\ lock' = [lock EXCEPT ![l] = p]
  /\ live' = [live EXCEPT ![l] = TRUE]
  /\ proc' = [proc EXCEPT ![p] = [Idle EXCEPT !.pc = "held", !.style = style, !.plan = l]]
  /\ UNCHANGED <<row, network>>

\* releasePlanLock: a holder that was replaced frees nothing.
Release(p) ==
  /\ At(p, "held")
  /\ lock' = [lock EXCEPT ![proc[p].plan] = IF @ = p THEN None ELSE @]
  /\ live' = [live EXCEPT ![proc[p].plan] = @ /\ ~HoldsLock(p)]
  /\ proc' = [proc EXCEPT ![p] = Idle]
  /\ UNCHANGED <<row, network>>

\* The steps that run within one lease (PlanLock!StepAssumption): from the renewal
\* before the bytes are recorded to the end of the receipt wait; without renewals, from
\* the acquisition on.
WithinLease(p) ==
  \/ proc[p].style = "leased" /\ proc[p].pc \in {"record", "api", "rpc", "mark", "wait"}
  \/ proc[p].style = "locked"

\* The lock's time passes.
Lapse(l) ==
  /\ live[l]
  /\ \A p \in Procs : lock[l] = p /\ proc[p].plan = l => ~WithinLease(p)
  /\ live' = [live EXCEPT ![l] = FALSE]
  /\ UNCHANGED <<row, lock, proc, network>>

\* planLease.hold: renews the lock, or LockLostError when it was taken over.
Hold(p, pc) ==
  /\ UNCHANGED row
  /\ IF proc[p].style # "leased" THEN Goto(p, pc) /\ UNCHANGED <<lock, live>>
     ELSE IF HoldsLock(p)
     THEN /\ Goto(p, pc)
          /\ live' = [live EXCEPT ![proc[p].plan] = TRUE]
          /\ UNCHANGED lock
     ELSE proc' = [proc EXCEPT ![p] = Idle] /\ UNCHANGED <<lock, live>>

\* A process dies; a lock it held stays until it lapses.
Crash(p) ==
  /\ Faults
  /\ ~At(p, "idle")
  /\ proc' = [proc EXCEPT ![p] = Idle]
  /\ UNCHANGED <<db, network>>

\* The database or the node does not answer (at "api": the insert was done, its answer is
\* lost).  A failing broadcast is caught and counts as unclear (Api, Rpc); a failing
\* markOutbox is not.
Throw(p) ==
  /\ Faults
  /\ \/ proc[p].pc \in {"check", "nonce", "sign", "record", "api", "mark"} /\ Return(p)
     \/ proc[p].pc \in Reconciling /\ proc' = [proc EXCEPT ![p] = Idle]
  /\ UNCHANGED <<db, network>>

-------------------------------------------------------------------------------
(***************************************************************************)
(* sendTransaction.                                                        *)
(***************************************************************************)

\* The first beforeSign.
Begin(p) ==
  /\ At(p, "held")
  /\ Hold(p, "check")
  /\ UNCHANGED network

\* A deposit job calls sendTransaction with no lock and no beforeSign.
BeginBare(p, l) ==
  /\ At(p, "idle")
  /\ proc' = [proc EXCEPT ![p] = [Idle EXCEPT !.pc = "check", !.style = "bare", !.plan = l]]
  /\ UNCHANGED <<db, network>>

\* Mutant of CheckUnsettled: bytes that may not have left yet are not counted.
CheckPending(p) ==
  /\ At(p, "check")
  /\ IF \A t \in Tx : row[t].status # "PENDING" THEN Goto(p, "nonce") ELSE Return(p)
  /\ UNCHANGED <<db, network>>

\* unsettledOutbox: OutboxBusyError while another transaction of the wallet is out.
CheckUnsettled(p) ==
  /\ At(p, "check")
  /\ IF UnsettledRows = {} THEN Goto(p, "nonce") ELSE Return(p)
  /\ UNCHANGED <<db, network>>

ReadNonce(p) ==
  /\ At(p, "nonce")
  /\ \E n \in PendingNonces : proc' = [proc EXCEPT ![p].pc = "sign", ![p].nonce = n]
  /\ UNCHANGED <<db, network>>

\* Mutant of Sign: the lock is not renewed again after the signature.
SignOnly(p) ==
  /\ At(p, "sign")
  /\ IF AboveRecorded(proc[p].nonce) THEN Goto(p, "record") ELSE Return(p)
  /\ UNCHANGED <<db, network>>

\* lastOutboxNonce, the signature, and the second beforeSign.
Sign(p) ==
  /\ At(p, "sign")
  /\ IF AboveRecorded(proc[p].nonce) THEN Hold(p, "record")
     ELSE Return(p) /\ UNCHANGED db
  /\ UNCHANGED network

\* recordSigned: the insert fails when the nonce is taken (tx_outbox_nonce_uq).  Bound: it
\* fails as well when every transaction of Tx has been used.
Record(p) ==
  /\ At(p, "record")
  /\ IF Recorded = Tx \/ \E t \in Tx : TakesNonce(t) /\ row[t].nonce = proc[p].nonce
     THEN Return(p) /\ UNCHANGED row
     ELSE \E t \in Tx \ Recorded, k \in Kinds :
            /\ row' = [row EXCEPT ![t] = [NoRow EXCEPT !.status = "SIGNED", !.plan = proc[p].plan,
                                                       !.kind = k, !.nonce = proc[p].nonce]]
            /\ proc' = [proc EXCEPT ![p].pc = "api", ![p].tx = t]
  /\ UNCHANGED <<lock, live, network>>

\* What may become of bytes handed to the network: they are kept back, they go out, or
\* they go out and the RPC node has them in its pool.
KeptBack == UNCHANGED <<out, held>>
GoOut(t) == out' = out \cup {t} /\ UNCHANGED held
ReachNode(t) == out' = out \cup {t} /\ held' = held \cup {t}

Reply(p, pc, reply) == proc' = [proc EXCEPT ![p].pc = pc, ![p].reply = reply]

\* broadcast, the Transaction API: the bytes are relayed; it turns them down for
\* compliance, which is final; it answers with another refusal (4xxxx), relaying
\* nothing; or it times out, fails or answers nonsense, and may have relayed them.
Api(p) ==
  LET t == proc[p].tx IN
  /\ At(p, "api")
  /\ \/ /\ Reply(p, "mark", "ok")
        /\ GoOut(t) \/ ReachNode(t)
        /\ UNCHANGED refused
     \/ /\ Reply(p, "mark", "definite")
        /\ refused' = refused \cup {t}
        /\ KeptBack
     \/ /\ Reply(p, "rpc", "answered")
        /\ KeptBack
        /\ UNCHANGED refused
     \/ /\ Reply(p, "rpc", "silent") \/ Reply(p, "mark", "unclear")
        /\ KeptBack \/ GoOut(t) \/ ReachNode(t)
        /\ UNCHANGED refused
  /\ UNCHANGED <<db, fate, height>>

\* Mutant of NodePolicyReply: what the Transaction API answered is not looked at.
AlwaysDefinite(p) == "definite"

\* The node's own policy refuses the bytes: definite only if the Transaction API turned
\* them down as well.
NodePolicyReply(p) == IF proc[p].reply = "answered" THEN "definite" ELSE "unclear"

\* broadcastByRpc: the node takes the bytes, or has them or a higher nonce already (both
\* ok); it finds them invalid, which holds for every node, so they are nowhere
\* (definite); its own policy refuses them (definite if the Transaction API answered); or
\* nobody knows.
Rpc(p) ==
  LET t == proc[p].tx IN
  /\ At(p, "rpc")
  /\ \/ Reply(p, "mark", "ok") /\ ReachNode(t)
     \/ Reply(p, "mark", "ok") /\ (t \in held \/ row[t].nonce < height) /\ KeptBack
     \/ Reply(p, "mark", "definite") /\ t \notin out /\ KeptBack
     \/ Reply(p, "mark", NodePolicyReply(p)) /\ KeptBack
     \/ Reply(p, "mark", "unclear") /\ (KeptBack \/ ReachNode(t))
  /\ UNCHANGED <<db, fate, height, refused>>

\* A definite refusal fails the row only while it is still SIGNED; anything else leaves
\* it PENDING, unless it settled meanwhile.  Only a broadcast that went well is waited for.
Mark(p) ==
  LET t == proc[p].tx IN
  /\ At(p, "mark")
  /\ IF proc[p].reply = "definite" THEN Marked(t, {"SIGNED"}, RefusedRow(t))
     ELSE Marked(t, Unsettled, PendingRow(t))
  /\ IF proc[p].reply = "ok" THEN Goto(p, "wait") ELSE Return(p)
  /\ UNCHANGED <<lock, live, network>>

\* settle: the receipt, or three minutes without one.
Wait(p) ==
  LET t == proc[p].tx IN
  /\ At(p, "wait")
  /\ \/ fate[t] # "none" /\ Marked(t, Unsettled, SettledRow(t))
     \/ UNCHANGED row
  /\ Return(p)
  /\ UNCHANGED <<lock, live, network>>

-------------------------------------------------------------------------------
(***************************************************************************)
(* reconcileOutbox: called by a process that holds no lock yet.            *)
(***************************************************************************)

\* The list of unsettled rows is read once; the loop then goes by nonce.
Reconcile(p) ==
  /\ At(p, "idle")
  /\ UnsettledRows # {}
  /\ proc' = [proc EXCEPT ![p] = [Idle EXCEPT !.pc = "next", !.todo = UnsettledRows]]
  /\ UNCHANGED <<db, network>>

First(t, S) == t \in S /\ \A u \in S : row[t].nonce <= row[u].nonce

\* On to the next row of the list, or back to the caller.
NextRow(p, t) ==
  proc' = [proc EXCEPT ![p] = IF @.todo \subseteq {t} THEN Idle
                              ELSE [@ EXCEPT !.pc = "next", !.tx = None,
                                             !.todo = proc[p].todo \ {t}]]

\* Mutants of BeingSent: the lock is not looked at; its time is not looked at.
NeverBeingSent(t) == FALSE
LockNotNull(t) == lock[row[t].plan] # None

\* The row's plan is locked.
BeingSent(t) == live[row[t].plan]

\* A row whose plan's lock is held is left to its holder.
LeaveToHolder(p) ==
  /\ At(p, "next")
  /\ \E t \in proc[p].todo :
       /\ First(t, proc[p].todo)
       /\ IF BeingSent(t) THEN NextRow(p, t)
          ELSE proc' = [proc EXCEPT ![p].pc = "look", ![p].tx = t]
  /\ UNCHANGED <<db, network>>

\* A receipt settles the row.
LookReceipt(p) ==
  LET t == proc[p].tx IN
  /\ At(p, "look")
  /\ fate[t] # "none"
  /\ Marked(t, Unsettled, SettledRow(t))
  /\ NextRow(p, t)
  /\ UNCHANGED <<lock, live, network>>

\* The node shows no receipt: there is none, or the node lags.
NoReceipt(t) == fate[t] = "none" \/ Lag > 0

\* Mutant of LookUsed: a used nonce without a receipt counts as reverted.
LookUsedGuess(p) ==
  LET t == proc[p].tx IN
  /\ At(p, "look")
  /\ NoReceipt(t)
  /\ \E n \in MinedNonces : row[t].nonce < n
  /\ Marked(t, Unsettled, [row[t] EXCEPT !.status = "FAILED", !.cause = "reverted"])
  /\ NextRow(p, t)
  /\ UNCHANGED <<lock, live, network>>

\* No receipt, and the nonce is used (the receipt was looked for again): a human decides.
LookUsed(p) ==
  LET t == proc[p].tx IN
  /\ At(p, "look")
  /\ NoReceipt(t)
  /\ \E n \in MinedNonces : row[t].nonce < n
  /\ NextRow(p, t)
  /\ UNCHANGED <<db, network>>

\* No receipt, the nonce is free: is the transaction in the node's pool?  Bytes it does
\* not hold are sent again, except those of a swap whose quote went stale.
LookPool(p) ==
  LET t == proc[p].tx IN
  /\ At(p, "look")
  /\ NoReceipt(t)
  /\ \E n \in MinedNonces : n <= row[t].nonce
  /\ \E n \in PendingNonces :
       IF n > row[t].nonce THEN Goto(p, "remark")
       ELSE IF row[t].kind = "swap" /\ row[t].stale THEN NextRow(p, t)
       ELSE Goto(p, "resend")
  /\ UNCHANGED <<db, network>>

\* The recorded bytes go to the node, which takes them, refuses them or has them.
Resend(p) ==
  /\ At(p, "resend")
  /\ ReachNode(proc[p].tx) \/ KeptBack
  /\ Goto(p, "remark")
  /\ UNCHANGED <<db, fate, height, refused>>

Remark(p) ==
  /\ At(p, "remark")
  /\ Marked(proc[p].tx, Unsettled, PendingRow(proc[p].tx))
  /\ Goto(p, "rewait")
  /\ UNCHANGED <<lock, live, network>>

Rewait(p) ==
  LET t == proc[p].tx IN
  /\ At(p, "rewait")
  /\ \/ fate[t] # "none" /\ Marked(t, Unsettled, SettledRow(t))
     \/ UNCHANGED row
  /\ NextRow(p, t)
  /\ UNCHANGED <<lock, live, network>>

-------------------------------------------------------------------------------
(***************************************************************************)
(* The chain and the clock.                                                *)
(***************************************************************************)

\* Bytes that are out may be mined while their nonce is the next one, whoever holds them.
Mine(t) ==
  /\ t \in out
  /\ row[t].nonce = height
  /\ \E f \in {"success", "reverted"} : fate' = [fate EXCEPT ![t] = f]
  /\ height' = height + 1
  /\ UNCHANGED <<db, proc, out, held, refused>>

\* The wallet's key signed somewhere else, and that transaction took the nonce.
MineForeign ==
  /\ height < Foreign + Cardinality({t \in Tx : fate[t] # "none"})
  /\ height' = height + 1
  /\ UNCHANGED <<db, proc, out, held, fate, refused>>

\* The node's pool gains or loses a transaction.
Gossip(t) ==
  /\ t \in out
  /\ held' = IF t \in held THEN held \ {t} ELSE held \cup {t}
  /\ UNCHANGED <<db, proc, out, fate, height, refused>>

\* A swap's quote goes stale (SWAP_REBROADCAST_MAX_MS).
GrowStale(t) ==
  /\ row[t].status \in Unsettled
  /\ row[t].kind = "swap"
  /\ ~row[t].stale
  /\ row' = [row EXCEPT ![t].stale = TRUE]
  /\ UNCHANGED <<lock, live, proc, network>>

-------------------------------------------------------------------------------
Send(p) ==
  \/ Begin(p) \/ CheckUnsettled(p) \/ ReadNonce(p) \/ Sign(p) \/ Record(p)
  \/ Api(p) \/ Rpc(p) \/ Mark(p) \/ Wait(p)

ReconcileStep(p) ==
  \/ LeaveToHolder(p) \/ LookReceipt(p) \/ LookUsed(p) \/ LookPool(p)
  \/ Resend(p) \/ Remark(p) \/ Rewait(p)

Next ==
  \/ \E p \in Procs :
       \/ \E l \in Plans, s \in Signers \ {"bare"} : Acquire(p, l, s)
       \/ \E l \in Plans : "bare" \in Signers /\ BeginBare(p, l)
       \/ Release(p)
       \/ Send(p)
       \/ Reconcile(p)
       \/ ReconcileStep(p)
       \/ Crash(p)
       \/ Throw(p)
  \/ \E l \in Plans : Lapse(l)
  \/ \E t \in Tx : Mine(t) \/ Gossip(t) \/ GrowStale(t)
  \/ MineForeign

Spec == Init /\ [][Next]_vars

\* A worker that dies is started again, and its scheduler's next tick settles the outbox
\* before anything else (scheduler.ts:209, settlement.ts:36).  It may die and its calls may
\* fail any number of times, but not for ever (a step of the code may look like a failure);
\* a lock lapses; a node does not refuse resent bytes for ever; a transaction the node keeps,
\* or learns again and again, while its nonce is the next one is mined.
Fairness ==
  /\ <>[][\A p \in Procs :
            Crash(p) \/ Throw(p) => Send(p) \/ ReconcileStep(p) \/ Release(p)]_vars
  /\ \A p \in Procs :
       /\ WF_vars(Send(p) \/ ReconcileStep(p))
       /\ SF_vars(Release(p))
       /\ SF_vars(Reconcile(p))
       /\ SF_vars(Resend(p) /\ ReachNode(proc[p].tx))
  /\ \A l \in Plans : WF_vars(Lapse(l))
  /\ \A t \in Tx : SF_vars(t \in held /\ Mine(t))

FairSpec == Spec /\ Fairness

-------------------------------------------------------------------------------
TypeOK ==
  /\ row \in [Tx -> Row]
  /\ lock \in [Plans -> Procs \cup {None}]
  /\ live \in [Plans -> BOOLEAN]
  /\ proc \in [Procs -> Proc]
  /\ out \subseteq Tx
  /\ held \subseteq out
  /\ fate \in [Tx -> {"none", "success", "reverted"}]
  /\ height \in Nat
  /\ refused \subseteq Tx

\* What is told of a transaction, given its row, and where it really is.
Told(r) ==
  CASE r.status = "NEW" -> "none"
    [] r.status \in Unsettled -> "open"
    [] r.status = "CONFIRMED" -> "success"
    [] r.status = "FAILED" -> IF r.cause = "refused" THEN "notSent" ELSE "reverted"

Verdict == [t \in Tx |-> Told(row[t])]

Whereabouts ==
  [t \in Tx |-> IF fate[t] # "none" THEN fate[t] ELSE IF t \in out THEN "out" ELSE "kept"]

Outcome == INSTANCE TxOutcome WITH verdict <- Verdict, fate <- Whereabouts

\* With one process, which may die at any step and start again, every verdict on a
\* signed transaction is given once and is the truth (send.ts:53-60): in particular a
\* transaction reported not sent never left, and never leaves by a later resend.
Promise == Outcome!Spec

\* At most one transaction of the wallet is out unsettled ("Another signed transaction
\* of this wallet is not settled yet; nothing new may be signed", send.ts:62).
OneUnsettled == \A t, u \in UnsettledRows : t = u

\* Two transactions that can both still be mined never compete for one nonce, although
\* the nonce of a refused transaction is given out again (queue.ts:171-174).
NoNonceRace ==
  \A t, u \in out :
    /\ row[t].nonce = row[u].nonce
    /\ fate[t] = "none" /\ fate[u] = "none"
    /\ height <= row[t].nonce
    => t = u

\* Whoever settles a row, CONFIRMED and "reverted" say what the chain says
\* ("A row is never marked FAILED on a guess", send.ts:284-286).
ReceiptsDecide ==
  \A t \in Tx :
    /\ row[t].status = "CONFIRMED" => fate[t] = "success"
    /\ row[t].status = "FAILED" /\ row[t].cause = "reverted" => fate[t] = "reverted"

\* A settled row is never written again by a process that read it before
\* (markOutbox's compare-and-set, queue.ts:92-96).
SettledFinal ==
  [][\A t \in Tx : row[t].status \in {"CONFIRMED", "FAILED"} => row'[t] = row[t]]_vars

\* A process that lost its plan's lock to another one records no transaction for it,
\* however long the nonce lookup or the signature took (send.ts:179-181).
HolderRecords ==
  [][\A p \in Procs : At(p, "record") /\ proc'[p].pc = "api" /\ proc[p].style # "bare"
                        => HoldsLock(p) /\ live[proc[p].plan]]_vars

\* While a process broadcasts a transaction under its plan's lock nobody else sends it: the
\* bytes leave by that process's own step, so a refusal it gets is not routed around
\* (send.ts:288-292).
NotSentAround ==
  [][\A p \in Procs : proc[p].pc \in {"api", "rpc", "mark"} /\ proc[p].style # "bare"
                        /\ proc[p].tx \in out' \ out => proc'[p] # proc[p]]_vars

\* The lock's holder alone signs for the plan, and alone sends what it signed.
HolderAlone == HolderRecords /\ NotSentAround

\* A human decides: the nonce is used and the chain has no receipt, or the node lost a
\* swap whose quote went stale (send.ts:345, 359).
ForHuman(t) ==
  /\ fate[t] = "none"
  /\ \/ row[t].nonce < height
     \/ row[t].kind = "swap" /\ row[t].stale /\ t \notin held

\* Every signed transaction settles, whatever dies or fails on the way, unless it is put to
\* a human for good; while it is unsettled nothing new is signed (send.ts:281-293).
Settles ==
  \A t \in Tx :
    row[t].status \in Unsettled ~>
      (row[t].status \in {"CONFIRMED", "FAILED"} \/ []ForHuman(t))

\* A compliance refusal is final: bytes the Transaction API turned down for compliance
\* never go out by another path (DECISIONS D-13, D-17 (5)).
RefusalFinal == out \cap refused = {}

\* "Refused by both broadcast paths: nothing left the wallet" (send.ts:59).
NotSentNeverLeft ==
  \A t \in Tx : row[t].status = "FAILED" /\ row[t].cause = "refused" => t \notin out

===============================================================================
