--------------------------------- MODULE Register --------------------------------
(***************************************************************************)
(* pnpm agent:register: makes the ERC-8004 registry hold exactly the file  *)
(* the site serves, one transaction of the identity wallet per run.  Runs  *)
(* may overlap and may be stopped anywhere; between them an operator sets  *)
(* AGENT_ID here and on the web deploy, as the command tells.  A file is   *)
(* what it names in the registry, its content and whose addresses it has.  *)
(***************************************************************************)
EXTENDS Integers, Sequences, FiniteSets, SequencesExt

CONSTANTS Runs,              \* the times the command is started
          Broadcasts,        \* those started with --broadcast
          Wheres,            \* the sites --site may name: "public", "local", "elsewhere"
          MaxVersion, MaxAgents  \* how often the site's content changes, and others register
NoAgent == 0

VARIABLES here, site,        \* AGENT_ID in the operator's shell; what the web deploy serves
          registry,          \* the registry: each agent's owner and URI, by id
          mined,             \* the identity wallet's mined transactions, by nonce
          pool, away,        \* its transactions that our node lists as pending, and that others have
          run, crossed       \* each run; whether a registration was mined between a run's two reads

registerVars == <<here, site, registry, mined, pool, away, run, crossed>>

File(names, ver, where) == [names |-> names, ver |-> ver, where |-> where]
NoFile == File(NoAgent, 0, "none")
Tx(nonce, kind, agent, uri) == [nonce |-> nonce, kind |-> kind, agent |-> agent, uri |-> uri]
NoTx == Tx(-1, "none", NoAgent, NoFile)

Own == {a \in DOMAIN registry : registry[a].owner = "identity"}

\* ------------------------------------------------------------ agent-register-rules.ts
\* --broadcast wants a public https site; a dry run takes any.
siteProblem(where, broadcast) == broadcast /\ where # "public"
\* The file's addresses are the site's own, and its one registry entry is AGENT_ID's.
fileProblem(file, agentId) == file.where = "elsewhere" \/ file.names # agentId

nextStep(agentId, held, owner, onChain, uri) ==
    CASE agentId = NoAgent /\ held > 0 -> "refused"
      [] agentId = NoAgent /\ held = 0 -> "register"
      [] agentId # NoAgent /\ owner # "identity" -> "refused"
      [] OTHER -> IF onChain = uri THEN "current" ELSE "set-uri"

\* Mutant of broadcastRefusals: a pending transaction does not refuse.
RefusalsBarPending(r, latest, pending) == siteProblem(run[r].file.where, TRUE)
\* The simulation, the gas bounds and the fee may refuse at any time; a pending transaction always does.
broadcastRefusals(r, latest, pending) == siteProblem(run[r].file.where, TRUE) \/ pending > latest

\* -------------------------------------------------------------------- agent-register.ts
At(r, pc) == run[r].pc = pc
To(r, pc) == run' = [run EXCEPT ![r].pc = pc]
World == <<here, site, registry, mined, pool, away>>

\* The file exactly as the site serves it.
Fetch(r) ==
    /\ At(r, "idle")
    /\ \E where \in Wheres :
          LET file == File(site.id, site.ver, where)
          IN  run' = [run EXCEPT ![r] = [@ EXCEPT !.file = file, !.id = here,
                                           !.pc = IF fileProblem(file, here) THEN "over" ELSE "held"]]
    /\ UNCHANGED World /\ UNCHANGED crossed

\* balanceOf, and with AGENT_ID then ownerOf and tokenURI.
ReadHeld(r) == /\ At(r, "held")
               /\ run' = [run EXCEPT ![r] = [@ EXCEPT !.held = Cardinality(Own),
                                                !.pc = IF run[r].id = NoAgent THEN "step" ELSE "owner"]]
               /\ UNCHANGED World /\ UNCHANGED crossed
ReadOwner(r) ==
    /\ At(r, "owner")
    /\ LET id == run[r].id
       IN  run' = [run EXCEPT ![r] = [@ EXCEPT !.pc = "step",
               !.owner = IF id \in DOMAIN registry THEN registry[id].owner ELSE "none",
               !.onChain = IF id \in DOMAIN registry THEN registry[id].uri ELSE NoFile]]
    /\ UNCHANGED World /\ UNCHANGED crossed

\* The wallet's transaction counts as our node has them, mined and with pending ones.
latestNonce == Len(mined)
pendingNonce == Len(mined) + Cardinality({t \in pool : t.nonce >= Len(mined)})

\* The step, its dry run, and why --broadcast must not sign it.
Rehearse(r) ==
    /\ At(r, "step")
    /\ LET step == nextStep(run[r].id, run[r].held, run[r].owner, run[r].onChain, run[r].file)
           refused == \/ step \in {"refused", "current"} \/ r \notin Broadcasts
                      \/ broadcastRefusals(r, latestNonce, pendingNonce)
       IN  run' = [run EXCEPT ![r] = [@ EXCEPT !.pc = IF refused THEN "over" ELSE "confirm",
                                        !.tx = IF refused THEN NoTx
                                               ELSE Tx(pendingNonce, step, run[r].id, run[r].file)]]
    /\ UNCHANGED World /\ UNCHANGED crossed

\* A typed y: the bytes are signed.
Confirm(r) == At(r, "confirm") /\ To(r, "api") /\ UNCHANGED World /\ UNCHANGED crossed

\* The Transaction API takes the bytes (our node hears of them, or not yet), refuses them for good,
\* or fails, having taken them or not; then the same bytes go to our node.
SendApi(r) ==
    /\ At(r, "api")
    /\ \/ pool' = pool \cup {run[r].tx} /\ To(r, "wait") /\ UNCHANGED away
       \/ away' = away \cup {run[r].tx} /\ (To(r, "wait") \/ To(r, "rpc")) /\ UNCHANGED pool
       \/ (To(r, "over") \/ To(r, "rpc")) /\ UNCHANGED <<pool, away>>
    /\ UNCHANGED <<here, site, registry, mined, crossed>>

AlreadyKnown(t) == t \in pool \/ t.nonce < Len(mined)
\* Our node keeps what it has for a nonce; the run gives up, but says nothing is undone.
SendRpc(r) ==
    /\ At(r, "rpc")
    /\ \/ AlreadyKnown(run[r].tx) /\ To(r, "wait") /\ UNCHANGED pool
       \/ /\ ~AlreadyKnown(run[r].tx) /\ \A t \in pool : t.nonce # run[r].tx.nonce
          /\ pool' = pool \cup {run[r].tx} /\ To(r, "wait")
       \/ ~AlreadyKnown(run[r].tx) /\ To(r, "over") /\ UNCHANGED pool
    /\ UNCHANGED <<here, site, registry, mined, away, crossed>>

Receipt(t) == \E i \in DOMAIN mined : mined[i].tx = t
RegisteredAs(t) == mined[CHOOSE i \in DOMAIN mined : mined[i].tx = t].agent
\* The receipt, or three minutes without one; what it says of the agent is what the operator reads.
Wait(r) ==
    /\ At(r, "wait")
    /\ run' = [run EXCEPT ![r] = [@ EXCEPT !.pc = "over",
                  !.told = IF ~Receipt(run[r].tx) THEN NoAgent
                           ELSE IF run[r].tx.kind = "register" THEN RegisteredAs(run[r].tx)
                           ELSE run[r].tx.agent]]
    /\ UNCHANGED World /\ UNCHANGED crossed

\* A refused fetch or dry run, an answer other than y, Ctrl-C, a failed read: the run ends.
Stop(r) == run[r].pc \notin {"idle", "over"} /\ To(r, "over") /\ UNCHANGED World /\ UNCHANGED crossed

\* --------------------------------------------------------------------------- the chain
Mine == \E t \in pool \cup away :
    /\ t.nonce = Len(mined)
    /\ mined' = Append(mined, [tx |-> t, agent |-> IF t.kind = "register" THEN Len(registry) + 1 ELSE t.agent])
    /\ registry' = IF t.kind = "register" THEN Append(registry, [owner |-> "identity", uri |-> t.uri])
                   ELSE [registry EXCEPT ![t.agent].uri = t.uri]
    /\ pool' = pool \ {t} /\ away' = away \ {t}
    /\ crossed' = (crossed \/ (/\ t.kind = "register"
                               /\ \E r \in Runs : At(r, "step") /\ run[r].id = NoAgent /\ run[r].held = 0))
    /\ UNCHANGED <<here, site, run>>
\* Our node hears of a transaction, or no longer lists it.
Gossip == \E t \in away : /\ \A u \in pool : u.nonce # t.nonce
                          /\ pool' = pool \cup {t} /\ away' = away \ {t}
                          /\ UNCHANGED <<here, site, registry, mined, run, crossed>>
Evict == \E t \in pool : pool' = pool \ {t} /\ away' = away \cup {t}
                         /\ UNCHANGED <<here, site, registry, mined, run, crossed>>
OthersRegister == /\ Len(registry) < MaxAgents
                  /\ registry' = Append(registry, [owner |-> "other", uri |-> NoFile])
                  /\ UNCHANGED <<here, site, mined, pool, away, run, crossed>>

\* ------------------------------------------------------------------------ the operator
\* AGENT_ID as a run told it, or as BscScan lists it: here, on the deploy, or mistaken.
SetHere == \E a \in DOMAIN registry : here' = a /\ UNCHANGED <<site, registry, mined, pool, away, run, crossed>>
Deploy == /\ \/ \E a \in DOMAIN registry : site' = [site EXCEPT !.id = a]
             \/ site.ver < MaxVersion /\ site' = [site EXCEPT !.ver = @ + 1]
          /\ UNCHANGED <<here, registry, mined, pool, away, run, crossed>>

RegisterInit ==
    /\ here = NoAgent /\ site = [id |-> NoAgent, ver |-> 1] /\ registry = << >> /\ mined = << >>
    /\ pool = {} /\ away = {} /\ crossed = FALSE
    /\ run = [r \in Runs |-> [pc |-> "idle", id |-> NoAgent, file |-> NoFile, held |-> 0, owner |-> "none",
                              onChain |-> NoFile, tx |-> NoTx, told |-> NoAgent]]
RegisterNext ==
    \/ \E r \in Runs : \/ Fetch(r) \/ ReadHeld(r) \/ ReadOwner(r) \/ Rehearse(r) \/ Confirm(r)
                       \/ SendApi(r) \/ SendRpc(r) \/ Wait(r) \/ Stop(r)
    \/ Mine \/ Gossip \/ Evict \/ OthersRegister \/ SetHere \/ Deploy
RegisterSpec == RegisterInit /\ [][RegisterNext]_registerVars

(***************************************************************************)
(* Properties                                                              *)
(***************************************************************************)
\* agent-register.ts promises that a new run never registers a second agent.
OneAgent == Cardinality(Own) <= 1

\* However runs overlap, stop, time out or lose their transaction to another node, a second agent is
\* registered only if the first was mined between a run's balanceOf and its reading of the nonces.
OneAgentUnlessCrossed == crossed \/ OneAgent

\* What an agent of the wallet holds on chain was served by the public site, and names that agent
\* or, fresh from its registration, none; and an id a run reports is an agent of the wallet.
EntryTrue == /\ \A a \in Own : registry[a].uri.where = "public" /\ registry[a].uri.names \in {NoAgent, a}
             /\ \A r \in Runs : run[r].told \in Own \cup {NoAgent}

==================================================================================
