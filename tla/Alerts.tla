---------------------------------- MODULE Alerts ---------------------------------
(***************************************************************************)
(* Telling ops (dx-watch.ts, db/dx.ts, alerts.ts): every API answer of the *)
(* worker and of the scripts beside it goes past the DX watch; a finding   *)
(* is stored once, and its first sighting is told.  A failing cycle or     *)
(* tick is told under a key of its own, once an hour.                      *)
(***************************************************************************)
EXTENDS Answers, FiniteSets, FiniteSetsExt

CONSTANTS Watchers,   \* the processes on one database
          Rows,       \* the answers they get: api_calls rows [module, status, code]
          Failures,   \* the keys of failed cycles and ticks
          MaxTold     \* what ops hear of a key is counted so far

VARIABLES dxEvents,   \* the findings stored, and which of them are marked as logged
          logged,
          telling,    \* what each process is about to send
          lastSent,   \* the keys each has sent within the hour
          told        \* how often ops have heard of each key

alertVars == <<dxEvents, logged, telling, lastSent, told>>

\* dx:<kind>:<module>:<endpoint>:<code>; an endpoint is its module's.
Key(row) == [kind |-> dxFindingOf(row), module |-> row.module, code |-> row.code]
Findings == {Key(row) : row \in {r \in Rows : dxFindingOf(r) # "none"}}
Failed(key) == [kind |-> "failed", module |-> key, code |-> 0]
Keys == Findings \cup {Failed(key) : key \in Failures}

\* ----------------------------------------------------------------- dx-watch.ts, db/dx.ts
\* Mutant of recordDxEvent: every sighting counts as the first.
RecordEachTime(p, row) ==
    /\ dxFindingOf(row) # "none"
    /\ dxEvents' = dxEvents \cup {Key(row)}
    /\ telling' = [telling EXCEPT ![p] = @ \cup {Key(row)}]
    /\ UNCHANGED <<logged, lastSent, told>>
\* The finding is inserted unless it is there; the insert tells who was first.
recordDxEvent(p, row) ==
    /\ dxFindingOf(row) # "none"
    /\ dxEvents' = dxEvents \cup {Key(row)}
    /\ telling' = IF Key(row) \in dxEvents THEN telling ELSE [telling EXCEPT ![p] = @ \cup {Key(row)}]
    /\ UNCHANGED <<logged, lastSent, told>>
\* pnpm dx:events --mark: what it lists as not logged is marked; a finding stored later is not.
markDxEventsLogged == /\ logged # dxEvents /\ logged' = dxEvents
                      /\ UNCHANGED <<dxEvents, telling, lastSent, told>>

\* ------------------------------------------------------------------------- alerts.ts
\* A cycle that ended FAILED, a part of the tick that threw.
cycleAlert(p) == \E key \in Failures : /\ telling' = [telling EXCEPT ![p] = @ \cup {Failed(key)}]
                                       /\ UNCHANGED <<dxEvents, logged, lastSent, told>>
\* A key of the last hour is suppressed; any other counts as sent before Telegram has answered,
\* and whatever it answers.
send(p) == \E key \in telling[p] :
    /\ telling' = [telling EXCEPT ![p] = @ \ {key}]
    /\ IF key \in lastSent[p] THEN UNCHANGED <<lastSent, told>>
       ELSE /\ lastSent' = [lastSent EXCEPT ![p] = @ \cup {key}]
            /\ \/ told' = [told EXCEPT ![key] = Min({MaxTold, @ + 1})]
               \/ UNCHANGED told
    /\ UNCHANGED <<dxEvents, logged>>
HourPasses(p) == \E key \in lastSent[p] : /\ lastSent' = [lastSent EXCEPT ![p] = @ \ {key}]
                                          /\ UNCHANGED <<dxEvents, logged, telling, told>>
\* A process ends, or dies, and what it had in memory with it; another of its kind starts.
Restart(p) == /\ telling[p] # {} \/ lastSent[p] # {}
              /\ telling' = [telling EXCEPT ![p] = {}] /\ lastSent' = [lastSent EXCEPT ![p] = {}]
              /\ UNCHANGED <<dxEvents, logged, told>>

AlertInit == /\ dxEvents = {} /\ logged = {} /\ telling = [p \in Watchers |-> {}]
             /\ lastSent = [p \in Watchers |-> {}] /\ told = [key \in Keys |-> 0]
AlertNext == \/ \E p \in Watchers : \/ \E row \in Rows : recordDxEvent(p, row)
                                    \/ cycleAlert(p) \/ send(p) \/ HourPasses(p) \/ Restart(p)
             \/ markDxEventsLogged
AlertSpec == AlertInit /\ [][AlertNext]_alertVars

(***************************************************************************)
(* Properties                                                              *)
(***************************************************************************)
\* Ops hear of one finding at most once, whichever processes meet it, however often, and whatever
\* restarts.
ToldOnce == \A key \in Findings : told[key] <= 1

\* dx-watch.ts says a finding's first sighting alerts ops: what is stored was told, or is about to be.
SightingTold == \A key \in dxEvents : told[key] > 0 \/ \E p \in Watchers : key \in telling[p]

==================================================================================
