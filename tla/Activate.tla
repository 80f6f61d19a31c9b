--------------------------------- MODULE Activate --------------------------------
(***************************************************************************)
(* Deploying the site: migrations of the database by several checkouts,    *)
(* their rollback, and pnpm cf:activate, which puts the Worker on the      *)
(* database with three secrets of its own and asks the site whether it is. *)
(* A migration is its number in the journal; a checkout, how many it has.  *)
(* A read and what follows it are two steps; other runs go between.        *)
(***************************************************************************)
EXTENDS Integers, Sequences, FiniteSets, FiniteSetsExt

CONSTANTS Acts,        \* runs of pnpm cf:activate
          Migrators,   \* boots and scripts that migrate
          Rollers,     \* runs of pnpm db:rollback
          Journal      \* the migrations each of them knows (1..Journal[p])
Nobody == "nobody"

VARIABLES applied,     \* the migrations of the database, each with its tables
          overtaken,   \* a migration came between a rollback's check and its transaction
          rolled,      \* something was rolled back
          secrets,     \* whose secrets the Worker has
          live,        \* whose secrets the versions that answer have (more than one while rolling out)
          act, back,   \* the runs: of cf:activate, and of db:rollback
          wrote        \* the runs whose secrets reached the Worker

activateVars == <<applied, overtaken, rolled, secrets, live, act, back, wrote>>

\* --------------------------------------------------------------------- migrations.ts
latest == Max(applied \cup {0})
\* drizzle applies, in one transaction, what the journal has after the latest applied.
Pending(p) == {t \in 1..Journal[p] : t > latest}
migrateDb(p) == /\ applied' = applied \cup Pending(p)
                /\ overtaken' = (overtaken \/ (Pending(p) # {} /\ \E r \in Rollers : back[r] > 0))

Boot(p) == migrateDb(p) /\ UNCHANGED <<rolled, secrets, live, act, back, wrote>>

\* The tag must be the latest applied, and in this checkout's journal (back: the tag, once checked).
CheckRollback(r) == /\ back[r] = 0 /\ latest \in 1..Journal[r]
                    /\ back' = [back EXCEPT ![r] = latest]
                    /\ UNCHANGED <<applied, overtaken, rolled, secrets, live, act, wrote>>
\* Under the lock: the inverse and the bookkeeping; it fails, and changes nothing, when the tables
\* are gone, or when a later migration needs them.
Rollback(r) == /\ back[r] > 0
               /\ back' = [back EXCEPT ![r] = -1]
               /\ \/ back[r] \in applied /\ applied' = applied \ {back[r]} /\ rolled' = TRUE
                  \/ back[r] # latest /\ UNCHANGED <<applied, rolled>>
               /\ UNCHANGED <<overtaken, secrets, live, act, wrote>>

\* ------------------------------------------------------ cf-activate-rules.ts, cf-activate.ts
At(a, pc) == act[a] = pc
To(a, pc) == act' = [act EXCEPT ![a] = pc]
Tags == <<applied, overtaken, rolled, back>>
WorkerSide == <<secrets, live, wrote>>

\* A target, codes and a database URL that will do; anything else is refused and changes nothing.
Ask(a) == At(a, "idle") /\ (To(a, "check") \/ To(a, "refused")) /\ UNCHANGED Tags /\ UNCHANGED WorkerSide

\* Mutant of migrationGap: a database ahead or level has nothing pending, and so has one behind.
OnlyUnknown(a) == [pending |-> {}, unknown |-> applied \ (1..Journal[a])]
migrationGap(a) == [pending |-> (1..Journal[a]) \ applied, unknown |-> applied \ (1..Journal[a])]
\* Migrations this checkout does not know refuse it; pending ones are a question.
CheckDatabase(a) ==
    /\ At(a, "check")
    /\ LET gap == migrationGap(a)
       IN  CASE gap.unknown # {} -> To(a, "refused")
             [] gap.unknown = {} /\ gap.pending = {} -> To(a, "write")
             [] OTHER -> To(a, "migrate") \/ To(a, "refused")
    /\ UNCHANGED Tags /\ UNCHANGED WorkerSide
ApplyNow(a) == At(a, "migrate") /\ migrateDb(a) /\ To(a, "write") /\ UNCHANGED <<rolled, back>> /\ UNCHANGED WorkerSide

\* secret bulk: one request, all three or none. It may fail after it took effect, and it exits 0
\* when it read nothing. A new version answers everywhere only after a while.
Set(a) == secrets' = a /\ live' = live \cup {a} /\ wrote' = wrote \cup {a}
WriteSecrets(a) ==
    /\ At(a, "write")
    /\ \/ To(a, "refused") /\ UNCHANGED WorkerSide
       \/ (Set(a) \/ UNCHANGED WorkerSide)
          /\ To(a, "rollout")
       \/ Set(a) /\ To(a, "failed")
    /\ UNCHANGED Tags
RollOut == /\ live # {secrets} /\ live' = {secrets}
           /\ UNCHANGED Tags /\ UNCHANGED <<secrets, act, wrote>>

\* Some version answers: with a database it is taken for the new one; without, asked a minute long.
Answering(a) == {v \in live : v # Nobody}
RolledOut(a) == /\ At(a, "rollout")
                /\ \/ Answering(a) # {} /\ To(a, "smoke")
                   \/ Nobody \in live /\ To(a, "failed")
                /\ UNCHANGED Tags /\ UNCHANGED WorkerSide

\* The smoke check of the version that answers: red without a database, or without a table it reads.
SmokeRed(v) == v = Nobody \/ ~(1..Journal[v] \subseteq applied)
Smoke(a) == /\ At(a, "smoke")
            /\ \E v \in live : To(a, IF SmokeRed(v) THEN "failed" ELSE "done")
            /\ UNCHANGED Tags /\ UNCHANGED WorkerSide

ActivateInit ==
    /\ \E n \in {0} \cup {Journal[p] : p \in Migrators} : applied = 1..n
    /\ overtaken = FALSE /\ rolled = FALSE /\ secrets = Nobody /\ live = {Nobody} /\ wrote = {}
    /\ act = [a \in Acts |-> "idle"]
    /\ back = [r \in Rollers |-> 0]
ActivateNext ==
    \/ \E p \in Migrators : Boot(p)
    \/ \E r \in Rollers : CheckRollback(r) \/ Rollback(r)
    \/ \E a \in Acts : \/ Ask(a) \/ CheckDatabase(a) \/ ApplyNow(a) \/ WriteSecrets(a)
                       \/ RolledOut(a) \/ Smoke(a)
    \/ RollOut
ActivateSpec == ActivateInit /\ [][ActivateNext]_activateVars

(***************************************************************************)
(* Properties                                                              *)
(***************************************************************************)
\* Whatever migrates and rolls back side by side, the database holds the first migrations of the
\* journal, without a gap no later migrateDb would fill; unless a rollback was overtaken.
NoGap == overtaken \/ applied = 1..latest

\* The Worker is never put on a database that lacks a table its site reads, unless something was
\* rolled back; and a first activation that ends well has put the Worker on a database.
SiteReadable ==
    /\ rolled \/ \A a \in wrote : 1..Journal[a] \subseteq applied
    /\ \A a \in Acts : At(a, "done") => wrote # {}

\* cf-activate.ts takes the Worker's own answer as the proof that its secrets were written.
AnswerProves == \A a \in Acts : At(a, "done") => a \in wrote

==================================================================================
