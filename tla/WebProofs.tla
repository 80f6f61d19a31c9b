---- MODULE WebProofs ----
(***************************************************************************)
(* The web's two sides, Visit and Skill, proved for any plans, requests     *)
(* and limits.  First, sums over finite sets: the library has no facts      *)
(* about SumFunction, and the spend ledger, the budget and the records are  *)
(* all sums.  Then the judge's side: a deposit is sent once, reservations   *)
(* and purchases keep within the budget, and a page is answered for good.   *)
(* Last, the skill's side: a transaction counts once, what a report began   *)
(* is finished by its patch, limits hold where the skill is obeyed, and     *)
(* what the plans share in Venus covers the principal of each.              *)
(***************************************************************************)
EXTENDS Web, SequenceTheorems, FiniteSetTheorems, WellFoundedInduction, TLAPS

-----------------------------------------------------------------------------
(* Sums over finite sets                                                   *)

\* A set of numbers that is not empty has a least one.
LEMMA LeastOf ==
    ASSUME NEW s, s \subseteq Nat, s # {}
    PROVE  \E m \in s : \A n \in s : m <= n
  <1> DEFINE Less == OpToRel(<, Nat)
  <1>1. \A x, y \in Nat : x < y => <<x, y>> \in Less
    BY DEF OpToRel
  <1>2. IsWellFoundedOn(Less, Nat)
    BY NatLessThanWellFounded
  <1> HIDE DEF Less
  <1>3. PICK x \in s : \A y \in s : <<y, x>> \notin Less
    BY <1>2, WFMin
  <1>4. \A y \in s : ~(y < x)
    BY <1>1, <1>3
  <1>5. \A y \in s : x <= y
    BY <1>3, <1>4
  <1>6. QED
    BY <1>3, <1>5

\* What is wrong of some finite set in sets is wrong of a smallest one.
LEMMA SmallestSet ==
    ASSUME NEW sets, sets # {}, \A s \in sets : IsFiniteSet(s)
    PROVE  \E s \in sets : \A t \in sets : Cardinality(s) <= Cardinality(t)
  <1> DEFINE sizes == {Cardinality(s) : s \in sets}
  <1>1. sizes \subseteq Nat /\ sizes # {}
    BY FS_CardinalityType
  <1> HIDE DEF sizes
  <1>2. PICK m \in sizes : \A n \in sizes : m <= n
    BY <1>1, LeastOf, Zenon
  <1>3. PICK s \in sets : m = Cardinality(s)
    BY DEF sizes
  <1>4. \A t \in sets : Cardinality(t) \in sizes
    BY DEF sizes
  <1>5. QED
    BY <1>2, <1>3, <1>4, Zenon

\* One element less.
First(s) == CHOOSE x \in s : TRUE
LEMMA OneLess ==
    ASSUME NEW s, IsFiniteSet(s), NEW x \in s
    PROVE  /\ IsFiniteSet(s \ {x}) /\ Cardinality(s \ {x}) \in Nat /\ Cardinality(s) \in Nat
           /\ Cardinality(s \ {x}) < Cardinality(s)
  <1>1. IsFiniteSet(s \ {x}) /\ Cardinality(s \ {x}) = Cardinality(s) - 1
    BY FS_RemoveElement
  <1>2. Cardinality(s) \in Nat /\ Cardinality(s \ {x}) \in Nat
    BY <1>1, FS_CardinalityType
  <1>3. QED
    BY <1>1, <1>2

LEMMA FirstIn ==
    ASSUME NEW s, s # {}
    PROVE  First(s) \in s
  BY DEF First

\* The sums of all subsets.
Body(f, g, s) == IF s = {} THEN 0 ELSE f[First(s)] + g[s \ {First(s)}]
Sums(f, D, g) == g = [s \in SUBSET D |-> Body(f, g, s)]

LEMMA SumIs ==
    ASSUME NEW f, NEW D
    PROVE  SumFunctionOnSet(f, D) = (CHOOSE g : Sums(f, D, g))[D]
  BY Zenon DEF SumFunctionOnSet, FoldFunctionOnSet, MapThenFoldSet, Sums, Body, First

LEMMA SubsetsFinite ==
    ASSUME NEW D, IsFiniteSet(D)
    PROVE  \A s \in SUBSET D : IsFiniteSet(s) /\ Cardinality(s) \in Nat
  BY FS_Subset, FS_CardinalityType

LEMMA SumsExist ==
    ASSUME NEW f, NEW D, IsFiniteSet(D)
    PROVE  \E g : Sums(f, D, g)
  <1> DEFINE Good(n, g) == \A s \in SUBSET D : Cardinality(s) <= n => g[s] = Body(f, g, s)
             bad == {n \in Nat : ~\E g : Good(n, g)}
  <1>0. \A s \in SUBSET D : IsFiniteSet(s) /\ Cardinality(s) \in Nat
    BY SubsetsFinite
  <1>1. ASSUME bad # {} PROVE FALSE
    <2>1. PICK n \in bad : \A k \in bad : n <= k
      <3>1. bad \subseteq Nat
        OBVIOUS
      <3> HIDE DEF bad
      <3>2. QED
        BY <1>1, <3>1, LeastOf, Zenon
    <2>2. PICK f0 : \A s \in SUBSET D : Cardinality(s) < n => f0[s] = Body(f, f0, s)
      <3>1. CASE n = 0
        <4>1. \A s \in SUBSET D : ~(Cardinality(s) < n)
          BY <1>0, <3>1
        <4>2. QED
          BY <4>1, Zenon
      <3>2. CASE n # 0
        <4>1. n - 1 \in Nat /\ n - 1 \notin bad
          BY <2>1, <3>2
        <4>2. PICK g : Good(n - 1, g)
          BY <4>1
        <4>3. \A s \in SUBSET D : Cardinality(s) < n => Cardinality(s) <= n - 1
          BY <1>0, <2>1
        <4>4. QED
          BY <4>2, <4>3, Zenon
      <3>3. QED
        BY <3>1, <3>2
    <2> DEFINE g == [s \in SUBSET D |-> IF Cardinality(s) < n THEN f0[s] ELSE Body(f, f0, s)]
    <2>3. ASSUME NEW s \in SUBSET D, Cardinality(s) <= n PROVE g[s] = Body(f, g, s)
      <3>1. g[s] = Body(f, f0, s)
        BY <2>2, Zenon
      <3>2. CASE s = {}
        BY <3>1, <3>2, Zenon DEF Body
      <3>3. CASE s # {}
        <4> DEFINE t == s \ {First(s)}
        <4>1. t \in SUBSET D /\ Cardinality(t) < n
          <5>1. First(s) \in s
            BY <3>3, FirstIn
          <5>2. Cardinality(t) \in Nat /\ Cardinality(s) \in Nat /\ Cardinality(t) < Cardinality(s)
            BY <1>0, <5>1, OneLess
          <5>3. n \in Nat
            OBVIOUS
          <5> HIDE DEF t
          <5>4. Cardinality(t) < n
            BY <2>3, <5>2, <5>3
          <5>5. t \in SUBSET D
            BY DEF t
          <5>6. QED
            BY <5>4, <5>5
        <4>2. g[t] = f0[t]
          BY <4>1, Zenon
        <4>3. QED
          BY <3>1, <3>3, <4>2, Zenon DEF Body
      <3>4. QED
        BY <3>2, <3>3
    <2> HIDE DEF g
    <2>4. \E h : Good(n, h)
      BY <2>3, Zenon
    <2>5. QED
      BY <2>1, <2>4, Zenon
  <1>2. Cardinality(D) \in Nat
    BY FS_CardinalityType
  <1>3. PICK g : Good(Cardinality(D), g)
    BY <1>1, <1>2
  <1> DEFINE h == [s \in SUBSET D |-> g[s]]
  <1>4. \A s \in SUBSET D : g[s] = Body(f, g, s)
    <2>1. \A s \in SUBSET D : Cardinality(s) <= Cardinality(D)
      BY FS_Subset
    <2>2. QED
      BY <1>3, <2>1, Zenon
  <1>5. \A s \in SUBSET D : h[s] = Body(f, h, s)
    <2> TAKE s \in SUBSET D
    <2>1. h[s] = Body(f, g, s)
      BY <1>4, Zenon
    <2>2. s \ {First(s)} \in SUBSET D
      OBVIOUS
    <2>3. h[s \ {First(s)}] = g[s \ {First(s)}]
      BY <2>2, Zenon
    <2>4. QED
      BY <2>1, <2>3, Zenon DEF Body
  <1>6. h = [s \in SUBSET D |-> Body(f, h, s)]
    <2>1. h = [s \in SUBSET D |-> h[s]]
      BY Zenon
    <2> HIDE DEF h
    <2>2. QED
      BY <1>5, <2>1, Zenon
  <1>7. QED
    BY <1>6, Zenon DEF Sums

\* A sum depends on the summands alone; in particular, on a smaller set of them.
LEMMA SumsAgree ==
    ASSUME NEW f, NEW f2, NEW D, NEW E, IsFiniteSet(D), E \subseteq D, \A x \in E : f[x] = f2[x],
           NEW g, NEW h, Sums(f, D, g), Sums(f2, E, h)
    PROVE  g[E] = h[E]
  <1> DEFINE bad == {s \in SUBSET E : g[s] # h[s]}
  <1>1. SUFFICES ASSUME bad # {} PROVE FALSE
    BY Zenon
  <1>2. \A s \in bad : IsFiniteSet(s)
    BY SubsetsFinite
  <1>3. PICK s \in bad : \A t \in bad : Cardinality(s) <= Cardinality(t)
    <2> HIDE DEF bad
    <2>1. QED
      BY <1>1, <1>2, SmallestSet, Zenon
  <1>4. g[s] = Body(f, g, s) /\ h[s] = Body(f2, h, s)
    <2>1. s \in SUBSET E /\ s \in SUBSET D
      OBVIOUS
    <2>2. QED
      BY <2>1, Zenon DEF Sums
  <1>5. s # {}
    BY <1>4, Zenon DEF Body
  <1> DEFINE t == s \ {First(s)}
  <1>6. First(s) \in s /\ t \in SUBSET E
    BY <1>5, FirstIn
  <1>7. t \notin bad
    <2>1. Cardinality(t) \in Nat /\ Cardinality(s) \in Nat /\ Cardinality(t) < Cardinality(s)
      BY <1>2, <1>6, OneLess
    <2> HIDE DEF t
    <2>2. ~(Cardinality(s) <= Cardinality(t))
      BY <2>1
    <2>3. QED
      BY <1>3, <2>2, Zenon
  <1>8. g[t] = h[t]
    BY <1>6, <1>7, Zenon
  <1>9. f[First(s)] = f2[First(s)]
    BY <1>6, Zenon
  <1>10. g[s] = h[s]
    BY <1>4, <1>5, <1>8, <1>9, Zenon DEF Body
  <1>11. QED
    BY <1>10

\* The sum over nothing is zero; a sum is its first summand and the rest.
LEMMA SumSteps ==
    ASSUME NEW f, NEW D, IsFiniteSet(D)
    PROVE  SumFunctionOnSet(f, D) =
             IF D = {} THEN 0 ELSE f[First(D)] + SumFunctionOnSet(f, D \ {First(D)})
  <1> DEFINE g == CHOOSE g : Sums(f, D, g)
             E == D \ {First(D)}
             h == CHOOSE h : Sums(f, E, h)
  <1>1. IsFiniteSet(E) /\ E \subseteq D
    BY FS_Subset
  <1>2. Sums(f, D, g) /\ Sums(f, E, h)
    BY <1>1, SumsExist, Zenon
  <1>3. SumFunctionOnSet(f, D) = g[D] /\ SumFunctionOnSet(f, E) = h[E]
    BY SumIs, Zenon
  <1> HIDE DEF g, h
  <1>4. g[E] = h[E]
    <2>1. \A x \in E : f[x] = f[x]
      OBVIOUS
    <2> HIDE DEF E
    <2>2. QED
      BY <1>1, <1>2, <2>1, SumsAgree
  <1>5. g[D] = Body(f, g, D)
    <2>1. D \in SUBSET D
      OBVIOUS
    <2>2. QED
      BY <1>2, <2>1, Zenon DEF Sums
  <1>6. QED
    BY <1>3, <1>4, <1>5, Zenon DEF Body

LEMMA SumSame ==
    ASSUME NEW f, NEW f2, NEW D, IsFiniteSet(D), \A x \in D : f[x] = f2[x]
    PROVE  SumFunctionOnSet(f, D) = SumFunctionOnSet(f2, D)
  <1> DEFINE g == CHOOSE g : Sums(f, D, g)
             h == CHOOSE h : Sums(f2, D, h)
  <1>1. Sums(f, D, g) /\ Sums(f2, D, h)
    BY SumsExist, Zenon
  <1>2. SumFunctionOnSet(f, D) = g[D] /\ SumFunctionOnSet(f2, D) = h[D]
    BY SumIs, Zenon
  <1> HIDE DEF g, h
  <1>3. D \subseteq D
    OBVIOUS
  <1>4. g[D] = h[D]
    BY <1>1, <1>3, SumsAgree
  <1>5. QED
    BY <1>2, <1>4

LEMMA SumType ==
    ASSUME NEW f, NEW D, IsFiniteSet(D), \A x \in D : f[x] \in Nat
    PROVE  SumFunctionOnSet(f, D) \in Nat
  <1> DEFINE bad == {s \in SUBSET D : SumFunctionOnSet(f, s) \notin Nat}
  <1>1. SUFFICES ASSUME bad # {} PROVE FALSE
    BY Zenon
  <1>2. \A s \in bad : IsFiniteSet(s)
    BY SubsetsFinite
  <1>3. PICK s \in bad : \A t \in bad : Cardinality(s) <= Cardinality(t)
    <2> HIDE DEF bad
    <2>1. QED
      BY <1>1, <1>2, SmallestSet, Zenon
  <1>4. SumFunctionOnSet(f, s) =
          IF s = {} THEN 0 ELSE f[First(s)] + SumFunctionOnSet(f, s \ {First(s)})
    BY <1>2, SumSteps, Zenon
  <1>5. s # {}
    BY <1>4
  <1> DEFINE t == s \ {First(s)}
  <1>6. First(s) \in s /\ t \in SUBSET D
    BY <1>5, FirstIn
  <1>7. t \notin bad
    <2>1. Cardinality(t) \in Nat /\ Cardinality(s) \in Nat /\ Cardinality(t) < Cardinality(s)
      BY <1>2, <1>6, OneLess
    <2> HIDE DEF t
    <2>2. ~(Cardinality(s) <= Cardinality(t))
      BY <2>1
    <2>3. QED
      BY <1>3, <2>2, Zenon
  <1>8. SumFunctionOnSet(f, t) \in Nat
    BY <1>6, <1>7, Zenon
  <1>9. f[First(s)] \in Nat
    BY <1>6
  <1>10. SumFunctionOnSet(f, s) = f[First(s)] + SumFunctionOnSet(f, t)
    BY <1>4, <1>5, Zenon
  <1>11. SumFunctionOnSet(f, s) \in Nat
    <2> HIDE DEF t
    <2>1. QED
      BY <1>8, <1>9, <1>10
  <1>12. QED
    BY <1>11

\* Any summand can be taken out.
LEMMA SumSplit ==
    ASSUME NEW f, NEW D, IsFiniteSet(D), \A x \in D : f[x] \in Nat, NEW x \in D
    PROVE  SumFunctionOnSet(f, D) = f[x] + SumFunctionOnSet(f, D \ {x})
  <1> DEFINE S(s) == SumFunctionOnSet(f, s)
             wrong(s) == \E y \in s : S(s) # f[y] + S(s \ {y})
             bad == {s \in SUBSET D : wrong(s)}
  <1>0. \A s \in SUBSET D : S(s) \in Nat
    <2> TAKE s \in SUBSET D
    <2>1. IsFiniteSet(s) /\ \A y \in s : f[y] \in Nat
      BY SubsetsFinite
    <2>2. QED
      BY <2>1, SumType, Zenon
  <1>1. SUFFICES ASSUME bad # {} PROVE FALSE
    <2>1. D \in SUBSET D
      OBVIOUS
    <2>2. QED
      BY <1>1, <2>1, Zenon
  <1>2. \A s \in bad : IsFiniteSet(s)
    BY SubsetsFinite
  <1>3. PICK s \in bad : \A t \in bad : Cardinality(s) <= Cardinality(t)
    <2> HIDE DEF bad
    <2>1. QED
      BY <1>1, <1>2, SmallestSet, Zenon
  <1>4. PICK y \in s : S(s) # f[y] + S(s \ {y})
    BY Zenon
  <1> DEFINE c == First(s)
             t == s \ {c}
             u == s \ {y}
             both == (s \ {c}) \ {y}
  <1>5. c \in s /\ S(s) = f[c] + S(t)
    <2>1. s # {}
      BY <1>4
    <2>2. QED
      BY <1>2, <2>1, FirstIn, SumSteps, Zenon
  <1>6. c # y
    BY <1>4, <1>5, Zenon
  <1>7. /\ t \in SUBSET D /\ u \in SUBSET D /\ both \in SUBSET D
        /\ y \in t /\ c \in u /\ t \ {y} = both /\ u \ {c} = both
        /\ f[c] \in Nat /\ f[y] \in Nat
    BY <1>5, <1>6
  <1>8. ~wrong(t) /\ ~wrong(u)
    <2>1. /\ Cardinality(t) \in Nat /\ Cardinality(s) \in Nat /\ Cardinality(t) < Cardinality(s)
          /\ Cardinality(u) \in Nat /\ Cardinality(u) < Cardinality(s)
      BY <1>2, <1>5, OneLess
    <2>2. t \notin bad /\ u \notin bad
      <3> HIDE DEF t, u, bad
      <3>1. ~(Cardinality(s) <= Cardinality(t)) /\ ~(Cardinality(s) <= Cardinality(u))
        BY <2>1
      <3>2. QED
        BY <1>3, <3>1, Zenon
    <2>3. QED
      BY <1>7, <2>2, Zenon
  <1>9. S(t) = f[y] + S(both) /\ S(u) = f[c] + S(both)
    BY <1>7, <1>8, Zenon
  <1>10. S(both) \in Nat
    BY <1>0, <1>7, Zenon
  <1>11. S(s) = f[y] + S(u)
    <2> DEFINE n == S(both)
               a == f[c]
               b == f[y]
               v == S(t)
               w == S(u)
               all == S(s)
    <2>1. n \in Nat /\ a \in Nat /\ b \in Nat /\ v = b + n /\ w = a + n /\ all = a + v
      BY <1>5, <1>7, <1>9, <1>10, Zenon
    <2>2. all = b + w
      <3> HIDE DEF n, a, b, v, w, all
      <3>1. QED
        BY <2>1
    <2>3. QED
      BY <2>2, Zenon
  <1>12. QED
    BY <1>4, <1>11, Zenon

\* One summand changes: so does the sum.
LEMMA SumChanges ==
    ASSUME NEW D, IsFiniteSet(D), NEW f, NEW g, NEW x \in D,
           \A y \in D : f[y] \in Nat /\ g[y] \in Nat, \A y \in D \ {x} : g[y] = f[y]
    PROVE  /\ SumFunctionOnSet(f, D) \in Nat /\ SumFunctionOnSet(g, D) \in Nat
           /\ SumFunctionOnSet(g, D) + f[x] = SumFunctionOnSet(f, D) + g[x]
  <1>0. (\A y \in D : f[y] \in Nat) /\ (\A y \in D : g[y] \in Nat)
    OBVIOUS
  <1>1. SumFunctionOnSet(f, D) = f[x] + SumFunctionOnSet(f, D \ {x})
    BY <1>0, SumSplit, Zenon
  <1>2. SumFunctionOnSet(g, D) = g[x] + SumFunctionOnSet(g, D \ {x})
    BY <1>0, SumSplit, Zenon
  <1>3. IsFiniteSet(D \ {x})
    BY FS_Subset
  <1>4. SumFunctionOnSet(g, D \ {x}) = SumFunctionOnSet(f, D \ {x})
    BY <1>3, SumSame, Zenon
  <1>5. \A y \in D \ {x} : f[y] \in Nat
    OBVIOUS
  <1>6. SumFunctionOnSet(f, D \ {x}) \in Nat
    BY <1>3, <1>5, SumType, Zenon
  <1>7. QED
    BY <1>1, <1>2, <1>4, <1>6

\* Of zeros.
LEMMA SumNone ==
    ASSUME NEW f, NEW D, IsFiniteSet(D), \A x \in D : f[x] = 0
    PROVE  SumFunctionOnSet(f, D) = 0
  <1> DEFINE bad == {s \in SUBSET D : SumFunctionOnSet(f, s) # 0}
  <1>1. SUFFICES ASSUME bad # {} PROVE FALSE
    BY Zenon
  <1>2. \A s \in bad : IsFiniteSet(s)
    BY SubsetsFinite
  <1>3. PICK s \in bad : \A t \in bad : Cardinality(s) <= Cardinality(t)
    <2> HIDE DEF bad
    <2>1. QED
      BY <1>1, <1>2, SmallestSet, Zenon
  <1>4. SumFunctionOnSet(f, s) =
          IF s = {} THEN 0 ELSE f[First(s)] + SumFunctionOnSet(f, s \ {First(s)})
    BY <1>2, SumSteps, Zenon
  <1>5. s # {}
    BY <1>4
  <1> DEFINE t == s \ {First(s)}
  <1>6. First(s) \in s /\ t \in SUBSET D
    BY <1>5, FirstIn
  <1>7. t \notin bad
    <2>1. Cardinality(t) \in Nat /\ Cardinality(s) \in Nat /\ Cardinality(t) < Cardinality(s)
      BY <1>2, <1>6, OneLess
    <2> HIDE DEF t
    <2>2. ~(Cardinality(s) <= Cardinality(t))
      BY <2>1
    <2>3. QED
      BY <1>3, <2>2, Zenon
  <1>8. SumFunctionOnSet(f, t) = 0 /\ f[First(s)] = 0
    BY <1>6, <1>7, Zenon
  <1>9. SumFunctionOnSet(f, s) = f[First(s)] + SumFunctionOnSet(f, t)
    BY <1>4, <1>5, Zenon
  <1>10. SumFunctionOnSet(f, s) = 0
    <2> HIDE DEF t
    <2>1. QED
      BY <1>8, <1>9
  <1>11. QED
    BY <1>10

-----------------------------------------------------------------------------
(* The judge's side: types                                                 *)

Statuses == {"active", "paused", "stopped"}
Reasons == {None, "awaiting_run", "stopped_by_owner", "code_disabled"}
Rows == [made : BOOLEAN, status : Statuses, reason : Reasons, due : BOOLEAN, principal : Nat,
         reserved : Nat, spent : Nat, today : Nat, allowed : BOOLEAN, awaiting : BOOLEAN]
Open == [kind : {"swap", "approve", "deposit"}, plan : Plans, mined : {"no", "success", "reverted"}]
Results == {None, "refused", "outbox_busy", "skipped", "bought", "failed", "awaiting_tx", "abandoned",
            "approval_pending", "deposited", "stopped", "lost"}
Jobs == [kind : {"run", "preview", "stop"}, plan : Plans,
         status : {None, "queued", "running", "done", "failed"}, result : Results]
TaskPcs == {"admit", "settle", "check", "approve", "approving", "deposit", "depositing", "cycle",
            "decide", "sign", "swapping", "start", "stop", "redeem", "answer"}
Tasks == [pc : TaskPcs, job : Nat, plan : Plans, due : SUBSET Plans,
          row : [status : Statuses, reason : Reasons], status : {None, "done", "failed"},
          result : Results]
Down == [pc |-> "down"]
TickPcs == [pc : {"tick"}, due : SUBSET Plans]

\* The page remembers a plan as soon as it made one.
IsPage ==
    /\ page = [stage |-> page.stage, plan |-> page.plan, job |-> page.job, saw |-> page.saw,
               stopped |-> page.stopped]
    /\ page.stage # "form" => page.plan \in Plans
VisitTypes ==
    /\ cap \in Nat /\ plan \in [Plans -> Rows] /\ jobs \in Seq(Jobs)
    /\ sent \in [open : Open \cup {NoTx}, unbooked : SUBSET Plans]
    /\ left \in [jobs : Nat, days : Nat, deaths : Nat, lost : Nat, blind : BOOLEAN]
    /\ venus \in BOOLEAN /\ IsPage
    /\ work \in {Idle, Down} \cup TickPcs \cup Tasks

\* What follows a task's answer.
LEMMA TaskAt ==
    ASSUME VisitTypes, work.pc \in TaskPcs
    PROVE  work \in Tasks
  BY DEF VisitTypes, TaskPcs, Idle, Down, TickPcs

LEMMA TellTypes ==
    ASSUME work \in Tasks, NEW status \in {"done", "failed"}, NEW result \in Results,
           Tell(status, result)
    PROVE  work' \in {Idle, Down} \cup TickPcs \cup Tasks
  <1>1. CASE work.job = 0
    <2>1. work' = Idle \/ work' = [pc |-> "tick", due |-> work.due]
      BY <1>1, Zenon DEF Tell, Ticking
    <2>2. work.due \in SUBSET Plans
      BY DEF Tasks
    <2>3. QED
      BY <2>1, <2>2 DEF TickPcs
  <1>2. CASE work.job # 0
    BY <1>2 DEF Tell, Tasks, TaskPcs
  <1>3. QED
    BY <1>1, <1>2

LEMMA QueueTypes ==
    ASSUME jobs \in Seq(Jobs), NEW kind \in {"run", "preview", "stop"}, NEW p \in Plans, Queue(kind, p)
    PROVE  jobs' \in Seq(Jobs)
  <1>1. [kind |-> kind, plan |-> p, status |-> "queued", result |-> None] \in Jobs
    BY DEF Jobs, Results
  <1>2. QED
    BY <1>1 DEF Queue

\* A row's fields change one at a time.
LEMMA RowTypes ==
    ASSUME NEW row \in Rows, NEW n \in Nat, NEW b \in BOOLEAN
    PROVE  /\ row.reserved \in Nat /\ row.spent \in Nat /\ row.principal \in Nat
           /\ [row EXCEPT !.made = b] \in Rows /\ [row EXCEPT !.due = b] \in Rows
           /\ [row EXCEPT !.allowed = b] \in Rows /\ [row EXCEPT !.awaiting = b] \in Rows
           /\ [row EXCEPT !.principal = n] \in Rows /\ [row EXCEPT !.reserved = n] \in Rows
           /\ [row EXCEPT !.spent = n] \in Rows /\ [row EXCEPT !.today = n] \in Rows
  <1>1. row.reserved \in Nat /\ row.spent \in Nat /\ row.principal \in Nat
    BY DEF Rows
  <1>2. [row EXCEPT !.made = b] \in Rows /\ [row EXCEPT !.due = b] \in Rows
    BY DEF Rows
  <1>3. [row EXCEPT !.allowed = b] \in Rows /\ [row EXCEPT !.awaiting = b] \in Rows
    BY DEF Rows
  <1>4. [row EXCEPT !.principal = n] \in Rows /\ [row EXCEPT !.reserved = n] \in Rows
    BY DEF Rows
  <1>5. [row EXCEPT !.spent = n] \in Rows /\ [row EXCEPT !.today = n] \in Rows
    BY DEF Rows
  <1>6. QED
    BY <1>1, <1>2, <1>3, <1>4, <1>5

LEMMA StartedTypes ==
    ASSUME NEW row \in Rows, NEW status, NEW reason
    PROVE  /\ Started(row, status, reason) \in Rows
           /\ Started(row, status, reason).principal = row.principal
           /\ Started(row, status, reason).reserved = row.reserved
           /\ Started(row, status, reason).spent = row.spent
  BY DEF Started, Rows, Statuses, Reasons

\* What a settle, a swap and a deposit make of a row.
LEMMA BookedTypes ==
    ASSUME NEW row \in Rows
    PROVE  /\ SwapBooked(row) \in Rows /\ Released(row) \in Rows /\ DepositBooked(row) \in Rows
           /\ SwapBooked(row).principal = row.principal /\ SwapBooked(row).reserved = 0
           /\ SwapBooked(row).spent = row.spent + row.reserved
           /\ Released(row).principal = row.principal /\ Released(row).reserved = 0
           /\ Released(row).spent = row.spent
           /\ DepositBooked(row).principal = row.principal + 1
           /\ DepositBooked(row).reserved = row.reserved /\ DepositBooked(row).spent = row.spent
  <1>1. /\ row.reserved \in Nat /\ row.spent \in Nat /\ row.principal \in Nat
        /\ row.spent + row.reserved \in Nat /\ row.principal + 1 \in Nat
    BY DEF Rows
  <1>2. Released(row) \in Rows /\ Released(row).principal = row.principal
        /\ Released(row).reserved = 0 /\ Released(row).spent = row.spent
    BY DEF Released, Rows
  <1>3. SwapBooked(row) \in Rows /\ SwapBooked(row).principal = row.principal
        /\ SwapBooked(row).reserved = 0 /\ SwapBooked(row).spent = row.spent + row.reserved
    <2> DEFINE n == row.spent + row.reserved
    <2>1. SwapBooked(row) = [row EXCEPT !.reserved = 0, !.spent = n, !.awaiting = FALSE]
      BY DEF SwapBooked, Rows
    <2> HIDE DEF n
    <2>2. n \in Nat
      BY <1>1 DEF n
    <2> DEFINE r == [row EXCEPT !.reserved = 0, !.awaiting = FALSE]
    <2>3. r \in Rows /\ r.principal = row.principal /\ r.reserved = 0
      BY DEF Rows
    <2>4. SwapBooked(row) = [r EXCEPT !.spent = n]
      BY <2>1 DEF Rows
    <2> HIDE DEF r
    <2>5. SwapBooked(row) \in Rows /\ SwapBooked(row).principal = row.principal
          /\ SwapBooked(row).reserved = 0 /\ SwapBooked(row).spent = n
      BY <2>2, <2>3, <2>4 DEF Rows
    <2>6. QED
      BY <2>5 DEF n
  <1>4. DepositBooked(row) \in Rows /\ DepositBooked(row).principal = row.principal + 1
        /\ DepositBooked(row).reserved = row.reserved /\ DepositBooked(row).spent = row.spent
    <2> DEFINE r == [row EXCEPT !.principal = row.principal + 1]
    <2>1. r \in Rows /\ r.principal = row.principal + 1 /\ r.reserved = row.reserved /\ r.spent = row.spent
      BY <1>1 DEF Rows
    <2>2. DepositBooked(row) = Started(r, "paused", "awaiting_run")
      BY DEF DepositBooked
    <2> HIDE DEF r
    <2>3. QED
      BY <2>1, <2>2, StartedTypes
  <1>5. QED
    BY <1>2, <1>3, <1>4

LEMMA BrowserTypes ==
    ASSUME VisitTypes, Browser
    PROVE  VisitTypes'
  <1> USE DEF VisitTypes
  <1>1. CASE \E p \in Plans : CreatePlan(p)
    <2>1. PICK p \in Plans : CreatePlan(p)
      BY <1>1
    <2>2. [plan[p] EXCEPT !.made = TRUE] \in Rows
      BY RowTypes
    <2>3. plan' \in [Plans -> Rows]
      BY <2>1, <2>2 DEF CreatePlan
    <2>4. IsPage'
      BY <2>1 DEF CreatePlan, IsPage, Form
    <2>5. QED
      BY <2>1, <2>3, <2>4 DEF CreatePlan
  <1>2. CASE \E p \in Plans : RunElsewhere(p)
    BY <1>2, QueueTypes DEF RunElsewhere, IsPage
  <1>3. CASE Run
    <2>1. page.plan \in Plans
      BY <1>3 DEF Run, IsPage
    <2>2. jobs' \in Seq(Jobs)
      BY <1>3, <2>1, QueueTypes DEF Run
    <2>3. IsPage'
      BY <1>3, <2>1 DEF Run, Wait, IsPage
    <2>4. QED
      BY <1>3, <2>2, <2>3 DEF Run
  <1>4. CASE Preview
    <2>1. page.plan \in Plans
      BY <1>4 DEF Preview, IsPage
    <2>2. jobs' \in Seq(Jobs)
      BY <1>4, <2>1, QueueTypes DEF Preview
    <2>3. IsPage'
      BY <1>4, <2>1 DEF Preview, Wait, IsPage
    <2>4. QED
      BY <1>4, <2>2, <2>3 DEF Preview
  <1>5. CASE Stop
    <2>1. page.plan \in Plans
      BY <1>5 DEF Stop, IsPage
    <2>2. jobs' \in Seq(Jobs)
      BY <1>5, <2>1, QueueTypes DEF Stop
    <2>3. IsPage'
      BY <1>5, <2>1 DEF Stop, IsPage
    <2>4. QED
      BY <1>5, <2>2, <2>3 DEF Stop
  <1>6. CASE See
    <2>1. IsPage'
      BY <1>6 DEF See, IsPage
    <2>2. QED
      BY <1>6, <2>1 DEF See
  <1>7. CASE Again
    BY <1>7 DEF Again, IsPage, Form
  <1>8. CASE RemoveCode
    BY <1>8 DEF RemoveCode, IsPage
  <1>9. QED
    BY <1>1, <1>2, <1>3, <1>4, <1>5, <1>6, <1>7, <1>8 DEF Browser

\* What the swap that was out leaves of a row.
LEMMA FinishedIs ==
    \A p \in Plans : \/ Finished(p) = plan[p]
                     \/ SwapOf(p, "success") /\ Finished(p) = SwapBooked(plan[p])
                     \/ SwapOf(p, "reverted") /\ Finished(p) = Released(plan[p])
  <1> SUFFICES ASSUME NEW p \in Plans
      PROVE  \/ Finished(p) = plan[p]
             \/ SwapOf(p, "success") /\ Finished(p) = SwapBooked(plan[p])
             \/ SwapOf(p, "reverted") /\ Finished(p) = Released(plan[p])
    OBVIOUS
  <1>1. ~(SwapOf(p, "success") /\ SwapOf(p, "reverted"))
    BY DEF SwapOf, Mined
  <1>2. CASE SwapOf(p, "success")
    BY <1>1, <1>2, Zenon DEF Finished
  <1>3. CASE SwapOf(p, "reverted")
    BY <1>1, <1>3, Zenon DEF Finished
  <1>4. CASE ~SwapOf(p, "success") /\ ~SwapOf(p, "reverted")
    BY <1>4, Zenon DEF Finished
  <1>5. QED
    BY <1>2, <1>3, <1>4

\* What a settle makes of the rows and of what is out.
LEMMA SettleTypes ==
    ASSUME VisitTypes
    PROVE  /\ [p \in Plans |-> SettledRow(p)] \in [Plans -> Rows]
           /\ SettledSent \in [open : Open \cup {NoTx}, unbooked : SUBSET Plans]
  <1>1. \A row \in Rows : SwapBooked(row) \in Rows /\ Released(row) \in Rows /\ DepositBooked(row) \in Rows
    BY BookedTypes
  <1>2. \A p \in Plans : plan[p] \in Rows
    BY DEF VisitTypes
  <1>6. \A p \in Plans : Finished(p) \in Rows
    BY <1>1, <1>2, FinishedIs, Zenon
  <1>3. \A p \in Plans : SettledRow(p) \in Rows
    BY <1>1, <1>6, Zenon DEF SettledRow
  <1>4. SettledSent \in [open : Open \cup {NoTx}, unbooked : SUBSET Plans]
    <2>1. Deposited \subseteq Plans
      BY DEF VisitTypes, Deposited, Mined, Out, Open
    <2>2. QED
      BY <2>1 DEF SettledSent, VisitTypes
  <1>5. QED
    BY <1>3, <1>4

Works == {Idle, Down} \cup TickPcs \cup Tasks
Sent0 == [open : Open \cup {NoTx}, unbooked : SUBSET Plans]

\* One field of a task changes.
LEMMA TaskMoves ==
    ASSUME NEW w \in Tasks, NEW pc \in TaskPcs, NEW status \in {None, "done", "failed"},
           NEW result \in Results
    PROVE  /\ [w EXCEPT !.pc = pc] \in Tasks /\ [w EXCEPT !.pc = pc].pc = pc
           /\ [w EXCEPT !.pc = pc].plan = w.plan
           /\ [w EXCEPT !.pc = pc, !.result = result] \in Tasks
           /\ [w EXCEPT !.pc = pc, !.status = status, !.result = result] \in Tasks
           /\ [w EXCEPT !.status = status, !.result = result] \in Tasks
           /\ [w EXCEPT !.pc = pc, !.status = status] \in Tasks
           /\ w.plan \in Plans /\ w.due \in SUBSET Plans
  BY DEF Tasks

LEMMA TaskTypes ==
    ASSUME plan \in [Plans -> Rows], NEW p \in Plans, NEW job \in Nat, NEW due \in SUBSET Plans,
           NEW pc \in TaskPcs
    PROVE  Task(p, job, due, pc) \in Tasks
  <1>1. plan[p].status \in Statuses /\ plan[p].reason \in Reasons
    BY DEF Rows
  <1>2. QED
    BY <1>1 DEF Task, Tasks, Results

LEMMA TickingTypes ==
    ASSUME NEW due \in SUBSET Plans
    PROVE  Ticking(due) \in Works
  BY DEF Ticking, Works, TickPcs

LEMMA SignsTypes ==
    ASSUME sent \in Sent0, work \in Tasks, NEW kind \in {"swap", "approve", "deposit"}, Signs(kind)
    PROVE  /\ sent' \in Sent0 /\ sent'.unbooked = sent.unbooked
           /\ sent'.open = [kind |-> kind, plan |-> work.plan, mined |-> "no"]
  <1>1. [kind |-> kind, plan |-> work.plan, mined |-> "no"] \in Open
    BY DEF Open, Tasks
  <1>2. QED
    BY <1>1 DEF Signs, Sent0

LEMMA JobTypes ==
    ASSUME VisitTypes, JobSteps
    PROVE  VisitTypes'
  <1>1. /\ plan \in [Plans -> Rows] /\ jobs \in Seq(Jobs) /\ sent \in Sent0 /\ work \in Works
        /\ work.pc \in TaskPcs => work \in Tasks
    BY TaskAt DEF VisitTypes, Works, Sent0
  <1> DEFINE rest == UNCHANGED <<cap, venus, page, left>>
             kept == /\ plan' \in [Plans -> Rows] /\ jobs' \in Seq(Jobs) /\ sent' \in Sent0
                     /\ work' \in Works
  <1>2. ASSUME kept, rest PROVE VisitTypes'
    BY <1>2 DEF VisitTypes, IsPage, Works, Sent0
  <1>3. CASE Claim
    <2>1. PICK j \in DOMAIN jobs : /\ jobs' = [jobs EXCEPT ![j].status = "running"]
                                   /\ work' = Task(jobs[j].plan, j, {}, "admit")
      BY <1>3 DEF Claim
    <2>2. j \in Nat /\ jobs[j] \in Jobs /\ jobs[j].plan \in Plans
      <3>1. DOMAIN jobs = 1 .. Len(jobs) /\ Len(jobs) \in Nat
        BY <1>1, LenProperties
      <3>2. j \in Nat /\ jobs[j] \in Jobs
        BY <1>1, <3>1, ElementOfSeq
      <3>3. QED
        BY <3>2 DEF Jobs
    <2>3. [jobs[j] EXCEPT !.status = "running"] \in Jobs
      BY <2>2 DEF Jobs
    <2>4. jobs' \in Seq(Jobs)
      BY <1>1, <2>1, <2>3
    <2>5. work' \in Tasks
      BY <1>1, <2>1, <2>2, TaskTypes DEF TaskPcs
    <2>6. QED
      BY <1>1, <1>2, <1>3, <2>4, <2>5 DEF Claim, Works
  <1>4. CASE Admit
    <2>1. work \in Tasks
      BY <1>1, <1>4 DEF Admit, At, TaskPcs
    <2>2. work.plan \in Plans /\ work.job \in Nat
      BY <2>1 DEF Tasks
    <2>3. Task(work.plan, work.job, {}, "settle") \in Tasks
      BY <1>1, <2>2, TaskTypes DEF TaskPcs
    <2>4. work' \in Tasks
      <3> DEFINE task == Task(work.plan, work.job, {}, "settle")
      <3>1. \/ work' = [work EXCEPT !.pc = "stop"]
            \/ work' = [work EXCEPT !.pc = "answer", !.status = "failed", !.result = "refused"]
            \/ work' = [task EXCEPT !.pc = "answer", !.status = "done"]
            \/ work' = [task EXCEPT !.pc = "settle", !.status = None]
            \/ work' = [task EXCEPT !.pc = "cycle", !.status = None]
        <4> DEFINE pc == CASE jobs[work.job].kind = "preview" -> "answer"
                           [] jobs[work.job].kind = "run" /\ work.plan \in Yield
                              /\ plan[work.plan].principal = 0 -> "settle"
                           [] OTHER -> "cycle"
                   status == IF jobs[work.job].kind = "preview" THEN "done" ELSE None
        <4>1. \/ work' = [work EXCEPT !.pc = "stop"]
              \/ work' = [work EXCEPT !.pc = "answer", !.status = "failed", !.result = "refused"]
              \/ work' = [task EXCEPT !.pc = pc, !.status = status]
          BY <1>4, Zenon DEF Admit
        <4>2. \/ (pc = "answer" /\ status = "done")
              \/ (pc = "settle" /\ status = None)
              \/ (pc = "cycle" /\ status = None)
          <5>1. CASE jobs[work.job].kind = "preview"
            <6>1. jobs[work.job].kind # "run"
              BY <5>1
            <6>2. pc = "answer" /\ status = "done"
              BY <5>1, <6>1, Zenon
            <6>3. QED
              BY <6>2, Zenon
          <5>2. CASE jobs[work.job].kind # "preview"
            BY <5>2
          <5>3. QED
            BY <5>1, <5>2
        <4> HIDE DEF task, pc, status
        <4>3. QED
          BY <4>1, <4>2
      <3>2. task \in Tasks
        BY <2>3
      <3> HIDE DEF task
      <3>3. \A w \in Tasks, pc \in TaskPcs : [w EXCEPT !.pc = pc] \in Tasks
        BY DEF Tasks
      <3>4. \A w \in Tasks, pc \in TaskPcs, status \in {None, "done", "failed"} :
              [w EXCEPT !.pc = pc, !.status = status] \in Tasks
        BY DEF Tasks
      <3>5. [work EXCEPT !.pc = "answer", !.status = "failed", !.result = "refused"] \in Tasks
        BY <2>1 DEF Tasks, TaskPcs, Results
      <3>6. {"stop", "answer", "settle", "cycle"} \subseteq TaskPcs
        BY DEF TaskPcs
      <3>7. /\ [work EXCEPT !.pc = "stop"] \in Tasks
            /\ [task EXCEPT !.pc = "answer", !.status = "done"] \in Tasks
            /\ [task EXCEPT !.pc = "settle", !.status = None] \in Tasks
            /\ [task EXCEPT !.pc = "cycle", !.status = None] \in Tasks
        BY <2>1, <3>2, <3>3, <3>4, <3>6
      <3>8. QED
        BY <3>1, <3>5, <3>7, Zenon
    <2>5. QED
      BY <1>1, <1>2, <1>4, <2>4 DEF Admit, Works
  <1>5. CASE CycleSettle \/ DepositSettle
    <2>1. work \in Tasks
      BY <1>1, <1>5 DEF CycleSettle, DepositSettle, At, TaskPcs
    <2>2. work' \in Tasks
      BY <1>5, <2>1 DEF CycleSettle, DepositSettle, Settle, Tasks, TaskPcs
    <2>3. plan' \in [Plans -> Rows] /\ sent' \in Sent0 /\ UNCHANGED <<jobs, cap, venus, page, left>>
      BY <1>5, SettleTypes, Zenon DEF CycleSettle, DepositSettle, Settle, Sent0
    <2>4. QED
      BY <1>1, <1>2, <2>2, <2>3 DEF Works
  <1>6. CASE Decide
    <2>1. work \in Tasks
      BY <1>1, <1>6 DEF Decide, At, TaskPcs
    <2>2. work.plan \in Plans
      BY <2>1 DEF Tasks
    <2>3. plan' \in [Plans -> Rows]
      <3>1. [plan[work.plan] EXCEPT !.due = FALSE] \in Rows
        BY <1>1, <2>2, RowTypes
      <3>2. [plan[work.plan] EXCEPT !.reserved = 1, !.today = 1] \in Rows
        BY <1>1, <2>2 DEF Rows
      <3>3. \/ plan' = plan
            \/ plan' = [plan EXCEPT ![work.plan] = [plan[work.plan] EXCEPT !.due = FALSE]]
            \/ plan' = [plan EXCEPT ![work.plan] = [plan[work.plan] EXCEPT !.reserved = 1, !.today = 1]]
        BY <1>1, <1>6, <2>2 DEF Decide
      <3>4. QED
        BY <1>1, <3>1, <3>2, <3>3
    <2>4. work' \in Works
      <3>1. \/ Tell("done", "outbox_busy") \/ work' = [work EXCEPT !.pc = "sign"]
            \/ work' = [work EXCEPT !.pc = "start", !.result = "skipped"]
        BY <1>6 DEF Decide, Done, Goto
      <3>2. QED
        BY <2>1, <3>1, TellTypes DEF Works, Tasks, TaskPcs, Results
    <2>5. QED
      BY <1>1, <1>2, <1>6, <2>3, <2>4 DEF Decide
  <1>7. CASE Swap \/ Approve \/ Deposit
    <2>1. work \in Tasks
      BY <1>1, <1>7 DEF Swap, Approve, Deposit, At, TaskPcs
    <2>2. sent' \in Sent0
      BY <1>1, <1>7, <2>1, SignsTypes DEF Swap, Approve, Deposit
    <2>3. work' \in Tasks
      BY <1>7, <2>1 DEF Swap, Approve, Deposit, Goto, Tasks, TaskPcs
    <2>4. QED
      BY <1>1, <1>2, <1>7, <2>2, <2>3 DEF Swap, Approve, Deposit, Works
  <1>8. CASE Swapped
    <2>1. work \in Tasks
      BY <1>1, <1>8 DEF Swapped, At, TaskPcs
    <2>2. work.plan \in Plans
      BY <2>1 DEF Tasks
    <2>3. plan' \in [Plans -> Rows]
      <3> DEFINE row == plan[work.plan]
      <3>1. row \in Rows
        BY <1>1, <2>2
      <3>2. /\ [SwapBooked(row) EXCEPT !.due = FALSE] \in Rows
            /\ [Released(row) EXCEPT !.due = FALSE] \in Rows
            /\ [row EXCEPT !.awaiting = TRUE, !.due = FALSE] \in Rows
        <4>1. SwapBooked(row) \in Rows /\ Released(row) \in Rows
          BY <3>1, BookedTypes
        <4>2. \A r \in Rows : [r EXCEPT !.due = FALSE] \in Rows
          BY DEF Rows
        <4>3. [row EXCEPT !.awaiting = TRUE, !.due = FALSE] \in Rows
          BY <3>1 DEF Rows
        <4>4. QED
          BY <4>1, <4>2, <4>3
      <3>3. \/ plan' = [plan EXCEPT ![work.plan] = [SwapBooked(row) EXCEPT !.due = FALSE]]
            \/ plan' = [plan EXCEPT ![work.plan] = [Released(row) EXCEPT !.due = FALSE]]
            \/ plan' = [plan EXCEPT ![work.plan] = [row EXCEPT !.awaiting = TRUE, !.due = FALSE]]
        BY <1>1, <1>8, <2>2 DEF Swapped
      <3> HIDE DEF row
      <3>4. QED
        BY <1>1, <3>2, <3>3
    <2>4. work' \in Tasks
      BY <1>8, <2>1 DEF Swapped, Tasks, TaskPcs, Results
    <2>5. sent' \in Sent0
      BY <1>1, <1>8 DEF Swapped, Sent0
    <2>6. QED
      BY <1>1, <1>2, <1>8, <2>3, <2>4, <2>5 DEF Swapped, Works
  <1>9. CASE Start
    <2>1. work \in Tasks
      BY <1>1, <1>9 DEF Start, At, TaskPcs
    <2>2. work.plan \in Plans /\ work.result \in Results
      BY <2>1 DEF Tasks
    <2>3. plan' \in [Plans -> Rows]
      <3>1. plan' = plan \/ plan' = [plan EXCEPT ![work.plan] =
                                       Started(plan[work.plan], work.row.status, work.row.reason)]
        BY <1>9 DEF Start
      <3>2. Started(plan[work.plan], work.row.status, work.row.reason) \in Rows
        BY <1>1, <2>2, StartedTypes
      <3>3. QED
        BY <1>1, <3>1, <3>2
    <2>4. work' \in Works
      BY <1>9, <2>1, <2>2, TellTypes DEF Start, Done, Works
    <2>5. QED
      BY <1>1, <1>2, <1>9, <2>3, <2>4 DEF Start
  <1>10. CASE Check
    <2>1. work \in Tasks
      BY <1>1, <1>10 DEF Check, At, TaskPcs
    <2>2. \/ Tell("done", "approval_pending") \/ Tell("failed", "refused") \/ Tell("done", "deposited")
          \/ work' = [work EXCEPT !.pc = "deposit"] \/ work' = [work EXCEPT !.pc = "approve"]
      BY <1>10 DEF Check, Done, Refuse, Goto
    <2>3. work' \in Works
      <3>1. /\ [work EXCEPT !.pc = "deposit"] \in Tasks /\ [work EXCEPT !.pc = "approve"] \in Tasks
            /\ {"approval_pending", "refused", "deposited"} \subseteq Results
        BY <2>1 DEF Tasks, TaskPcs, Results
      <3>2. QED
        BY <2>1, <2>2, <3>1, TellTypes DEF Works
    <2>4. QED
      BY <1>1, <1>2, <1>10, <2>3 DEF Check
  <1>11. CASE Approved
    <2>1. work \in Tasks
      BY <1>1, <1>11 DEF Approved, At, TaskPcs
    <2>2. \/ Tell("done", "approval_pending") \/ Tell("failed", "refused")
          \/ work' = [work EXCEPT !.pc = "deposit"]
      BY <1>11 DEF Approved, Done, Refuse, Goto
    <2>3. work' \in Works
      BY <2>1, <2>2, TellTypes DEF Works, Tasks, TaskPcs, Results
    <2>4. sent' \in Sent0
      BY <1>1, <1>11 DEF Approved, Sent0
    <2>5. QED
      BY <1>1, <1>2, <1>11, <2>3, <2>4 DEF Approved
  <1>12. CASE DepositEnds
    <2>1. work \in Tasks
      BY <1>1, <1>12 DEF DepositEnds, At, TaskPcs
    <2>2. work.plan \in Plans
      BY <2>1 DEF Tasks
    <2>3. plan' \in [Plans -> Rows]
      <3>1. plan' = plan \/ plan' = [plan EXCEPT ![work.plan] = [plan[work.plan] EXCEPT
                                       !.principal = plan[work.plan].principal + 1, !.allowed = FALSE]]
        BY <1>1, <1>12, <2>2 DEF DepositEnds
      <3>2. plan[work.plan] \in Rows /\ plan[work.plan].principal + 1 \in Nat
        BY <1>1, <2>2, BookedTypes DEF Rows
      <3>3. \A row \in Rows, n \in Nat : [row EXCEPT !.principal = n, !.allowed = FALSE] \in Rows
        BY DEF Rows
      <3>4. QED
        BY <1>1, <3>1, <3>2, <3>3
    <2>4. \/ Tell("done", "awaiting_tx") \/ Tell("failed", "refused")
          \/ work' = [work EXCEPT !.pc = "start", !.result = "deposited"]
      BY <1>12 DEF DepositEnds, Done, Refuse
    <2>5. work' \in Works
      BY <2>1, <2>4, TellTypes DEF Works, Tasks, TaskPcs, Results
    <2>6. sent' \in Sent0
      BY <1>1, <1>12 DEF DepositEnds, Sent0
    <2>7. QED
      BY <1>1, <1>2, <1>12, <2>3, <2>5, <2>6 DEF DepositEnds
  <1>13. CASE StopPlan
    <2>1. work \in Tasks
      BY <1>1, <1>13 DEF StopPlan, At, TaskPcs
    <2>2. work.plan \in Plans
      BY <2>1 DEF Tasks
    <2>3. plan' \in [Plans -> Rows]
      <3>1. plan' = [plan EXCEPT ![work.plan] = [plan[work.plan] EXCEPT
                       !.status = "stopped", !.reason = "stopped_by_owner"]]
        BY <1>1, <1>13, <2>2 DEF StopPlan
      <3>2. plan[work.plan] \in Rows
        BY <1>1, <2>2
      <3>3. \A row \in Rows : [row EXCEPT !.status = "stopped", !.reason = "stopped_by_owner"] \in Rows
        BY DEF Rows, Statuses, Reasons
      <3>4. QED
        BY <1>1, <3>1, <3>2, <3>3
    <2>4. work' \in Tasks
      BY <1>13, <2>1 DEF StopPlan, Goto, Tasks, TaskPcs
    <2>5. QED
      BY <1>1, <1>2, <1>13, <2>3, <2>4 DEF StopPlan, Works
  <1>14. CASE Redeem
    <2>1. work \in Tasks
      BY <1>1, <1>14 DEF Redeem, At, TaskPcs
    <2>2. work.plan \in Plans
      BY <2>1 DEF Tasks
    <2>3. plan' \in [Plans -> Rows]
      <3>1. plan' = plan \/ plan' = [plan EXCEPT ![work.plan] = [plan[work.plan] EXCEPT !.principal = 0]]
        BY <1>14 DEF Redeem
      <3>2. \A row \in Rows : [row EXCEPT !.principal = 0] \in Rows
        BY DEF Rows
      <3>3. QED
        BY <1>1, <2>2, <3>1, <3>2
    <2>4. work' \in Works
      BY <1>14, <2>1, TellTypes DEF Redeem, Done, Works, Results
    <2>5. QED
      BY <1>1, <1>2, <1>14, <2>3, <2>4 DEF Redeem
  <1>15. CASE \E p \in Plans : TickPlan(p)
    <2>1. PICK p \in Plans : TickPlan(p)
      BY <1>15
    <2>2. work \in TickPcs
      BY <1>1, <2>1 DEF TickPlan, At, Works, Idle, Down, Tasks, TaskPcs
    <2>3. work.due \ {p} \in SUBSET Plans
      BY <2>2 DEF TickPcs
    <2>4. work' \in Works
      <3>1. Task(p, 0, work.due \ {p}, "cycle") \in Tasks
        BY <1>1, <2>3, TaskTypes DEF TaskPcs
      <3>2. Ticking(work.due \ {p}) \in Works
        BY <2>3, TickingTypes
      <3>3. QED
        BY <2>1, <3>1, <3>2, Zenon DEF TickPlan, Works
    <2>5. plan' \in [Plans -> Rows]
      <3>1. plan' = plan \/ plan' = [plan EXCEPT ![p] = [plan[p] EXCEPT
                                       !.status = "paused", !.reason = "code_disabled"]]
        BY <1>1, <2>1 DEF TickPlan
      <3>2. \A row \in Rows : [row EXCEPT !.status = "paused", !.reason = "code_disabled"] \in Rows
        BY DEF Rows, Statuses, Reasons
      <3>3. QED
        BY <1>1, <3>1, <3>2
    <2>6. QED
      BY <1>1, <1>2, <2>1, <2>4, <2>5 DEF TickPlan
  <1>16. CASE Answer
    <2>1. work \in Tasks
      BY <1>1, <1>16 DEF Answer, At, TaskPcs
    <2>2. work' \in Works
      <3>1. work' = Idle \/ work' = [work EXCEPT !.status = "failed", !.result = "lost"]
        BY <1>16, Zenon DEF Answer
      <3>2. QED
        BY <2>1, <3>1 DEF Works, Tasks, Results
    <2>3. jobs' \in Seq(Jobs)
      <3> DEFINE j == work.job
                 job == [jobs[j] EXCEPT !.status = work.status, !.result = work.result]
      <3>1. jobs' = jobs \/ (jobs[j].status = "running" /\ jobs' = [jobs EXCEPT ![j] = job])
        BY <1>16 DEF Answer, Finish
      <3>2. CASE j \in DOMAIN jobs
        <4>1. jobs[j] \in Jobs
          <5>1. DOMAIN jobs = 1 .. Len(jobs) /\ Len(jobs) \in Nat
            BY <1>1, LenProperties
          <5>2. QED
            BY <1>1, <3>2, <5>1, ElementOfSeq
        <4>2. job \in Jobs
          BY <2>1, <3>2, <4>1 DEF Jobs, Tasks
        <4> HIDE DEF job
        <4>3. QED
          BY <1>1, <3>1, <3>2, <4>2
      <3>3. CASE j \notin DOMAIN jobs
        <4> HIDE DEF job
        <4>1. QED
          BY <1>1, <3>1, <3>3
      <3>4. QED
        BY <3>2, <3>3
    <2>4. left' \in [jobs : Nat, days : Nat, deaths : Nat, lost : Nat, blind : BOOLEAN]
      BY <1>16 DEF Answer, VisitTypes
    <2>5. QED
      BY <1>1, <1>16, <2>2, <2>3, <2>4 DEF Answer, VisitTypes, IsPage, Works, Sent0
  <1>17. CASE Boot
    <2>1. jobs' = [j \in DOMAIN jobs |-> Abandoned(jobs[j])] /\ work' = Idle /\ venus' \in BOOLEAN
      BY <1>17 DEF Boot
    <2>2. jobs' \in Seq(Jobs)
      <3>1. DOMAIN jobs = 1 .. Len(jobs) /\ Len(jobs) \in Nat
        BY <1>1, LenProperties
      <3>2. \A j \in DOMAIN jobs : jobs[j] \in Jobs
        BY <1>1, <3>1, ElementOfSeq
      <3>3. \A job \in Jobs : Abandoned(job) \in Jobs
        BY DEF Abandoned, Jobs, Results
      <3>4. QED
        BY <2>1, <3>1, <3>2, <3>3, IsASeq
    <2>3. QED
      BY <1>17, <2>1, <2>2 DEF Boot, VisitTypes, IsPage, Idle
  <1>18. QED
    BY <1>3, <1>4, <1>5, <1>6, <1>7, <1>8, <1>9, <1>10, <1>11, <1>12, <1>13, <1>14, <1>15, <1>16,
       <1>17, Zenon DEF JobSteps

\* Any step.
LEMMA StepTypes ==
    ASSUME VisitTypes, VisitNext
    PROVE  VisitTypes'
  <1>1. CASE TickSettle
    <2>1. plan' \in [Plans -> Rows] /\ sent' \in Sent0 /\ UNCHANGED <<jobs, cap, venus, page, left>>
          /\ work' = Idle
      BY <1>1, SettleTypes, Zenon DEF TickSettle, Settle, Sent0
    <2>2. QED
      BY <2>1 DEF VisitTypes, IsPage, Sent0
  <1>2. CASE TickDue
    <2>1. work' \in Works /\ UNCHANGED <<cap, code, plan, jobs, sent, venus, page, left>>
      <3>1. {p \in Plans : plan[p].status = "active" /\ plan[p].due} \in SUBSET Plans
        OBVIOUS
      <3>2. QED
        BY <1>2, <3>1, TickingTypes, Zenon DEF TickDue
    <2>2. QED
      BY <2>1 DEF VisitTypes, IsPage, Works
  <1>3. CASE VenusFound
    BY <1>3 DEF VenusFound, VisitTypes, IsPage
  <1>4. CASE Die
    <2>1. plan' \in [Plans -> Rows]
      <3>1. work.pc = "sign" => work.plan \in Plans
        BY TaskAt DEF TaskPcs, Tasks
      <3>2. \A p \in Plans : Released(plan[p]) \in Rows
        BY BookedTypes DEF VisitTypes
      <3>3. plan' = plan \/ (work.pc = "sign" /\ plan' = [plan EXCEPT ![work.plan] = Released(plan[work.plan])])
        BY <1>4 DEF Die, At, VisitTypes
      <3>4. QED
        BY <3>1, <3>2, <3>3 DEF VisitTypes
    <2>2. left' \in [jobs : Nat, days : Nat, deaths : Nat, lost : Nat, blind : BOOLEAN] /\ work' = Down
      BY <1>4 DEF Die, VisitTypes, Down
    <2>3. QED
      BY <1>4, <2>1, <2>2 DEF Die, VisitTypes, IsPage
  <1>5. CASE Mine
    <2>1. PICK m \in {"success", "reverted"} : sent' = [sent EXCEPT !.open.mined = m]
      BY <1>5 DEF Mine
    <2>2. sent.open \in Open
      BY <1>5 DEF Mine, Mined, Out, VisitTypes
    <2>3. sent' \in Sent0
      <3>1. [sent.open EXCEPT !.mined = m] \in Open
        BY <2>2 DEF Open
      <3>2. sent' = [sent EXCEPT !.open = [sent.open EXCEPT !.mined = m]]
        BY <2>1, Zenon
      <3>3. QED
        BY <3>1, <3>2 DEF VisitTypes, Sent0
    <2>4. plan' \in [Plans -> Rows]
      <3>1. sent.open.plan \in Plans
        BY <2>2 DEF Open
      <3>2. plan' = plan \/ plan' = [plan EXCEPT ![sent.open.plan] = [plan[sent.open.plan] EXCEPT !.allowed = TRUE]]
        BY <1>5 DEF Mine, VisitTypes
      <3>3. \A row \in Rows : [row EXCEPT !.allowed = TRUE] \in Rows
        BY DEF Rows
      <3>4. QED
        BY <3>1, <3>2, <3>3 DEF VisitTypes
    <2>5. QED
      BY <1>5, <2>3, <2>4 DEF Mine, VisitTypes, IsPage, Sent0
  <1>6. CASE NextDay
    <2>1. \A p \in Plans : [plan[p] EXCEPT !.today = plan[p].reserved, !.due = plan[p].status = "active"] \in Rows
      <3> TAKE p \in Plans
      <3> DEFINE row == plan[p]
                 active == row.status = "active"
      <3>1. row \in Rows /\ row.reserved \in Nat /\ active \in BOOLEAN
        BY DEF VisitTypes, Rows
      <3> HIDE DEF row, active
      <3>2. [row EXCEPT !.today = row.reserved, !.due = active] \in Rows
        BY <3>1 DEF Rows
      <3>3. QED
        BY <3>2 DEF row, active
    <2>2. left' \in [jobs : Nat, days : Nat, deaths : Nat, lost : Nat, blind : BOOLEAN]
      <3> DEFINE n == left.days - 1
      <3>1. n \in Nat
        <4>1. left.days \in Nat
          BY DEF VisitTypes
        <4>2. left.days > 0
          BY <1>6 DEF NextDay
        <4>3. QED
          BY <4>1, <4>2
      <3>2. left' = [left EXCEPT !.days = n]
        BY <1>6 DEF NextDay
      <3> HIDE DEF n
      <3>3. QED
        BY <3>1, <3>2 DEF VisitTypes
    <2>3. plan' \in [Plans -> Rows]
      BY <1>6, <2>1 DEF NextDay
    <2>4. QED
      BY <1>6, <2>2, <2>3 DEF NextDay, VisitTypes, IsPage
  <1>7. QED
    BY <1>1, <1>2, <1>3, <1>4, <1>5, <1>6, BrowserTypes, JobTypes, Zenon DEF VisitNext, Worker

-----------------------------------------------------------------------------
(* The judge's side: deposited once, and never more than the cap           *)

Owes(p) == IF Out /\ sent.open.kind = "deposit" /\ sent.open.plan = p /\ sent.open.mined # "reverted"
           THEN 1 ELSE 0
Owed == IF Out /\ sent.open.kind = "deposit" /\ sent.open.mined # "reverted" THEN 1 ELSE 0
Unbooked(p) == IF p \in sent.unbooked THEN 1 ELSE 0
Once == \A p \in Plans : plan[p].principal + Unbooked(p) + Owes(p) <= 1

\* Where the worker is about to deposit.
Special == {"approve", "approving", "deposit", "depositing"}
Before == {"approve", "approving", "deposit"}
Posts ==
    /\ work.pc \in {"approve", "deposit"} => ~Out
    /\ work.pc = "approving" => Out /\ sent.open.kind = "approve"
    /\ work.pc \in Before => plan[work.plan].principal = 0 /\ sent.unbooked = {}
    /\ work.pc = "depositing" => Out /\ sent.open.kind = "deposit" /\ sent.open.plan = work.plan
Capped ==
    \/ left.blind
    \/ /\ venus /\ sent.unbooked = {}
       /\ Exposure + Owed <= cap
       /\ work.pc \in Before => Exposure + 1 <= cap
JudgeInv == VisitTypes /\ Once /\ Posts /\ Capped

Amount(row) == row.reserved + row.spent + row.principal
Amounts(rows) == [p \in Plans |-> Amount(rows[p])]
LEMMA ExposureIs ==
           /\ Exposure = SumFunctionOnSet(Amounts(plan), Plans)
           /\ Exposure' = SumFunctionOnSet(Amounts(plan'), Plans)
  <1>1. /\ Exposure = SumFunction(Amounts(plan)) /\ Exposure' = SumFunction(Amounts(plan'))
    BY DEF Exposure, Amounts, Amount
  <1>2. DOMAIN Amounts(plan) = Plans /\ DOMAIN Amounts(plan') = Plans
    BY DEF Amounts
  <1>3. /\ SumFunction(Amounts(plan)) = SumFunctionOnSet(Amounts(plan), DOMAIN Amounts(plan))
        /\ SumFunction(Amounts(plan')) = SumFunctionOnSet(Amounts(plan'), DOMAIN Amounts(plan'))
    BY Zenon DEF SumFunction
  <1>4. QED
    BY <1>1, <1>2, <1>3, Zenon

LEMMA AmountTypes ==
    ASSUME NEW rows \in [Plans -> Rows]
    PROVE  \A p \in Plans : Amount(rows[p]) \in Nat /\ Amounts(rows)[p] = Amount(rows[p])
  BY DEF Amount, Amounts, Rows

\* At most one row changes, and it does not grow: nor does the exposure.
LEMMA ExposureFalls ==
    ASSUME VisitTypes, plan' \in [Plans -> Rows], NEW x \in Plans,
           \A p \in Plans \ {x} : Amount(plan'[p]) = Amount(plan[p])
    PROVE  /\ Exposure \in Nat /\ Exposure' \in Nat
           /\ Exposure' + Amount(plan[x]) = Exposure + Amount(plan'[x])
  <1> DEFINE f == Amounts(plan)
             g == Amounts(plan')
  <1>1. \A p \in Plans : /\ Amount(plan[p]) \in Nat /\ f[p] = Amount(plan[p])
                         /\ Amount(plan'[p]) \in Nat /\ g[p] = Amount(plan'[p])
    BY AmountTypes DEF VisitTypes
  <1>2. IsFiniteSet(Plans)
    BY VisitAssumption
  <1> HIDE DEF f, g
  <1>7. \A p \in Plans : f[p] \in Nat /\ g[p] \in Nat
    BY <1>1
  <1>3. \A p \in Plans \ {x} : g[p] = f[p]
    BY <1>1
  <1>4. /\ SumFunctionOnSet(f, Plans) \in Nat /\ SumFunctionOnSet(g, Plans) \in Nat
        /\ SumFunctionOnSet(g, Plans) + f[x] = SumFunctionOnSet(f, Plans) + g[x]
    BY <1>2, <1>7, <1>3, SumChanges
  <1>5. Exposure = SumFunctionOnSet(f, Plans) /\ Exposure' = SumFunctionOnSet(g, Plans)
    BY ExposureIs DEF f, g
  <1>6. QED
    BY <1>1, <1>4, <1>5

LEMMA ExposureSame ==
    ASSUME VisitTypes, plan' \in [Plans -> Rows],
           \A p \in Plans : Amount(plan'[p]) = Amount(plan[p])
    PROVE  Exposure \in Nat /\ Exposure' = Exposure
  <1> DEFINE f == Amounts(plan)
             g == Amounts(plan')
  <1>1. \A p \in Plans : /\ Amount(plan[p]) \in Nat /\ f[p] = Amount(plan[p])
                         /\ Amount(plan'[p]) \in Nat /\ g[p] = Amount(plan'[p])
    BY AmountTypes DEF VisitTypes
  <1>2. IsFiniteSet(Plans)
    BY VisitAssumption
  <1> HIDE DEF f, g
  <1>3. (\A p \in Plans : f[p] \in Nat) /\ \A p \in Plans : f[p] = g[p]
    BY <1>1
  <1>4. SumFunctionOnSet(f, Plans) \in Nat /\ SumFunctionOnSet(f, Plans) = SumFunctionOnSet(g, Plans)
    BY <1>2, <1>3, SumSame, SumType, Zenon
  <1>5. Exposure = SumFunctionOnSet(f, Plans) /\ Exposure' = SumFunctionOnSet(g, Plans)
    BY ExposureIs DEF f, g
  <1>6. QED
    BY <1>4, <1>5

\* A step that adds nothing to what the code committed.
Adds(n) ==
    /\ VisitTypes' /\ cap' = cap /\ left'.blind = left.blind /\ (venus => left.blind \/ venus')
    /\ Exposure \in Nat /\ Exposure' \in Nat /\ Exposure' <= Exposure + n
Lower == \A p \in Plans : plan'[p].principal <= plan[p].principal
Principals == \A p \in Plans : plan[p].principal \in Nat /\ plan'[p].principal \in Nat

LEMMA PrincipalTypes ==
    ASSUME VisitTypes, VisitTypes'
    PROVE  /\ Principals /\ (cap \in Nat)
           /\ \A p \in Plans : Unbooked(p) \in {0, 1} /\ Owes(p) \in {0, 1}
           /\ Owed \in {0, 1}
  BY DEF VisitTypes, Rows, Principals, Unbooked, Owes, Owed

LEMMA Keeps ==
    ASSUME JudgeInv, Adds(0), Lower,
           sent' = sent \/ sent' = [sent EXCEPT !.open = NoTx],
           (work' = work /\ sent' = sent) \/ work'.pc \notin Special
    PROVE  JudgeInv'
  <1>1. /\ VisitTypes /\ VisitTypes' /\ Principals /\ Lower /\ (cap \in Nat)
        /\ \A p \in Plans : Unbooked(p) \in {0, 1} /\ Owes(p) \in {0, 1}
        /\ Owed \in {0, 1}
    BY PrincipalTypes DEF JudgeInv, Adds
  <1>2. sent'.unbooked = sent.unbooked /\ (sent'.open = sent.open \/ sent'.open = NoTx)
    BY <1>1 DEF VisitTypes
  <1>3. /\ \A p \in Plans : Unbooked(p)' = Unbooked(p) /\ Owes(p)' <= Owes(p)
        /\ Owed' <= Owed /\ Owed' \in {0, 1}
        /\ \A p \in Plans : Owes(p)' \in {0, 1}
    <2>1. CASE sent'.open = sent.open
      <3>1. (\A p \in Plans : Unbooked(p)' = Unbooked(p) /\ Owes(p)' = Owes(p)) /\ Owed' = Owed
        BY <1>2, <2>1 DEF Unbooked, Owes, Owed, Out
      <3>2. QED
        BY <1>1, <3>1
    <2>2. CASE sent'.open = NoTx
      <3>1. (\A p \in Plans : Unbooked(p)' = Unbooked(p) /\ Owes(p)' = 0) /\ Owed' = 0
        BY <1>2, <2>2 DEF Unbooked, Owes, Owed, Out
      <3>2. QED
        BY <1>1, <3>1
    <2>3. QED
      BY <1>2, <2>1, <2>2
  <1>4. Once'
    <2> SUFFICES ASSUME NEW p \in Plans PROVE (plan[p].principal + Unbooked(p) + Owes(p))' <= 1
      BY DEF Once
    <2>1. plan[p].principal + Unbooked(p) + Owes(p) <= 1
      BY DEF JudgeInv, Once
    <2>2. /\ plan'[p].principal \in Nat /\ plan[p].principal \in Nat
          /\ plan'[p].principal <= plan[p].principal
      BY <1>1 DEF Lower, Principals
    <2>3. /\ Unbooked(p) \in {0, 1} /\ Owes(p) \in {0, 1} /\ Unbooked(p)' = Unbooked(p)
          /\ Owes(p)' <= Owes(p) /\ Owes(p)' \in {0, 1}
      BY <1>1, <1>3
    <2> HIDE DEF Unbooked, Owes
    <2>4. QED
      BY <2>1, <2>2, <2>3
  <1>5. Posts'
    <2>1. CASE work' = work /\ sent' = sent
      <3>1. work.pc \in Before => work.plan \in Plans
        BY <1>1, TaskAt DEF Before, TaskPcs, Tasks
      <3>2. work.pc \in Before => plan'[work.plan].principal = 0
        <4>1. ASSUME work.pc \in Before PROVE plan'[work.plan].principal = 0
          <5>1. plan[work.plan].principal = 0
            BY <4>1 DEF JudgeInv, Posts
          <5>2. /\ plan'[work.plan].principal \in Nat
                /\ plan'[work.plan].principal <= plan[work.plan].principal
            BY <1>1, <3>1, <4>1 DEF Principals, Lower
          <5>3. QED
            BY <5>1, <5>2
        <4>2. QED
          BY <4>1
      <3>3. QED
        BY <2>1, <3>2 DEF JudgeInv, Posts, Out
    <2>2. CASE work'.pc \notin Special
      BY <2>2 DEF Posts, Special, Before
    <2>3. QED
      BY <2>1, <2>2
  <1>6. Capped'
    <2>1. CASE left.blind
      BY <2>1 DEF Capped, Adds
    <2>2. CASE ~left.blind
      <3>1. /\ venus /\ sent.unbooked = {} /\ Exposure + Owed <= cap
            /\ work.pc \in Before => Exposure + 1 <= cap
        BY <2>2 DEF JudgeInv, Capped
      <3>2. venus' /\ cap' = cap /\ Exposure \in Nat /\ Exposure' \in Nat /\ Exposure' <= Exposure
        BY <2>2, <3>1 DEF Adds
      <3>3. (Exposure + Owed <= cap)'
        <4> HIDE DEF Exposure, Owed
        <4>1. QED
          BY <1>1, <1>3, <3>1, <3>2
      <3>4. work'.pc \in Before => work.pc \in Before
        BY DEF Special, Before
      <3>5. (work.pc \in Before => Exposure + 1 <= cap)'
        <4> HIDE DEF Exposure
        <4>1. QED
          BY <1>1, <3>1, <3>2, <3>4
      <3>6. QED
        BY <1>2, <3>1, <3>2, <3>3, <3>5 DEF Capped
    <2>3. QED
      BY <2>1, <2>2
  <1>7. QED
    BY <1>1, <1>4, <1>5, <1>6 DEF JudgeInv

\* What a step does to the rows, and so to what the code committed.
Same(p) == Amount(plan'[p]) = Amount(plan[p]) /\ plan'[p].principal = plan[p].principal
Frame == cap' = cap /\ left'.blind = left.blind /\ (venus => left.blind \/ venus')
LEMMA Calm ==
    ASSUME VisitTypes, VisitTypes', Frame, \A p \in Plans : Same(p)
    PROVE  Adds(0) /\ Lower
  <1>1. Principals
    BY PrincipalTypes
  <1>2. Exposure \in Nat /\ Exposure' = Exposure
    BY ExposureSame DEF Same, VisitTypes
  <1>3. Lower
    BY <1>1 DEF Lower, Same, Principals
  <1>4. Exposure' \in Nat /\ Exposure' <= Exposure + 0
    <2> HIDE DEF Exposure
    <2>1. QED
      BY <1>2
  <1>5. QED
    BY <1>2, <1>3, <1>4 DEF Adds, Frame

LEMMA OneGrows ==
    ASSUME VisitTypes, VisitTypes', Frame, NEW x \in Plans, \A p \in Plans \ {x} : Same(p), NEW n \in Nat,
           Amount(plan'[x]) <= Amount(plan[x]) + n
    PROVE  Adds(n)
  <1>1. /\ Exposure \in Nat /\ Exposure' \in Nat
        /\ Exposure' + Amount(plan[x]) = Exposure + Amount(plan'[x])
    BY ExposureFalls DEF Same, VisitTypes
  <1>2. Amount(plan[x]) \in Nat /\ Amount(plan'[x]) \in Nat
    BY AmountTypes DEF VisitTypes
  <1>3. Exposure' <= Exposure + n
    <2> HIDE DEF Exposure, Amount
    <2>1. QED
      BY <1>1, <1>2
  <1>4. QED
    BY <1>1, <1>3 DEF Adds, Frame

LEMMA OneFalls ==
    ASSUME VisitTypes, VisitTypes', Frame, NEW x \in Plans, \A p \in Plans \ {x} : Same(p),
           Amount(plan'[x]) <= Amount(plan[x]), plan'[x].principal <= plan[x].principal
    PROVE  Adds(0) /\ Lower
  <1>1. Principals
    BY PrincipalTypes
  <1>2. Lower
    <2> SUFFICES ASSUME NEW p \in Plans PROVE plan'[p].principal <= plan[p].principal
      BY DEF Lower
    <2>1. CASE p = x
      BY <2>1
    <2>2. CASE p # x
      BY <1>1, <2>2 DEF Same, Principals
    <2>3. QED
      BY <2>1, <2>2
  <1>3. Amount(plan[x]) \in Nat /\ Amount(plan'[x]) \in Nat
    BY AmountTypes DEF VisitTypes
  <1>4. Amount(plan'[x]) <= Amount(plan[x]) + 0
    <2> HIDE DEF Amount
    <2>1. QED
      BY <1>3
  <1>5. Adds(0)
    BY <1>4, OneGrows
  <1>6. QED
    BY <1>2, <1>5

\* A change of one row that moves neither its ledger nor its principal.
LEMMA RowSame ==
    ASSUME VisitTypes, NEW x \in Plans, NEW row, plan' = [plan EXCEPT ![x] = row],
           row.reserved = plan[x].reserved, row.spent = plan[x].spent, row.principal = plan[x].principal
    PROVE  \A p \in Plans : Same(p)
  BY DEF Same, Amount, VisitTypes
LEMMA AllSame ==
    ASSUME plan' = plan
    PROVE  \A p \in Plans : Same(p)
  BY DEF Same
LEMMA TellPc ==
    ASSUME NEW status, NEW result, Tell(status, result), work \in Tasks
    PROVE  work'.pc \notin Special
  <1>1. CASE work.job = 0
    <2>1. work' = Idle \/ work' = [pc |-> "tick", due |-> work.due]
      BY <1>1, Zenon DEF Tell, Ticking
    <2>2. QED
      BY <2>1 DEF Idle, Special
  <1>2. CASE work.job # 0
    BY <1>2 DEF Tell, Special, Tasks
  <1>3. QED
    BY <1>1, <1>2

LEMMA BrowserKeeps ==
    ASSUME JudgeInv, Browser
    PROVE  JudgeInv'
  <1>1. VisitTypes /\ VisitTypes'
    BY BrowserTypes DEF JudgeInv
  <1>2. sent' = sent /\ work' = work /\ Frame
    <2>1. UNCHANGED <<cap, sent, work, venus, left>>
      BY Zenon DEF Browser, CreatePlan, RunElsewhere, Run, Preview, Stop, See, Again, RemoveCode
    <2>2. QED
      BY <2>1 DEF Frame
  <1>3. \A p \in Plans : Same(p)
    <2>1. CASE \E x \in Plans : CreatePlan(x)
      <3>1. PICK x \in Plans : CreatePlan(x)
        BY <2>1
      <3> DEFINE row == [plan[x] EXCEPT !.made = TRUE]
      <3>2. plan' = [plan EXCEPT ![x] = row]
        BY <1>1, <3>1 DEF CreatePlan, VisitTypes
      <3>3. plan[x] \in Rows
        BY <1>1 DEF VisitTypes
      <3>4. row.reserved = plan[x].reserved /\ row.spent = plan[x].spent /\ row.principal = plan[x].principal
        BY <3>3 DEF Rows
      <3> HIDE DEF row
      <3>5. QED
        BY <1>1, <3>2, <3>4, RowSame
    <2>2. CASE plan' = plan
      BY <2>2, AllSame
    <2>3. QED
      BY <2>1, <2>2 DEF Browser, RunElsewhere, Run, Preview, Stop, See, Again, RemoveCode
  <1>4. QED
    BY <1>1, <1>2, <1>3, Calm, Keeps

\* What a settle does to one row's deposits, and to what is out.
Booked1(p) == IF p \in Deposited THEN 1 ELSE 0
LEMMA SettledOne ==
    ASSUME VisitTypes, NEW p \in Plans, plan' = [q \in Plans |-> SettledRow(q)], sent' = SettledSent
    PROVE  /\ Booked1(p) \in {0, 1}
           /\ plan'[p].principal + Unbooked(p)' = plan[p].principal + Booked1(p)
           /\ Booked1(p) + Owes(p)' <= Unbooked(p) + Owes(p)
           /\ plan[p].principal \in Nat /\ plan'[p].principal \in Nat /\ Owes(p)' \in {0, 1}
           /\ Unbooked(p)' \in {0, 1}
  <1>1. plan[p] \in Rows /\ plan[p].principal \in Nat
    BY DEF VisitTypes, Rows
  <1>2. Booked1(p) \in {0, 1} /\ Owes(p)' \in {0, 1} /\ Unbooked(p)' \in {0, 1}
        /\ Owes(p) \in {0, 1} /\ Unbooked(p) \in {0, 1}
    BY DEF Booked1, Owes, Unbooked
  <1>3. /\ Finished(p) \in Rows /\ Finished(p).principal = plan[p].principal
        /\ DepositBooked(Finished(p)).principal = plan[p].principal + 1
    <2>1. Finished(p) \in {plan[p], SwapBooked(plan[p]), Released(plan[p])}
      BY FinishedIs
    <2> DEFINE row == plan[p]
               kept == Finished(p)
    <2> HIDE DEF row, kept
    <2>2. /\ SwapBooked(row) \in Rows /\ SwapBooked(row).principal = row.principal
          /\ Released(row) \in Rows /\ Released(row).principal = row.principal
      BY <1>1, BookedTypes DEF row
    <2>3. kept \in Rows /\ kept.principal = row.principal
      BY <1>1, <2>1, <2>2 DEF row, kept
    <2>4. DepositBooked(kept).principal = kept.principal + 1
      BY <2>3, BookedTypes
    <2>5. QED
      BY <2>3, <2>4 DEF row, kept
  <1>4. /\ sent'.unbooked = IF venus THEN {} ELSE Deposited
        /\ sent'.open = IF Mined("no") THEN sent.open ELSE NoTx
    BY DEF SettledSent
  <1>5. plan'[p] = SettledRow(p)
    OBVIOUS
  <1>6. plan'[p].principal + Unbooked(p)' = plan[p].principal + Booked1(p)
    <2>1. CASE p \in Deposited /\ venus
      <3>1. plan'[p] = DepositBooked(Finished(p))
        BY <1>5, <2>1, Zenon DEF SettledRow
      <3>2. Unbooked(p)' = 0 /\ Booked1(p) = 1
        BY <1>4, <2>1 DEF Unbooked, Booked1
      <3>3. QED
        BY <1>1, <1>3, <3>1, <3>2
    <2>2. CASE ~(p \in Deposited /\ venus)
      <3>1. plan'[p] = Finished(p)
        BY <1>5, <2>2, Zenon DEF SettledRow
      <3>2. plan'[p].principal = plan[p].principal
        BY <1>3, <3>1
      <3>3. Unbooked(p)' = Booked1(p)
        BY <1>4, <2>2 DEF Unbooked, Booked1
      <3>4. QED
        BY <3>2, <3>3
    <2>3. QED
      BY <2>1, <2>2
  <1>7. Booked1(p) + Owes(p)' <= Unbooked(p) + Owes(p)
    <2>1. CASE Mined("no")
      <3>1. Deposited = sent.unbooked
        BY <2>1 DEF Deposited, Mined
      <3>2. Booked1(p) = Unbooked(p)
        BY <3>1 DEF Booked1, Unbooked
      <3>3. Owes(p)' = Owes(p)
        BY <1>4, <2>1 DEF Owes, Out
      <3>4. QED
        BY <1>2, <3>2, <3>3
    <2>2. CASE ~Mined("no")
      <3>1. Owes(p)' = 0
        BY <1>4, <2>2 DEF Owes, Out
      <3>2. Booked1(p) <= Unbooked(p) + Owes(p)
        <4>1. CASE p \notin Deposited
          BY <1>2, <4>1 DEF Booked1
        <4>2. CASE p \in sent.unbooked
          <5>1. Unbooked(p) = 1
            BY <4>2 DEF Unbooked
          <5>2. QED
            BY <1>2, <5>1
        <4>3. CASE p \in Deposited /\ p \notin sent.unbooked
          <5>1. Mined("success") /\ sent.open.kind = "deposit" /\ sent.open.plan = p
            BY <4>3 DEF Deposited
          <5>2. Owes(p) = 1
            BY <5>1 DEF Owes, Mined
          <5>3. QED
            BY <1>2, <5>2
        <4>4. QED
          BY <4>1, <4>2, <4>3
      <3>3. QED
        BY <1>2, <3>1, <3>2
    <2>3. QED
      BY <2>1, <2>2
  <1>8. plan'[p].principal \in Nat
    <2>1. SettledRow(p) \in Rows
      BY SettleTypes
    <2>2. QED
      BY <1>5, <2>1 DEF Rows
  <1>9. QED
    BY <1>1, <1>2, <1>6, <1>7, <1>8

LEMMA OneBooked ==
    \A e, f, a, b \in Nat, o, n \in {0, 1} : f + a = e + b /\ b = a + 1 /\ o = 1 /\ n = 0 => f + n <= e + o
  OBVIOUS
LEMMA NoMore ==
    \A e, f \in Nat, o, n \in {0, 1} : f <= e /\ n <= o => f + n <= e + o
  OBVIOUS

\* A settle books what was committed already.
LEMMA SettledExposure ==
    ASSUME VisitTypes, VisitTypes', plan' = [q \in Plans |-> SettledRow(q)], sent' = SettledSent,
           venus, sent.unbooked = {}
    PROVE  /\ Exposure \in Nat /\ Exposure' \in Nat /\ Owed \in {0, 1} /\ Owed' \in {0, 1}
           /\ Exposure' + Owed' <= Exposure + Owed /\ sent'.unbooked = {}
  <1>1. sent'.unbooked = {} /\ sent'.open = IF Mined("no") THEN sent.open ELSE NoTx
    BY DEF SettledSent
  <1>2. \A p \in Plans : plan[p] \in Rows /\ plan'[p] = SettledRow(p)
    BY DEF VisitTypes
  <1>3. Owed \in {0, 1} /\ Owed' \in {0, 1}
    BY DEF Owed
  <1>4. Owed' <= Owed
    <2>1. CASE Mined("no")
      <3>1. Owed' = Owed
        BY <1>1, <2>1 DEF Owed, Out
      <3>2. QED
        BY <1>3, <3>1
    <2>2. CASE ~Mined("no")
      <3>1. Owed' = 0
        BY <1>1, <2>2 DEF Owed, Out
      <3>2. QED
        BY <1>3, <3>1
    <2>3. QED
      BY <2>1, <2>2
  <1>5. CASE Mined("success") /\ sent.open.kind = "deposit"
    <2> DEFINE x == sent.open.plan
    <2>1. x \in Plans
      BY <1>5 DEF VisitTypes, Mined, Out, Open
    <2>2. Deposited = {x}
      BY <1>5 DEF Deposited
    <2>3. plan'[x] = DepositBooked(plan[x])
      <3>1. x \in Deposited /\ Finished(x) = plan[x]
        <4>1. ~SwapOf(x, "success") /\ ~SwapOf(x, "reverted")
          BY <1>5 DEF SwapOf
        <4>2. QED
          BY <2>1, <2>2, <4>1, FinishedIs
      <3>2. QED
        BY <1>2, <2>1, <3>1, Zenon DEF SettledRow
    <2>4. \A p \in Plans \ {x} : plan'[p] = plan[p]
      <3>1. \A p \in Plans \ {x} : p \in Plans /\ p \notin Deposited /\ plan'[p] = SettledRow(p)
                                   /\ ~SwapOf(p, "success") /\ ~SwapOf(p, "reverted")
        BY <1>2, <1>5, <2>2 DEF SwapOf
      <3>2. \A p \in Plans \ {x} : Finished(p) = plan[p]
        BY <3>1, FinishedIs
      <3>3. QED
        BY <3>1, <3>2, Zenon DEF SettledRow
    <2>5. Owed = 1 /\ Owed' = 0
      BY <1>1, <1>5 DEF Owed, Mined, Out
    <2> HIDE DEF x
    <2>6. \A p \in Plans \ {x} : Amount(plan'[p]) = Amount(plan[p])
      BY <2>4
    <2>7. /\ Exposure \in Nat /\ Exposure' \in Nat
          /\ Exposure' + Amount(plan[x]) = Exposure + Amount(plan'[x])
      BY <2>1, <2>6, ExposureFalls DEF VisitTypes
    <2>8. Amount(plan[x]) \in Nat /\ Amount(plan'[x]) = Amount(plan[x]) + 1
      <3> DEFINE row == plan[x]
      <3>1. row \in Rows
        BY <1>2, <2>1
      <3> HIDE DEF row
      <3>2. /\ DepositBooked(row).principal = row.principal + 1
            /\ DepositBooked(row).reserved = row.reserved /\ DepositBooked(row).spent = row.spent
        BY <3>1, BookedTypes
      <3>3. row.principal \in Nat /\ row.reserved \in Nat /\ row.spent \in Nat
        BY <3>1 DEF Rows
      <3>4. Amount(row) \in Nat /\ Amount(DepositBooked(row)) = Amount(row) + 1
        BY <3>2, <3>3 DEF Amount
      <3>5. QED
        BY <2>3, <3>4 DEF row
    <2> HIDE DEF Exposure, Owed, Amount
    <2>9. Exposure' + Owed' <= Exposure + Owed
      <3>1. Amount(plan'[x]) \in Nat
        BY <2>8
      <3>2. QED
        BY <1>3, <2>5, <2>7, <2>8, <3>1, OneBooked, Zenon
    <2>10. QED
      BY <1>1, <1>3, <2>7, <2>9, Zenon
  <1>6. CASE ~(Mined("success") /\ sent.open.kind = "deposit")
    <2>1. Deposited = {}
      BY <1>6 DEF Deposited
    <2>2. Exposure \in Nat /\ Exposure' \in Nat /\ Exposure' <= Exposure
      <3>1. CASE \A p \in Plans : plan'[p] = plan[p]
        <4>1. Exposure \in Nat /\ Exposure' = Exposure
          BY <3>1, ExposureSame DEF VisitTypes
        <4> HIDE DEF Exposure
        <4>2. QED
          BY <4>1
      <3>2. CASE \E p \in Plans : plan'[p] # plan[p]
        <4> DEFINE x == sent.open.plan
        <4>1. \A p \in Plans : plan'[p] = Finished(p)
          BY <1>2, <2>1, Zenon DEF SettledRow
        <4>2. x \in Plans /\ (plan'[x] = SwapBooked(plan[x]) \/ plan'[x] = Released(plan[x]))
          <5>1. PICK p \in Plans : plan'[p] # plan[p]
            BY <3>2
          <5>2. p = x /\ (plan'[p] = SwapBooked(plan[p]) \/ plan'[p] = Released(plan[p]))
            BY <4>1, <5>1, FinishedIs DEF SwapOf
          <5>3. QED
            BY <5>2
        <4> HIDE DEF x
        <4>3. \A p \in Plans \ {x} : Amount(plan'[p]) = Amount(plan[p])
          <5>1. \A p \in Plans \ {x} : plan'[p] = plan[p]
            BY <4>1, FinishedIs DEF SwapOf, x
          <5>2. QED
            BY <5>1
        <4>4. /\ Exposure \in Nat /\ Exposure' \in Nat
              /\ Exposure' + Amount(plan[x]) = Exposure + Amount(plan'[x])
          BY <4>2, <4>3, ExposureFalls DEF VisitTypes
        <4>5. Amount(plan[x]) \in Nat /\ Amount(plan'[x]) \in Nat /\ Amount(plan'[x]) <= Amount(plan[x])
          <5> DEFINE row == plan[x]
          <5>1. row \in Rows
            BY <1>2, <4>2
          <5> HIDE DEF row
          <5>2. row.principal \in Nat /\ row.reserved \in Nat /\ row.spent \in Nat
            BY <5>1 DEF Rows
          <5>3. /\ SwapBooked(row).principal = row.principal /\ SwapBooked(row).reserved = 0
                /\ SwapBooked(row).spent = row.spent + row.reserved
                /\ Released(row).principal = row.principal /\ Released(row).reserved = 0
                /\ Released(row).spent = row.spent
            BY <5>1, BookedTypes
          <5>4. Amount(row) \in Nat /\ Amount(SwapBooked(row)) = Amount(row)
                /\ Amount(Released(row)) \in Nat /\ Amount(Released(row)) <= Amount(row)
            BY <5>2, <5>3 DEF Amount
          <5>5. Amount(SwapBooked(row)) \in Nat /\ Amount(SwapBooked(row)) <= Amount(row)
            <6> HIDE DEF Amount
            <6>1. QED
              BY <5>4
          <5>6. QED
            BY <4>2, <5>4, <5>5 DEF row
        <4> HIDE DEF Exposure, Amount
        <4>6. QED
          BY <4>4, <4>5
      <3>3. QED
        BY <3>1, <3>2
    <2> HIDE DEF Exposure, Owed
    <2>3. Exposure' + Owed' <= Exposure + Owed
      BY <1>3, <1>4, <2>2, NoMore, Zenon
    <2>4. QED
      BY <1>1, <1>3, <2>2, <2>3, Zenon
  <1>7. QED
    BY <1>5, <1>6

LEMMA SettleKeeps ==
    ASSUME JudgeInv, VisitTypes', plan' = [q \in Plans |-> SettledRow(q)], sent' = SettledSent,
           UNCHANGED <<cap, venus, left>>, work'.pc \notin Special
    PROVE  JudgeInv'
  <1>1. Once'
    <2> SUFFICES ASSUME NEW p \in Plans PROVE plan'[p].principal + Unbooked(p)' + Owes(p)' <= 1
      BY DEF Once
    <2>1. plan[p].principal + Unbooked(p) + Owes(p) <= 1
      BY DEF JudgeInv, Once
    <2>2. /\ Booked1(p) \in {0, 1}
          /\ plan'[p].principal + Unbooked(p)' = plan[p].principal + Booked1(p)
          /\ Booked1(p) + Owes(p)' <= Unbooked(p) + Owes(p)
          /\ plan[p].principal \in Nat /\ plan'[p].principal \in Nat /\ Owes(p)' \in {0, 1}
          /\ Unbooked(p)' \in {0, 1}
      BY SettledOne DEF JudgeInv
    <2>3. Unbooked(p) \in {0, 1} /\ Owes(p) \in {0, 1}
      BY DEF Unbooked, Owes
    <2> HIDE DEF Booked1, Unbooked, Owes
    <2>4. QED
      BY <2>1, <2>2, <2>3
  <1>2. Posts'
    BY DEF Posts, Special, Before
  <1>3. Capped'
    <2>1. CASE left.blind
      BY <2>1 DEF Capped
    <2>2. CASE ~left.blind
      <3>1. venus /\ sent.unbooked = {} /\ Exposure + Owed <= cap /\ cap \in Nat
        BY <2>2 DEF JudgeInv, Capped, VisitTypes
      <3>2. /\ Exposure \in Nat /\ Exposure' \in Nat /\ Owed \in {0, 1} /\ Owed' \in {0, 1}
            /\ Exposure' + Owed' <= Exposure + Owed /\ sent'.unbooked = {}
        BY <3>1, SettledExposure DEF JudgeInv
      <3>3. (Exposure + Owed <= cap)'
        <4> HIDE DEF Exposure, Owed
        <4>1. QED
          BY <3>1, <3>2
      <3>4. work'.pc \notin Before
        BY DEF Special, Before
      <3>5. QED
        BY <3>1, <3>2, <3>3, <3>4 DEF Capped
    <2>3. QED
      BY <2>1, <2>2
  <1>4. QED
    BY <1>1, <1>2, <1>3 DEF JudgeInv

\* The worker's steps: those that add nothing.
QuietJob == Claim \/ Admit \/ Start \/ StopPlan \/ Answer \/ Boot \/ (\E p \in Plans : TickPlan(p))
LEMMA QuietJobKeeps ==
    ASSUME JudgeInv, VisitTypes', QuietJob
    PROVE  JudgeInv'
  <1>1. VisitTypes /\ plan \in [Plans -> Rows] /\ (work.pc \in TaskPcs => work \in Tasks)
    BY TaskAt DEF JudgeInv, VisitTypes
  <1>2. Frame /\ sent' = sent
    <2>1. cap' = cap /\ sent' = sent /\ left'.blind = left.blind
      BY <1>1 DEF QuietJob, Claim, Admit, Start, StopPlan, Answer, Boot, TickPlan, VisitTypes
    <2>2. venus => left.blind \/ venus'
      BY Zenon DEF QuietJob, Claim, Admit, Start, StopPlan, Answer, Boot, TickPlan
    <2>3. QED
      BY <2>1, <2>2 DEF Frame
  <1>3. work'.pc \notin Special /\ \A p \in Plans : Same(p)
    <2>1. CASE Claim
      <3>1. work'.pc = "admit"
        BY <2>1 DEF Claim, Task
      <3>2. plan' = plan
        BY <2>1 DEF Claim
      <3>3. QED
        BY <3>1, <3>2, AllSame DEF Special
    <2>2. CASE Admit
      <3>1. work \in Tasks /\ plan' = plan
        BY <1>1, <2>2 DEF Admit, At, TaskPcs
      <3>2. work'.pc \in {"stop", "answer", "settle", "cycle"}
        <4> DEFINE task == Task(work.plan, work.job, {}, "settle")
                   pc == CASE jobs[work.job].kind = "preview" -> "answer"
                           [] jobs[work.job].kind = "run" /\ work.plan \in Yield
                              /\ plan[work.plan].principal = 0 -> "settle"
                           [] OTHER -> "cycle"
                   status == IF jobs[work.job].kind = "preview" THEN "done" ELSE None
        <4>1. \/ work' = [work EXCEPT !.pc = "stop"]
              \/ work' = [work EXCEPT !.pc = "answer", !.status = "failed", !.result = "refused"]
              \/ work' = [task EXCEPT !.pc = pc, !.status = status]
          BY <2>2, Zenon DEF Admit
        <4>2. pc \in {"answer", "settle", "cycle"}
          <5>1. CASE jobs[work.job].kind = "preview"
            <6>1. pc = "answer"
              BY <5>1
            <6>2. QED
              BY <6>1
          <5>2. CASE jobs[work.job].kind # "preview"
            BY <5>2
          <5>3. QED
            BY <5>1, <5>2
        <4>3. [task EXCEPT !.pc = pc, !.status = status].pc = pc
          <5>1. task = [task EXCEPT !.pc = "settle"] /\ \A c, s : [task EXCEPT !.pc = c, !.status = s].pc = c
            BY DEF Task
          <5> HIDE DEF task, pc, status
          <5>2. QED
            BY <5>1
        <4>4. /\ [work EXCEPT !.pc = "stop"].pc = "stop"
              /\ [work EXCEPT !.pc = "answer", !.status = "failed", !.result = "refused"].pc = "answer"
          BY <3>1 DEF Tasks
        <4> HIDE DEF task, pc, status
        <4>5. QED
          BY <4>1, <4>2, <4>3, <4>4
      <3>3. QED
        BY <3>1, <3>2, AllSame DEF Special
    <2>3. CASE Start
      <3>1. work \in Tasks
        BY <1>1, <2>3 DEF Start, At, TaskPcs
      <3>2. work'.pc \notin Special
        BY <2>3, <3>1, TellPc DEF Start, Done
      <3>3. work.plan \in Plans /\ plan[work.plan] \in Rows
        BY <1>1, <3>1 DEF Tasks
      <3> DEFINE x == work.plan
                 row == Started(plan[x], work.row.status, work.row.reason)
      <3>4. plan' = plan \/ plan' = [plan EXCEPT ![x] = row]
        BY <2>3 DEF Start
      <3>5. row.reserved = plan[x].reserved /\ row.spent = plan[x].spent /\ row.principal = plan[x].principal
        BY <3>3, StartedTypes
      <3>6. \A p \in Plans : Same(p)
        <4> HIDE DEF row
        <4>1. CASE plan' = plan
          BY <4>1, AllSame
        <4>2. CASE plan' = [plan EXCEPT ![x] = row]
          BY <1>1, <3>3, <3>5, <4>2, RowSame
        <4>3. QED
          BY <3>4, <4>1, <4>2
      <3>7. QED
        BY <3>2, <3>6
    <2>4. CASE StopPlan
      <3>1. work \in Tasks
        BY <1>1, <2>4 DEF StopPlan, At, TaskPcs
      <3>2. work'.pc = "redeem"
        BY <2>4, <3>1 DEF StopPlan, Goto, Tasks
      <3>3. work.plan \in Plans /\ plan[work.plan] \in Rows
        BY <1>1, <3>1 DEF Tasks
      <3> DEFINE x == work.plan
                 row == [plan[x] EXCEPT !.status = "stopped", !.reason = "stopped_by_owner"]
      <3>4. plan' = [plan EXCEPT ![x] = row]
        BY <1>1, <2>4, <3>3 DEF StopPlan
      <3>5. row.reserved = plan[x].reserved /\ row.spent = plan[x].spent /\ row.principal = plan[x].principal
        BY <3>3 DEF Rows
      <3>6. \A p \in Plans : Same(p)
        <4> HIDE DEF row
        <4>1. QED
          BY <1>1, <3>3, <3>4, <3>5, RowSame
      <3>7. QED
        BY <3>2, <3>6 DEF Special
    <2>5. CASE Answer
      <3>1. work \in Tasks /\ work.pc = "answer" /\ plan' = plan
        BY <1>1, <2>5 DEF Answer, At, TaskPcs
      <3>2. work' = Idle \/ work' = [work EXCEPT !.status = "failed", !.result = "lost"]
        BY <2>5, Zenon DEF Answer
      <3>3. work'.pc \in {"idle", "answer"}
        <4>1. [work EXCEPT !.status = "failed", !.result = "lost"].pc = work.pc
          BY <3>1 DEF Tasks
        <4>2. Idle.pc = "idle"
          BY DEF Idle
        <4> HIDE DEF Idle
        <4>3. QED
          BY <3>1, <3>2, <4>1, <4>2
      <3>4. QED
        BY <3>1, <3>3, AllSame DEF Special
    <2>6. CASE Boot
      <3>1. work' = Idle /\ plan' = plan
        BY <2>6 DEF Boot
      <3>2. QED
        BY <3>1, AllSame DEF Idle, Special
    <2>7. CASE \E p \in Plans : TickPlan(p)
      <3>1. PICK x \in Plans : TickPlan(x)
        BY <2>7
      <3>2. work'.pc \in {"cycle", "idle", "tick"}
        <4>1. \/ work' = Task(x, 0, work.due \ {x}, "cycle") \/ work' = Idle
              \/ work' = [pc |-> "tick", due |-> work.due \ {x}]
          BY <3>1, Zenon DEF TickPlan, Ticking
        <4>2. QED
          BY <4>1 DEF Task, Idle
      <3> DEFINE row == [plan[x] EXCEPT !.status = "paused", !.reason = "code_disabled"]
      <3>3. plan' = plan \/ plan' = [plan EXCEPT ![x] = row]
        BY <1>1, <3>1 DEF TickPlan
      <3>4. row.reserved = plan[x].reserved /\ row.spent = plan[x].spent /\ row.principal = plan[x].principal
        BY <1>1 DEF Rows
      <3>5. \A p \in Plans : Same(p)
        <4> HIDE DEF row
        <4>1. CASE plan' = plan
          BY <4>1, AllSame
        <4>2. CASE plan' = [plan EXCEPT ![x] = row]
          BY <1>1, <3>4, <4>2, RowSame
        <4>3. QED
          BY <3>3, <4>1, <4>2
      <3>6. QED
        BY <3>2, <3>5 DEF Special
    <2>8. QED
      BY <2>1, <2>2, <2>3, <2>4, <2>5, <2>6, <2>7 DEF QuietJob
  <1>4. QED
    BY <1>1, <1>2, <1>3, Calm, Keeps

\* Those that move the ledger or a transaction.
LEMMA DecideKeeps ==
    ASSUME JudgeInv, VisitTypes', Decide
    PROVE  JudgeInv'
  <1>1. VisitTypes /\ plan \in [Plans -> Rows] /\ work \in Tasks /\ work.pc = "decide"
    BY TaskAt DEF JudgeInv, VisitTypes, Decide, At, TaskPcs
  <1>2. Frame /\ sent' = sent
    BY DEF Decide, Frame
  <1> DEFINE x == work.plan
  <1>3. x \in Plans /\ plan[x] \in Rows
    BY <1>1 DEF Tasks
  <1>4. CASE \/ Done("outbox_busy") /\ UNCHANGED plan
             \/ /\ plan' = [plan EXCEPT ![x].due = FALSE]
                /\ work' = [work EXCEPT !.pc = "start", !.result = "skipped"]
    <2>1. work'.pc \notin Special
      <3>1. CASE Done("outbox_busy")
        BY <1>1, <3>1, TellPc DEF Done
      <3>2. CASE work' = [work EXCEPT !.pc = "start", !.result = "skipped"]
        BY <1>1, <3>2 DEF Tasks, Special
      <3>3. QED
        BY <1>4, <3>1, <3>2
    <2>2. \A p \in Plans : Same(p)
      <3>1. CASE plan' = plan
        BY <3>1, AllSame
      <3>2. CASE plan' = [plan EXCEPT ![x].due = FALSE]
        <4> DEFINE row == [plan[x] EXCEPT !.due = FALSE]
        <4>1. row.reserved = plan[x].reserved /\ row.spent = plan[x].spent /\ row.principal = plan[x].principal
          BY <1>3 DEF Rows
        <4>2. plan' = [plan EXCEPT ![x] = row]
          BY <3>2
        <4> HIDE DEF row
        <4>3. QED
          BY <1>1, <1>3, <4>1, <4>2, RowSame
      <3>3. QED
        BY <1>4, <3>1, <3>2
    <2>3. QED
      BY <1>1, <1>2, <2>1, <2>2, Calm, Keeps
  <1>5. CASE /\ ~Out /\ MayReserve(x)
             /\ plan' = [plan EXCEPT ![x].reserved = 1, ![x].today = 1] /\ Goto("sign")
    <2> DEFINE row == [plan[x] EXCEPT !.reserved = 1, !.today = 1]
    <2>1. plan' = [plan EXCEPT ![x] = row]
      BY <1>1, <1>3, <1>5
    <2>2. /\ row.reserved = 1 /\ row.spent = plan[x].spent /\ row.principal = plan[x].principal
          /\ plan[x].reserved \in Nat /\ plan[x].spent \in Nat /\ plan[x].principal \in Nat
      BY <1>3 DEF Rows
    <2> HIDE DEF row
    <2>3. plan'[x] = row /\ (\A p \in Plans \ {x} : plan'[p] = plan[p])
      BY <1>1, <1>3, <2>1
    <2>4. \A p \in Plans \ {x} : Same(p)
      BY <2>3 DEF Same
    <2>5. Amount(plan'[x]) <= Amount(plan[x]) + 1
      BY <2>2, <2>3 DEF Amount
    <2>6. Adds(1)
      BY <1>1, <1>2, <1>3, <2>4, <2>5, OneGrows
    <2>7. work'.pc = "sign"
      BY <1>1, <1>5 DEF Goto, Tasks
    <2>8. Once'
      <3> SUFFICES ASSUME NEW p \in Plans PROVE (plan[p].principal + Unbooked(p) + Owes(p))' <= 1
        BY DEF Once
      <3>1. plan'[p].principal = plan[p].principal
        BY <2>2, <2>3
      <3>2. Unbooked(p)' = Unbooked(p) /\ Owes(p)' = Owes(p)
        BY <1>2 DEF Unbooked, Owes, Out
      <3>3. plan[p].principal + Unbooked(p) + Owes(p) <= 1
        BY DEF JudgeInv, Once
      <3> HIDE DEF Unbooked, Owes
      <3>4. QED
        BY <3>1, <3>2, <3>3
    <2>9. Posts'
      BY <2>7 DEF Posts, Before
    <2>10. Capped'
      <3>1. CASE left.blind
        BY <1>2, <3>1 DEF Capped, Frame
      <3>2. CASE ~left.blind
        <4>1. venus /\ sent.unbooked = {} /\ cap \in Nat
          BY <1>1, <3>2 DEF JudgeInv, Capped, VisitTypes
        <4>2. Owed' = 0
          BY <1>2, <1>5 DEF Owed, Out
        <4>3. Exposure + 1 <= cap
          <5>1. Room >= 1 /\ Exposure \in Nat
            BY <1>5, <2>6 DEF MayReserve, Adds
          <5> HIDE DEF Exposure
          <5>2. QED
            BY <4>1, <5>1 DEF Room
        <4>4. Exposure \in Nat /\ Exposure' \in Nat /\ Exposure' <= Exposure + 1
          BY <2>6 DEF Adds
        <4>5. (Exposure + Owed <= cap)'
          <5>1. cap' = cap
            BY <1>2 DEF Frame
          <5> HIDE DEF Exposure, Owed
          <5>2. Exposure' + Owed' <= cap
            <6>1. cap \in Int /\ Exposure' \in Int /\ Exposure \in Int
              BY <4>1, <4>4
            <6>2. Exposure' <= cap
              BY <4>3, <4>4, <6>1
            <6>4. Owed' = 0
              BY <4>2
            <6>3. Owed' \in Int
              BY <6>4
            <6>5. \A a, b \in Int : b = 0 => a + b = a
              OBVIOUS
            <6>6. Exposure' + Owed' = Exposure'
              BY <6>1, <6>3, <6>4, <6>5, Zenon
            <6>7. QED
              BY <6>2, <6>6
          <5>3. QED
            BY <5>1, <5>2
        <4>6. venus' /\ sent'.unbooked = {}
          BY <1>2, <3>2, <4>1 DEF Frame
        <4>7. QED
          BY <2>7, <4>5, <4>6 DEF Capped, Before
      <3>3. QED
        BY <3>1, <3>2
    <2>11. QED
      BY <2>8, <2>9, <2>10 DEF JudgeInv
  <1>6. QED
    BY <1>4, <1>5 DEF Decide

\* A swap's, a deposit's or a dead worker's row falls or stays; so does a redeemed one.
LEMMA FallsKeeps ==
    ASSUME JudgeInv, VisitTypes', Frame, NEW x \in Plans, NEW row \in Rows,
           plan' = [plan EXCEPT ![x] = row], Amount(row) <= Amount(plan[x]),
           row.principal <= plan[x].principal,
           sent' = sent \/ sent' = [sent EXCEPT !.open = NoTx], work'.pc \notin Special
    PROVE  JudgeInv'
  <1>1. VisitTypes /\ plan'[x] = row /\ (\A p \in Plans \ {x} : plan'[p] = plan[p])
    BY DEF JudgeInv, VisitTypes
  <1>2. \A p \in Plans \ {x} : Same(p)
    BY <1>1 DEF Same
  <1>3. Adds(0) /\ Lower
    BY <1>1, <1>2, OneFalls
  <1>4. QED
    BY <1>3, Keeps

LEMMA SwappedKeeps ==
    ASSUME JudgeInv, VisitTypes', Swapped
    PROVE  JudgeInv'
  <1>1. VisitTypes /\ plan \in [Plans -> Rows] /\ work \in Tasks
    BY TaskAt DEF JudgeInv, VisitTypes, Swapped, At, TaskPcs
  <1>2. Frame /\ (sent' = sent \/ sent' = [sent EXCEPT !.open = NoTx])
    BY DEF Swapped, Frame
  <1> DEFINE x == work.plan
             old == plan[x]
  <1>3. x \in Plans /\ old \in Rows
    BY <1>1 DEF Tasks
  <1>4. work'.pc \notin Special
    BY <1>1 DEF Swapped, Tasks, Special
  <1>5. \/ plan' = [plan EXCEPT ![x] = [SwapBooked(old) EXCEPT !.due = FALSE]]
        \/ plan' = [plan EXCEPT ![x] = [Released(old) EXCEPT !.due = FALSE]]
        \/ plan' = [plan EXCEPT ![x] = [old EXCEPT !.awaiting = TRUE, !.due = FALSE]]
    BY <1>1, <1>3 DEF Swapped
  <1> HIDE DEF old
  <1>6. /\ SwapBooked(old) \in Rows /\ Released(old) \in Rows
        /\ SwapBooked(old).principal = old.principal /\ SwapBooked(old).reserved = 0
        /\ SwapBooked(old).spent = old.spent + old.reserved
        /\ Released(old).principal = old.principal /\ Released(old).reserved = 0
        /\ Released(old).spent = old.spent
    BY <1>3, BookedTypes
  <1>7. old.principal \in Nat /\ old.reserved \in Nat /\ old.spent \in Nat
    BY <1>3 DEF Rows
  <1> DEFINE Falls(row) == row \in Rows /\ Amount(row) <= Amount(old) /\ row.principal <= old.principal
             swapped == [SwapBooked(old) EXCEPT !.due = FALSE]
             released == [Released(old) EXCEPT !.due = FALSE]
             awaits == [old EXCEPT !.awaiting = TRUE, !.due = FALSE]
  <1>8. ASSUME NEW r \in Rows
        PROVE  /\ [r EXCEPT !.due = FALSE] \in Rows /\ Amount([r EXCEPT !.due = FALSE]) = Amount(r)
               /\ [r EXCEPT !.due = FALSE].principal = r.principal
    BY DEF Rows, Amount
  <1>9. awaits \in Rows /\ Amount(awaits) = Amount(old) /\ awaits.principal = old.principal
    BY <1>3 DEF Rows, Amount
  <1>10. /\ Amount(SwapBooked(old)) = Amount(old) /\ Amount(Released(old)) <= Amount(old)
         /\ Amount(old) \in Nat
    BY <1>6, <1>7 DEF Amount
  <1>11. Falls(swapped)
    <2>1. /\ swapped \in Rows /\ Amount(swapped) = Amount(SwapBooked(old))
          /\ swapped.principal = SwapBooked(old).principal
      BY <1>6, <1>8
    <2> HIDE DEF swapped, Amount
    <2>2. QED
      BY <1>6, <1>7, <1>10, <2>1
  <1>12. Falls(released)
    <2>1. /\ released \in Rows /\ Amount(released) = Amount(Released(old))
          /\ released.principal = Released(old).principal
      BY <1>6, <1>8
    <2> HIDE DEF released, Amount
    <2>2. QED
      BY <1>6, <1>7, <1>10, <2>1
  <1>13. Falls(awaits)
    <2> HIDE DEF awaits, Amount
    <2>1. QED
      BY <1>7, <1>9, <1>10
  <1>14. \E row : Falls(row) /\ plan' = [plan EXCEPT ![x] = row]
    <2> HIDE DEF Falls
    <2>1. QED
      BY <1>5, <1>11, <1>12, <1>13
  <1>15. plan[x] = old
    BY DEF old
  <1>16. QED
    <2> HIDE DEF Amount
    <2>1. QED
      BY <1>2, <1>3, <1>4, <1>14, <1>15, FallsKeeps

\* What still fits under the cap.
LEMMA Fits ==
    \A e, e2, o2, n, c, c2 \in Int : e2 <= e + 0 /\ o2 <= n /\ e + n <= c /\ c2 = c => e2 + o2 <= c2
  OBVIOUS

\* The deposit: checked, approved, signed, mined.
LEMMA CheckKeeps ==
    ASSUME JudgeInv, VisitTypes', Check
    PROVE  JudgeInv'
  <1>1. VisitTypes /\ work \in Tasks /\ work.pc = "check"
    BY TaskAt DEF JudgeInv, VisitTypes, Check, At, TaskPcs
  <1>2. Frame /\ sent' = sent /\ plan' = plan
    BY DEF Check, Frame
  <1>3. Adds(0) /\ Lower
    BY <1>1, <1>2, AllSame, Calm
  <1> DEFINE p == work.plan
             open == ~Approving /\ ~Out /\ sent.unbooked = {} /\ plan[p].principal = 0 /\ venus /\ Room >= 1
  <1>4. \/ Done("approval_pending") \/ Refuse \/ Done("deposited")
        \/ (open /\ (work' = [work EXCEPT !.pc = "deposit"] \/ work' = [work EXCEPT !.pc = "approve"]))
    <2> DEFINE A == Approving /\ sent.unbooked = {}
               B == (Out \/ sent.unbooked # {}) /\ ~A
               C == ~Out /\ sent.unbooked = {} /\ plan[p].principal > 0
    <2>1. CASE A
      <3>1. ~B /\ ~C
        BY <2>1 DEF Approving
      <3>2. Done("approval_pending")
        BY <1>1, <2>1, <3>1, Zenon DEF Check, FreshPrincipal
      <3>3. QED
        BY <3>2
    <2>2. CASE B
      <3>1. ~A /\ ~C
        BY <2>2
      <3>2. Refuse
        BY <1>1, <2>2, <3>1, Zenon DEF Check, FreshPrincipal
      <3>3. QED
        BY <3>2
    <2>3. CASE C
      <3>1. ~A /\ ~B
        BY <2>3 DEF Approving
      <3>2. Done("deposited")
        BY <1>1, <2>3, <3>1, Zenon DEF Check, FreshPrincipal
      <3>3. QED
        BY <3>2
    <2>4. CASE ~A /\ ~B /\ ~C
      <3>1. IF ~venus \/ Room < 1 THEN Refuse ELSE Goto(IF plan[p].allowed THEN "deposit" ELSE "approve")
        BY <1>1, <2>4, Zenon DEF Check, FreshPrincipal
      <3>2. ~Out /\ sent.unbooked = {} /\ ~Approving
        BY <2>4 DEF Approving
      <3>3. plan[p].principal = 0
        <4>1. plan[p].principal \in Nat
          BY <1>1 DEF VisitTypes, Rows, Tasks
        <4>2. QED
          BY <2>4, <3>2, <4>1
      <3>4. CASE ~venus \/ Room < 1
        BY <3>1, <3>4
      <3>5. CASE venus /\ ~(Room < 1)
        <4>1. Room >= 1
          <5>1. cap \in Nat /\ Exposure \in Nat
            BY <1>1, <1>3 DEF Adds, VisitTypes
          <5> HIDE DEF Exposure
          <5>2. QED
            BY <3>5, <5>1 DEF Room
        <4>2. work' = [work EXCEPT !.pc = "deposit"] \/ work' = [work EXCEPT !.pc = "approve"]
          BY <3>1, <3>5, Zenon DEF Goto
        <4>3. QED
          BY <3>2, <3>3, <3>5, <4>1, <4>2
      <3>6. QED
        BY <3>4, <3>5
    <2>5. QED
      BY <2>1, <2>2, <2>3, <2>4
  <1>5. CASE Done("approval_pending") \/ Refuse \/ Done("deposited")
    <2>1. work'.pc \notin Special
      BY <1>1, <1>5, TellPc DEF Done, Refuse
    <2>2. QED
      BY <1>2, <1>3, <2>1, Keeps
  <1>6. CASE open /\ (work' = [work EXCEPT !.pc = "deposit"] \/ work' = [work EXCEPT !.pc = "approve"])
    <2>1. work'.pc \in {"deposit", "approve"} /\ work'.plan = p
      BY <1>1, <1>6 DEF Tasks
    <2>2. Once'
      <3>1. \A q : plan'[q].principal + Unbooked(q)' + Owes(q)' = plan[q].principal + Unbooked(q) + Owes(q)
        BY <1>2 DEF Unbooked, Owes, Out
      <3>2. QED
        BY <3>1 DEF JudgeInv, Once
    <2>3. Posts'
      BY <1>2, <1>6, <2>1 DEF Posts, Before, Out
    <2>4. Capped'
      <3>1. CASE left.blind
        BY <1>2, <3>1 DEF Capped, Frame
      <3>2. CASE ~left.blind
        <4>1. cap' = cap /\ cap \in Nat /\ Exposure \in Nat /\ Exposure' \in Nat
              /\ Exposure' <= Exposure + 0
          BY <1>1, <1>2, <1>3, <1>6, <3>2 DEF Frame, Adds, VisitTypes
        <4>8. venus'
          BY <1>2, <1>6, <3>2 DEF Frame
        <4>2. Exposure + 1 <= cap
          <5>1. Room >= 1
            BY <1>6
          <5> HIDE DEF Exposure
          <5>2. QED
            BY <4>1, <5>1 DEF Room
        <4>4. Owed' = 0
          BY <1>2, <1>6 DEF Owed, Out
        <4>9. cap' \in Int /\ cap \in Int /\ Exposure \in Int /\ Exposure' \in Int /\ Owed' \in Int
              /\ Owed' <= 1
          <5> HIDE DEF Exposure, Owed
          <5>1. QED
            BY <4>1, <4>4
        <4>10. 1 \in Int /\ 1 <= 1
          OBVIOUS
        <4>3. Exposure' + 1 <= cap'
          BY <4>1, <4>2, <4>9, <4>10, Fits, Zenon
        <4>5. Exposure' + Owed' <= cap'
          BY <4>1, <4>2, <4>9, <4>10, Fits, Zenon
        <4>6. sent'.unbooked = {}
          BY <1>2, <1>6
        <4>7. QED
          BY <4>8, <4>3, <4>5, <4>6 DEF Capped
      <3>3. QED
        BY <3>1, <3>2
    <2>5. QED
      BY <2>2, <2>3, <2>4 DEF JudgeInv
  <1>7. QED
    BY <1>4, <1>5, <1>6

\* A transaction is signed.
LEMMA SignKeeps ==
    ASSUME JudgeInv, VisitTypes', Swap \/ Approve \/ Deposit
    PROVE  JudgeInv'
  <1>1. VisitTypes /\ work \in Tasks /\ sent \in Sent0
    BY TaskAt DEF JudgeInv, VisitTypes, Swap, Approve, Deposit, At, TaskPcs, Sent0
  <1>2. Frame /\ plan' = plan
    BY DEF Swap, Approve, Deposit, Frame
  <1>3. Adds(0)
    BY <1>1, <1>2, AllSame, Calm
  <1> DEFINE x == work.plan
  <1>4. x \in Plans /\ plan[x].principal \in Nat
    BY <1>1 DEF VisitTypes, Rows, Tasks
  <1>5. Exposure \in Nat /\ Exposure' \in Nat /\ Exposure' <= Exposure + 0 /\ cap' = cap /\ cap \in Nat
    BY <1>1, <1>2, <1>3 DEF Adds, Frame, VisitTypes
  <1>9. left'.blind = left.blind /\ (venus => left.blind \/ venus')
    BY <1>2 DEF Frame
  <1>6. CASE Swap \/ Approve
    <2>1. PICK kind \in {"swap", "approve"} : Signs(kind) /\ (kind = "approve" <=> Approve)
          /\ work'.pc = IF Approve THEN "approving" ELSE "swapping"
      <3>1. CASE Swap
        <4>1. Signs("swap") /\ work'.pc = "swapping" /\ ~Approve
          BY <1>1, <3>1 DEF Swap, Approve, At, Goto, Tasks
        <4>2. QED
          BY <4>1
      <3>2. CASE Approve
        <4>1. Signs("approve") /\ work'.pc = "approving"
          BY <1>1, <3>2 DEF Approve, Goto, Tasks
        <4>2. QED
          BY <3>2, <4>1
      <3>3. QED
        BY <1>6, <3>1, <3>2
    <2>2. /\ sent'.unbooked = sent.unbooked
          /\ sent'.open = [kind |-> kind, plan |-> x, mined |-> "no"]
      BY <1>1, <2>1, SignsTypes
    <2>3. (\A p \in Plans : Unbooked(p)' = Unbooked(p) /\ Owes(p)' = 0) /\ Owed' = 0
      BY <2>2 DEF Unbooked, Owes, Owed
    <2>4. Once'
      <3> SUFFICES ASSUME NEW p \in Plans PROVE plan'[p].principal + Unbooked(p)' + Owes(p)' <= 1
        BY DEF Once
      <3>1. plan[p].principal + Unbooked(p) + Owes(p) <= 1 /\ plan[p].principal \in Nat
        BY <1>1 DEF JudgeInv, Once, VisitTypes, Rows
      <3>2. Unbooked(p) \in {0, 1} /\ Owes(p) \in {0, 1}
        BY DEF Unbooked, Owes
      <3>3. plan'[p].principal = plan[p].principal /\ Unbooked(p)' = Unbooked(p) /\ Owes(p)' = 0
        BY <1>2, <2>3
      <3> HIDE DEF Unbooked, Owes
      <3>4. QED
        BY <3>1, <3>2, <3>3
    <2>5. Approve => work.pc = "approve" /\ work'.plan = x
      BY <1>1 DEF Approve, At, Goto, Tasks
    <2>6. Posts'
      <3>1. CASE Approve
        <4>1. sent.unbooked = {} /\ plan[x].principal = 0
          BY <2>5, <3>1 DEF JudgeInv, Posts, Before
        <4>2. sent'.open.kind = "approve" /\ sent'.open # NoTx /\ work'.pc = "approving"
          BY <2>1, <2>2, <3>1 DEF NoTx
        <4>3. QED
          BY <1>2, <2>2, <2>5, <3>1, <4>1, <4>2 DEF Posts, Before, Out
      <3>2. CASE ~Approve
        BY <2>1, <3>2 DEF Posts, Before
      <3>3. QED
        BY <3>1, <3>2
    <2>7. Capped'
      <3>1. CASE left.blind
        BY <1>9, <3>1 DEF Capped
      <3>2. CASE ~left.blind
        <4>1. /\ Exposure + Owed <= cap /\ Owed \in {0, 1}
              /\ (work.pc \in Before => Exposure + 1 <= cap)
          BY <3>2 DEF JudgeInv, Capped, Owed
        <4>7. venus' /\ sent.unbooked = {}
          BY <1>9, <3>2 DEF JudgeInv, Capped
        <4>2. Owed' = 0
          BY <2>3
        <4>8. /\ cap' \in Int /\ cap \in Int /\ Exposure \in Int /\ Exposure' \in Int /\ Owed' \in Int
              /\ Owed \in Int /\ Owed' <= Owed
          <5> HIDE DEF Exposure, Owed
          <5>1. QED
            BY <1>5, <4>1, <4>2
        <4>3. (Exposure + Owed)' <= cap'
          BY <1>5, <4>1, <4>8, Fits, Zenon
        <4>4. work'.pc \in Before => work.pc \in Before
          BY <2>1, <2>5 DEF Before
        <4>9. 1 \in Int /\ 1 <= 1
          OBVIOUS
        <4>5. (work.pc \in Before => Exposure + 1 <= cap)'
          <5> SUFFICES ASSUME work'.pc \in Before PROVE Exposure' + 1 <= cap'
            OBVIOUS
          <5>1. Exposure + 1 <= cap
            BY <4>1, <4>4
          <5>2. QED
            BY <1>5, <4>8, <4>9, <5>1, Fits, Zenon
        <4>6. QED
          BY <2>2, <4>7, <4>3, <4>5 DEF Capped
      <3>3. QED
        BY <3>1, <3>2
    <2>8. QED
      BY <2>4, <2>6, <2>7 DEF JudgeInv
  <1>7. CASE Deposit
    <2>1. Signs("deposit") /\ work.pc = "deposit" /\ work'.pc = "depositing" /\ work'.plan = x
      BY <1>1, <1>7 DEF Deposit, At, Goto, Tasks
    <2>2. ~Out /\ plan[x].principal = 0 /\ sent.unbooked = {}
      BY <2>1 DEF JudgeInv, Posts, Before
    <2>3. /\ sent'.unbooked = {} /\ sent'.open = [kind |-> "deposit", plan |-> x, mined |-> "no"]
      BY <1>1, <2>1, <2>2, SignsTypes
    <2>4. Out' /\ sent'.open.kind = "deposit" /\ sent'.open.plan = x /\ Owed' = 1
      BY <2>3 DEF Out, NoTx, Owed
    <2>5. \A p \in Plans : Unbooked(p)' = 0 /\ Owes(p)' = IF p = x THEN 1 ELSE 0
      BY <2>3, <2>4 DEF Unbooked, Owes
    <2>6. Once'
      <3> SUFFICES ASSUME NEW p \in Plans PROVE plan'[p].principal + Unbooked(p)' + Owes(p)' <= 1
        BY DEF Once
      <3>1. plan[p].principal + Unbooked(p) + Owes(p) <= 1 /\ plan[p].principal \in Nat
        BY <1>1 DEF JudgeInv, Once, VisitTypes, Rows
      <3>2. Unbooked(p) \in {0, 1} /\ Owes(p) \in {0, 1}
        BY DEF Unbooked, Owes
      <3>3. plan'[p].principal = plan[p].principal /\ Unbooked(p)' = 0
            /\ Owes(p)' = IF p = x THEN 1 ELSE 0
        BY <1>2, <2>5
      <3> HIDE DEF Unbooked, Owes, x
      <3>4. QED
        BY <2>2, <3>1, <3>2, <3>3
    <2>7. Posts'
      BY <2>1, <2>4 DEF Posts, Before
    <2>8. Capped'
      <3>1. CASE left.blind
        BY <1>9, <3>1 DEF Capped
      <3>2. CASE ~left.blind
        <4>1. Exposure + 1 <= cap
          BY <2>1, <3>2 DEF JudgeInv, Capped, Before
        <4>5. venus'
          BY <1>9, <3>2 DEF JudgeInv, Capped
        <4>2. /\ cap' \in Int /\ cap \in Int /\ Exposure \in Int /\ Exposure' \in Int /\ Owed' \in Int
              /\ 1 \in Int /\ Owed' <= 1
          <5> HIDE DEF Exposure, Owed
          <5>1. QED
            BY <1>5, <2>4
        <4>3. (Exposure + Owed)' <= cap'
          BY <1>5, <4>1, <4>2, Fits, Zenon
        <4>4. QED
          BY <2>1, <2>3, <4>5, <4>3 DEF Capped, Before
      <3>3. QED
        BY <3>1, <3>2
    <2>9. QED
      BY <2>6, <2>7, <2>8 DEF JudgeInv
  <1>8. QED
    BY <1>6, <1>7

LEMMA ApprovedKeeps ==
    ASSUME JudgeInv, VisitTypes', Approved
    PROVE  JudgeInv'
  <1>1. VisitTypes /\ work \in Tasks /\ work.pc = "approving"
    BY TaskAt DEF JudgeInv, VisitTypes, Approved, At, TaskPcs
  <1>2. Frame /\ plan' = plan /\ (sent' = sent \/ sent' = [sent EXCEPT !.open = NoTx])
    BY DEF Approved, Frame
  <1>3. Adds(0) /\ Lower
    BY <1>1, <1>2, AllSame, Calm
  <1>4. CASE Refuse \/ Done("approval_pending")
    <2>1. work'.pc \notin Special
      BY <1>1, <1>4, TellPc DEF Done, Refuse
    <2>2. QED
      BY <1>2, <1>3, <2>1, Keeps
  <1>5. CASE sent' = [sent EXCEPT !.open = NoTx] /\ Goto("deposit")
    <2> DEFINE mid == [work EXCEPT !.pc = "deposit"]
    <2>1. work' = mid /\ work'.pc = "deposit" /\ work'.plan = work.plan
      BY <1>1, <1>5 DEF Goto, Tasks
    <2>2. sent'.open = NoTx /\ sent'.unbooked = sent.unbooked
      BY <1>1, <1>5 DEF VisitTypes
    <2>3. sent.unbooked = {} /\ plan[work.plan].principal = 0 /\ sent.open.kind = "approve"
      BY <1>1 DEF JudgeInv, Posts, Before
    <2>4. /\ \A p \in Plans : Unbooked(p)' = Unbooked(p) /\ Owes(p)' = Owes(p)
          /\ Owed' = Owed
      BY <2>2, <2>3 DEF Unbooked, Owes, Owed, Out
    <2>5. Once'
      <3> SUFFICES ASSUME NEW p \in Plans PROVE plan'[p].principal + Unbooked(p)' + Owes(p)' <= 1
        BY DEF Once
      <3>1. plan[p].principal + Unbooked(p) + Owes(p) <= 1
        BY DEF JudgeInv, Once
      <3> HIDE DEF Unbooked, Owes
      <3>2. QED
        BY <1>2, <2>4, <3>1
    <2>6. Posts'
      BY <1>2, <2>1, <2>2, <2>3 DEF Posts, Before, Out
    <2>7. Capped'
      <3>1. CASE left.blind
        BY <1>2, <3>1 DEF Capped, Frame
      <3>2. CASE ~left.blind
        <4>1. venus /\ Exposure + Owed <= cap /\ Exposure + 1 <= cap
          BY <1>1, <3>2 DEF JudgeInv, Capped, Before
        <4>2. Exposure' = Exposure /\ cap' = cap
          BY <1>1, <1>2, ExposureSame DEF VisitTypes, Frame
        <4>3. Exposure' + Owed' <= cap' /\ Exposure' + 1 <= cap'
          <5>1. Exposure + Owed <= cap /\ Exposure + 1 <= cap
            BY <4>1
          <5> HIDE DEF Exposure, Owed
          <5>2. QED
            BY <2>4, <4>2, <5>1, Zenon
        <4>4. venus'
          BY <1>2, <3>2, <4>1 DEF Frame
        <4>5. QED
          BY <2>2, <2>3, <4>3, <4>4 DEF Capped
      <3>3. QED
        BY <3>1, <3>2
    <2>8. QED
      BY <2>5, <2>6, <2>7 DEF JudgeInv
  <1>6. QED
    BY <1>4, <1>5 DEF Approved

\* The deposit's receipt turns what was owed into principal.
LEMMA DepositEndsKeeps ==
    ASSUME JudgeInv, VisitTypes', DepositEnds
    PROVE  JudgeInv'
  <1>1. VisitTypes /\ work \in Tasks /\ work.pc = "depositing" /\ plan \in [Plans -> Rows]
    BY TaskAt DEF JudgeInv, VisitTypes, DepositEnds, At, TaskPcs
  <1>2. Frame
    BY DEF DepositEnds, Frame
  <1> DEFINE x == work.plan
  <1>3. x \in Plans /\ plan[x] \in Rows
    BY <1>1 DEF Tasks
  <1>4. CASE plan' = plan /\ (Refuse \/ Done("awaiting_tx"))
             /\ (sent' = sent \/ sent' = [sent EXCEPT !.open = NoTx])
    <2>1. Adds(0) /\ Lower
      BY <1>1, <1>2, <1>4, AllSame, Calm
    <2>2. work'.pc \notin Special
      BY <1>1, <1>4, TellPc DEF Done, Refuse
    <2>3. QED
      BY <1>4, <2>1, <2>2, Keeps
  <1>5. CASE /\ Mined("success") /\ sent' = [sent EXCEPT !.open = NoTx]
             /\ plan' = [plan EXCEPT ![x].principal = @ + 1, ![x].allowed = FALSE]
             /\ work' = [work EXCEPT !.pc = "start", !.result = "deposited"]
    <2> DEFINE row == [plan[x] EXCEPT !.principal = plan[x].principal + 1, !.allowed = FALSE]
    <2>1. plan' = [plan EXCEPT ![x] = row]
      BY <1>1, <1>3, <1>5
    <2>2. /\ plan[x].reserved \in Nat /\ plan[x].spent \in Nat /\ plan[x].principal \in Nat
          /\ row.reserved = plan[x].reserved /\ row.spent = plan[x].spent
          /\ row.principal = plan[x].principal + 1
      BY <1>3 DEF Rows
    <2> HIDE DEF row
    <2>3. plan'[x] = row /\ (\A p \in Plans \ {x} : plan'[p] = plan[p])
      BY <1>1, <1>3, <2>1
    <2>4. \A p \in Plans \ {x} : Same(p)
      BY <2>3 DEF Same
    <2>5. Amount(plan'[x]) <= Amount(plan[x]) + 1
      BY <2>2, <2>3 DEF Amount
    <2>6. Adds(1)
      BY <1>1, <1>2, <1>3, <2>4, <2>5, OneGrows
    <2>7. work'.pc = "start" /\ sent'.open = NoTx /\ sent'.unbooked = sent.unbooked
      BY <1>1, <1>5 DEF Tasks, VisitTypes
    <2>8. Owes(x) = 1 /\ Owed = 1 /\ Owed' = 0 /\ (\A p \in Plans : Owes(p)' = 0 /\ Unbooked(p)' = Unbooked(p))
      <3>1. sent.open.kind = "deposit" /\ sent.open.plan = x /\ sent.open.mined = "success" /\ Out
        BY <1>1, <1>5 DEF JudgeInv, Posts, Mined
      <3>2. QED
        BY <2>7, <3>1 DEF Owes, Owed, Unbooked, Out
    <2>9. Once'
      <3> SUFFICES ASSUME NEW p \in Plans PROVE plan'[p].principal + Unbooked(p)' + Owes(p)' <= 1
        BY DEF Once
      <3>1. plan[p].principal + Unbooked(p) + Owes(p) <= 1 /\ plan[p].principal \in Nat
        BY <1>1 DEF JudgeInv, Once, Rows
      <3>2. Unbooked(p) \in {0, 1} /\ Owes(p) \in {0, 1}
        BY DEF Unbooked, Owes
      <3>3. Unbooked(p)' = Unbooked(p) /\ Owes(p)' = 0
        BY <2>8
      <3>4. plan'[p].principal = IF p = x THEN plan[p].principal + 1 ELSE plan[p].principal
        BY <2>2, <2>3
      <3>5. p = x => Owes(p) = 1
        BY <2>8
      <3> HIDE DEF Unbooked, Owes, x
      <3>6. QED
        BY <3>1, <3>2, <3>3, <3>4, <3>5
    <2>10. Posts'
      BY <2>7 DEF Posts, Before
    <2>11. Capped'
      <3>1. CASE left.blind
        BY <1>2, <3>1 DEF Capped, Frame
      <3>2. CASE ~left.blind
        <4>1. Exposure + Owed <= cap /\ cap \in Nat
          BY <1>1, <3>2 DEF JudgeInv, Capped, VisitTypes
        <4>2. /\ cap' \in Int /\ cap \in Int /\ Exposure \in Int /\ Exposure' \in Int /\ Owed' \in Int
              /\ 0 \in Int /\ Owed' <= 0 /\ Exposure + 1 \in Int /\ cap' = cap
              /\ Exposure' <= Exposure + 1 + 0 /\ Exposure + 1 + 0 <= cap
          <5>1. Exposure \in Nat /\ Exposure' \in Nat /\ Exposure' <= Exposure + 1 /\ cap' = cap
            BY <2>6 DEF Adds
          <5> HIDE DEF Exposure, Owed
          <5>2. QED
            BY <2>8, <4>1, <5>1
        <4>3. (Exposure + Owed)' <= cap'
          <5> DEFINE e == Exposure + 1
          <5>1. e \in Int /\ Exposure' <= e + 0 /\ e + 0 <= cap
            BY <4>2
          <5> HIDE DEF e
          <5>2. QED
            BY <4>2, <5>1, Fits, Zenon
        <4>4. venus' /\ sent'.unbooked = {}
          BY <1>2, <2>7, <3>2 DEF JudgeInv, Capped, Frame
        <4>5. QED
          BY <2>7, <4>3, <4>4 DEF Capped, Before
      <3>3. QED
        BY <3>1, <3>2
    <2>12. QED
      BY <2>9, <2>10, <2>11 DEF JudgeInv
  <1>6. QED
    BY <1>4, <1>5 DEF DepositEnds

LEMMA RedeemKeeps ==
    ASSUME JudgeInv, VisitTypes', Redeem
    PROVE  JudgeInv'
  <1>1. VisitTypes /\ work \in Tasks /\ plan \in [Plans -> Rows]
    BY TaskAt DEF JudgeInv, VisitTypes, Redeem, At, TaskPcs
  <1>2. Frame /\ sent' = sent
    BY DEF Redeem, Frame
  <1> DEFINE x == work.plan
             row == [plan[x] EXCEPT !.principal = 0]
  <1>3. x \in Plans /\ plan[x] \in Rows
    BY <1>1 DEF Tasks
  <1>4. row \in Rows /\ Amount(row) <= Amount(plan[x]) /\ row.principal <= plan[x].principal
    BY <1>3 DEF Rows, Amount
  <1>5. work'.pc \notin Special
    BY <1>1, TellPc DEF Redeem, Done
  <1>6. plan' = plan \/ plan' = [plan EXCEPT ![x] = row]
    BY DEF Redeem
  <1> HIDE DEF row
  <1>7. CASE plan' = plan
    <2>1. Adds(0) /\ Lower
      BY <1>1, <1>2, <1>7, AllSame, Calm
    <2>2. QED
      BY <1>2, <1>5, <2>1, Keeps
  <1>8. CASE plan' = [plan EXCEPT ![x] = row]
    BY <1>2, <1>3, <1>4, <1>5, <1>8, FallsKeeps
  <1>9. QED
    BY <1>6, <1>7, <1>8

LEMMA DieKeeps ==
    ASSUME JudgeInv, VisitTypes', Die
    PROVE  JudgeInv'
  <1>1. VisitTypes /\ plan \in [Plans -> Rows]
    BY DEF JudgeInv, VisitTypes
  <1>2. Frame /\ sent' = sent /\ work'.pc \notin Special
    <2>1. left'.blind = left.blind
      BY <1>1 DEF Die, VisitTypes
    <2>2. QED
      BY <2>1 DEF Die, Frame, Special
  <1>3. CASE work.pc # "sign"
    <2>1. plan' = plan
      BY <1>3 DEF Die, At
    <2>2. Adds(0) /\ Lower
      BY <1>1, <1>2, <2>1, AllSame, Calm
    <2>3. QED
      BY <1>2, <2>2, Keeps
  <1>4. CASE work.pc = "sign"
    <2> DEFINE x == work.plan
               old == plan[x]
    <2>1. x \in Plans /\ old \in Rows
      BY <1>1, <1>4, TaskAt DEF TaskPcs, Tasks
    <2>2. plan' = [plan EXCEPT ![x] = Released(old)]
      BY <1>1, <1>4, <2>1 DEF Die, At
    <2> HIDE DEF old
    <2>3. /\ Released(old) \in Rows /\ Released(old).principal = old.principal
          /\ Released(old).reserved = 0 /\ Released(old).spent = old.spent
      BY <2>1, BookedTypes
    <2>4. old.principal \in Nat /\ old.reserved \in Nat /\ old.spent \in Nat
      BY <2>1 DEF Rows
    <2>5. Amount(Released(old)) <= Amount(old) /\ Released(old).principal <= old.principal
      BY <2>3, <2>4 DEF Amount
    <2>6. plan[x] = old
      BY DEF old
    <2>7. QED
      BY <1>2, <2>1, <2>2, <2>3, <2>5, <2>6, FallsKeeps
  <1>5. QED
    BY <1>3, <1>4

LEMMA MineKeeps ==
    ASSUME JudgeInv, VisitTypes', Mine
    PROVE  JudgeInv'
  <1>1. VisitTypes /\ plan \in [Plans -> Rows] /\ work' = work /\ Out
    BY DEF JudgeInv, VisitTypes, Mine, Mined
  <1>2. Frame
    BY DEF Mine, Frame
  <1>3. PICK m \in {"success", "reverted"} : sent' = [sent EXCEPT !.open.mined = m]
    BY DEF Mine
  <1>4. sent.open \in Open /\ sent.open.mined = "no"
    BY DEF Mine, Mined, Out, JudgeInv, VisitTypes
  <1>5. /\ sent'.unbooked = sent.unbooked /\ sent'.open = [sent.open EXCEPT !.mined = m]
    BY <1>1, <1>3 DEF VisitTypes
  <1>6. /\ sent'.open.kind = sent.open.kind /\ sent'.open.plan = sent.open.plan /\ sent'.open.mined = m
        /\ sent'.open # NoTx
    BY <1>4, <1>5 DEF Open, NoTx
  <1>7. \A p \in Plans : Same(p)
    <2> DEFINE x == sent.open.plan
               row == [plan[x] EXCEPT !.allowed = TRUE]
    <2>1. x \in Plans /\ plan[x] \in Rows
      BY <1>1, <1>4 DEF Open
    <2>2. plan' = plan \/ plan' = [plan EXCEPT ![x] = row]
      BY <1>1 DEF Mine
    <2>3. row.reserved = plan[x].reserved /\ row.spent = plan[x].spent /\ row.principal = plan[x].principal
      BY <2>1 DEF Rows
    <2> HIDE DEF row
    <2>4. CASE plan' = plan
      BY <2>4, AllSame
    <2>5. CASE plan' = [plan EXCEPT ![x] = row]
      BY <1>1, <2>1, <2>3, <2>5, RowSame
    <2>6. QED
      BY <2>2, <2>4, <2>5
  <1>8. /\ \A p \in Plans : /\ Unbooked(p)' = Unbooked(p) /\ Owes(p)' <= Owes(p)
                            /\ Owes(p) \in {0, 1} /\ Owes(p)' \in {0, 1} /\ Unbooked(p) \in {0, 1}
        /\ Owed' <= Owed /\ Owed \in {0, 1} /\ Owed' \in {0, 1}
    <2>1. (\A p \in Plans : Unbooked(p)' = Unbooked(p) /\ (Owes(p)' = 1 => Owes(p) = 1))
          /\ (Owed' = 1 => Owed = 1)
      BY <1>1, <1>4, <1>5, <1>6 DEF Unbooked, Owes, Owed, Out
    <2>2. (\A p \in Plans : Owes(p) \in {0, 1} /\ Owes(p)' \in {0, 1} /\ Unbooked(p) \in {0, 1})
          /\ Owed \in {0, 1} /\ Owed' \in {0, 1}
      BY DEF Unbooked, Owes, Owed
    <2> HIDE DEF Unbooked, Owes, Owed
    <2>3. QED
      BY <2>1, <2>2
  <1>9. Once'
    <2> SUFFICES ASSUME NEW p \in Plans PROVE plan'[p].principal + Unbooked(p)' + Owes(p)' <= 1
      BY DEF Once
    <2>1. plan[p].principal + Unbooked(p) + Owes(p) <= 1 /\ plan[p].principal \in Nat
      BY <1>1 DEF JudgeInv, Once, Rows
    <2>2. plan'[p].principal = plan[p].principal
      BY <1>7 DEF Same
    <2>3. /\ Unbooked(p)' = Unbooked(p) /\ Owes(p)' <= Owes(p)
          /\ Owes(p) \in {0, 1} /\ Owes(p)' \in {0, 1} /\ Unbooked(p) \in {0, 1}
      BY <1>8
    <2> HIDE DEF Unbooked, Owes
    <2>4. QED
      BY <2>1, <2>2, <2>3
  <1>10. Posts'
    <2>1. work.pc \in Before => work.plan \in Plans
      BY <1>1, TaskAt DEF Before, TaskPcs, Tasks
    <2>2. work.pc \in Before => plan'[work.plan].principal = 0 /\ sent'.unbooked = {}
      BY <1>5, <1>7, <2>1 DEF JudgeInv, Posts, Same
    <2>3. Out' /\ work.pc \notin {"approve", "deposit"}
      BY <1>1, <1>6 DEF JudgeInv, Posts, Out
    <2>4. QED
      BY <1>1, <1>6, <2>2, <2>3 DEF JudgeInv, Posts
  <1>11. Capped'
    <2>1. CASE left.blind
      BY <1>2, <2>1 DEF Capped, Frame
    <2>2. CASE ~left.blind
      <3>1. /\ Exposure + Owed <= cap /\ cap \in Nat
            /\ work.pc \in Before => Exposure + 1 <= cap
        BY <1>1, <2>2 DEF JudgeInv, Capped, VisitTypes
      <3>2. Exposure \in Nat /\ Exposure' = Exposure /\ cap' = cap
        BY <1>1, <1>2, <1>7, ExposureSame DEF VisitTypes, Same, Frame
      <3>3. /\ cap' \in Int /\ cap \in Int /\ Exposure \in Int /\ Exposure' \in Int /\ Owed' \in Int
            /\ Owed \in Int /\ Owed' <= Owed /\ Exposure' <= Exposure + 0
        <4> HIDE DEF Exposure, Owed
        <4>1. QED
          BY <1>8, <3>1, <3>2
      <3>4. (Exposure + Owed)' <= cap'
        BY <3>1, <3>2, <3>3, Fits, Zenon
      <3>5. work'.pc \in Before => Exposure' + 1 <= cap'
        <4> HIDE DEF Exposure
        <4>1. QED
          BY <1>1, <3>1, <3>2, Zenon
      <3>6. venus' /\ sent'.unbooked = {}
        BY <1>2, <1>5, <2>2 DEF JudgeInv, Capped, Frame
      <3>7. QED
        BY <3>4, <3>5, <3>6 DEF Capped
    <2>3. QED
      BY <2>1, <2>2
  <1>12. QED
    BY <1>9, <1>10, <1>11 DEF JudgeInv

\* A new day, a new market, plans due: nothing is added.
LEMMA DayKeeps ==
    ASSUME JudgeInv, VisitTypes', NextDay \/ VenusFound \/ TickDue
    PROVE  JudgeInv'
  <1>1. VisitTypes /\ plan \in [Plans -> Rows]
    BY DEF JudgeInv, VisitTypes
  <1>2. Frame /\ sent' = sent
    <2>1. left'.blind = left.blind
      BY <1>1 DEF NextDay, VenusFound, TickDue, VisitTypes
    <2>2. cap' = cap /\ sent' = sent
      BY DEF NextDay, VenusFound, TickDue
    <2>3. venus' = venus \/ venus' = TRUE
      BY Zenon DEF NextDay, VenusFound, TickDue
    <2>4. venus => left.blind \/ venus'
      BY <2>3, Zenon
    <2>5. QED
      BY <2>1, <2>2, <2>4 DEF Frame
  <1>3. work' = work \/ work'.pc \notin Special
    <2>1. CASE TickDue
      <3>1. PICK due : work' = Ticking(due)
        BY <2>1, Zenon DEF TickDue
      <3>2. QED
        BY <3>1 DEF Ticking, Idle, Special
    <2>2. QED
      BY <2>1 DEF NextDay, VenusFound
  <1>4. \A p \in Plans : Same(p)
    <2>1. CASE NextDay
      <3> SUFFICES ASSUME NEW p \in Plans PROVE Same(p)
        OBVIOUS
      <3> DEFINE row == plan[p]
                 active == row.status = "active"
      <3>1. plan'[p] = [row EXCEPT !.today = row.reserved, !.due = active]
        BY <2>1 DEF NextDay
      <3>2. row \in Rows
        BY <1>1
      <3> HIDE DEF active, row
      <3>3. [row EXCEPT !.today = row.reserved, !.due = active].reserved = row.reserved
            /\ [row EXCEPT !.today = row.reserved, !.due = active].spent = row.spent
            /\ [row EXCEPT !.today = row.reserved, !.due = active].principal = row.principal
        BY <3>2 DEF Rows
      <3>4. plan[p] = row
        BY DEF row
      <3>5. QED
        BY <3>1, <3>3, <3>4 DEF Same, Amount
    <2>2. CASE VenusFound \/ TickDue
      <3>1. plan' = plan
        BY <2>2 DEF VenusFound, TickDue
      <3>2. QED
        BY <3>1, AllSame
    <2>3. QED
      BY <2>1, <2>2
  <1>5. Adds(0) /\ Lower
    BY <1>1, <1>2, <1>4, Calm
  <1>6. QED
    BY <1>2, <1>3, <1>5, Keeps

LEMMA SettlesKeep ==
    ASSUME JudgeInv, VisitTypes', CycleSettle \/ DepositSettle \/ TickSettle
    PROVE  JudgeInv'
  <1>1. /\ plan' = [q \in Plans |-> SettledRow(q)] /\ sent' = SettledSent
        /\ UNCHANGED <<cap, venus, left>>
    BY Zenon DEF CycleSettle, DepositSettle, TickSettle, Settle
  <1>2. work'.pc \notin Special
    <2>1. CASE TickSettle
      BY <2>1 DEF TickSettle, Settle, Idle, Special
    <2>2. CASE CycleSettle \/ DepositSettle
      <3>1. work \in Tasks
        BY <2>2, TaskAt DEF CycleSettle, DepositSettle, At, TaskPcs, JudgeInv
      <3>2. work' = [work EXCEPT !.pc = "decide"] \/ work' = [work EXCEPT !.pc = "check"]
        BY <2>2 DEF CycleSettle, DepositSettle, Settle
      <3>3. QED
        BY <3>1, <3>2 DEF Tasks, Special
    <2>3. QED
      BY <2>1, <2>2
  <1>3. QED
    BY <1>1, <1>2, SettleKeeps

LEMMA JudgeStep ==
    ASSUME JudgeInv, [VisitNext]_visitVars
    PROVE  JudgeInv'
  <1>1. CASE VisitNext
    <2>1. VisitTypes'
      BY <1>1, StepTypes DEF JudgeInv
    <2>2. \/ Browser \/ QuietJob \/ (CycleSettle \/ DepositSettle \/ TickSettle)
          \/ Decide \/ Swapped \/ Check \/ (Swap \/ Approve \/ Deposit) \/ Approved
          \/ DepositEnds \/ Redeem \/ Die \/ Mine \/ (NextDay \/ VenusFound \/ TickDue)
      BY <1>1, Zenon DEF VisitNext, Worker, JobSteps, QuietJob
    <2>3. QED
      BY <2>1, <2>2, BrowserKeeps, QuietJobKeeps, SettlesKeep, DecideKeeps, SwappedKeeps, CheckKeeps,
         SignKeeps, ApprovedKeeps, DepositEndsKeeps, RedeemKeeps, DieKeeps, MineKeeps, DayKeeps, Zenon
  <1>2. CASE UNCHANGED visitVars
    <2>1. /\ cap' = cap /\ plan' = plan /\ jobs' = jobs /\ sent' = sent /\ work' = work
          /\ venus' = venus /\ page' = page /\ left' = left
      BY <1>2 DEF visitVars
    <2>2. VisitTypes'
      BY <2>1 DEF JudgeInv, VisitTypes, IsPage
    <2>3. Frame /\ VisitTypes
      BY <2>1 DEF Frame, JudgeInv
    <2>4. Adds(0) /\ Lower
      BY <2>1, <2>2, <2>3, AllSame, Calm
    <2>5. QED
      BY <2>1, <2>4, Keeps
  <1>3. QED
    BY <1>1, <1>2

LEMMA JudgeStart ==
    ASSUME VisitInit
    PROVE  JudgeInv
  <1>1. VisitTypes
    <2>1. plan \in [Plans -> Rows]
      BY DEF VisitInit, NoPlan, Rows, Statuses, Reasons
    <2>2. cap \in Nat /\ left \in [jobs : Nat, days : Nat, deaths : Nat, lost : Nat, blind : BOOLEAN]
      BY VisitAssumption DEF VisitInit
    <2>3. IsPage /\ venus \in BOOLEAN
      BY DEF VisitInit, IsPage, Form
    <2>4. jobs \in Seq(Jobs) /\ sent \in [open : Open \cup {NoTx}, unbooked : SUBSET Plans] /\ work = Idle
      BY DEF VisitInit
    <2>5. QED
      BY <2>1, <2>2, <2>3, <2>4 DEF VisitTypes
  <1>2. /\ \A p \in Plans : plan[p].principal = 0 /\ Unbooked(p) = 0 /\ Owes(p) = 0
        /\ Owed = 0
    BY DEF VisitInit, NoPlan, Unbooked, Owes, Owed, Out
  <1>3. Once
    <2> HIDE DEF Unbooked, Owes
    <2>1. QED
      BY <1>2 DEF Once
  <1>4. Posts
    BY DEF Posts, Before, VisitInit, Idle
  <1>5. Exposure = 0
    <2>1. \A p \in Plans : Amounts(plan)[p] = 0
      BY DEF VisitInit, NoPlan, Amounts, Amount
    <2>2. SumFunctionOnSet(Amounts(plan), Plans) = 0
      BY <2>1, SumNone, VisitAssumption
    <2>3. QED
      BY <2>2, ExposureIs
  <1>6. Capped
    <2>1. Exposure + Owed <= cap
      <3>1. cap \in Nat
        BY <1>1 DEF VisitTypes
      <3> HIDE DEF Exposure, Owed
      <3>2. QED
        BY <1>2, <1>5, <3>1
    <2>2. venus /\ sent.unbooked = {} /\ work.pc \notin Before
      BY DEF VisitInit, Idle, Before
    <2>3. QED
      BY <2>1, <2>2 DEF Capped
  <1>7. QED
    BY <1>1, <1>3, <1>4, <1>6 DEF JudgeInv

\* The inductive invariant of a judge's visit.
LEMMA JudgeInvariant == WebSpec => []JudgeInv
  <1>1. WebInit => JudgeInv
    BY JudgeStart DEF WebInit, NoVisit
  <1>2. JudgeInv /\ [WebNext]_webVars => JudgeInv'
    <2> SUFFICES ASSUME JudgeInv, [WebNext]_webVars PROVE JudgeInv'
      OBVIOUS
    <2>1. [VisitNext]_visitVars
      <3>1. CASE WebNext
        BY <3>1 DEF WebNext
      <3>2. CASE UNCHANGED webVars
        BY <3>2 DEF webVars, visitVars
      <3>3. QED
        BY <3>1, <3>2
    <2>2. QED
      BY <2>1, JudgeStep
  <1>3. QED
    BY <1>1, <1>2, PTL DEF WebSpec

LEMMA Deposited1 ==
    ASSUME JudgeInv
    PROVE  DepositedOnce
  <1>1. \A p \in Yield : p \in Plans
    BY VisitAssumption
  <1>2. QED
    BY <1>1 DEF JudgeInv, Once, DepositedOnce, Unbooked, Owes

LEMMA WithinCap ==
    ASSUME JudgeInv, ~left.blind
    PROVE  OneCap
  <1>1. sent.unbooked = {} /\ Exposure + Owed <= cap
    BY DEF JudgeInv, Capped
  <1>2. Cardinality(sent.unbooked) = 0
    BY <1>1, FS_EmptySet
  <1>3. Exposure \in Nat
    <2>1. \A p \in Plans : Amounts(plan)[p] \in Nat
      BY AmountTypes DEF JudgeInv, VisitTypes
    <2>2. SumFunctionOnSet(Amounts(plan), Plans) \in Nat
      BY <2>1, SumType, VisitAssumption
    <2>3. QED
      BY <2>2, ExposureIs
  <1>4. Committed = Exposure + Cardinality(sent.unbooked) + Owed
    BY DEF Committed, Owed
  <1>5. Owed \in {0, 1} /\ cap \in Nat
    BY DEF Owed, JudgeInv, VisitTypes
  <1>6. QED
    <2> HIDE DEF Exposure, Owed, Committed
    <2>1. Committed <= cap
      BY <1>1, <1>2, <1>3, <1>4, <1>5
    <2>2. QED
      BY <2>1 DEF OneCap

\* A plan deposits its principal once: booked, mined and waiting, or still out, never two of
\* them (deposit.ts:88).
THEOREM DepositOnce == WebSpec => []DepositedOnce
  BY JudgeInvariant, Deposited1, PTL

\* Unless the worker started without the Venus market, a code commits no more than its cap:
\* what its plans reserved, spent, deposited, and what is out.
THEOREM CapKept == WebSpec => [](left.blind \/ OneCap)
  <1>1. JudgeInv => left.blind \/ OneCap
    BY WithinCap
  <1>2. QED
    BY <1>1, JudgeInvariant, PTL

\* Both, when the Venus market is always found.
THEOREM JudgeHolds ==
    ASSUME \A b \in Budgets : ~b.blind
    PROVE  WebSpec => []JudgeTrue
  <1> DEFINE Sees == ~left.blind
  <1>1. WebInit => Sees
    BY DEF WebInit, NoVisit, VisitInit
  <1>2. JudgeInv /\ Sees /\ [WebNext]_webVars => Sees'
    <2> SUFFICES ASSUME JudgeInv, Sees, [WebNext]_webVars PROVE Sees'
      OBVIOUS
    <2>1. left \in [jobs : Nat, days : Nat, deaths : Nat, lost : Nat, blind : BOOLEAN]
      BY DEF JudgeInv, VisitTypes
    <2>2. left'.blind = left.blind
      <3>1. CASE left' = left
        BY <3>1
      <3>2. CASE Die \/ NextDay \/ Answer
        BY <2>1, <3>2 DEF Die, NextDay, Answer
      <3>3. QED
        BY <3>1, <3>2, Zenon DEF WebNext, webVars, visitVars, VisitNext, Browser, Worker, JobSteps,
           CreatePlan, RunElsewhere, Run, Preview, Stop, See, Again, RemoveCode, Claim, Admit,
           CycleSettle, DepositSettle, TickSettle, Settle, TickDue, TickPlan, Decide, Swap, Swapped,
           Start, Check, Approve, Approved, Deposit, DepositEnds, StopPlan, Redeem, Boot,
           VenusFound, Mine
    <2>3. QED
      BY <2>2
  <1>3. JudgeInv /\ Sees => JudgeTrue
    BY WithinCap, Deposited1 DEF JudgeTrue
  <1>4. QED
    BY <1>1, <1>2, <1>3, JudgeInvariant, PTL DEF WebSpec

\* A job is answered once: neither a late answer nor a restart changes it (queue.ts:61).
THEOREM AnsweredForGood == WebSpec => OneAnswer
  <1> DEFINE Kept == \A j \in DOMAIN jobs : jobs[j].status \in {"done", "failed"} => jobs'[j] = jobs[j]
  <1>1. JudgeInv /\ [WebNext]_webVars => [Kept]_jobs
    <2> SUFFICES ASSUME JudgeInv, VisitNext PROVE Kept \/ jobs' = jobs
      <3>1. [WebNext]_webVars => VisitNext \/ jobs' = jobs
        BY Zenon DEF WebNext, webVars, visitVars
      <3> HIDE DEF Kept
      <3>2. QED
        BY <3>1
    <2>1. jobs \in Seq(Jobs) /\ DOMAIN jobs = 1 .. Len(jobs) /\ Len(jobs) \in Nat
      BY LenProperties DEF JudgeInv, VisitTypes
    <2>2. ASSUME NEW job, jobs' = Append(jobs, job) PROVE Kept
      BY <2>1, <2>2
    <2>3. \/ \E job : jobs' = Append(jobs, job)
          \/ jobs' = jobs \/ Claim \/ Answer \/ Boot
      BY Zenon DEF VisitNext, Browser, Worker, JobSteps, Queue,
           CreatePlan, RunElsewhere, Run, Preview, Stop, See, Again, RemoveCode, Admit,
           CycleSettle, DepositSettle, TickSettle, Settle, TickDue, TickPlan, Decide, Swap, Swapped,
           Start, Check, Approve, Approved, Deposit, DepositEnds, StopPlan, Redeem,
           VenusFound, Mine, Die, NextDay
    <2>4. CASE Claim
      <3>1. PICK j \in DOMAIN jobs : jobs[j].status = "queued" /\ jobs' = [jobs EXCEPT ![j].status = "running"]
        BY <2>4 DEF Claim
      <3>2. QED
        BY <2>1, <3>1
    <2>5. CASE Answer
      <3>1. \/ jobs' = jobs
            \/ /\ jobs[work.job].status = "running"
               /\ jobs' = [jobs EXCEPT ![work.job].status = work.status, ![work.job].result = work.result]
        BY <2>5 DEF Answer, Finish
      <3>2. QED
        BY <2>1, <3>1
    <2>6. CASE Boot
      BY <2>6 DEF Boot, Abandoned
    <2>7. QED
      BY <2>2, <2>3, <2>4, <2>5, <2>6
  <1>2. QED
    BY <1>1, JudgeInvariant, PTL DEF WebSpec, OneAnswer

-----------------------------------------------------------------------------
(* The skill's side: whole numbers and what the actions do                 *)

\* Whole numbers.
LEMMA MulIs ==
    \A a, b \in Nat : a * b \in Nat
  OBVIOUS
LEMMA MulLess ==
    \A a, b, c \in Nat : a <= b => a * c <= b * c /\ c * a <= c * b
  OBVIOUS
LEMMA PosMul ==
    \A a, b \in Nat : a > 0 /\ b > 0 => a * b > 0
  OBVIOUS
LEMMA DivIs ==
    \A a \in Nat, b \in Nat \ {0} : /\ a \div b \in Nat /\ (a \div b) * b <= a
                                    /\ a < (a \div b) * b + b
  OBVIOUS
LEMMA Undo ==
    \A a \in Nat, b \in Nat \ {0} : (a * b) \div b = a
  OBVIOUS
LEMMA UpDivIs ==
    \A a \in Nat, b \in Nat \ {0} : /\ UpDiv(a, b) \in Nat /\ a <= UpDiv(a, b) * b
                                    /\ a > 0 => UpDiv(a, b) > 0
                                    /\ \A c \in Nat : a <= c * b => UpDiv(a, b) <= c
  <1> SUFFICES ASSUME NEW a \in Nat, NEW b \in Nat \ {0}
      PROVE  /\ UpDiv(a, b) \in Nat /\ a <= UpDiv(a, b) * b
             /\ a > 0 => UpDiv(a, b) > 0
             /\ \A c \in Nat : a <= c * b => UpDiv(a, b) <= c
    OBVIOUS
  <1> DEFINE n == a + b - 1
             q == UpDiv(a, b)
  <1>1. q = n \div b /\ n \in Nat
    BY DEF UpDiv
  <1>2. q \in Nat /\ q * b <= n /\ n < q * b + b
    <2> HIDE DEF n, q
    <2>1. QED
      BY <1>1, DivIs
  <1>3. q * b \in Nat
    <2> HIDE DEF n, q
    <2>1. QED
      BY <1>2, MulIs
  <1> HIDE DEF q
  <1>4. a <= q * b
    <2> DEFINE m == q * b
    <2>1. m \in Nat /\ n < m + b
      BY <1>2, <1>3
    <2> HIDE DEF m
    <2>2. a <= m
      BY <2>1
    <2>3. QED
      BY <2>2 DEF m
  <1>5. a > 0 => q > 0
    BY <1>2, <1>4
  <1>6. ASSUME NEW c \in Nat, a <= c * b PROVE q <= c
    <2>1. SUFFICES ASSUME c + 1 <= q PROVE FALSE
      BY <1>2
    <2>2. (c + 1) * b <= q * b
      BY <1>2, <2>1, MulLess
    <2>3. (c + 1) * b = c * b + b /\ c * b \in Nat
      BY <1>6
    <2> DEFINE m == q * b
               k == c * b
    <2>4. k + b <= m /\ m <= n /\ a <= k /\ k \in Nat /\ m \in Nat
      BY <1>2, <1>3, <1>6, <2>2, <2>3
    <2> HIDE DEF m, k
    <2>5. QED
      BY <2>4
  <1>7. QED
    BY <1>2, <1>4, <1>5, <1>6 DEF q

-----------------------------------------------------------------------------
(* The skill's side: the invariant                                         *)

SkillStatuses == {"active", "paused", "stopped"}
SkillReasons == {"", "awaiting_deposit", "stopped_by_owner", "redeemed", "report_over_limit"}
SkillRows == [made : BOOLEAN, status : SkillStatuses, reason : SkillReasons, due : BOOLEAN,
              principal : Nat, vt : Nat, harvested : Nat, today : Nat, spent : Nat]
Kinds == {"deposit", "redeem", "swap"}
Sends == [kind : Kinds, plan : SkillPlans, usd : Nat, vt : Nat, mined : BOOLEAN,
          booked : SkillPlans \cup {Nowhere}, done : BOOLEAN, cut : BOOLEAN]
Deeds == [pc : {"deposit", "redeem", "swap", "redeeming", "sending"}, plan : SkillPlans,
          usd : Nat, redeem : Nat, tx : Nat]
Reports == [pc : {"write", "patch"}, tx : Nat, plan : SkillPlans, over : BOOLEAN]
SkillTypes ==
    /\ sk \in [SkillPlans -> SkillRows] /\ txs \in Seq(Sends)
    /\ wallet \in [vt : Nat, rate : Nat \ {0}, does : {Rest} \cup Deeds]
    /\ req \in [Requests -> {NoReport} \cup Reports]
    /\ leeway \in [plans : SUBSET SkillPlans, txs : Nat, days : Nat, rises : Nat, ends : Nat,
                   obeys : BOOLEAN]

\* What a report found stays so.
TxFacts == \A i \in DOMAIN txs :
    /\ txs[i].booked # Nowhere => txs[i].mined
    /\ txs[i].done => txs[i].booked # Nowhere
    /\ txs[i].kind = "redeem" => txs[i].usd > 0 /\ (txs[i].mined => txs[i].vt > 0)
ReqFacts == \A r \in Requests : req[r].pc # "none" =>
    /\ req[r].tx \in DOMAIN txs /\ txs[req[r].tx].mined /\ sk[req[r].plan].made
    /\ req[r].pc = "patch" => txs[req[r].tx].booked # Nowhere
DoesFacts == wallet.does.pc = "redeem" => wallet.does.redeem > 0
RowFacts == \A p \in SkillPlans :
    /\ ~sk[p].made => sk[p] = Unmade
    /\ sk[p].reason = "awaiting_deposit" => sk[p].status = "paused" /\ p \in YieldPlans
Facts == TxFacts /\ ReqFacts /\ DoesFacts /\ RowFacts
SpentOnce == \A p \in SkillPlans : sk[p].spent = Total(p, "swap", "usd")

\* A recorded deposit, or a buy past the limits, waits for its patch, or was cut short.
Waits(p, r) == req[r].pc = "patch" /\ req[r].plan = p
Patched ==
    \/ \E i \in DOMAIN txs : txs[i].cut
    \/ \A p \in SkillPlans :
         /\ sk[p].principal > 0 /\ sk[p].reason = "awaiting_deposit" =>
              \E r \in Requests : Waits(p, r) /\ txs[req[r].tx].kind = "deposit"
         /\ p \notin YieldPlans /\ sk[p].today > PerDay /\ sk[p].status = "active" =>
              \E r \in Requests : Waits(p, r) /\ req[r].over /\ txs[req[r].tx].kind = "swap"

\* The skill's one transaction, while the user acts through it alone.
Sending == wallet.does.pc \in {"redeeming", "sending"}
Doer == wallet.does.plan
Deed == txs[wallet.does.tx]
InHand == Sending /\ Deed.booked = Nowhere
OneOut == \A i \in DOMAIN txs : ~txs[i].done => Sending /\ wallet.does.tx = i
DeedIs == Sending => /\ wallet.does.tx \in DOMAIN txs /\ Deed.plan = Doer
                     /\ Deed.kind = "redeem" <=> wallet.does.pc = "redeeming"
                     /\ Deed.kind = "swap" => Deed.usd = wallet.does.usd
                     /\ Deed.kind = "redeem" /\ ~Deed.mined => Deed.usd = wallet.does.redeem
ForItsPlan == \A r \in Requests : req[r].pc # "none" => req[r].plan = txs[req[r].tx].plan /\ ~req[r].over
OneAtATime == OneOut /\ DeedIs /\ ForItsPlan
\* What it is about to buy, or has sent and not recorded, is within the limits.
Buying == \/ wallet.does.pc \in {"redeem", "redeeming", "swap"}
          \/ wallet.does.pc = "sending" /\ InHand /\ Deed.kind = "swap"
Limited == Buying => /\ wallet.does.usd <= PerBuy
                     /\ sk[Doer].today + wallet.does.usd <= PerDay
\* What it redeems is interest.
RedeemsInterest == wallet.does.pc = "redeem" \/ (wallet.does.pc = "redeeming" /\ ~Deed.mined) =>
    sk[Doer].principal + wallet.does.redeem <= sk[Doer].vt * wallet.rate
RedeemsItsOwn == wallet.does.pc = "redeeming" /\ InHand /\ Deed.mined => Deed.vt <= sk[Doer].vt
Redeems == RedeemsInterest /\ RedeemsItsOwn
Held1 == \A p \in SkillPlans :
    sk[p].vt + Total(p, "redeem", "vt") = Total(p, "deposit", "vt")
Obeyed == leeway.obeys => OneAtATime /\ Limited /\ Redeems /\ WithinLimits /\ Held1
SkillInv == SkillTypes /\ Facts /\ SpentOnce /\ Patched /\ Obeyed

LEMMA TxAt ==
    ASSUME SkillTypes
    PROVE  /\ DOMAIN txs = 1 .. Len(txs) /\ Len(txs) \in Nat
           /\ \A i \in DOMAIN txs : i \in Nat /\ txs[i] \in Sends
  <1>1. txs \in Seq(Sends)
    BY DEF SkillTypes
  <1>2. DOMAIN txs = 1 .. Len(txs) /\ Len(txs) \in Nat
    BY <1>1, LenProperties
  <1>3. \A i \in DOMAIN txs : i \in Nat /\ txs[i] \in Sends
    BY <1>1, <1>2, ElementOfSeq
  <1>4. QED
    BY <1>2, <1>3

LEMMA SmallTypes ==
    \A a, b \in Nat : /\ Least(a, b) \in Nat /\ Least(a, b) <= a /\ Least(a, b) <= b
                      /\ Drop(a, b) \in Nat /\ Drop(a, b) <= a /\ (b <= a => Drop(a, b) = a - b)
                      /\ (Drop(a, b) > 0 => b + Drop(a, b) = a)
  BY DEF Least, Drop

\* What a redeem leaves of the principal, and what it adds to the interest taken out.
Part(p, tx) == Least(tx.usd, Drop((sk[p].vt * tx.usd) \div tx.vt, sk[p].principal))
Rest1(p, tx) == Drop(sk[p].principal, tx.usd - Part(p, tx))
Exits(p, tx) == Rest1(p, tx) = 0 \/ Drop(sk[p].vt, tx.vt) = 0
Keeps1(p, tx) == IF Exits(p, tx) THEN 0 ELSE Rest1(p, tx)
Kept1(p, tx, n) == [sk[p] EXCEPT !.principal = Keeps1(p, tx), !.vt = Drop(sk[p].vt, tx.vt), !.harvested = n]
LEMMA RedeemedIs ==
    ASSUME SkillTypes, NEW p \in SkillPlans, NEW tx \in Sends, tx.vt > 0
    PROVE  /\ Part(p, tx) \in Nat /\ Keeps1(p, tx) \in Nat /\ Keeps1(p, tx) <= sk[p].principal
           /\ Redeemed(p, tx) \in SkillRows
           /\ Redeemed(p, tx).principal = Keeps1(p, tx) /\ Redeemed(p, tx).vt = Drop(sk[p].vt, tx.vt)
           /\ Redeemed(p, tx).today = sk[p].today /\ Redeemed(p, tx).spent = sk[p].spent
           /\ Redeemed(p, tx).made = sk[p].made
           /\ \/ Redeemed(p, tx).status = sk[p].status /\ Redeemed(p, tx).reason = sk[p].reason
              \/ Redeemed(p, tx).status = "paused" /\ Redeemed(p, tx).reason = "redeemed"
  <1> DEFINE row == sk[p]
  <1>1. row \in SkillRows /\ row.vt \in Nat /\ row.principal \in Nat /\ row.harvested \in Nat
    BY DEF SkillTypes, SkillRows
  <1>2. tx.usd \in Nat /\ tx.vt \in Nat \ {0}
    BY DEF Sends
  <1>3. Part(p, tx) \in Nat /\ Part(p, tx) <= tx.usd
    <2> DEFINE a == row.vt * tx.usd
               b == a \div tx.vt
               c == Drop(b, row.principal)
    <2>1. a \in Nat
      BY <1>1, <1>2, MulIs
    <2>2. b \in Nat
      <3> HIDE DEF a
      <3>1. QED
        BY <1>2, <2>1, DivIs
    <2>3. c \in Nat
      <3> HIDE DEF b
      <3>1. QED
        BY <1>1, <2>2, SmallTypes
    <2>4. Part(p, tx) = Least(tx.usd, c)
      BY DEF Part
    <2> HIDE DEF c
    <2>5. QED
      BY <1>2, <2>3, <2>4, SmallTypes
  <1> DEFINE rest == tx.usd - Part(p, tx)
  <1>4. rest \in Nat
    <2> HIDE DEF Part
    <2>1. QED
      BY <1>2, <1>3
  <1>5. Rest1(p, tx) \in Nat /\ Rest1(p, tx) <= row.principal
    <2>1. Rest1(p, tx) = Drop(row.principal, rest)
      BY DEF Rest1
    <2> HIDE DEF rest
    <2>2. QED
      BY <1>1, <1>4, <2>1, SmallTypes
  <1>6. Keeps1(p, tx) \in Nat /\ Keeps1(p, tx) <= row.principal
    BY <1>1, <1>5 DEF Keeps1
  <1>7. Drop(row.vt, tx.vt) \in Nat
    BY <1>1, <1>2, SmallTypes
  <1> DEFINE n == row.harvested + Part(p, tx)
             kept == Kept1(p, tx, n)
  <1>8. n \in Nat
    BY <1>1, <1>3
  <1>9. Redeemed(p, tx) = IF Exits(p, tx) /\ p \in YieldPlans /\ row.status = "active"
                          THEN [kept EXCEPT !.status = "paused", !.reason = "redeemed"] ELSE kept
    BY Zenon DEF Redeemed, Exits, Keeps1, Rest1, Part, Kept1
  <1>10. kept = [row EXCEPT !.principal = Keeps1(p, tx), !.vt = Drop(row.vt, tx.vt), !.harvested = n]
    BY DEF Kept1
  <1> DEFINE k == Keeps1(p, tx)
             v == Drop(row.vt, tx.vt)
  <1>11. k \in Nat /\ v \in Nat
    BY <1>6, <1>7
  <1>12. /\ kept \in SkillRows /\ kept.principal = k /\ kept.vt = v /\ kept.today = row.today
         /\ kept.spent = row.spent /\ kept.made = row.made /\ kept.status = row.status /\ kept.reason = row.reason
    <2> HIDE DEF row, k, v, n
    <2>1. kept = [row EXCEPT !.principal = k, !.vt = v, !.harvested = n]
      BY <1>10 DEF row, k, v
    <2> HIDE DEF kept
    <2>2. QED
      BY <1>1, <1>8, <1>11, <2>1 DEF SkillRows
  <1>13. ASSUME NEW r \in SkillRows
         PROVE  /\ [r EXCEPT !.status = "paused", !.reason = "redeemed"] \in SkillRows
                /\ [r EXCEPT !.status = "paused", !.reason = "redeemed"].principal = r.principal
                /\ [r EXCEPT !.status = "paused", !.reason = "redeemed"].vt = r.vt
                /\ [r EXCEPT !.status = "paused", !.reason = "redeemed"].today = r.today
                /\ [r EXCEPT !.status = "paused", !.reason = "redeemed"].spent = r.spent
                /\ [r EXCEPT !.status = "paused", !.reason = "redeemed"].made = r.made
                /\ [r EXCEPT !.status = "paused", !.reason = "redeemed"].status = "paused"
                /\ [r EXCEPT !.status = "paused", !.reason = "redeemed"].reason = "redeemed"
    BY DEF SkillRows, SkillStatuses, SkillReasons
  <1> HIDE DEF kept
  <1>14. Redeemed(p, tx) = kept \/ Redeemed(p, tx) = [kept EXCEPT !.status = "paused", !.reason = "redeemed"]
    BY <1>9, Zenon
  <1>15. QED
    BY <1>3, <1>6, <1>12, <1>13, <1>14

-----------------------------------------------------------------------------
(* The skill's side: types                                                 *)

LEMMA SkillRowTypes ==
    ASSUME NEW row \in SkillRows, NEW n \in Nat, NEW b \in BOOLEAN, NEW s \in SkillStatuses, NEW c \in SkillReasons
    PROVE  /\ [row EXCEPT !.made = b] \in SkillRows /\ [row EXCEPT !.due = b] \in SkillRows
           /\ [row EXCEPT !.status = s] \in SkillRows /\ [row EXCEPT !.reason = c] \in SkillRows
           /\ [row EXCEPT !.principal = n] \in SkillRows /\ [row EXCEPT !.vt = n] \in SkillRows
           /\ [row EXCEPT !.harvested = n] \in SkillRows
           /\ [row EXCEPT !.today = n] \in SkillRows /\ [row EXCEPT !.spent = n] \in SkillRows
  <1>1. [row EXCEPT !.made = b] \in SkillRows /\ [row EXCEPT !.due = b] \in SkillRows
    BY DEF SkillRows
  <1>2. [row EXCEPT !.status = s] \in SkillRows /\ [row EXCEPT !.reason = c] \in SkillRows
    BY DEF SkillRows
  <1>3. [row EXCEPT !.principal = n] \in SkillRows /\ [row EXCEPT !.vt = n] \in SkillRows
    BY DEF SkillRows
  <1>4. [row EXCEPT !.harvested = n] \in SkillRows
    BY DEF SkillRows
  <1>5. [row EXCEPT !.today = n] \in SkillRows /\ [row EXCEPT !.spent = n] \in SkillRows
    BY DEF SkillRows
  <1>6. QED
    BY <1>1, <1>2, <1>3, <1>4, <1>5

LEMMA UnmadeIs ==
    Unmade \in SkillRows
  BY DEF Unmade, SkillRows, SkillStatuses, SkillReasons

LEMMA MadeIs ==
    ASSUME NEW p, SkillTypes, Make(p), p \in SkillPlans
    PROVE  /\ sk'[p] \in SkillRows /\ sk'[p].made /\ sk'[p].principal = 0 /\ sk'[p].vt = 0
           /\ sk'[p].today = 0 /\ sk'[p].spent = 0
           /\ sk'[p].reason = "awaiting_deposit" => sk'[p].status = "paused" /\ p \in YieldPlans
           /\ sk'[p].reason # "report_over_limit"
           /\ sk' = [sk EXCEPT ![p] = sk'[p]]
  <1> DEFINE row == IF p \in YieldPlans
                    THEN [Unmade EXCEPT !.made = TRUE, !.status = "paused", !.reason = "awaiting_deposit"]
                    ELSE [Unmade EXCEPT !.made = TRUE]
  <1>1. sk' = [sk EXCEPT ![p] = row] /\ sk \in [SkillPlans -> SkillRows]
    BY DEF Make, SkillTypes
  <1>2. /\ row \in SkillRows /\ row.made /\ row.principal = 0 /\ row.vt = 0
        /\ row.today = 0 /\ row.spent = 0
        /\ row.reason = "awaiting_deposit" => row.status = "paused" /\ p \in YieldPlans
        /\ row.reason # "report_over_limit"
    BY DEF Unmade, SkillRows, SkillStatuses, SkillReasons
  <1> HIDE DEF row
  <1>3. sk'[p] = row
    BY <1>1
  <1>4. QED
    BY <1>1, <1>2, <1>3

LEMMA RowsType ==
    ASSUME SkillTypes, NEW p \in SkillPlans, NEW row \in SkillRows, sk' = [sk EXCEPT ![p] = row]
    PROVE  sk' \in [SkillPlans -> SkillRows]
  BY DEF SkillTypes

LEMMA SendTypes ==
    ASSUME SkillTypes, NEW kind \in Kinds, NEW p \in SkillPlans, NEW usd \in Nat, Sent(kind, p, usd)
    PROVE  /\ txs' \in Seq(Sends) /\ Len(txs') = Len(txs) + 1 /\ DOMAIN txs' = DOMAIN txs \cup {Len(txs) + 1}
           /\ \A i \in DOMAIN txs : txs'[i] = txs[i] /\ i # Len(txs) + 1
           /\ txs'[Len(txs) + 1] = [kind |-> kind, plan |-> p, usd |-> usd, vt |-> 0, mined |-> FALSE,
                                    booked |-> Nowhere, done |-> FALSE, cut |-> FALSE]
  <1> DEFINE tx == [kind |-> kind, plan |-> p, usd |-> usd, vt |-> 0, mined |-> FALSE,
                    booked |-> Nowhere, done |-> FALSE, cut |-> FALSE]
  <1>1. tx \in Sends
    BY DEF Sends
  <1>2. txs' = Append(txs, tx) /\ txs \in Seq(Sends)
    BY DEF Sent, SkillTypes
  <1> HIDE DEF tx
  <1>3. /\ txs' \in Seq(Sends) /\ Len(txs') = Len(txs) + 1 /\ txs'[Len(txs) + 1] = tx
        /\ \A i \in 1 .. Len(txs) : txs'[i] = txs[i]
    BY <1>1, <1>2, AppendProperties
  <1>4. DOMAIN txs = 1 .. Len(txs) /\ Len(txs) \in Nat /\ DOMAIN txs' = 1 .. Len(txs')
    BY <1>2, <1>3, LenProperties
  <1>5. QED
    BY <1>3, <1>4 DEF tx

LEMMA TxsType ==
    ASSUME SkillTypes, NEW i \in DOMAIN txs, NEW tx \in Sends, txs' = [txs EXCEPT ![i] = tx]
    PROVE  txs' \in Seq(Sends) /\ Len(txs') = Len(txs) /\ DOMAIN txs' = DOMAIN txs
  <1>1. txs \in Seq(Sends) /\ i \in 1 .. Len(txs)
    BY TxAt DEF SkillTypes
  <1>2. QED
    BY <1>1, ExceptSeq, TxAt

LEMMA SpendTypes ==
    ASSUME SkillTypes, NEW p \in SkillPlans
    PROVE  /\ Interest(p) \in Nat /\ PositionUsd(p) \in Nat
           /\ Spend(p) \in Nat /\ Spend(p) <= PerBuy
           /\ sk[p].today <= PerDay => sk[p].today + Spend(p) <= PerDay
           /\ p \in YieldPlans => Spend(p) <= Interest(p) + sk[p].harvested
  <1>1. /\ wallet.vt \in Nat /\ wallet.rate \in Nat /\ sk[p].vt \in Nat /\ sk[p].principal \in Nat
        /\ sk[p].harvested \in Nat /\ sk[p].today \in Nat
    BY DEF SkillTypes, SkillRows
  <1>2. PositionUsd(p) \in Nat
    BY <1>1, SmallTypes, MulIs DEF PositionUsd
  <1>3. Interest(p) \in Nat
    BY <1>1, <1>2, SmallTypes DEF Interest
  <1> DEFINE a == Least(PerBuy, Drop(PerDay, sk[p].today))
             b == IF p \in YieldPlans THEN Interest(p) + sk[p].harvested ELSE PerBuy
  <1>4. PerBuy \in Nat /\ PerDay \in Nat
    BY SkillAssumption
  <1>5. a \in Nat /\ a <= PerBuy /\ a <= Drop(PerDay, sk[p].today)
    BY <1>1, <1>4, SmallTypes
  <1>6. b \in Nat
    BY <1>1, <1>3, <1>4
  <1>7. Spend(p) = Least(a, b)
    BY DEF Spend
  <1>8. Spend(p) \in Nat /\ Spend(p) <= a /\ Spend(p) <= b
    <2> HIDE DEF a, b
    <2>1. QED
      BY <1>5, <1>6, <1>7, SmallTypes
  <1>9. ASSUME sk[p].today <= PerDay PROVE sk[p].today + Drop(PerDay, sk[p].today) = PerDay
    BY <1>1, <1>4, <1>9 DEF Drop
  <1>10. ASSUME sk[p].today <= PerDay PROVE sk[p].today + Spend(p) <= PerDay
    <2>1. /\ Drop(PerDay, sk[p].today) \in Nat /\ sk[p].today + Drop(PerDay, sk[p].today) = PerDay
          /\ Spend(p) <= a /\ a <= Drop(PerDay, sk[p].today) /\ sk[p].today \in Nat
          /\ Spend(p) \in Nat /\ a \in Nat
      BY <1>1, <1>4, <1>5, <1>8, <1>9, <1>10, SmallTypes
    <2> HIDE DEF Spend, a, Drop
    <2>2. QED
      BY <2>1
  <1>11. QED
    <2> HIDE DEF Spend, a
    <2>1. QED
      BY <1>2, <1>3, <1>4, <1>5, <1>8, <1>10

-----------------------------------------------------------------------------
(* The skill's side: what the actions on transactions do                   *)

LEMMA SendFields ==
    ASSUME NEW tx \in Sends
    PROVE  /\ tx.kind \in Kinds /\ tx.plan \in SkillPlans /\ tx.usd \in Nat /\ tx.vt \in Nat
           /\ tx.mined \in BOOLEAN /\ tx.booked \in SkillPlans \cup {Nowhere} /\ tx.done \in BOOLEAN
           /\ tx.cut \in BOOLEAN
  BY DEF Sends

Mined1(tx, n, m) == [tx EXCEPT !.mined = TRUE, !.vt = n, !.usd = m]
LEMMA MineFields ==
    ASSUME NEW tx \in Sends, NEW n \in Nat, NEW m \in Nat
    PROVE  /\ Mined1(tx, n, m) \in Sends /\ Mined1(tx, n, m).mined /\ Mined1(tx, n, m).vt = n
           /\ Mined1(tx, n, m).usd = m /\ Mined1(tx, n, m).kind = tx.kind
           /\ Mined1(tx, n, m).plan = tx.plan /\ Mined1(tx, n, m).booked = tx.booked
           /\ Mined1(tx, n, m).done = tx.done /\ Mined1(tx, n, m).cut = tx.cut
  BY DEF Sends, Mined1

\* A transaction is answered, booked on a plan, or its report cut short: nothing else in it changes.
Alike(t, tx) == /\ t \in Sends /\ t.mined = tx.mined /\ t.vt = tx.vt /\ t.usd = tx.usd
                /\ t.kind = tx.kind /\ t.plan = tx.plan
LEMMA DoneFields ==
    ASSUME NEW tx \in Sends
    PROVE  /\ Alike([tx EXCEPT !.done = TRUE], tx) /\ [tx EXCEPT !.done = TRUE].done
           /\ [tx EXCEPT !.done = TRUE].booked = tx.booked /\ [tx EXCEPT !.done = TRUE].cut = tx.cut
  BY DEF Sends, Alike
LEMMA BookFields ==
    ASSUME NEW tx \in Sends, NEW p \in SkillPlans
    PROVE  /\ Alike([tx EXCEPT !.booked = p], tx) /\ [tx EXCEPT !.booked = p].booked = p
           /\ [tx EXCEPT !.booked = p].done = tx.done /\ [tx EXCEPT !.booked = p].cut = tx.cut
  BY DEF Sends, Alike
LEMMA CutFields ==
    ASSUME NEW tx \in Sends
    PROVE  /\ Alike([tx EXCEPT !.cut = TRUE], tx) /\ [tx EXCEPT !.cut = TRUE].cut
           /\ [tx EXCEPT !.cut = TRUE].done = tx.done /\ [tx EXCEPT !.cut = TRUE].booked = tx.booked
  BY DEF Sends, Alike

\* What a transaction does to the wallet's vTokens.
Vt(tx) == CASE tx.kind = "deposit" -> tx.usd \div wallet.rate
            [] tx.kind = "redeem" -> UpDiv(tx.usd, wallet.rate)
            [] OTHER -> 0
LEMMA MineIs ==
    ASSUME SkillTypes, Facts, NEW i \in DOMAIN txs, MineTx(i)
    PROVE  /\ txs' \in Seq(Sends) /\ Len(txs') = Len(txs) /\ DOMAIN txs' = DOMAIN txs
           /\ \A j \in DOMAIN txs : j # i => txs'[j] = txs[j]
           /\ txs'[i].mined /\ txs'[i].kind = txs[i].kind /\ txs'[i].plan = txs[i].plan
           /\ txs'[i].booked = txs[i].booked /\ txs'[i].done = txs[i].done /\ txs'[i].cut = txs[i].cut
           /\ txs'[i].vt \in Nat /\ txs'[i].usd \in Nat
           /\ wallet'.rate = wallet.rate /\ wallet'.does = wallet.does /\ wallet'.vt \in Nat
           /\ wallet' \in [vt : Nat, rate : Nat \ {0}, does : {Rest} \cup Deeds]
           /\ txs[i].kind = "redeem" =>
                /\ txs'[i].vt > 0 /\ txs'[i].vt = UpDiv(txs[i].usd, wallet.rate) /\ txs'[i].vt <= wallet.vt
                /\ txs'[i].usd = txs'[i].vt * wallet.rate /\ wallet'.vt = wallet.vt - txs'[i].vt
           /\ txs[i].kind = "deposit" =>
                /\ txs'[i].vt = txs[i].usd \div wallet.rate /\ txs'[i].usd = txs[i].usd
                /\ wallet'.vt = wallet.vt + txs'[i].vt
           /\ txs[i].kind = "swap" => txs'[i].usd = txs[i].usd /\ wallet'.vt = wallet.vt
           /\ ~txs[i].mined /\ UNCHANGED <<sk, req, leeway>>
  <1> DEFINE tx == txs[i]
             n == Vt(tx)
             m == IF tx.kind = "redeem" THEN n * wallet.rate ELSE tx.usd
             t == Mined1(tx, n, m)
             v == IF tx.kind = "deposit" THEN wallet.vt + n
                  ELSE IF tx.kind = "redeem" THEN wallet.vt - n ELSE wallet.vt
  <1>1. tx \in Sends /\ tx.usd \in Nat /\ tx.kind \in Kinds /\ (tx.kind = "redeem" => tx.usd > 0)
    BY TxAt, SendFields DEF Facts, TxFacts
  <1>2. wallet.vt \in Nat /\ wallet.rate \in Nat \ {0}
    BY DEF SkillTypes
  <1>3. /\ tx.kind = "redeem" => n = UpDiv(tx.usd, wallet.rate)
        /\ tx.kind = "deposit" => n = tx.usd \div wallet.rate
        /\ tx.kind = "swap" => n = 0
    BY DEF Vt
  <1>4. n \in Nat /\ (tx.kind = "redeem" => n > 0)
    <2> HIDE DEF n, tx
    <2>1. tx.kind = "redeem" => UpDiv(tx.usd, wallet.rate) \in Nat /\ UpDiv(tx.usd, wallet.rate) > 0
      BY <1>1, <1>2, UpDivIs
    <2>2. tx.kind = "deposit" => tx.usd \div wallet.rate \in Nat
      BY <1>1, <1>2, DivIs
    <2>3. QED
      BY <1>1, <1>3, <2>1, <2>2 DEF Kinds
  <1>5. m \in Nat
    <2> HIDE DEF n
    <2>1. QED
      BY <1>1, <1>2, <1>4, MulIs
  <1>6. /\ ~tx.mined /\ (tx.kind = "redeem" => n <= wallet.vt)
        /\ txs' = [txs EXCEPT ![i] = t]
        /\ wallet' = [wallet EXCEPT !.vt = v] /\ UNCHANGED <<sk, req, leeway>>
    <2>1. /\ ~tx.mined /\ (tx.kind = "redeem" => n <= wallet.vt)
          /\ txs' = [txs EXCEPT ![i].mined = TRUE, ![i].vt = n,
                                ![i].usd = IF tx.kind = "redeem" THEN n * wallet.rate ELSE @]
          /\ wallet' = [wallet EXCEPT !.vt = CASE tx.kind = "deposit" -> @ + n
                                               [] tx.kind = "redeem" -> @ - n
                                               [] OTHER -> @]
          /\ UNCHANGED <<sk, req, leeway>>
      BY Zenon DEF MineTx, Vt
    <2>2. txs' = [txs EXCEPT ![i] = t]
      <3> HIDE DEF n
      <3>1. txs \in Seq(Sends)
        BY DEF SkillTypes
      <3>2. QED
        BY <2>1, <3>1, <1>1 DEF Sends, Mined1
    <2>3. wallet' = [wallet EXCEPT !.vt = v]
      <3> HIDE DEF n
      <3>1. QED
        BY <2>1, <1>1 DEF Kinds
    <2>4. QED
      BY <2>1, <2>2, <2>3
  <1>7. /\ t \in Sends /\ t.mined /\ t.vt = n /\ t.usd = m /\ t.kind = tx.kind /\ t.plan = tx.plan
        /\ t.booked = tx.booked /\ t.done = tx.done /\ t.cut = tx.cut
    <2> HIDE DEF tx, n, m
    <2>1. QED
      BY <1>1, <1>4, <1>5, MineFields
  <1>8. v \in Nat
    <2> HIDE DEF n
    <2>1. QED
      BY <1>1, <1>2, <1>4, <1>6
  <1>9. /\ wallet'.rate = wallet.rate /\ wallet'.does = wallet.does /\ wallet'.vt = v
        /\ wallet' \in [vt : Nat, rate : Nat \ {0}, does : {Rest} \cup Deeds]
    <2> HIDE DEF v
    <2>1. QED
      BY <1>6, <1>8 DEF SkillTypes
  <1>10. /\ txs' \in Seq(Sends) /\ Len(txs') = Len(txs) /\ DOMAIN txs' = DOMAIN txs
    <2> HIDE DEF t
    <2>1. QED
      BY <1>6, <1>7, TxsType
  <1>11. txs'[i] = t /\ \A j \in DOMAIN txs : j # i => txs'[j] = txs[j]
    <2> HIDE DEF t
    <2>1. QED
      BY <1>6, <1>10
  <1>12. QED
    <2> HIDE DEF t, n
    <2>1. QED
      BY <1>3, <1>4, <1>5, <1>6, <1>7, <1>8, <1>9, <1>10, <1>11

\* Marking the transaction i, and none but i.
Only(i) == /\ txs' \in Seq(Sends) /\ Len(txs') = Len(txs) /\ DOMAIN txs' = DOMAIN txs
           /\ \A j \in DOMAIN txs : j # i => txs'[j] = txs[j]
LEMMA DoneIs ==
    ASSUME SkillTypes, NEW i \in DOMAIN txs, txs' = [txs EXCEPT ![i].done = TRUE]
    PROVE  Only(i) /\ Alike(txs'[i], txs[i]) /\ txs'[i].done /\ txs'[i].booked = txs[i].booked
           /\ txs'[i].cut = txs[i].cut
  <1> DEFINE t == [txs[i] EXCEPT !.done = TRUE]
  <1>1. txs[i] \in Sends
    BY TxAt
  <1>2. Alike(t, txs[i]) /\ t.done /\ t.booked = txs[i].booked /\ t.cut = txs[i].cut
    BY <1>1, DoneFields
  <1>3. txs' = [txs EXCEPT ![i] = t] /\ t \in Sends
    BY <1>2 DEF Alike
  <1> HIDE DEF t
  <1>4. txs' \in Seq(Sends) /\ Len(txs') = Len(txs) /\ DOMAIN txs' = DOMAIN txs
    BY <1>3, TxsType
  <1>5. QED
    BY <1>2, <1>3, <1>4 DEF Only
LEMMA CutIs ==
    ASSUME SkillTypes, NEW i \in DOMAIN txs, txs' = [txs EXCEPT ![i].cut = TRUE]
    PROVE  Only(i) /\ Alike(txs'[i], txs[i]) /\ txs'[i].cut /\ txs'[i].booked = txs[i].booked
           /\ txs'[i].done = txs[i].done
  <1> DEFINE t == [txs[i] EXCEPT !.cut = TRUE]
  <1>1. txs[i] \in Sends
    BY TxAt
  <1>2. Alike(t, txs[i]) /\ t.cut /\ t.booked = txs[i].booked /\ t.done = txs[i].done
    BY <1>1, CutFields
  <1>3. txs' = [txs EXCEPT ![i] = t] /\ t \in Sends
    BY <1>2 DEF Alike
  <1> HIDE DEF t
  <1>4. txs' \in Seq(Sends) /\ Len(txs') = Len(txs) /\ DOMAIN txs' = DOMAIN txs
    BY <1>3, TxsType
  <1>5. QED
    BY <1>2, <1>3, <1>4 DEF Only
LEMMA BookIs ==
    ASSUME SkillTypes, NEW i \in DOMAIN txs, NEW p \in SkillPlans, txs' = [txs EXCEPT ![i].booked = p]
    PROVE  Only(i) /\ Alike(txs'[i], txs[i]) /\ txs'[i].booked = p /\ txs'[i].cut = txs[i].cut
           /\ txs'[i].done = txs[i].done
  <1> DEFINE t == [txs[i] EXCEPT !.booked = p]
  <1>1. txs[i] \in Sends
    BY TxAt
  <1>2. Alike(t, txs[i]) /\ t.booked = p /\ t.cut = txs[i].cut /\ t.done = txs[i].done
    BY <1>1, BookFields
  <1>3. txs' = [txs EXCEPT ![i] = t] /\ t \in Sends
    BY <1>2 DEF Alike
  <1> HIDE DEF t
  <1>4. txs' \in Seq(Sends) /\ Len(txs') = Len(txs) /\ DOMAIN txs' = DOMAIN txs
    BY <1>3, TxsType
  <1>5. QED
    BY <1>2, <1>3, <1>4 DEF Only

LEMMA BoughtIs ==
    ASSUME NEW p, NEW row \in SkillRows, NEW usd \in Nat
    PROVE  /\ Bought(row, p, usd) \in SkillRows /\ Bought(row, p, usd).principal = row.principal
           /\ Bought(row, p, usd).vt = row.vt /\ Bought(row, p, usd).made = row.made
           /\ Bought(row, p, usd).today = row.today + usd /\ Bought(row, p, usd).spent = row.spent + usd
           /\ Bought(row, p, usd).status = row.status /\ Bought(row, p, usd).reason = row.reason
  <1> DEFINE h == IF p \in YieldPlans THEN Drop(row.harvested, usd) ELSE row.harvested
             t == row.today + usd
             s == row.spent + usd
  <1>1. row.harvested \in Nat /\ row.today \in Nat /\ row.spent \in Nat
    BY DEF SkillRows
  <1>2. h \in Nat /\ t \in Nat /\ s \in Nat
    <2>1. Drop(row.harvested, usd) \in Nat
      BY <1>1, SmallTypes
    <2>2. QED
      BY <1>1, <2>1
  <1>3. Bought(row, p, usd) = [row EXCEPT !.today = t, !.spent = s, !.due = FALSE, !.harvested = h]
    BY DEF Bought, SkillRows
  <1> HIDE DEF h, t, s
  <1> DEFINE a == [row EXCEPT !.today = t, !.spent = s]
             b == [a EXCEPT !.due = FALSE, !.harvested = h]
  <1>4. /\ a \in SkillRows /\ a.principal = row.principal /\ a.vt = row.vt /\ a.made = row.made
        /\ a.today = t /\ a.spent = s /\ a.status = row.status /\ a.reason = row.reason
    BY <1>2 DEF SkillRows
  <1>5. Bought(row, p, usd) = b
    BY <1>3
  <1>6. /\ b \in SkillRows /\ b.principal = a.principal /\ b.vt = a.vt /\ b.made = a.made
        /\ b.today = a.today /\ b.spent = a.spent /\ b.status = a.status /\ b.reason = a.reason
    <2> HIDE DEF a
    <2>1. QED
      BY <1>2, <1>4 DEF SkillRows
  <1> HIDE DEF a, b
  <1>7. QED
    BY <1>4, <1>5, <1>6 DEF t, s

Funded(row, n, m) == [row EXCEPT !.principal = @ + n, !.vt = @ + m]
LEMMA PutInIs ==
    ASSUME NEW row \in SkillRows, NEW n \in Nat, NEW m \in Nat
    PROVE  /\ Funded(row, n, m) \in SkillRows
           /\ Funded(row, n, m).principal = row.principal + n
           /\ Funded(row, n, m).vt = row.vt + m
           /\ Funded(row, n, m).made = row.made
           /\ Funded(row, n, m).today = row.today
           /\ Funded(row, n, m).spent = row.spent
           /\ Funded(row, n, m).status = row.status
           /\ Funded(row, n, m).reason = row.reason
  <1> DEFINE a == row.principal + n
             b == row.vt + m
             r == [row EXCEPT !.principal = a, !.vt = b]
  <1>1. a \in Nat /\ b \in Nat
    BY DEF SkillRows
  <1>2. Funded(row, n, m) = r
    BY DEF SkillRows, Funded
  <1>3. /\ r \in SkillRows /\ r.principal = a /\ r.vt = b /\ r.made = row.made /\ r.today = row.today
        /\ r.spent = row.spent /\ r.status = row.status /\ r.reason = row.reason
    <2> HIDE DEF a, b
    <2>1. QED
      BY <1>1 DEF SkillRows
  <1>4. QED
    <2> HIDE DEF r
    <2>1. QED
      BY <1>2, <1>3

\* What a report makes of its plan's row.
LEMMA BookedIs ==
    ASSUME SkillTypes, NEW p \in SkillPlans, NEW tx \in Sends, tx.kind = "redeem" => tx.vt > 0
    PROVE  /\ Booked(p, tx) \in SkillRows /\ Booked(p, tx).made = sk[p].made
           /\ tx.kind = "deposit" =>
                /\ Booked(p, tx).principal = sk[p].principal + tx.usd /\ Booked(p, tx).vt = sk[p].vt + tx.vt
                /\ Booked(p, tx).today = sk[p].today /\ Booked(p, tx).spent = sk[p].spent
                /\ Booked(p, tx).status = sk[p].status /\ Booked(p, tx).reason = sk[p].reason
           /\ tx.kind = "redeem" =>
                /\ Booked(p, tx).principal = Keeps1(p, tx) /\ Booked(p, tx).vt = Drop(sk[p].vt, tx.vt)
                /\ Booked(p, tx).today = sk[p].today /\ Booked(p, tx).spent = sk[p].spent
                /\ \/ Booked(p, tx).status = sk[p].status /\ Booked(p, tx).reason = sk[p].reason
                   \/ Booked(p, tx).status = "paused" /\ Booked(p, tx).reason = "redeemed"
           /\ tx.kind = "swap" =>
                /\ Booked(p, tx).principal = sk[p].principal /\ Booked(p, tx).vt = sk[p].vt
                /\ Booked(p, tx).today = sk[p].today + tx.usd /\ Booked(p, tx).spent = sk[p].spent + tx.usd
                /\ Booked(p, tx).status = sk[p].status /\ Booked(p, tx).reason = sk[p].reason
  <1>1. tx.kind \in Kinds /\ tx.usd \in Nat /\ tx.vt \in Nat
    BY SendFields
  <1>2. sk[p] \in SkillRows
    BY DEF SkillTypes
  <1>3. CASE tx.kind = "deposit"
    <2>1. Booked(p, tx) = Funded(sk[p], tx.usd, tx.vt)
      BY <1>3 DEF Booked, Funded
    <2> DEFINE row == sk[p]
               n == tx.usd
               m == tx.vt
    <2>2. row \in SkillRows /\ n \in Nat /\ m \in Nat
      BY <1>1, <1>2
    <2> HIDE DEF row, n, m
    <2>3. /\ Funded(row, n, m) \in SkillRows /\ Funded(row, n, m).made = row.made
          /\ Funded(row, n, m).principal = row.principal + n /\ Funded(row, n, m).vt = row.vt + m
          /\ Funded(row, n, m).today = row.today /\ Funded(row, n, m).spent = row.spent
          /\ Funded(row, n, m).status = row.status /\ Funded(row, n, m).reason = row.reason
      BY <2>2, PutInIs, Zenon
    <2>4. QED
      BY <1>3, <2>1, <2>3 DEF row, n, m
  <1>4. CASE tx.kind = "redeem"
    <2>1. Booked(p, tx) = Redeemed(p, tx)
      BY <1>4 DEF Booked
    <2>2. QED
      BY <1>1, <1>4, <2>1, RedeemedIs
  <1>5. CASE tx.kind = "swap"
    <2>1. Booked(p, tx) = Bought(sk[p], p, tx.usd)
      BY <1>5 DEF Booked
    <2>2. QED
      BY <1>1, <1>2, <1>5, <2>1, BoughtIs
  <1>6. QED
    BY <1>1, <1>3, <1>4, <1>5 DEF Kinds

\* The request r, its transaction and its plan.
LEMMA ReqAt ==
    ASSUME SkillTypes, Facts, NEW r \in Requests, req[r].pc # "none"
    PROVE  /\ req[r] \in Reports /\ req[r].tx \in DOMAIN txs /\ req[r].plan \in SkillPlans
           /\ txs[req[r].tx] \in Sends /\ txs[req[r].tx].mined
           /\ txs[req[r].tx].kind = "redeem" => txs[req[r].tx].vt > 0 /\ txs[req[r].tx].usd > 0
  <1>1. req[r] \in Reports
    BY DEF SkillTypes, NoReport
  <1>2. req[r].tx \in DOMAIN txs /\ txs[req[r].tx].mined
    BY DEF Facts, ReqFacts
  <1>3. txs[req[r].tx].kind = "redeem" => txs[req[r].tx].vt > 0 /\ txs[req[r].tx].usd > 0
    BY <1>2 DEF Facts, TxFacts
  <1>4. QED
    BY <1>1, <1>2, <1>3, TxAt DEF Reports

LEMMA WriteIs ==
    ASSUME SkillTypes, Facts, NEW r \in Requests, Write(r)
    PROVE  /\ req[r] \in Reports /\ req[r].pc = "write" /\ req[r].tx \in DOMAIN txs /\ req[r].plan \in SkillPlans
           /\ UNCHANGED <<wallet, leeway>> /\ Only(req[r].tx) /\ Alike(txs'[req[r].tx], txs[req[r].tx])
           /\ txs'[req[r].tx].cut = txs[req[r].tx].cut
           /\ \/ /\ txs[req[r].tx].booked # Nowhere /\ sk' = sk /\ req' = [req EXCEPT ![r] = NoReport]
                 /\ txs'[req[r].tx].booked = txs[req[r].tx].booked /\ txs'[req[r].tx].done
              \/ /\ txs[req[r].tx].booked = Nowhere /\ txs'[req[r].tx].booked = req[r].plan
                 /\ txs'[req[r].tx].done = txs[req[r].tx].done
                 /\ sk' = [sk EXCEPT ![req[r].plan] = Booked(req[r].plan, txs[req[r].tx])]
                 /\ req' = [req EXCEPT ![r].pc = "patch",
                              ![r].over = txs[req[r].tx].kind = "swap"
                                          /\ OverLimit(req[r].plan, txs[req[r].tx].usd)]
  <1> DEFINE i == req[r].tx
             p == req[r].plan
             tx == txs[i]
  <1>1. /\ req[r] \in Reports /\ req[r].pc = "write" /\ i \in DOMAIN txs /\ p \in SkillPlans
        /\ UNCHANGED <<wallet, leeway>>
    BY ReqAt DEF Write
  <1>2. CASE tx.booked # Nowhere
    <2>1. /\ req' = [req EXCEPT ![r] = NoReport] /\ txs' = [txs EXCEPT ![i].done = TRUE] /\ sk' = sk
      BY <1>2, Zenon DEF Write, Recorded
    <2> HIDE DEF i, p
    <2>2. Only(i) /\ Alike(txs'[i], txs[i]) /\ txs'[i].done /\ txs'[i].booked = txs[i].booked
          /\ txs'[i].cut = txs[i].cut
      BY <1>1, <2>1, DoneIs
    <2>3. QED
      BY <1>1, <1>2, <2>1, <2>2 DEF i, p
  <1>3. CASE tx.booked = Nowhere
    <2>1. /\ sk' = [sk EXCEPT ![p] = Booked(p, tx)]
          /\ txs' = [txs EXCEPT ![i].booked = p]
          /\ req' = [req EXCEPT ![r].pc = "patch", ![r].over = tx.kind = "swap" /\ OverLimit(p, tx.usd)]
      BY <1>3, Zenon DEF Write, Recorded
    <2> HIDE DEF i, p
    <2>2. Only(i) /\ Alike(txs'[i], txs[i]) /\ txs'[i].booked = p /\ txs'[i].cut = txs[i].cut
          /\ txs'[i].done = txs[i].done
      BY <1>1, <2>1, BookIs
    <2>3. QED
      BY <1>1, <1>3, <2>1, <2>2, Zenon DEF i, p
  <1>4. QED
    BY <1>2, <1>3

LEMMA PatchIs ==
    ASSUME SkillTypes, Facts, NEW r \in Requests, Patch(r)
    PROVE  /\ req[r] \in Reports /\ req[r].pc = "patch" /\ req[r].tx \in DOMAIN txs /\ req[r].plan \in SkillPlans
           /\ UNCHANGED <<wallet, leeway>> /\ Only(req[r].tx) /\ Alike(txs'[req[r].tx], txs[req[r].tx])
           /\ txs'[req[r].tx].cut = txs[req[r].tx].cut
           /\ txs'[req[r].tx].booked = txs[req[r].tx].booked /\ txs'[req[r].tx].done
           /\ req' = [req EXCEPT ![r] = NoReport]
           /\ sk' = [sk EXCEPT ![req[r].plan] = sk'[req[r].plan]]
           /\ LET row == sk[req[r].plan]
                  new == sk'[req[r].plan]
                  starts == /\ txs[req[r].tx].kind = "deposit" /\ row.status = "paused"
                            /\ row.reason = "awaiting_deposit"
              IN /\ new \in SkillRows /\ new.made = row.made /\ new.principal = row.principal /\ new.vt = row.vt
                 /\ new.today = row.today /\ new.spent = row.spent
                 /\ \/ starts /\ new.status = "active" /\ new.reason = ""
                    \/ /\ ~starts /\ req[r].over /\ row.status = "active"
                       /\ new.status = "paused" /\ new.reason = "report_over_limit"
                    \/ ~starts /\ ~(req[r].over /\ row.status = "active") /\ new = row
  <1> DEFINE i == req[r].tx
             p == req[r].plan
             row == sk[p]
             starts == txs[i].kind = "deposit" /\ row.status = "paused" /\ row.reason = "awaiting_deposit"
             over == req[r].over /\ row.status = "active"
             new == IF starts THEN [row EXCEPT !.status = "active", !.reason = "", !.due = TRUE]
                    ELSE IF over THEN [row EXCEPT !.status = "paused", !.reason = "report_over_limit"] ELSE row
  <1>1. /\ req[r] \in Reports /\ req[r].pc = "patch" /\ i \in DOMAIN txs /\ p \in SkillPlans
        /\ UNCHANGED <<wallet, leeway>>
    BY ReqAt DEF Patch
  <1>2. /\ txs' = [txs EXCEPT ![i].done = TRUE] /\ req' = [req EXCEPT ![r] = NoReport]
        /\ sk' = IF starts THEN [sk EXCEPT ![p].status = "active", ![p].reason = "", ![p].due = TRUE]
                 ELSE IF over THEN [sk EXCEPT ![p].status = "paused", ![p].reason = "report_over_limit"] ELSE sk
    BY Zenon DEF Patch
  <1>3. sk \in [SkillPlans -> SkillRows] /\ row \in SkillRows
    BY <1>1 DEF SkillTypes
  <1>4. sk' = [sk EXCEPT ![p] = new]
    <2> HIDE DEF starts, over, p
    <2>1. CASE starts
      BY <1>1, <1>2, <1>3, <2>1
    <2>2. CASE ~starts /\ over
      BY <1>1, <1>2, <1>3, <2>2
    <2>3. CASE ~starts /\ ~over
      BY <1>1, <1>2, <1>3, <2>3
    <2>4. QED
      BY <2>1, <2>2, <2>3
  <1>5. /\ new \in SkillRows /\ new.made = row.made /\ new.principal = row.principal /\ new.vt = row.vt
        /\ new.today = row.today /\ new.spent = row.spent
        /\ \/ starts /\ new.status = "active" /\ new.reason = ""
           \/ ~starts /\ over /\ new.status = "paused" /\ new.reason = "report_over_limit"
           \/ ~starts /\ ~over /\ new = row
    <2> HIDE DEF starts, over, row
    <2>1. CASE starts
      BY <1>3, <2>1 DEF SkillRows, SkillStatuses, SkillReasons
    <2>2. CASE ~starts /\ over
      BY <1>3, <2>2 DEF SkillRows, SkillStatuses, SkillReasons
    <2>3. CASE ~starts /\ ~over
      BY <1>3, <2>3
    <2>4. QED
      BY <2>1, <2>2, <2>3
  <1>6. sk'[p] = new
    <2> HIDE DEF new
    <2>1. QED
      BY <1>1, <1>3, <1>4
  <1>7. Only(i) /\ Alike(txs'[i], txs[i]) /\ txs'[i].done /\ txs'[i].booked = txs[i].booked
          /\ txs'[i].cut = txs[i].cut
    <2> HIDE DEF i
    <2>1. QED
      BY <1>1, <1>2, DoneIs
  <1>8. QED
    <2> HIDE DEF new
    <2>1. QED
      BY <1>1, <1>2, <1>4, <1>5, <1>6, <1>7, Zenon

LEMMA ReportIs ==
    ASSUME SkillTypes, Facts, NEW r \in Requests, NEW i \in DOMAIN txs, NEW p \in SkillPlans, Report(r, i, p)
    PROVE  /\ UNCHANGED <<sk, wallet, leeway>> /\ req[r].pc = "none" /\ For(p, i)
           /\ txs[i].mined /\ ~txs[i].done
           /\ \/ /\ req' = req /\ Only(i) /\ Alike(txs'[i], txs[i]) /\ txs'[i].done
                 /\ txs'[i].booked = txs[i].booked /\ txs'[i].cut = txs[i].cut /\ txs[i].booked # Nowhere
              \/ /\ txs' = txs /\ txs[i].booked = Nowhere
                 /\ req' = [req EXCEPT ![r] = [pc |-> "write", tx |-> i, plan |-> p, over |-> FALSE]]
  <1>1. /\ UNCHANGED <<sk, wallet, leeway>> /\ req[r].pc = "none" /\ For(p, i) /\ txs[i].mined /\ ~txs[i].done
        /\ IF txs[i].booked # Nowhere THEN txs' = [txs EXCEPT ![i].done = TRUE] /\ UNCHANGED req
           ELSE req' = [req EXCEPT ![r] = [pc |-> "write", tx |-> i, plan |-> p, over |-> FALSE]] /\ UNCHANGED txs
    BY Zenon DEF Report
  <1>2. CASE txs[i].booked # Nowhere
    <2>1. txs' = [txs EXCEPT ![i].done = TRUE] /\ req' = req
      BY <1>1, <1>2
    <2>2. QED
      BY <1>1, <1>2, <2>1, DoneIs
  <1>3. CASE txs[i].booked = Nowhere
    BY <1>1, <1>3, Zenon
  <1>4. QED
    BY <1>2, <1>3

LEMMA CutShortIs ==
    ASSUME SkillTypes, Facts, NEW r \in Requests, CutShort(r)
    PROVE  /\ UNCHANGED <<sk, wallet>> /\ req[r].pc # "none" /\ req' = [req EXCEPT ![r] = NoReport]
           /\ leeway.ends > 0 /\ leeway' = [leeway EXCEPT !.ends = @ - 1]
           /\ req[r].tx \in DOMAIN txs
           /\ \/ req[r].pc # "patch" /\ txs' = txs
              \/ /\ req[r].pc = "patch" /\ Only(req[r].tx) /\ Alike(txs'[req[r].tx], txs[req[r].tx])
                 /\ txs'[req[r].tx].cut /\ txs'[req[r].tx].booked = txs[req[r].tx].booked
                 /\ txs'[req[r].tx].done = txs[req[r].tx].done
  <1> DEFINE i == req[r].tx
  <1>1. /\ UNCHANGED <<sk, wallet>> /\ req[r].pc # "none" /\ req' = [req EXCEPT ![r] = NoReport]
        /\ leeway.ends > 0 /\ leeway' = [leeway EXCEPT !.ends = @ - 1]
        /\ txs' = IF req[r].pc = "patch" THEN [txs EXCEPT ![i].cut = TRUE] ELSE txs
    BY DEF CutShort
  <1>2. i \in DOMAIN txs
    BY <1>1, ReqAt
  <1> HIDE DEF i
  <1>3. CASE req[r].pc = "patch"
    <2>1. txs' = [txs EXCEPT ![i].cut = TRUE]
      BY <1>1, <1>3
    <2>2. Only(i) /\ Alike(txs'[i], txs[i]) /\ txs'[i].cut /\ txs'[i].booked = txs[i].booked
          /\ txs'[i].done = txs[i].done
      BY <1>2, <2>1, CutIs
    <2>3. QED
      BY <1>1, <1>2, <1>3, <2>2 DEF i
  <1>4. CASE req[r].pc # "patch"
    BY <1>1, <1>2, <1>4 DEF i
  <1>5. QED
    BY <1>3, <1>4

-----------------------------------------------------------------------------
(* The skill's side: every step keeps the types                            *)

Leeways1 == [plans : SUBSET SkillPlans, txs : Nat, days : Nat, rises : Nat, ends : Nat, obeys : BOOLEAN]
Wallets == [vt : Nat, rate : Nat \ {0}, does : {Rest} \cup Deeds]
LEMMA LeewayTypes ==
    ASSUME NEW l \in Leeways1
    PROVE  /\ l.ends > 0 => [l EXCEPT !.ends = @ - 1] \in Leeways1 /\ [l EXCEPT !.ends = @ - 1].obeys = l.obeys
                            /\ [l EXCEPT !.ends = @ - 1].rises = l.rises
           /\ l.rises > 0 => [l EXCEPT !.rises = @ - 1] \in Leeways1 /\ [l EXCEPT !.rises = @ - 1].obeys = l.obeys
                             /\ [l EXCEPT !.rises = @ - 1].rises = l.rises - 1
           /\ l.days > 0 => [l EXCEPT !.days = @ - 1] \in Leeways1 /\ [l EXCEPT !.days = @ - 1].obeys = l.obeys
                            /\ [l EXCEPT !.days = @ - 1].rises = l.rises
  BY DEF Leeways1

LEMMA DoesTypes ==
    ASSUME NEW w \in Wallets, NEW d \in {Rest} \cup Deeds
    PROVE  /\ [w EXCEPT !.does = d] \in Wallets /\ [w EXCEPT !.does = d].vt = w.vt
           /\ [w EXCEPT !.does = d].rate = w.rate /\ [w EXCEPT !.does = d].does = d
  BY DEF Wallets
LEMMA DoingTypes ==
    ASSUME NEW next \in {"deposit", "redeem", "swap"}, NEW p \in SkillPlans, NEW usd \in Nat, NEW redeem \in Nat
    PROVE  Doing(p, next, usd, redeem) \in Deeds
  BY DEF Doing, Deeds

\* The skill has begun something.
LEMMA DoesAt ==
    ASSUME SkillTypes, wallet.does # Rest
    PROVE  wallet.does \in Deeds
  BY DEF SkillTypes
LEMMA NotRest ==
    ASSUME SkillTypes, wallet.does.pc \in {"deposit", "redeem", "swap", "redeeming", "sending"}
    PROVE  wallet.does \in Deeds
  BY DEF SkillTypes, Rest

LEMMA AskIs ==
    ASSUME SkillTypes, NEW p \in SkillPlans, Ask(p)
    PROVE  /\ wallet.does = Rest /\ Buys(p) /\ UNCHANGED <<sk, txs, req, leeway>>
           /\ wallet' \in Wallets /\ wallet'.vt = wallet.vt /\ wallet'.rate = wallet.rate
           /\ wallet'.does.plan = p /\ wallet'.does.usd = Spend(p) /\ Spend(p) \in Nat
           /\ \/ /\ p \in YieldPlans /\ wallet'.does.pc = "redeem"
                 /\ wallet'.does.redeem = Drop(Spend(p), sk[p].harvested) /\ wallet'.does.redeem > 0
              \/ wallet'.does.pc = "swap"
  <1> DEFINE redeem == IF p \in YieldPlans THEN Drop(Spend(p), sk[p].harvested) ELSE 0
             next == IF redeem > 0 THEN "redeem" ELSE "swap"
             d == Doing(p, next, Spend(p), redeem)
  <1>1. /\ wallet.does = Rest /\ Buys(p) /\ UNCHANGED <<sk, txs, req, leeway>>
        /\ wallet' = [wallet EXCEPT !.does = d]
    BY DEF Ask
  <1>2. sk[p].harvested \in Nat /\ Spend(p) \in Nat
    <2>1. Spend(p) \in Nat
      BY SpendTypes
    <2>2. QED
      BY <2>1 DEF SkillTypes, SkillRows
  <1>3. redeem \in Nat
    <2> HIDE DEF Spend
    <2>1. QED
      BY <1>2, SmallTypes
  <1>4. d \in Deeds
    <2> HIDE DEF redeem, Spend
    <2>1. QED
      BY <1>2, <1>3, DoingTypes
  <1>5. d.pc = next /\ d.plan = p /\ d.usd = Spend(p) /\ d.redeem = redeem
    BY DEF Doing
  <1>6. wallet \in Wallets
    BY DEF SkillTypes, Wallets
  <1>7. wallet' \in Wallets /\ wallet'.vt = wallet.vt /\ wallet'.rate = wallet.rate /\ wallet'.does = d
    <2> HIDE DEF d
    <2>1. QED
      BY <1>1, <1>4, <1>6, DoesTypes
  <1>8. QED
    <2> HIDE DEF d, Spend
    <2>1. QED
      BY <1>1, <1>2, <1>3, <1>5, <1>7
LEMMA PutsIs ==
    ASSUME SkillTypes, NEW p \in SkillPlans, PutIn(p)
    PROVE  /\ wallet.does = Rest /\ UNCHANGED <<sk, txs, req, leeway>>
           /\ wallet' \in Wallets /\ wallet'.vt = wallet.vt /\ wallet'.rate = wallet.rate
           /\ wallet'.does.plan = p /\ wallet'.does.pc = "deposit" /\ wallet'.does.usd = Put
  <1> DEFINE d == Doing(p, "deposit", Put, 0)
  <1>1. wallet.does = Rest /\ wallet' = [wallet EXCEPT !.does = d] /\ UNCHANGED <<sk, txs, req, leeway>>
    BY DEF PutIn
  <1>2. d \in Deeds
    BY SkillAssumption, DoingTypes
  <1>3. d.pc = "deposit" /\ d.plan = p /\ d.usd = Put
    BY DEF Doing
  <1>4. wallet \in Wallets
    BY DEF SkillTypes, Wallets
  <1>5. wallet' \in Wallets /\ wallet'.vt = wallet.vt /\ wallet'.rate = wallet.rate /\ wallet'.does = d
    <2> HIDE DEF d
    <2>1. QED
      BY <1>1, <1>2, <1>4, DoesTypes
  <1>6. QED
    <2> HIDE DEF d
    <2>1. QED
      BY <1>1, <1>3, <1>5

LEMMA SendsIs ==
    ASSUME SkillTypes, Send
    PROVE  /\ wallet.does \in Deeds /\ wallet.does.pc \in {"deposit", "redeem", "swap"} /\ UNCHANGED <<sk, req, leeway>>
           /\ Sent(wallet.does.pc, wallet.does.plan,
                   IF wallet.does.pc = "redeem" THEN wallet.does.redeem ELSE wallet.does.usd)
           /\ wallet' \in Wallets /\ wallet'.vt = wallet.vt /\ wallet'.rate = wallet.rate
           /\ wallet'.does.plan = wallet.does.plan /\ wallet'.does.usd = wallet.does.usd
           /\ wallet'.does.redeem = wallet.does.redeem /\ wallet'.does.tx = Len(txs) + 1
           /\ wallet'.does.pc = IF wallet.does.pc = "redeem" THEN "redeeming" ELSE "sending"
  <1> DEFINE next == IF wallet.does.pc = "redeem" THEN "redeeming" ELSE "sending"
             k == Len(txs) + 1
             w == [wallet EXCEPT !.does.tx = k, !.does.pc = next]
  <1>1. /\ wallet.does.pc \in {"deposit", "redeem", "swap"} /\ UNCHANGED <<sk, req, leeway>>
        /\ Sent(wallet.does.pc, wallet.does.plan,
                   IF wallet.does.pc = "redeem" THEN wallet.does.redeem ELSE wallet.does.usd)
        /\ wallet' = w
    BY Zenon DEF Send
  <1>2. wallet.does \in Deeds
    BY <1>1, NotRest
  <1>3. k \in Nat
    BY TxAt
  <1>4. wallet \in Wallets
    BY DEF SkillTypes, Wallets
  <1> DEFINE d == [wallet.does EXCEPT !.tx = k, !.pc = next]
  <1>5. /\ d \in Deeds /\ d.plan = wallet.does.plan /\ d.usd = wallet.does.usd
        /\ d.redeem = wallet.does.redeem /\ d.tx = k /\ d.pc = next
    <2> HIDE DEF k
    <2>1. QED
      BY <1>2, <1>3 DEF Deeds
  <1>6. w = [wallet EXCEPT !.does = d]
    <2> HIDE DEF k, next
    <2>1. QED
      BY <1>2, <1>4 DEF Wallets, Deeds
  <1>7. wallet' \in Wallets /\ wallet'.vt = wallet.vt /\ wallet'.rate = wallet.rate /\ wallet'.does = d
    <2> HIDE DEF d, w
    <2>1. QED
      BY <1>1, <1>4, <1>5, <1>6, DoesTypes
  <1>8. QED
    <2> HIDE DEF d
    <2>1. QED
      BY <1>1, <1>2, <1>5, <1>7
LEMMA NextIs ==
    ASSUME SkillTypes, Next1 \/ Decline
    PROVE  /\ UNCHANGED <<sk, txs, req, leeway>>
           /\ wallet' \in Wallets /\ wallet'.vt = wallet.vt /\ wallet'.rate = wallet.rate
           /\ \/ wallet'.does = Rest /\ Decline
              \/ wallet'.does = Rest /\ wallet.does.pc = "sending" /\ txs[wallet.does.tx].done
              \/ /\ wallet.does.pc = "redeeming" /\ txs[wallet.does.tx].done /\ wallet'.does.pc = "swap"
                 /\ wallet'.does.plan = wallet.does.plan /\ wallet'.does.usd = wallet.does.usd
  <1>1. wallet \in Wallets
    BY DEF SkillTypes, Wallets
  <1>2. CASE Decline
    <2>1. wallet' = [wallet EXCEPT !.does = Rest] /\ UNCHANGED <<sk, txs, req, leeway>>
      BY <1>2 DEF Decline
    <2>2. QED
      BY <1>1, <1>2, <2>1, DoesTypes
  <1>3. CASE Next1
    <2> DEFINE d == IF wallet.does.pc = "redeeming" THEN [wallet.does EXCEPT !.pc = "swap"] ELSE Rest
    <2>1. /\ wallet' = [wallet EXCEPT !.does = d] /\ UNCHANGED <<sk, txs, req, leeway>>
          /\ wallet.does.pc \in {"redeeming", "sending"} /\ txs[wallet.does.tx].done
      BY <1>3 DEF Next1
    <2>2. wallet.does \in Deeds
      BY <2>1, NotRest
    <2>3. /\ d \in {Rest} \cup Deeds
          /\ wallet.does.pc = "redeeming" => /\ d.pc = "swap" /\ d.plan = wallet.does.plan
                                             /\ d.usd = wallet.does.usd
          /\ wallet.does.pc # "redeeming" => d = Rest
      BY <2>2 DEF Deeds
    <2> HIDE DEF d
    <2>4. wallet' \in Wallets /\ wallet'.vt = wallet.vt /\ wallet'.rate = wallet.rate /\ wallet'.does = d
      BY <1>1, <2>1, <2>3, DoesTypes
    <2>5. QED
      BY <2>1, <2>3, <2>4
  <1>4. QED
    BY <1>2, <1>3

LEMMA ReqTypes ==
    ASSUME SkillTypes, NEW r \in Requests, NEW q \in {NoReport} \cup Reports, req' = [req EXCEPT ![r] = q]
    PROVE  /\ req' \in [Requests -> {NoReport} \cup Reports] /\ req'[r] = q
           /\ \A s \in Requests : s # r => req'[s] = req[s]
  BY DEF SkillTypes
\* Its write made, the request goes on to its patch.
LEMMA ToPatch ==
    ASSUME SkillTypes, NEW r \in Requests, NEW b \in BOOLEAN, req[r] \in Reports,
           req' = [req EXCEPT ![r].pc = "patch", ![r].over = b]
    PROVE  /\ req' \in [Requests -> {NoReport} \cup Reports] /\ req'[r].pc = "patch"
           /\ req'[r].tx = req[r].tx /\ req'[r].plan = req[r].plan /\ req'[r].over = b
           /\ \A s \in Requests : s # r => req'[s] = req[s]
  <1> DEFINE q == [req[r] EXCEPT !.pc = "patch", !.over = b]
  <1>1. q \in Reports /\ q.pc = "patch" /\ q.tx = req[r].tx /\ q.plan = req[r].plan /\ q.over = b
    BY DEF Reports
  <1>2. req' = [req EXCEPT ![r] = q]
    BY DEF SkillTypes, Reports
  <1> HIDE DEF q
  <1>3. QED
    BY <1>1, <1>2, ReqTypes

LEMMA TomorrowIs ==
    ASSUME SkillTypes, Tomorrow
    PROVE  /\ sk' \in [SkillPlans -> SkillRows] /\ leeway' \in Leeways1 /\ leeway'.obeys = leeway.obeys
           /\ leeway'.rises = leeway.rises /\ UNCHANGED <<wallet, txs, req>>
           /\ \A p \in SkillPlans :
                /\ sk'[p].today = 0 /\ sk'[p].made = sk[p].made /\ sk'[p].principal = sk[p].principal
                /\ sk'[p].vt = sk[p].vt /\ sk'[p].spent = sk[p].spent
                /\ sk'[p].status = sk[p].status /\ sk'[p].reason = sk[p].reason
                /\ sk[p] = Unmade => sk'[p] = Unmade
  <1>1. leeway \in Leeways1 /\ sk \in [SkillPlans -> SkillRows]
    BY DEF SkillTypes, Leeways1
  <1>2. /\ leeway.days > 0 /\ leeway' = [leeway EXCEPT !.days = @ - 1] /\ UNCHANGED <<wallet, txs, req>>
        /\ sk' = [p \in SkillPlans |-> [sk[p] EXCEPT !.today = 0, !.due = TRUE]]
    BY Zenon DEF Tomorrow
  <1>3. leeway' \in Leeways1 /\ leeway'.obeys = leeway.obeys /\ leeway'.rises = leeway.rises
    BY <1>1, <1>2, LeewayTypes
  <1>4. ASSUME NEW row \in SkillRows
        PROVE LET new == [row EXCEPT !.today = 0, !.due = TRUE]
              IN /\ new \in SkillRows /\ new.today = 0 /\ new.made = row.made /\ new.principal = row.principal
                 /\ new.vt = row.vt /\ new.spent = row.spent /\ new.status = row.status /\ new.reason = row.reason
                 /\ row = Unmade => new = Unmade
    <2>1. row = Unmade => [row EXCEPT !.today = 0, !.due = TRUE] = Unmade
      <3>1. Unmade.today = 0 /\ Unmade.due = TRUE
        BY DEF Unmade
      <3>2. [row EXCEPT !.today = row.today, !.due = row.due] = row
        BY DEF SkillRows
      <3>3. QED
        BY <3>1, <3>2
    <2>2. QED
      BY <2>1 DEF SkillRows
  <1>5. sk' \in [SkillPlans -> SkillRows]
    BY <1>1, <1>2, <1>4
  <1>6. \A p \in SkillPlans : sk'[p] = [sk[p] EXCEPT !.today = 0, !.due = TRUE] /\ sk[p] \in SkillRows
    BY <1>1, <1>2
  <1>7. QED
    BY <1>2, <1>3, <1>4, <1>5, <1>6
LEMMA AccrueIs ==
    ASSUME SkillTypes, Accrue
    PROVE  /\ leeway' \in Leeways1 /\ leeway'.obeys = leeway.obeys /\ leeway'.rises = leeway.rises - 1
           /\ wallet' \in Wallets /\ wallet'.vt = wallet.vt /\ wallet'.does = wallet.does
           /\ wallet'.rate = wallet.rate + 1 /\ UNCHANGED <<sk, txs, req>>
  <1>1. leeway \in Leeways1 /\ wallet \in Wallets
    BY DEF SkillTypes, Leeways1, Wallets
  <1>2. /\ leeway.rises > 0 /\ leeway' = [leeway EXCEPT !.rises = @ - 1] /\ UNCHANGED <<sk, txs, req>>
        /\ wallet' = [wallet EXCEPT !.rate = @ + 1]
    BY DEF Accrue
  <1>3. leeway' \in Leeways1 /\ leeway'.obeys = leeway.obeys /\ leeway'.rises = leeway.rises - 1
    BY <1>1, <1>2, LeewayTypes
  <1>4. QED
    BY <1>1, <1>2, <1>3 DEF Wallets

LEMMA StopIs ==
    ASSUME SkillTypes, NEW p \in SkillPlans, StopSkill(p)
    PROVE  /\ UNCHANGED <<wallet, txs, req, leeway>> /\ sk[p].made /\ sk' = [sk EXCEPT ![p] = sk'[p]]
           /\ sk'[p] \in SkillRows /\ sk'[p].made = sk[p].made /\ sk'[p].principal = sk[p].principal
           /\ sk'[p].vt = sk[p].vt /\ sk'[p].today = sk[p].today /\ sk'[p].spent = sk[p].spent
           /\ sk'[p].status = "stopped" /\ sk'[p].reason = "stopped_by_owner"
  <1> DEFINE row == sk[p]
             new == [row EXCEPT !.status = "stopped", !.reason = "stopped_by_owner"]
  <1>1. row \in SkillRows /\ sk \in [SkillPlans -> SkillRows]
    BY DEF SkillTypes
  <1>2. /\ UNCHANGED <<wallet, txs, req, leeway>> /\ row.made
        /\ sk' = [sk EXCEPT ![p].status = "stopped", ![p].reason = "stopped_by_owner"]
    BY Zenon DEF StopSkill
  <1>3. sk' = [sk EXCEPT ![p] = new]
    BY <1>1, <1>2
  <1>4. /\ new \in SkillRows /\ new.made = row.made /\ new.principal = row.principal /\ new.vt = row.vt
        /\ new.today = row.today /\ new.spent = row.spent
        /\ new.status = "stopped" /\ new.reason = "stopped_by_owner"
    <2> HIDE DEF row
    <2>1. QED
      BY <1>1 DEF SkillRows, SkillStatuses, SkillReasons
  <1> HIDE DEF new
  <1>5. sk'[p] = new
    BY <1>1, <1>3
  <1>6. QED
    BY <1>2, <1>3, <1>4, <1>5

LEMMA TypesStep ==
    ASSUME SkillTypes, Facts, SkillNext
    PROVE  SkillTypes'
  <1> USE DEF Wallets, Leeways1
  <1>0. UNCHANGED <<sk, wallet, txs, req, leeway>> => SkillTypes'
    BY Zenon DEF SkillTypes
  <1>1. ASSUME NEW p \in SkillPlans, Make(p) PROVE SkillTypes'
    <2>1. sk' \in [SkillPlans -> SkillRows]
      BY <1>1, MadeIs, RowsType
    <2>2. QED
      BY <1>1, <2>1, Zenon DEF Make, SkillTypes
  <1>2. ASSUME NEW p \in SkillPlans, StopSkill(p) PROVE SkillTypes'
    <2>1. sk' \in [SkillPlans -> SkillRows]
      BY <1>2, StopIs, RowsType
    <2>2. QED
      BY <1>2, <2>1, Zenon DEF StopSkill, SkillTypes
  <1>3. ASSUME NEW p \in SkillPlans, Ask(p) \/ PutIn(p) PROVE SkillTypes'
    <2>1. wallet' \in Wallets /\ UNCHANGED <<sk, txs, req, leeway>>
      BY <1>3, AskIs, PutsIs
    <2>2. QED
      BY <2>1, Zenon DEF SkillTypes
  <1>4. ASSUME NEW p \in SkillPlans, Free(p) PROVE SkillTypes'
    <2>1. Sent("swap", p, PerBuy) /\ PerBuy \in Nat /\ "swap" \in Kinds /\ UNCHANGED <<sk, wallet, req, leeway>>
      BY <1>4, SkillAssumption DEF Free, Kinds
    <2>2. txs' \in Seq(Sends)
      BY <2>1, SendTypes
    <2>3. QED
      BY <2>1, <2>2, Zenon DEF SkillTypes
  <1>5. CASE Send
    <2> DEFINE d == wallet.does
               usd == IF d.pc = "redeem" THEN d.redeem ELSE d.usd
    <2>1. d \in Deeds /\ d.pc \in {"deposit", "redeem", "swap"} /\ Sent(d.pc, d.plan, usd)
          /\ UNCHANGED <<sk, req, leeway>> /\ wallet' \in Wallets
      BY <1>5, SendsIs
    <2>2. d.pc \in Kinds /\ d.plan \in SkillPlans /\ usd \in Nat
      BY <2>1 DEF Deeds, Kinds
    <2>3. txs' \in Seq(Sends)
      <3> HIDE DEF d, usd
      <3>1. QED
        BY <2>1, <2>2, SendTypes
    <2>4. QED
      BY <2>1, <2>3, Zenon DEF SkillTypes
  <1>6. CASE Next1 \/ Decline
    <2>1. wallet' \in Wallets /\ UNCHANGED <<sk, txs, req, leeway>>
      BY <1>6, NextIs
    <2>2. QED
      BY <2>1, Zenon DEF SkillTypes
  <1>7. ASSUME NEW i \in DOMAIN txs, MineTx(i) PROVE SkillTypes'
    <2>1. wallet' \in Wallets /\ txs' \in Seq(Sends) /\ UNCHANGED <<sk, req, leeway>>
      BY <1>7, MineIs
    <2>2. QED
      BY <2>1, Zenon DEF SkillTypes
  <1>8. ASSUME NEW i \in DOMAIN txs, NEW r \in Requests, NEW p \in SkillPlans, Report(r, i, p) PROVE SkillTypes'
    <2>1. UNCHANGED <<sk, wallet, leeway>>
      BY <1>8, ReportIs
    <2>2. txs' \in Seq(Sends)
      <3>1. txs' = txs \/ Only(i)
        BY <1>8, ReportIs
      <3>2. QED
        BY <3>1 DEF Only, SkillTypes
    <2>3. req' \in [Requests -> {NoReport} \cup Reports]
      <3> DEFINE q == [pc |-> "write", tx |-> i, plan |-> p, over |-> FALSE]
      <3>1. q \in Reports
        BY TxAt DEF Reports
      <3>2. req' = req \/ req' = [req EXCEPT ![r] = q]
        BY <1>8, ReportIs
      <3> HIDE DEF q
      <3>3. CASE req' = req
        BY <3>3 DEF SkillTypes
      <3>4. CASE req' = [req EXCEPT ![r] = q]
        BY <3>1, <3>4, ReqTypes
      <3>5. QED
        BY <3>2, <3>3, <3>4
    <2>4. QED
      BY <2>1, <2>2, <2>3, Zenon DEF SkillTypes
  <1>9. ASSUME NEW r \in Requests, Write(r) PROVE SkillTypes'
    <2> DEFINE i == req[r].tx
               p == req[r].plan
               tx == txs[i]
    <2>1. /\ req[r] \in Reports /\ i \in DOMAIN txs /\ p \in SkillPlans /\ tx \in Sends
          /\ (tx.kind = "redeem" => tx.vt > 0)
      BY <1>9, ReqAt DEF Write
    <2>2. UNCHANGED <<wallet, leeway>> /\ txs' \in Seq(Sends)
      BY <1>9, WriteIs DEF Only
    <2>3. \/ sk' = sk /\ req' = [req EXCEPT ![r] = NoReport]
          \/ /\ sk' = [sk EXCEPT ![p] = Booked(p, tx)]
             /\ req' = [req EXCEPT ![r].pc = "patch", ![r].over = tx.kind = "swap" /\ OverLimit(p, tx.usd)]
      BY <1>9, WriteIs, Zenon
    <2>4. sk' \in [SkillPlans -> SkillRows]
      <3> HIDE DEF p, tx
      <3>1. Booked(p, tx) \in SkillRows
        BY <2>1, BookedIs
      <3>2. sk' = sk \/ sk' = [sk EXCEPT ![p] = Booked(p, tx)]
        BY <2>3
      <3>3. QED
        BY <2>1, <3>1, <3>2, RowsType DEF SkillTypes
    <2>5. req' \in [Requests -> {NoReport} \cup Reports]
      <3> DEFINE over == tx.kind = "swap" /\ OverLimit(p, tx.usd)
      <3>1. over \in BOOLEAN
        OBVIOUS
      <3>2. req' = [req EXCEPT ![r] = NoReport] \/ req' = [req EXCEPT ![r].pc = "patch", ![r].over = over]
        BY <2>3, Zenon
      <3> HIDE DEF over
      <3>3. CASE req' = [req EXCEPT ![r] = NoReport]
        BY <3>3, ReqTypes
      <3>4. CASE req' = [req EXCEPT ![r].pc = "patch", ![r].over = over]
        BY <2>1, <3>1, <3>4, ToPatch
      <3>5. QED
        BY <3>2, <3>3, <3>4
    <2>6. QED
      BY <2>2, <2>4, <2>5, Zenon DEF SkillTypes
  <1>10. ASSUME NEW r \in Requests, Patch(r) PROVE SkillTypes'
    <2>1. UNCHANGED <<wallet, leeway>> /\ txs' \in Seq(Sends) /\ req' = [req EXCEPT ![r] = NoReport]
      BY <1>10, PatchIs DEF Only
    <2>2. req' \in [Requests -> {NoReport} \cup Reports]
      BY <2>1, ReqTypes
    <2> DEFINE p == req[r].plan
    <2>3. p \in SkillPlans /\ sk'[p] \in SkillRows /\ sk' = [sk EXCEPT ![p] = sk'[p]]
      BY <1>10, PatchIs
    <2>4. sk' \in [SkillPlans -> SkillRows]
      <3> HIDE DEF p
      <3>1. QED
        BY <2>3, RowsType
    <2>5. QED
      BY <2>1, <2>2, <2>4, Zenon DEF SkillTypes
  <1>11. ASSUME NEW r \in Requests, CutShort(r) PROVE SkillTypes'
    <2>1. UNCHANGED <<sk, wallet>> /\ req' = [req EXCEPT ![r] = NoReport] /\ leeway.ends > 0
          /\ leeway' = [leeway EXCEPT !.ends = @ - 1]
      BY <1>11, CutShortIs
    <2>2. txs' \in Seq(Sends)
      <3>1. txs' = txs \/ Only(req[r].tx)
        BY <1>11, CutShortIs
      <3>2. QED
        BY <3>1 DEF Only, SkillTypes
    <2>3. req' \in [Requests -> {NoReport} \cup Reports]
      BY <2>1, ReqTypes
    <2>4. leeway' \in Leeways1
      BY <2>1, LeewayTypes DEF SkillTypes
    <2>5. QED
      BY <2>1, <2>2, <2>3, <2>4, Zenon DEF SkillTypes
  <1>12. CASE Accrue
    <2>1. wallet' \in Wallets /\ leeway' \in Leeways1 /\ UNCHANGED <<sk, txs, req>>
      BY <1>12, AccrueIs
    <2>2. QED
      BY <2>1, Zenon DEF SkillTypes
  <1>13. CASE Tomorrow
    <2>1. sk' \in [SkillPlans -> SkillRows] /\ leeway' \in Leeways1 /\ UNCHANGED <<wallet, txs, req>>
      BY <1>13, TomorrowIs
    <2>2. QED
      BY <2>1, Zenon DEF SkillTypes
  <1>14. QED
    BY <1>1, <1>2, <1>3, <1>4, <1>5, <1>6, <1>7, <1>8, <1>9, <1>10, <1>11, <1>12, <1>13, Zenon DEF SkillNext

-----------------------------------------------------------------------------
(* The skill's side: what a report found stays so                          *)

\* No step takes back what was mined, recorded or made.
Onward == /\ DOMAIN txs \subseteq DOMAIN txs'
          /\ \A i \in DOMAIN txs : /\ txs[i].mined => txs'[i].mined
                                   /\ txs[i].booked # Nowhere => txs'[i].booked = txs[i].booked
                                   /\ txs[i].done => txs'[i].done
                                   /\ txs[i].cut => txs'[i].cut
                                   /\ txs'[i].kind = txs[i].kind /\ txs'[i].plan = txs[i].plan
TxOnward ==
    DOMAIN txs' = DOMAIN txs /\
    \E i \in DOMAIN txs :
      /\ \A j \in DOMAIN txs : j # i => txs'[j] = txs[j]
      /\ txs[i].mined => txs'[i].mined
      /\ txs[i].booked # Nowhere => txs'[i].booked = txs[i].booked
      /\ txs[i].done => txs'[i].done
      /\ txs[i].cut => txs'[i].cut
      /\ txs'[i].kind = txs[i].kind /\ txs'[i].plan = txs[i].plan
      /\ txs'[i].booked # Nowhere => txs'[i].mined
      /\ txs'[i].done => txs'[i].booked # Nowhere
      /\ txs'[i].kind = "redeem" => txs'[i].usd > 0 /\ (txs'[i].mined => txs'[i].vt > 0)
LEMMA OneOnward ==
    ASSUME TxFacts, TxOnward
    PROVE  Onward /\ TxFacts'
  <1>1. PICK i \in DOMAIN txs :
          /\ \A j \in DOMAIN txs : j # i => txs'[j] = txs[j]
          /\ txs[i].mined => txs'[i].mined
          /\ txs[i].booked # Nowhere => txs'[i].booked = txs[i].booked
          /\ txs[i].done => txs'[i].done
          /\ txs[i].cut => txs'[i].cut
          /\ txs'[i].kind = txs[i].kind /\ txs'[i].plan = txs[i].plan
          /\ txs'[i].booked # Nowhere => txs'[i].mined
          /\ txs'[i].done => txs'[i].booked # Nowhere
          /\ txs'[i].kind = "redeem" => txs'[i].usd > 0 /\ (txs'[i].mined => txs'[i].vt > 0)
    BY DEF TxOnward
  <1>2. DOMAIN txs' = DOMAIN txs
    BY DEF TxOnward
  <1>3. Onward
    BY <1>1, <1>2 DEF Onward
  <1>4. TxFacts'
    <2> SUFFICES ASSUME NEW j \in DOMAIN txs'
        PROVE  /\ txs'[j].booked # Nowhere => txs'[j].mined
               /\ txs'[j].done => txs'[j].booked # Nowhere
               /\ txs'[j].kind = "redeem" => txs'[j].usd > 0 /\ (txs'[j].mined => txs'[j].vt > 0)
      BY DEF TxFacts
    <2>1. CASE j = i
      BY <1>1, <2>1
    <2>2. CASE j # i
      BY <1>1, <1>2, <2>2 DEF TxFacts
    <2>3. QED
      BY <2>1, <2>2
  <1>5. QED
    BY <1>3, <1>4
LEMMA SameOnward ==
    ASSUME TxFacts, txs' = txs
    PROVE  Onward /\ TxFacts'
  BY DEF TxFacts, Onward
LEMMA SendOnward ==
    ASSUME SkillTypes, TxFacts, NEW kind \in Kinds, NEW p \in SkillPlans, NEW usd \in Nat, Sent(kind, p, usd),
           kind = "redeem" => usd > 0
    PROVE  Onward /\ TxFacts'
  <1> DEFINE n == Len(txs) + 1
  <1>1. /\ DOMAIN txs' = DOMAIN txs \cup {n} /\ \A i \in DOMAIN txs : txs'[i] = txs[i] /\ i # n
        /\ txs'[n] = [kind |-> kind, plan |-> p, usd |-> usd, vt |-> 0, mined |-> FALSE,
                                    booked |-> Nowhere, done |-> FALSE, cut |-> FALSE]
    BY SendTypes
  <1>2. /\ txs'[n].mined = FALSE /\ txs'[n].done = FALSE /\ txs'[n].booked = Nowhere
        /\ txs'[n].kind = kind /\ txs'[n].usd = usd
    BY <1>1
  <1> HIDE DEF n
  <1>3. Onward
    BY <1>1 DEF Onward
  <1>4. TxFacts'
    BY <1>1, <1>2 DEF TxFacts
  <1>5. QED
    BY <1>3, <1>4

LEMMA TxStep ==
    ASSUME SkillTypes, Facts, SkillNext
    PROVE  Onward /\ TxFacts'
  <1>0. TxFacts
    BY DEF Facts
  <1>1. ASSUME NEW p \in SkillPlans, Make(p) \/ StopSkill(p) \/ Ask(p) \/ PutIn(p) PROVE txs' = txs
    BY <1>1, Zenon DEF Make, StopSkill, Ask, PutIn
  <1>2. ASSUME NEW p \in SkillPlans, Free(p) PROVE Onward /\ TxFacts'
    <2>1. Sent("swap", p, PerBuy) /\ PerBuy \in Nat /\ "swap" \in Kinds
      BY <1>2, SkillAssumption DEF Free, Kinds
    <2>2. QED
      BY <1>0, <2>1, SendOnward
  <1>3. CASE Send
    <2> DEFINE d == wallet.does
               usd == IF d.pc = "redeem" THEN d.redeem ELSE d.usd
               kind == d.pc
               p == d.plan
    <2>1. d \in Deeds /\ d.pc \in {"deposit", "redeem", "swap"} /\ Sent(kind, p, usd)
      BY <1>3, SendsIs
    <2>2. kind \in Kinds /\ p \in SkillPlans /\ usd \in Nat
      BY <2>1 DEF Deeds, Kinds
    <2>3. kind = "redeem" => usd > 0
      BY DEF Facts, DoesFacts
    <2>4. QED
      <3> HIDE DEF d, usd, kind, p
      <3>1. QED
        BY <1>0, <2>1, <2>2, <2>3, SendOnward
  <1>4. CASE Next1 \/ Decline \/ Accrue \/ Tomorrow
    BY <1>0, <1>4, SameOnward, Zenon DEF Next1, Decline, Accrue, Tomorrow
  <1>5. ASSUME NEW i \in DOMAIN txs, MineTx(i) PROVE Onward /\ TxFacts'
    <2>1. txs[i].kind = "redeem" => txs[i].usd > 0
      BY <1>0 DEF TxFacts
    <2>2. txs[i].done => txs[i].booked # Nowhere
      BY <1>0 DEF TxFacts
    <2>3. txs[i].kind = "redeem" => txs'[i].vt \in Nat /\ txs'[i].vt > 0 /\ txs'[i].usd = txs'[i].vt * wallet.rate
      BY <1>5, MineIs
    <2>4. txs'[i].kind = "redeem" => txs'[i].usd > 0 /\ txs'[i].vt > 0
      <3> DEFINE n == txs'[i].vt
                 m == wallet.rate
      <3>1. m \in Nat /\ m > 0
        BY DEF SkillTypes
      <3>2. n \in Nat /\ n > 0 => n * m > 0
        <4> HIDE DEF n, m
        <4>1. QED
          BY <3>1, PosMul
      <3>3. QED
        BY <1>5, <2>3, <3>2, MineIs
    <2>5. TxOnward
      <3>1. DOMAIN txs' = DOMAIN txs
        BY <1>5, MineIs
      <3>2. /\ \A j \in DOMAIN txs : j # i => txs'[j] = txs[j]
            /\ txs'[i].mined /\ txs'[i].booked = txs[i].booked /\ txs'[i].done = txs[i].done
            /\ txs'[i].cut = txs[i].cut /\ txs'[i].kind = txs[i].kind /\ txs'[i].plan = txs[i].plan
        BY <1>5, MineIs
      <3>3. QED
        BY <2>2, <2>4, <3>1, <3>2 DEF TxOnward
    <2>6. QED
      BY <1>0, <2>5, OneOnward
  <1>6. ASSUME NEW i \in DOMAIN txs, Only(i), Alike(txs'[i], txs[i]),
               txs[i].mined, txs[i].booked # Nowhere => txs'[i].booked = txs[i].booked,
               txs[i].done => txs'[i].done, txs[i].cut => txs'[i].cut,
               txs'[i].done => txs'[i].booked # Nowhere
        PROVE  Onward /\ TxFacts'
    <2>1. txs[i].kind = "redeem" => txs[i].usd > 0 /\ txs[i].vt > 0
      BY <1>0, <1>6 DEF TxFacts
    <2>2. TxOnward
      BY <1>6, <2>1 DEF TxOnward, Only, Alike
    <2>3. QED
      BY <1>0, <2>2, OneOnward
  <1>7. ASSUME NEW i \in DOMAIN txs, NEW r \in Requests, NEW p \in SkillPlans, Report(r, i, p)
        PROVE Onward /\ TxFacts'
    <2>1. \/ txs' = txs
          \/ /\ Only(i) /\ Alike(txs'[i], txs[i]) /\ txs[i].mined /\ txs[i].booked # Nowhere
             /\ txs'[i].booked = txs[i].booked /\ txs'[i].done /\ txs'[i].cut = txs[i].cut
      BY <1>7, ReportIs
    <2>2. QED
      BY <1>0, <1>6, <2>1, SameOnward
  <1>8. ASSUME NEW r \in Requests, Write(r) PROVE Onward /\ TxFacts'
    <2> DEFINE i == req[r].tx
    <2>1. /\ i \in DOMAIN txs /\ txs[i].mined /\ Only(i) /\ Alike(txs'[i], txs[i]) /\ txs'[i].cut = txs[i].cut
          /\ \/ txs[i].booked # Nowhere /\ txs'[i].booked = txs[i].booked /\ txs'[i].done
             \/ txs[i].booked = Nowhere /\ txs'[i].booked \in SkillPlans /\ txs'[i].done = txs[i].done
      BY <1>8, WriteIs, ReqAt
    <2>2. Nowhere \notin SkillPlans
      BY SkillAssumption
    <2>3. txs'[i].done => txs'[i].booked # Nowhere
      BY <2>1, <2>2
    <2> HIDE DEF i
    <2>4. txs[i].done => txs'[i].done
      BY <2>1
    <2>5. QED
      BY <1>6, <2>1, <2>3, <2>4
  <1>9. ASSUME NEW r \in Requests, Patch(r) PROVE Onward /\ TxFacts'
    <2> DEFINE i == req[r].tx
    <2>1. /\ i \in DOMAIN txs /\ txs[i].mined /\ Only(i) /\ Alike(txs'[i], txs[i]) /\ txs'[i].cut = txs[i].cut
          /\ txs'[i].booked = txs[i].booked /\ txs'[i].done
      BY <1>9, PatchIs, ReqAt
    <2>2. txs[i].booked # Nowhere
      BY <1>9 DEF Patch, Facts, ReqFacts
    <2> HIDE DEF i
    <2>3. QED
      BY <1>6, <2>1, <2>2
  <1>10. ASSUME NEW r \in Requests, CutShort(r) PROVE Onward /\ TxFacts'
    <2> DEFINE i == req[r].tx
    <2>1. /\ i \in DOMAIN txs
          /\ \/ txs' = txs
             \/ /\ Only(i) /\ Alike(txs'[i], txs[i]) /\ txs[i].mined /\ txs'[i].cut
                /\ txs'[i].booked = txs[i].booked /\ txs'[i].done = txs[i].done
      BY <1>10, CutShortIs, ReqAt
    <2> HIDE DEF i
    <2>2. txs[i].done => txs[i].booked # Nowhere
      BY <1>0, <2>1 DEF TxFacts
    <2>3. QED
      BY <1>0, <1>6, <2>1, <2>2, SameOnward
  <1>11. QED
    BY <1>0, <1>1, <1>2, <1>3, <1>4, <1>5, <1>7, <1>8, <1>9, <1>10, SameOnward, Zenon DEF SkillNext

\* A row no step touched, or one that keeps what RowFacts asks.
LEMMA OneRow ==
    ASSUME SkillTypes, RowFacts, NEW p \in SkillPlans, sk' = [sk EXCEPT ![p] = sk'[p]], sk'[p].made,
           sk'[p].reason = "awaiting_deposit" => sk'[p].status = "paused" /\ p \in YieldPlans
    PROVE  RowFacts' /\ \A q \in SkillPlans : sk[q].made => sk'[q].made
  <1>1. \A q \in SkillPlans : q # p => sk'[q] = sk[q]
    BY DEF SkillTypes
  <1>2. QED
    BY <1>1 DEF RowFacts

LEMMA RowStep ==
    ASSUME SkillTypes, Facts, SkillNext
    PROVE  RowFacts' /\ \A q \in SkillPlans : sk[q].made => sk'[q].made
  <1> DEFINE Good == RowFacts' /\ \A q \in SkillPlans : sk[q].made => sk'[q].made
  <1>0. RowFacts
    BY DEF Facts
  <1>1. sk' = sk => Good
    BY <1>0 DEF RowFacts
  <1>2. ASSUME NEW p \in SkillPlans, Make(p) PROVE Good
    BY <1>0, <1>2, MadeIs, OneRow
  <1>3. ASSUME NEW p \in SkillPlans, StopSkill(p) PROVE Good
    BY <1>0, <1>3, StopIs, OneRow
  <1>4. ASSUME NEW r \in Requests, Write(r) PROVE Good
    <2> DEFINE p == req[r].plan
               tx == txs[req[r].tx]
    <2>1. /\ p \in SkillPlans /\ tx \in Sends /\ (tx.kind = "redeem" => tx.vt > 0) /\ sk[p].made
          /\ tx.kind \in Kinds
      BY <1>4, WriteIs, ReqAt, SendFields DEF Facts, ReqFacts
    <2>2. sk' = sk \/ sk' = [sk EXCEPT ![p] = Booked(p, tx)]
      BY <1>4, WriteIs
    <2> HIDE DEF p, tx
    <2>3. CASE sk' = [sk EXCEPT ![p] = Booked(p, tx)]
      <3>1. /\ Booked(p, tx).made = sk[p].made
            /\ \/ Booked(p, tx).status = sk[p].status /\ Booked(p, tx).reason = sk[p].reason
               \/ Booked(p, tx).status = "paused" /\ Booked(p, tx).reason = "redeemed"
        BY <2>1, BookedIs DEF Kinds
      <3>2. sk'[p] = Booked(p, tx)
        BY <2>1, <2>3 DEF SkillTypes
      <3>3. sk'[p].reason = "awaiting_deposit" => sk'[p].status = "paused" /\ p \in YieldPlans
        BY <1>0, <2>1, <3>1, <3>2 DEF RowFacts
      <3>4. QED
        BY <1>0, <2>1, <2>3, <3>1, <3>2, <3>3, OneRow
    <2>4. QED
      BY <1>1, <2>2, <2>3
  <1>5. ASSUME NEW r \in Requests, Patch(r) PROVE Good
    <2> DEFINE p == req[r].plan
    <2>1. /\ p \in SkillPlans /\ sk[p].made /\ sk' = [sk EXCEPT ![p] = sk'[p]] /\ sk'[p].made = sk[p].made
      BY <1>5, PatchIs DEF Facts, ReqFacts
    <2>2. \/ sk'[p].reason = "" \/ sk'[p].reason = "report_over_limit" \/ sk'[p] = sk[p]
      BY <1>5, PatchIs
    <2> HIDE DEF p
    <2>3. sk'[p].reason = "awaiting_deposit" => sk'[p].status = "paused" /\ p \in YieldPlans
      BY <1>0, <2>1, <2>2 DEF RowFacts
    <2>4. QED
      BY <1>0, <2>1, <2>3, OneRow
  <1>6. CASE Tomorrow
    BY <1>0, <1>6, TomorrowIs DEF RowFacts
  <1>7. \/ sk' = sk \/ Tomorrow \/ (\E p \in SkillPlans : Make(p) \/ StopSkill(p))
        \/ \E r \in Requests : Write(r) \/ Patch(r)
    BY Zenon DEF SkillNext, Ask, PutIn, Free, Send, Next1, Decline, MineTx, Report, CutShort, Accrue
  <1>8. QED
    BY <1>1, <1>2, <1>3, <1>4, <1>5, <1>6, <1>7

LEMMA DoesStep ==
    ASSUME SkillTypes, Facts, SkillNext
    PROVE  DoesFacts'
  <1>0. DoesFacts
    BY DEF Facts
  <1>1. wallet'.does = wallet.does => DoesFacts'
    BY <1>0 DEF DoesFacts
  <1>2. ASSUME NEW p \in SkillPlans, Ask(p) \/ PutIn(p) PROVE DoesFacts'
    BY <1>2, AskIs, PutsIs DEF DoesFacts
  <1>3. CASE Send
    BY <1>3, SendsIs DEF DoesFacts
  <1>4. CASE Next1 \/ Decline
    BY <1>4, NextIs DEF DoesFacts, Rest
  <1>5. CASE Accrue
    BY <1>1, <1>5, AccrueIs
  <1>6. ASSUME NEW i \in DOMAIN txs, MineTx(i) PROVE DoesFacts'
    BY <1>1, <1>6, MineIs
  <1>7. \/ wallet' = wallet \/ Accrue \/ Send \/ Next1 \/ Decline
        \/ (\E p \in SkillPlans : Ask(p) \/ PutIn(p)) \/ \E i \in DOMAIN txs : MineTx(i)
    BY Zenon DEF SkillNext, Make, StopSkill, Free, Report, Write, Patch, CutShort, Tomorrow
  <1>8. QED
    BY <1>1, <1>2, <1>3, <1>4, <1>5, <1>6, <1>7

LEMMA ReqStep ==
    ASSUME SkillTypes, Facts, SkillNext
    PROVE  ReqFacts'
  <1> DEFINE Good(r) == req'[r].pc # "none" =>
               /\ req'[r].tx \in DOMAIN txs' /\ txs'[req'[r].tx].mined /\ sk'[req'[r].plan].made
               /\ req'[r].pc = "patch" => txs'[req'[r].tx].booked # Nowhere
  <1>0. Onward /\ (\A q \in SkillPlans : sk[q].made => sk'[q].made) /\ ReqFacts
    BY TxStep, RowStep DEF Facts
  <1>1. ASSUME NEW r \in Requests, req'[r] = req[r] \/ req'[r] = NoReport PROVE Good(r)
    <2>1. CASE req'[r] = NoReport
      BY <2>1 DEF NoReport
    <2>2. CASE req'[r] = req[r] /\ req[r].pc # "none"
      <3> DEFINE i == req[r].tx
      <3>1. /\ i \in DOMAIN txs /\ txs[i].mined /\ sk[req[r].plan].made /\ req[r].plan \in SkillPlans
            /\ req[r].pc = "patch" => txs[i].booked # Nowhere
        BY <1>0, <2>2, ReqAt DEF ReqFacts
      <3> HIDE DEF i
      <3>2. i \in DOMAIN txs' /\ txs'[i].mined /\ sk'[req[r].plan].made
        BY <1>0, <3>1 DEF Onward
      <3>3. req[r].pc = "patch" => txs'[i].booked # Nowhere
        BY <1>0, <3>1 DEF Onward
      <3>4. QED
        BY <2>2, <3>2, <3>3 DEF i
    <2>3. QED
      BY <1>1, <2>1, <2>2
  <1>2. ASSUME NEW i \in DOMAIN txs, NEW r \in Requests, NEW p \in SkillPlans, Report(r, i, p)
        PROVE \A s \in Requests : Good(s)
    <2>1. CASE req' = req
      BY <1>1, <2>1
    <2>2. CASE req' = [req EXCEPT ![r] = [pc |-> "write", tx |-> i, plan |-> p, over |-> FALSE]]
      <3>1. req'[r] = [pc |-> "write", tx |-> i, plan |-> p, over |-> FALSE]
            /\ \A s \in Requests : s # r => req'[s] = req[s]
        BY <2>2 DEF SkillTypes
      <3>2. txs[i].mined /\ sk[p].made
        BY <1>2, ReportIs DEF For
      <3>3. i \in DOMAIN txs' /\ txs'[i].mined /\ sk'[p].made
        BY <1>0, <3>2 DEF Onward
      <3>4. Good(r)
        BY <3>1, <3>3
      <3> HIDE DEF Good
      <3>5. QED
        BY <1>1, <3>1, <3>4
    <2>3. QED
      BY <1>2, <2>1, <2>2, ReportIs
  <1>3. ASSUME NEW r \in Requests, Write(r) PROVE \A s \in Requests : Good(s)
    <2> DEFINE i == req[r].tx
               p == req[r].plan
               over == txs[i].kind = "swap" /\ OverLimit(p, txs[i].usd)
    <2>1. /\ i \in DOMAIN txs /\ txs[i].mined /\ sk[p].made /\ p \in SkillPlans /\ req[r] \in Reports
      BY <1>3, WriteIs, ReqAt DEF Facts, ReqFacts
    <2>2. i \in DOMAIN txs' /\ txs'[i].mined /\ sk'[p].made
      BY <1>0, <2>1 DEF Onward
    <2>3. CASE req' = [req EXCEPT ![r] = NoReport]
      <3>1. \A s \in Requests : req'[s] = req[s] \/ req'[s] = NoReport
        BY <2>3 DEF SkillTypes
      <3>2. QED
        BY <1>1, <3>1
    <2>4. CASE req' = [req EXCEPT ![r].pc = "patch", ![r].over = over] /\ txs'[i].booked = p
      <3>1. over \in BOOLEAN
        OBVIOUS
      <3>2. /\ req'[r].tx = req[r].tx /\ req'[r].plan = req[r].plan
            /\ \A s \in Requests : s # r => req'[s] = req[s]
        <4> HIDE DEF over
        <4>1. QED
          BY <2>1, <2>4, <3>1, ToPatch
      <3>3. p # Nowhere
        BY <2>1, SkillAssumption
      <3>4. Good(r)
        BY <2>2, <2>4, <3>2, <3>3
      <3> HIDE DEF Good
      <3>5. QED
        BY <1>1, <3>2, <3>4
    <2>5. QED
      BY <1>3, <2>3, <2>4, WriteIs
  <1>4. ASSUME NEW r \in Requests, Patch(r) \/ CutShort(r) PROVE \A s \in Requests : Good(s)
    <2>1. req' = [req EXCEPT ![r] = NoReport]
      BY <1>4, PatchIs, CutShortIs
    <2>2. \A s \in Requests : req'[s] = req[s] \/ req'[s] = NoReport
      BY <2>1 DEF SkillTypes
    <2>3. QED
      BY <1>1, <2>2
  <1>5. req' = req => \A s \in Requests : Good(s)
    BY <1>1
  <1>6. \/ req' = req \/ (\E i \in DOMAIN txs, r \in Requests, p \in SkillPlans : Report(r, i, p))
        \/ \E r \in Requests : Write(r) \/ Patch(r) \/ CutShort(r)
    BY Zenon DEF SkillNext, Make, StopSkill, Ask, PutIn, Free, Send, Next1, Decline, MineTx, Tomorrow, Accrue
  <1>7. \A s \in Requests : Good(s)
    <2> HIDE DEF Good
    <2>1. QED
      BY <1>2, <1>3, <1>4, <1>5, <1>6
  <1>8. QED
    BY <1>7, Zenon DEF ReqFacts

LEMMA FactsStep ==
    ASSUME SkillTypes, Facts, SkillNext
    PROVE  Facts'
  BY TxStep, RowStep, DoesStep, ReqStep, Zenon DEF Facts

-----------------------------------------------------------------------------
(* The skill's side: what is recorded counts once                          *)

Fields == {"usd", "vt"}
Column(field) == [i \in DOMAIN txs |-> txs[i][field]]
LEMMA TotalIs ==
    ASSUME SkillTypes, NEW p \in SkillPlans, NEW kind \in Kinds, NEW field \in Fields
    PROVE  /\ IsFiniteSet(RecordedOn(p, kind)) /\ RecordedOn(p, kind) \subseteq DOMAIN txs
           /\ \A i \in DOMAIN txs : Column(field)[i] = txs[i][field] /\ txs[i][field] \in Nat
           /\ Total(p, kind, field) = SumFunctionOnSet(Column(field), RecordedOn(p, kind))
           /\ Total(p, kind, field) \in Nat
  <1> DEFINE D == RecordedOn(p, kind)
             f == [i \in D |-> txs[i][field]]
  <1>1. DOMAIN txs = 1 .. Len(txs) /\ Len(txs) \in Nat
    BY TxAt
  <1>2. D \subseteq DOMAIN txs
    BY DEF RecordedOn
  <1>3. IsFiniteSet(D)
    <2>1. IsFiniteSet(1 .. Len(txs))
      BY <1>1, FS_Interval
    <2>2. QED
      BY <1>1, <1>2, <2>1, FS_Subset
  <1>4. \A i \in DOMAIN txs : Column(field)[i] = txs[i][field] /\ txs[i][field] \in Nat
    <2>1. ASSUME NEW i \in DOMAIN txs PROVE txs[i][field] \in Nat
      <3>1. txs[i].usd \in Nat /\ txs[i].vt \in Nat
        BY TxAt, SendFields
      <3>2. QED
        BY <3>1 DEF Fields
    <2>2. QED
      BY <2>1 DEF Column
  <1>5. SumFunction(f) = SumFunctionOnSet(f, D)
    <2>1. DOMAIN f = D
      OBVIOUS
    <2> HIDE DEF f, D
    <2>2. QED
      BY <2>1 DEF SumFunction, SumFunctionOnSet
  <1>6. \A i \in D : f[i] = Column(field)[i]
    <2> HIDE DEF D
    <2>1. QED
      BY <1>2, <1>4
  <1>7. SumFunctionOnSet(f, D) = SumFunctionOnSet(Column(field), D)
    <2> HIDE DEF f, D
    <2>1. QED
      BY <1>3, <1>6, SumSame
  <1>8. Total(p, kind, field) = SumFunctionOnSet(Column(field), D)
    <2>1. Total(p, kind, field) = SumFunction(f)
      BY DEF Total
    <2> HIDE DEF f, D
    <2>2. QED
      BY <1>5, <1>7, <2>1
  <1>9. SumFunctionOnSet(Column(field), D) \in Nat
    <2>1. \A i \in D : Column(field)[i] \in Nat
      BY <1>2, <1>4
    <2> HIDE DEF D
    <2>2. QED
      BY <1>3, <2>1, SumType
  <1>10. QED
    BY <1>2, <1>3, <1>4, <1>8, <1>9

\* The same of the next state.
Totals == \A p \in SkillPlans, kind \in Kinds, field \in Fields :
    /\ IsFiniteSet(RecordedOn(p, kind)) /\ RecordedOn(p, kind) \subseteq DOMAIN txs
    /\ \A i \in DOMAIN txs : Column(field)[i] = txs[i][field] /\ txs[i][field] \in Nat
    /\ Total(p, kind, field) = SumFunctionOnSet(Column(field), RecordedOn(p, kind))
    /\ Total(p, kind, field) \in Nat
LEMMA TotalsAre ==
    SkillTypes => Totals
  BY TotalIs DEF Totals
LEMMA TotalIsNext ==
    SkillTypes' => Totals'
  BY TotalsAre, PTL

LEMMA TotalSame ==
    ASSUME SkillTypes, SkillTypes', NEW p \in SkillPlans, NEW kind \in Kinds, NEW field \in Fields,
           RecordedOn(p, kind)' = RecordedOn(p, kind),
           \A i \in RecordedOn(p, kind) : txs'[i][field] = txs[i][field]
    PROVE  Total(p, kind, field)' = Total(p, kind, field)
  <1> DEFINE D == RecordedOn(p, kind)
             f == Column(field)
             g == Column(field)'
  <1>1. IsFiniteSet(D) /\ Total(p, kind, field) = SumFunctionOnSet(f, D)
    BY TotalIs
  <1>2. Total(p, kind, field)' = SumFunctionOnSet(g, D)
    BY TotalIsNext DEF Totals
  <1>3. \A i \in D : f[i] = txs[i][field]
    BY TotalIs
  <1>4. \A i \in D : g[i] = txs'[i][field]
    BY TotalIsNext DEF Totals
  <1>5. \A i \in D : g[i] = f[i]
    BY <1>3, <1>4
  <1> HIDE DEF D, f, g
  <1>6. SumFunctionOnSet(g, D) = SumFunctionOnSet(f, D)
    BY <1>1, <1>5, SumSame
  <1>7. QED
    BY <1>1, <1>2, <1>6

LEMMA TotalMore ==
    ASSUME SkillTypes, SkillTypes', NEW p \in SkillPlans, NEW kind \in Kinds, NEW field \in Fields,
           NEW i \in DOMAIN txs', i \notin RecordedOn(p, kind),
           RecordedOn(p, kind)' = RecordedOn(p, kind) \cup {i},
           \A j \in RecordedOn(p, kind) : txs'[j][field] = txs[j][field]
    PROVE  Total(p, kind, field)' = Total(p, kind, field) + txs'[i][field]
  <1> DEFINE D == RecordedOn(p, kind)
             E == RecordedOn(p, kind)'
             f == Column(field)
             g == Column(field)'
             t == Total(p, kind, field)
             u == Total(p, kind, field)'
  <1>1. IsFiniteSet(D) /\ t = SumFunctionOnSet(f, D) /\ t \in Nat
    BY TotalIs
  <1>2. u = SumFunctionOnSet(g, E) /\ IsFiniteSet(E)
    BY TotalIsNext DEF Totals
  <1>3. \A j \in D : f[j] = txs[j][field]
    BY TotalIs
  <1>4. E \subseteq DOMAIN txs' /\ \A j \in DOMAIN txs' : g[j] = txs'[j][field] /\ txs'[j][field] \in Nat
    BY TotalIsNext DEF Totals
  <1>5. (\A j \in E : g[j] \in Nat) /\ (\A j \in E : g[j] = txs'[j][field])
    <2> HIDE DEF E, g
    <2>1. QED
      BY <1>4
  <1>6. i \in E /\ E \ {i} = D /\ g[i] = txs'[i][field] /\ g[i] \in Nat
    <2>1. i \in E /\ E = D \cup {i} /\ i \notin D
      OBVIOUS
    <2> HIDE DEF D, E, g
    <2>2. QED
      BY <1>5, <2>1
  <1>7. \A j \in D : g[j] = f[j]
    <2>1. \A j \in D : j \in E /\ txs'[j][field] = txs[j][field]
      OBVIOUS
    <2> HIDE DEF D, E, f, g
    <2>2. QED
      BY <1>3, <1>5, <2>1
  <1> HIDE DEF D, E, f, g, t, u
  <1>8. SumFunctionOnSet(g, D) = SumFunctionOnSet(f, D)
    BY <1>1, <1>7, SumSame
  <1>9. SumFunctionOnSet(g, E) = g[i] + SumFunctionOnSet(g, E \ {i})
    <2>1. \A j \in E : g[j] \in Nat
      BY <1>5
    <2>2. QED
      BY <1>2, <1>6, <2>1, SumSplit
  <1>10. u = g[i] + t
    BY <1>1, <1>2, <1>6, <1>8, <1>9
  <1>11. u = t + txs'[i][field]
    BY <1>1, <1>6, <1>10
  <1>12. QED
    BY <1>11 DEF t, u

\* What was recorded stays as it was, and nothing is added.
Settled == /\ DOMAIN txs \subseteq DOMAIN txs'
           /\ \A i \in DOMAIN txs : /\ txs'[i].booked = txs[i].booked /\ txs'[i].kind = txs[i].kind
                                    /\ txs[i].booked # Nowhere => txs'[i].usd = txs[i].usd /\ txs'[i].vt = txs[i].vt
           /\ \A i \in DOMAIN txs' : i \notin DOMAIN txs => txs'[i].booked = Nowhere
TotalsKept == \A p \in SkillPlans, kind \in Kinds, field \in Fields :
                Total(p, kind, field)' = Total(p, kind, field)
LEMMA SettledKept ==
    ASSUME SkillTypes, SkillTypes', Settled
    PROVE  TotalsKept
  <1> SUFFICES ASSUME NEW p \in SkillPlans, NEW kind \in Kinds, NEW field \in Fields
      PROVE Total(p, kind, field)' = Total(p, kind, field)
    BY DEF TotalsKept
  <1>0. p # Nowhere
    BY SkillAssumption
  <1>1. RecordedOn(p, kind)' = RecordedOn(p, kind)
    BY <1>0 DEF RecordedOn, Settled
  <1>2. \A i \in RecordedOn(p, kind) : i \in DOMAIN txs /\ txs[i].booked # Nowhere
    BY <1>0 DEF RecordedOn
  <1>3. \A i \in RecordedOn(p, kind) : txs'[i].usd = txs[i].usd /\ txs'[i].vt = txs[i].vt
    BY <1>2 DEF Settled
  <1>4. \A i \in RecordedOn(p, kind) : txs'[i][field] = txs[i][field]
    BY <1>3 DEF Fields
  <1>5. QED
    BY <1>1, <1>4, TotalSame

\* A transaction is booked on p, and on p alone.
Books(p, tx) == /\ \A field \in Fields : Total(p, tx.kind, field)' = Total(p, tx.kind, field) + tx[field]
                /\ \A q \in SkillPlans, kind \in Kinds, field \in Fields :
                     q # p \/ kind # tx.kind => Total(q, kind, field)' = Total(q, kind, field)
LEMMA BookedOnce ==
    ASSUME SkillTypes, SkillTypes', NEW i \in DOMAIN txs, NEW p \in SkillPlans, NEW tx \in Sends, tx = txs[i],
           Only(i), Alike(txs'[i], txs[i]), txs[i].booked = Nowhere, txs'[i].booked = p
    PROVE  Books(p, tx)
  <1>1. /\ DOMAIN txs' = DOMAIN txs /\ \A j \in DOMAIN txs : j # i => txs'[j] = txs[j]
        /\ txs'[i].kind = tx.kind /\ txs'[i].usd = tx.usd /\ txs'[i].vt = tx.vt
        /\ tx.kind \in Kinds
    BY SendFields DEF Only, Alike
  <1>2. ASSUME NEW q \in SkillPlans, NEW kind \in Kinds, NEW field \in Fields
        PROVE  /\ i \notin RecordedOn(q, kind)
               /\ \A j \in RecordedOn(q, kind) : txs'[j][field] = txs[j][field]
               /\ q # p \/ kind # tx.kind => RecordedOn(q, kind)' = RecordedOn(q, kind)
               /\ q = p /\ kind = tx.kind => RecordedOn(q, kind)' = RecordedOn(q, kind) \cup {i}
    <2>1. q # Nowhere
      BY SkillAssumption
    <2>2. i \notin RecordedOn(q, kind)
      BY <2>1 DEF RecordedOn
    <2>3. \A j \in RecordedOn(q, kind) : j \in DOMAIN txs /\ j # i
      BY <2>2 DEF RecordedOn
    <2>4. \A j \in RecordedOn(q, kind) : txs'[j] = txs[j]
      BY <1>1, <2>3
    <2>5. RecordedOn(q, kind)' = {j \in DOMAIN txs : txs'[j].booked = q /\ txs'[j].kind = kind}
      BY <1>1 DEF RecordedOn
    <2>6. q # p \/ kind # tx.kind => RecordedOn(q, kind)' = RecordedOn(q, kind)
      BY <1>1, <2>1, <2>5 DEF RecordedOn
    <2>7. q = p /\ kind = tx.kind => RecordedOn(q, kind)' = RecordedOn(q, kind) \cup {i}
      BY <1>1, <2>1, <2>5 DEF RecordedOn
    <2>8. QED
      BY <2>2, <2>4, <2>6, <2>7
  <1>3. ASSUME NEW field \in Fields
        PROVE Total(p, tx.kind, field)' = Total(p, tx.kind, field) + tx[field]
    <2>1. txs'[i][field] = tx[field] /\ i \in DOMAIN txs'
      BY <1>1 DEF Fields
    <2>2. ASSUME NEW k \in Kinds, k = tx.kind
          PROVE Total(p, k, field)' = Total(p, k, field) + tx[field]
      <3>1. /\ i \notin RecordedOn(p, k) /\ RecordedOn(p, k)' = RecordedOn(p, k) \cup {i}
            /\ \A j \in RecordedOn(p, k) : txs'[j][field] = txs[j][field]
        BY <1>2, <2>2
      <3>2. QED
        BY <2>1, <3>1, TotalMore
    <2>3. QED
      BY <1>1, <2>2
  <1>4. ASSUME NEW q \in SkillPlans, NEW kind \in Kinds, NEW field \in Fields, q # p \/ kind # tx.kind
        PROVE Total(q, kind, field)' = Total(q, kind, field)
    BY <1>2, <1>4, TotalSame
  <1>5. QED
    BY <1>3, <1>4, Zenon DEF Books

RowsKept == \A p \in SkillPlans : /\ sk'[p].spent = sk[p].spent /\ sk'[p].vt = sk[p].vt
                                  /\ sk'[p].principal = sk[p].principal
                                  /\ sk'[p].today = sk[p].today \/ sk'[p].today = 0
\* The request r books its transaction; no other step does.
Booking(r) == Write(r) /\ txs[req[r].tx].booked = Nowhere
Counts(r, p, tx) == Booking(r) /\ p = req[r].plan /\ tx = txs[req[r].tx] /\ Books(p, tx)
LEMMA OneRowKept ==
    ASSUME SkillTypes, NEW p \in SkillPlans, sk' = [sk EXCEPT ![p] = sk'[p]],
           sk'[p].spent = sk[p].spent, sk'[p].vt = sk[p].vt, sk'[p].principal = sk[p].principal,
           sk'[p].today = sk[p].today
    PROVE  RowsKept
  <1>1. \A q \in SkillPlans : q # p => sk'[q] = sk[q]
    BY DEF SkillTypes
  <1>2. QED
    BY <1>1 DEF RowsKept

LEMMA CountStep ==
    ASSUME SkillTypes, SkillTypes', Facts, SkillNext
    PROVE  \/ TotalsKept /\ RowsKept
           \/ \E r \in Requests, p \in SkillPlans, tx \in Sends : Counts(r, p, tx)
  <1> DEFINE Good == TotalsKept /\ RowsKept
             Some == \E r \in Requests, p \in SkillPlans, tx \in Sends : Counts(r, p, tx)
  <1>1. txs' = txs => TotalsKept
    <2>1. txs' = txs => Settled
      BY DEF Settled
    <2>2. QED
      BY <2>1, SettledKept
  <1>2. sk' = sk => RowsKept
    BY DEF RowsKept
  <1>3. ASSUME NEW p \in SkillPlans, Make(p) PROVE Good
    <2>1. sk[p] = Unmade /\ txs' = txs
      BY <1>3 DEF Make, Facts, RowFacts
    <2>2. sk[p].principal = 0 /\ sk[p].vt = 0 /\ sk[p].spent = 0 /\ sk[p].today = 0
      <3>1. Unmade.principal = 0 /\ Unmade.vt = 0 /\ Unmade.spent = 0 /\ Unmade.today = 0
        BY DEF Unmade
      <3>2. QED
        BY <2>1, <3>1
    <2>3. QED
      BY <1>1, <1>3, <2>1, <2>2, MadeIs, OneRowKept
  <1>4. ASSUME NEW p \in SkillPlans, StopSkill(p) PROVE Good
    BY <1>1, <1>4, StopIs, OneRowKept
  <1>5. ASSUME NEW p \in SkillPlans, Ask(p) \/ PutIn(p) PROVE Good
    BY <1>1, <1>2, <1>5, Zenon DEF Ask, PutIn
  <1>6. ASSUME NEW kind \in Kinds, NEW p \in SkillPlans, NEW usd \in Nat, Sent(kind, p, usd) PROVE TotalsKept
    <2> DEFINE n == Len(txs) + 1
    <2>0. /\ DOMAIN txs' = DOMAIN txs \cup {n} /\ \A i \in DOMAIN txs : txs'[i] = txs[i]
          /\ txs'[n] = [kind |-> kind, plan |-> p, usd |-> usd, vt |-> 0, mined |-> FALSE,
                        booked |-> Nowhere, done |-> FALSE, cut |-> FALSE]
      BY <1>6, SendTypes
    <2>1. /\ DOMAIN txs' = DOMAIN txs \cup {n} /\ \A i \in DOMAIN txs : txs'[i] = txs[i]
          /\ txs'[n].booked = Nowhere
      BY <2>0
    <2>2. Settled
      <3> HIDE DEF n
      <3>1. QED
        BY <2>1 DEF Settled
    <2>3. QED
      BY <2>2, SettledKept
  <1>7. ASSUME NEW p \in SkillPlans, Free(p) PROVE Good
    <2>1. Sent("swap", p, PerBuy) /\ PerBuy \in Nat /\ "swap" \in Kinds /\ sk' = sk
      BY <1>7, SkillAssumption DEF Free, Kinds
    <2>2. QED
      BY <1>2, <1>6, <2>1
  <1>8. ASSUME Send PROVE Good
    <2> DEFINE d == wallet.does
               usd == IF d.pc = "redeem" THEN d.redeem ELSE d.usd
               kind == d.pc
               p == d.plan
    <2>1. d \in Deeds /\ d.pc \in {"deposit", "redeem", "swap"} /\ Sent(kind, p, usd) /\ sk' = sk
      BY <1>8, SendsIs
    <2>2. kind \in Kinds /\ p \in SkillPlans /\ usd \in Nat
      BY <2>1 DEF Deeds, Kinds
    <2>3. QED
      <3> HIDE DEF d, usd, kind, p
      <3>1. QED
        BY <1>2, <1>6, <2>1, <2>2
  <1>9. ASSUME Next1 \/ Decline \/ Accrue PROVE Good
    BY <1>1, <1>2, <1>9, Zenon DEF Next1, Decline, Accrue
  <1>10. ASSUME Tomorrow PROVE Good
    BY <1>1, <1>10, TomorrowIs DEF RowsKept
  <1>11. ASSUME NEW i \in DOMAIN txs, MineTx(i) PROVE Good
    <2>1. txs[i].booked = Nowhere
      BY <1>11, MineIs DEF Facts, TxFacts
    <2>2. /\ DOMAIN txs' = DOMAIN txs /\ \A j \in DOMAIN txs : j # i => txs'[j] = txs[j]
          /\ txs'[i].booked = txs[i].booked /\ txs'[i].kind = txs[i].kind /\ sk' = sk
      BY <1>11, MineIs
    <2>3. Settled
      BY <2>1, <2>2 DEF Settled
    <2>4. QED
      BY <1>2, <2>2, <2>3, SettledKept
  <1>12. ASSUME NEW i \in DOMAIN txs, Only(i), Alike(txs'[i], txs[i]), txs'[i].booked = txs[i].booked
         PROVE TotalsKept
    <2>1. Settled
      BY <1>12 DEF Settled, Only, Alike
    <2>2. QED
      BY <2>1, SettledKept
  <1>13. ASSUME NEW i \in DOMAIN txs, NEW r \in Requests, NEW p \in SkillPlans, Report(r, i, p) PROVE Good
    <2>1. sk' = sk /\ (txs' = txs \/ (Only(i) /\ Alike(txs'[i], txs[i]) /\ txs'[i].booked = txs[i].booked))
      BY <1>13, ReportIs
    <2>2. QED
      BY <1>1, <1>2, <1>12, <2>1
  <1>14. ASSUME NEW r \in Requests, Write(r) PROVE Good \/ Some
    <2>1. PICK i \in DOMAIN txs : i = req[r].tx
      BY <1>14, WriteIs
    <2>2. PICK p \in SkillPlans : p = req[r].plan
      BY <1>14, WriteIs
    <2>3. PICK tx \in Sends : tx = txs[i]
      BY TxAt
    <2>4. /\ Only(i) /\ Alike(txs'[i], txs[i])
          /\ \/ txs[i].booked # Nowhere /\ sk' = sk /\ txs'[i].booked = txs[i].booked
             \/ txs[i].booked = Nowhere /\ txs'[i].booked = p
      BY <1>14, <2>1, <2>2, WriteIs
    <2>5. CASE txs[i].booked # Nowhere /\ sk' = sk /\ txs'[i].booked = txs[i].booked
      BY <1>2, <1>12, <2>4, <2>5
    <2>6. CASE txs[i].booked = Nowhere /\ txs'[i].booked = p
      <3>1. Booking(r)
        BY <1>14, <2>1, <2>6 DEF Booking
      <3>2. Books(p, tx)
        BY <2>3, <2>4, <2>6, BookedOnce
      <3>3. Counts(r, p, tx)
        BY <2>1, <2>2, <2>3, <3>1, <3>2 DEF Counts
      <3>4. QED
        BY <3>3
    <2>7. QED
      BY <2>4, <2>5, <2>6
  <1>15. ASSUME NEW r \in Requests, Patch(r) PROVE Good
    <2> DEFINE i == req[r].tx
               p == req[r].plan
    <2>1. /\ i \in DOMAIN txs /\ p \in SkillPlans /\ Only(i) /\ Alike(txs'[i], txs[i])
          /\ txs'[i].booked = txs[i].booked /\ sk' = [sk EXCEPT ![p] = sk'[p]]
          /\ sk'[p].principal = sk[p].principal /\ sk'[p].vt = sk[p].vt
          /\ sk'[p].today = sk[p].today /\ sk'[p].spent = sk[p].spent
      BY <1>15, PatchIs
    <2> HIDE DEF i, p
    <2>2. QED
      BY <1>12, <2>1, OneRowKept
  <1>16. ASSUME NEW r \in Requests, CutShort(r) PROVE Good
    <2> DEFINE i == req[r].tx
    <2>1. /\ i \in DOMAIN txs /\ sk' = sk
          /\ (txs' = txs \/ (Only(i) /\ Alike(txs'[i], txs[i]) /\ txs'[i].booked = txs[i].booked))
      BY <1>16, CutShortIs
    <2> HIDE DEF i
    <2>2. QED
      BY <1>1, <1>2, <1>12, <2>1
  <1>17. QED
    <2> HIDE DEF Good, Some
    <2>1. Good \/ Some
      BY <1>3, <1>4, <1>5, <1>7, <1>8, <1>9, <1>10, <1>11, <1>13, <1>14, <1>15, <1>16, Zenon DEF SkillNext
    <2>2. QED
      BY <2>1 DEF Good, Some

LEMMA SpentStep ==
    ASSUME SkillTypes, SkillTypes', Facts, SpentOnce, SkillNext
    PROVE  SpentOnce'
  <1>1. CASE TotalsKept /\ RowsKept
    <2>1. \A p \in SkillPlans : Total(p, "swap", "usd")' = Total(p, "swap", "usd")
      BY <1>1 DEF TotalsKept, Kinds, Fields
    <2>2. \A p \in SkillPlans : sk'[p].spent = sk[p].spent
      BY <1>1 DEF RowsKept
    <2>3. QED
      BY <2>1, <2>2 DEF SpentOnce
  <1>2. ASSUME NEW r \in Requests, NEW p \in SkillPlans, NEW tx \in Sends, Counts(r, p, tx) PROVE SpentOnce'
    <2>1. /\ tx.kind \in Kinds /\ (tx.kind = "redeem" => tx.vt > 0)
          /\ sk' = [sk EXCEPT ![p] = Booked(p, tx)] /\ Books(p, tx)
      BY <1>2, WriteIs, ReqAt, SendFields DEF Booking, Counts
    <2>2. sk'[p] = Booked(p, tx) /\ \A q \in SkillPlans : q # p => sk'[q] = sk[q]
      BY <2>1 DEF SkillTypes
    <2>3. ASSUME NEW q \in SkillPlans, q # p \/ tx.kind # "swap"
          PROVE  sk'[q].spent = sk[q].spent /\ Total(q, "swap", "usd")' = Total(q, "swap", "usd")
      <3>1. Total(q, "swap", "usd")' = Total(q, "swap", "usd")
        BY <2>1, <2>3 DEF Books, Kinds, Fields
      <3>2. sk'[q].spent = sk[q].spent
        <4>1. CASE q # p
          BY <2>2, <4>1
        <4>2. CASE q = p /\ tx.kind # "swap"
          BY <2>1, <2>2, <4>2, BookedIs DEF Kinds
        <4>3. QED
          BY <2>3, <4>1, <4>2
      <3>3. QED
        BY <3>1, <3>2
    <2>4. ASSUME tx.kind = "swap"
          PROVE  /\ sk'[p].spent = sk[p].spent + tx.usd
                 /\ Total(p, "swap", "usd")' = Total(p, "swap", "usd") + tx.usd
      <3>1. Total(p, "swap", "usd")' = Total(p, "swap", "usd") + tx["usd"]
        <4>1. "usd" \in Fields
          BY DEF Fields
        <4>2. Total(p, tx.kind, "usd")' = Total(p, tx.kind, "usd") + tx["usd"]
          BY <2>1, <4>1, Zenon DEF Books
        <4>3. QED
          BY <2>4, <4>2, Zenon
      <3>2. sk'[p].spent = sk[p].spent + tx.usd
        BY <2>1, <2>2, <2>4, BookedIs
      <3>3. QED
        BY <3>1, <3>2
    <2>5. \A q \in SkillPlans : sk'[q].spent = Total(q, "swap", "usd")'
      <3>1. \A q \in SkillPlans : sk[q].spent = Total(q, "swap", "usd")
        BY DEF SpentOnce
      <3>2. ASSUME NEW q \in SkillPlans, q # p \/ tx.kind # "swap"
            PROVE sk'[q].spent = Total(q, "swap", "usd")'
        BY <2>3, <3>1, <3>2
      <3>3. ASSUME tx.kind = "swap" PROVE sk'[p].spent = Total(p, "swap", "usd")'
        BY <2>1, <2>4, <3>1, <3>3
      <3>4. ASSUME NEW q \in SkillPlans, q = p, tx.kind = "swap"
            PROVE sk'[q].spent = Total(q, "swap", "usd")'
        BY <3>3, <3>4, Zenon
      <3>5. QED
        BY <3>2, <3>4, Zenon
    <2>6. QED
      BY <2>5 DEF SpentOnce
  <1>3. QED
    BY <1>1, <1>2, CountStep

-----------------------------------------------------------------------------
(* The skill's side: what a report leaves its plan as                      *)

Starts(p) == \E r \in Requests : Waits(p, r) /\ txs[req[r].tx].kind = "deposit"
Pauses(p) == \E r \in Requests : Waits(p, r) /\ req[r].over /\ txs[req[r].tx].kind = "swap"
Idles(p) == sk[p].principal > 0 /\ sk[p].reason = "awaiting_deposit"
Overruns(p) == p \notin YieldPlans /\ sk[p].today > PerDay /\ sk[p].status = "active"
IsCut == \E i \in DOMAIN txs : txs[i].cut
LEMMA PatchedIs ==
    /\ Patched <=> IsCut \/ \A p \in SkillPlans : (Idles(p) => Starts(p)) /\ (Overruns(p) => Pauses(p))
    /\ Patched' <=> IsCut' \/ \A p \in SkillPlans : (Idles(p)' => Starts(p)') /\ (Overruns(p)' => Pauses(p)')
  <1>1. Patched <=> IsCut \/ \A p \in SkillPlans : (Idles(p) => Starts(p)) /\ (Overruns(p) => Pauses(p))
    BY Zenon DEF Patched, IsCut, Idles, Starts, Overruns, Pauses
  <1>2. Patched' <=> IsCut' \/ \A p \in SkillPlans : (Idles(p)' => Starts(p)') /\ (Overruns(p)' => Pauses(p)')
    BY Zenon DEF Patched, IsCut, Idles, Starts, Overruns, Pauses
  <1>3. QED
    BY <1>1, <1>2

\* A request that waits for its patch still does, unless it is patched or cut short.
LEMMA WaitsOn ==
    ASSUME SkillTypes, Facts, Onward, NEW p \in SkillPlans,
           \A r \in Requests : Waits(p, r) => req'[r] = req[r]
    PROVE  (Starts(p) => Starts(p)') /\ (Pauses(p) => Pauses(p)')
  <1>1. ASSUME NEW r \in Requests, Waits(p, r)
        PROVE  Waits(p, r)' /\ req'[r] = req[r] /\ txs'[req'[r].tx].kind = txs[req[r].tx].kind
    <2>1. req'[r] = req[r] /\ Waits(p, r)'
      BY <1>1 DEF Waits
    <2>2. req[r].tx \in DOMAIN txs
      BY <1>1, ReqAt DEF Waits
    <2>3. QED
      BY <2>1, <2>2 DEF Onward
  <1>2. Starts(p) => Starts(p)'
    BY <1>1 DEF Starts
  <1>3. Pauses(p) => Pauses(p)'
    BY <1>1 DEF Pauses
  <1>4. QED
    BY <1>2, <1>3

\* A row that neither begins to idle nor to overrun, unless a request waits.
Watched == \A p \in SkillPlans : /\ Idles(p)' => Idles(p) \/ Starts(p)'
                                 /\ Overruns(p)' => Overruns(p) \/ Pauses(p)'
LEMMA WatchedKept ==
    ASSUME SkillTypes, Facts, Onward, Patched, Watched,
           \A r \in Requests : req[r].pc = "patch" => req'[r] = req[r]
    PROVE  Patched'
  <1>1. CASE IsCut
    <2>1. IsCut'
      BY <1>1 DEF IsCut, Onward
    <2>2. QED
      BY <2>1, PatchedIs
  <1>2. CASE \A p \in SkillPlans : (Idles(p) => Starts(p)) /\ (Overruns(p) => Pauses(p))
    <2>1. \A p \in SkillPlans : (Starts(p) => Starts(p)') /\ (Pauses(p) => Pauses(p)')
      BY WaitsOn DEF Waits
    <2>2. \A p \in SkillPlans : (Idles(p)' => Starts(p)') /\ (Overruns(p)' => Pauses(p)')
      BY <1>2, <2>1, Zenon DEF Watched
    <2>3. QED
      BY <2>2, PatchedIs
  <1>3. QED
    BY <1>1, <1>2, PatchedIs

LEMMA PatchedStep ==
    ASSUME SkillTypes, SkillTypes', Facts, Patched, SkillNext
    PROVE  Patched'
  <1>0. Onward /\ RowFacts /\ PerDay \in Nat
    BY TxStep, SkillAssumption DEF Facts
  <1>1. sk' = sk => Watched
    BY DEF Watched, Idles, Overruns
  <1>2. ASSUME NEW p \in SkillPlans, Make(p) PROVE Patched'
    <2>1. req' = req /\ sk' = [sk EXCEPT ![p] = sk'[p]] /\ sk'[p].principal = 0 /\ sk'[p].today = 0
      BY <1>2, MadeIs DEF Make
    <2>2. \A q \in SkillPlans : q # p => sk'[q] = sk[q]
      BY <2>1 DEF SkillTypes
    <2>3. Watched
      BY <1>0, <2>1, <2>2 DEF Watched, Idles, Overruns
    <2>4. QED
      BY <1>0, <2>1, <2>3, WatchedKept
  <1>3. ASSUME NEW p \in SkillPlans, StopSkill(p) PROVE Patched'
    <2>1. /\ req' = req /\ sk' = [sk EXCEPT ![p] = sk'[p]]
          /\ sk'[p].status = "stopped" /\ sk'[p].reason = "stopped_by_owner"
      BY <1>3, StopIs
    <2>2. \A q \in SkillPlans : q # p => sk'[q] = sk[q]
      BY <2>1 DEF SkillTypes
    <2>3. Watched
      BY <2>1, <2>2 DEF Watched, Idles, Overruns
    <2>4. QED
      BY <1>0, <2>1, <2>3, WatchedKept
  <1>4. ASSUME sk' = sk, req' = req PROVE Patched'
    BY <1>0, <1>1, <1>4, WatchedKept
  <1>5. ASSUME Tomorrow PROVE Patched'
    <2>1. req' = req /\ \A p \in SkillPlans : /\ sk'[p].today = 0 /\ sk'[p].principal = sk[p].principal
                                              /\ sk'[p].reason = sk[p].reason
      BY <1>5, TomorrowIs
    <2>2. Watched
      BY <1>0, <2>1 DEF Watched, Idles, Overruns
    <2>3. QED
      BY <1>0, <2>1, <2>2, WatchedKept
  <1>6. ASSUME NEW r \in Requests, NEW i \in DOMAIN txs, NEW p \in SkillPlans, Report(r, i, p) PROVE Patched'
    <2>1. /\ sk' = sk /\ req[r].pc = "none"
          /\ req' = req \/ req' = [req EXCEPT ![r] = [pc |-> "write", tx |-> i, plan |-> p, over |-> FALSE]]
      BY <1>6, ReportIs
    <2>2. \A s \in Requests : req[s].pc = "patch" => req'[s] = req[s]
      BY <2>1 DEF SkillTypes
    <2>3. QED
      BY <1>0, <1>1, <2>1, <2>2, WatchedKept
  <1>7. ASSUME NEW r \in Requests, CutShort(r) PROVE Patched'
    <2>1. CASE req[r].pc = "patch"
      <3>1. req[r].tx \in DOMAIN txs' /\ txs'[req[r].tx].cut
        BY <1>7, <2>1, CutShortIs DEF Only
      <3>2. IsCut'
        BY <3>1 DEF IsCut
      <3>3. QED
        BY <3>2, PatchedIs
    <2>2. CASE req[r].pc # "patch"
      <3>1. sk' = sk /\ req' = [req EXCEPT ![r] = NoReport]
        BY <1>7, CutShortIs
      <3>2. \A s \in Requests : req[s].pc = "patch" => req'[s] = req[s]
        BY <2>2, <3>1 DEF SkillTypes
      <3>3. QED
        BY <1>0, <1>1, <3>1, <3>2, WatchedKept
    <2>3. QED
      BY <2>1, <2>2
  <1>8. ASSUME NEW r \in Requests, Write(r) PROVE Patched'
    <2>1. PICK p \in SkillPlans : p = req[r].plan
      BY <1>8, WriteIs
    <2>2. PICK tx \in Sends : tx = txs[req[r].tx]
      BY <1>8, WriteIs, TxAt
    <2>3. /\ req[r] \in Reports /\ req[r].pc = "write" /\ (tx.kind = "redeem" => tx.vt > 0)
          /\ tx.kind \in Kinds /\ tx.usd \in Nat /\ req[r].tx \in DOMAIN txs
      BY <1>8, <2>2, WriteIs, ReqAt, SendFields
    <2>4. CASE sk' = sk /\ req' = [req EXCEPT ![r] = NoReport]
      <3>1. \A s \in Requests : req[s].pc = "patch" => req'[s] = req[s]
        BY <2>3, <2>4 DEF SkillTypes
      <3>2. QED
        BY <1>0, <1>1, <2>4, <3>1, WatchedKept
    <2> DEFINE over == tx.kind = "swap" /\ OverLimit(p, tx.usd)
    <2>5. CASE /\ sk' = [sk EXCEPT ![p] = Booked(p, tx)]
               /\ req' = [req EXCEPT ![r].pc = "patch", ![r].over = over]
      <3>1. over \in BOOLEAN
        OBVIOUS
      <3>2. /\ req'[r].pc = "patch" /\ req'[r].tx = req[r].tx /\ req'[r].plan = p /\ req'[r].over = over
            /\ \A s \in Requests : s # r => req'[s] = req[s]
        <4> HIDE DEF over
        <4>1. QED
          BY <2>1, <2>3, <2>5, <3>1, ToPatch
      <3>3. \A s \in Requests : req[s].pc = "patch" => req'[s] = req[s]
        BY <2>3, <3>2
      <3>4. sk'[p] = Booked(p, tx) /\ \A q \in SkillPlans : q # p => sk'[q] = sk[q]
        BY <2>5 DEF SkillTypes
      <3>5. txs'[req'[r].tx].kind = tx.kind
        BY <1>0, <2>2, <2>3, <3>2 DEF Onward
      <3>6. Idles(p)' => Idles(p) \/ Starts(p)'
        <4>1. CASE tx.kind = "deposit"
          <5>1. Starts(p)'
            BY <3>2, <3>5, <4>1 DEF Starts, Waits
          <5>2. QED
            BY <5>1
        <4>2. CASE tx.kind # "deposit"
          <5>1. /\ Booked(p, tx).principal \in Nat /\ Booked(p, tx).principal <= sk[p].principal
                /\ Booked(p, tx).reason = sk[p].reason \/ Booked(p, tx).reason = "redeemed"
            <6>1. CASE tx.kind = "redeem"
              BY <2>3, <6>1, BookedIs, RedeemedIs
            <6>2. CASE tx.kind = "swap"
              <7>1. sk[p].principal \in Nat
                BY DEF SkillTypes, SkillRows
              <7>2. QED
                BY <2>3, <6>2, <7>1, BookedIs
            <6>3. QED
              BY <2>3, <4>2, <6>1, <6>2 DEF Kinds
          <5>2. sk[p].principal \in Nat
            BY DEF SkillTypes, SkillRows
          <5>3. QED
            BY <3>4, <5>1, <5>2 DEF Idles
        <4>3. QED
          BY <4>1, <4>2
      <3>7. Overruns(p)' => Overruns(p) \/ Pauses(p)'
        <4>1. CASE tx.kind = "swap"
          <5>1. sk'[p].today = sk[p].today + tx.usd
            BY <2>3, <3>4, <4>1, BookedIs
          <5>2. Overruns(p)' => over
            BY <4>1, <5>1 DEF Overruns, OverLimit
          <5>3. over => Pauses(p)'
            <6> HIDE DEF over
            <6>1. QED
              BY <3>2, <3>5, <4>1 DEF Pauses, Waits
          <5>4. QED
            BY <5>2, <5>3
        <4>2. CASE tx.kind # "swap"
          <5>1. /\ sk'[p].today = sk[p].today
                /\ sk'[p].status = sk[p].status \/ sk'[p].status = "paused"
            BY <2>3, <3>4, <4>2, BookedIs DEF Kinds
          <5>2. QED
            BY <5>1 DEF Overruns
        <4>3. QED
          BY <4>1, <4>2
      <3>8. \A q \in SkillPlans : q # p => (Idles(q)' => Idles(q)) /\ (Overruns(q)' => Overruns(q))
        BY <3>4 DEF Idles, Overruns
      <3>9. Watched
        BY <3>6, <3>7, <3>8, Zenon DEF Watched
      <3>10. QED
        BY <1>0, <3>3, <3>9, WatchedKept
    <2>6. QED
      BY <1>8, <2>1, <2>2, <2>4, <2>5, WriteIs
  <1>9. ASSUME NEW r \in Requests, Patch(r) PROVE Patched'
    <2>1. CASE IsCut
      <3>1. IsCut'
        BY <1>0, <2>1 DEF IsCut, Onward
      <3>2. QED
        BY <3>1, PatchedIs
    <2>2. CASE \A q \in SkillPlans : (Idles(q) => Starts(q)) /\ (Overruns(q) => Pauses(q))
      <3>1. PICK p \in SkillPlans : p = req[r].plan
        BY <1>9, PatchIs
      <3> DEFINE starts == txs[req[r].tx].kind = "deposit" /\ sk[p].status = "paused" /\ sk[p].reason = "awaiting_deposit"
      <3>2. /\ req' = [req EXCEPT ![r] = NoReport] /\ sk' = [sk EXCEPT ![p] = sk'[p]]
            /\ sk'[p].principal = sk[p].principal /\ sk'[p].today = sk[p].today
            /\ \/ starts /\ sk'[p].status = "active" /\ sk'[p].reason = ""
               \/ ~starts /\ req[r].over /\ sk[p].status = "active" /\ sk'[p].status = "paused"
                  /\ sk'[p].reason = "report_over_limit"
               \/ ~starts /\ ~(req[r].over /\ sk[p].status = "active") /\ sk'[p] = sk[p]
        BY <1>9, <3>1, PatchIs
      <3>3. /\ \A s \in Requests : s # r => req'[s] = req[s]
            /\ \A q \in SkillPlans : q # p => sk'[q] = sk[q]
        BY <3>2 DEF SkillTypes
      <3>4. ASSUME NEW q \in SkillPlans, q # p PROVE (Idles(q)' => Starts(q)') /\ (Overruns(q)' => Pauses(q)')
        <4>1. (Idles(q)' => Idles(q)) /\ (Overruns(q)' => Overruns(q))
          BY <3>3, <3>4 DEF Idles, Overruns
        <4>2. \A s \in Requests : Waits(q, s) => req'[s] = req[s]
          BY <3>1, <3>3, <3>4 DEF Waits
        <4>3. (Starts(q) => Starts(q)') /\ (Pauses(q) => Pauses(q)')
          BY <1>0, <4>2, WaitsOn
        <4>4. QED
          BY <2>2, <4>1, <4>3
      <3>5. ASSUME NEW s \in Requests, s # r, Waits(p, s)
            PROVE  Waits(p, s)' /\ req'[s] = req[s] /\ txs'[req'[s].tx].kind = txs[req[s].tx].kind
        <4>1. req'[s] = req[s] /\ Waits(p, s)'
          BY <3>3, <3>5 DEF Waits
        <4>2. req[s].tx \in DOMAIN txs
          BY <3>5, ReqAt DEF Waits
        <4>3. QED
          BY <1>0, <4>1, <4>2 DEF Onward
      <3>6. Idles(p)' => Starts(p)'
        <4>1. SUFFICES ASSUME Idles(p)' PROVE Starts(p)'
          OBVIOUS
        <4>2. ~starts /\ sk'[p] = sk[p]
          BY <3>2, <4>1 DEF Idles
        <4>3. Idles(p) /\ sk[p].status = "paused"
          BY <1>0, <4>1, <4>2 DEF Idles, RowFacts
        <4>4. PICK s \in Requests : Waits(p, s) /\ txs[req[s].tx].kind = "deposit"
          BY <2>2, <4>3 DEF Starts
        <4>5. s # r
          BY <4>2, <4>3, <4>4 DEF Idles
        <4>6. QED
          BY <3>5, <4>4, <4>5 DEF Starts
      <3>7. Overruns(p)' => Pauses(p)'
        <4>1. SUFFICES ASSUME Overruns(p)' PROVE Pauses(p)'
          OBVIOUS
        <4>2. ~starts
          BY <1>0, <4>1 DEF Overruns, RowFacts
        <4>3. sk'[p] = sk[p] /\ ~(req[r].over /\ sk[p].status = "active")
          BY <3>2, <4>1, <4>2 DEF Overruns
        <4>4. Overruns(p)
          BY <4>1, <4>3 DEF Overruns
        <4>5. PICK s \in Requests : Waits(p, s) /\ req[s].over /\ txs[req[s].tx].kind = "swap"
          BY <2>2, <4>4 DEF Pauses
        <4>6. s # r
          BY <4>3, <4>4, <4>5 DEF Overruns
        <4>7. QED
          BY <3>5, <4>5, <4>6 DEF Pauses
      <3>8. \A q \in SkillPlans : (Idles(q)' => Starts(q)') /\ (Overruns(q)' => Pauses(q)')
        BY <3>4, <3>6, <3>7, Zenon
      <3>9. QED
        BY <3>8, PatchedIs
    <2>3. QED
      BY <2>1, <2>2, PatchedIs
  <1>10. \/ (sk' = sk /\ req' = req) \/ Tomorrow
         \/ (\E p \in SkillPlans : Make(p) \/ StopSkill(p))
         \/ (\E r \in Requests, i \in DOMAIN txs, p \in SkillPlans : Report(r, i, p))
         \/ (\E r \in Requests : Write(r) \/ Patch(r) \/ CutShort(r))
    BY Zenon DEF SkillNext, Ask, PutIn, Free, Send, Next1, Decline, MineTx, Accrue
  <1>11. QED
    BY <1>2, <1>3, <1>4, <1>5, <1>6, <1>7, <1>8, <1>9, <1>10

-----------------------------------------------------------------------------
(* The skill's side: the user who acts through the skill alone             *)

\* The wallet does what it did, and every transaction is as large and as mined as it was.
Steady == /\ wallet'.does = wallet.does /\ wallet'.rate \in Nat /\ wallet.rate <= wallet'.rate
          /\ DOMAIN txs' = DOMAIN txs
          /\ \A i \in DOMAIN txs : txs'[i].usd = txs[i].usd /\ txs'[i].vt = txs[i].vt /\ txs'[i].mined = txs[i].mined
Turns == (\E p \in SkillPlans : Ask(p) \/ PutIn(p)) \/ Send \/ Next1 \/ Decline
LEMMA StepClass ==
    ASSUME SkillTypes, Facts, SkillNext, leeway.obeys
    PROVE  leeway'.obeys = leeway.obeys /\ (Steady \/ Turns \/ \E i \in DOMAIN txs : MineTx(i))
  <1>0. wallet.rate \in Nat /\ wallet.rate <= wallet.rate
    BY DEF SkillTypes
  <1>1. ASSUME wallet' = wallet, txs' = txs PROVE Steady
    BY <1>0, <1>1 DEF Steady
  <1>2. ASSUME NEW p \in SkillPlans, Make(p) \/ StopSkill(p) PROVE Steady /\ leeway' = leeway
    BY <1>1, <1>2, Zenon DEF Make, StopSkill
  <1>3. ASSUME NEW p \in SkillPlans, Ask(p) \/ PutIn(p) PROVE Turns /\ leeway' = leeway
    BY <1>3, Zenon DEF Turns, Ask, PutIn
  <1>4. ASSUME NEW p \in SkillPlans, Free(p) PROVE FALSE
    BY <1>4 DEF Free
  <1>5. ASSUME Send \/ Next1 \/ Decline PROVE Turns /\ leeway' = leeway
    BY <1>5, Zenon DEF Turns, Send, Next1, Decline
  <1>6. ASSUME NEW i \in DOMAIN txs, MineTx(i) PROVE leeway' = leeway
    BY <1>6, MineIs
  <1>7. ASSUME NEW i \in DOMAIN txs, Only(i), Alike(txs'[i], txs[i]), wallet' = wallet PROVE Steady
    BY <1>0, <1>7 DEF Steady, Only, Alike
  <1>8. ASSUME NEW i \in DOMAIN txs, NEW r \in Requests, NEW p \in SkillPlans, Report(r, i, p)
        PROVE  Steady /\ leeway' = leeway
    <2>1. wallet' = wallet /\ leeway' = leeway /\ (txs' = txs \/ (Only(i) /\ Alike(txs'[i], txs[i])))
      BY <1>8, ReportIs
    <2>2. QED
      BY <1>1, <1>7, <2>1
  <1>9. ASSUME NEW r \in Requests, Write(r) \/ Patch(r) PROVE Steady /\ leeway' = leeway
    <2>1. PICK i \in DOMAIN txs : i = req[r].tx
      BY <1>9, WriteIs, PatchIs
    <2>2. wallet' = wallet /\ leeway' = leeway /\ Only(i) /\ Alike(txs'[i], txs[i])
      BY <1>9, <2>1, WriteIs, PatchIs
    <2>3. QED
      BY <1>7, <2>2
  <1>10. ASSUME NEW r \in Requests, CutShort(r) PROVE Steady /\ leeway'.obeys = leeway.obeys
    <2>1. PICK i \in DOMAIN txs : i = req[r].tx
      BY <1>10, CutShortIs
    <2>2. wallet' = wallet /\ (txs' = txs \/ (Only(i) /\ Alike(txs'[i], txs[i])))
      BY <1>10, <2>1, CutShortIs
    <2>3. leeway'.obeys = leeway.obeys
      <3>1. leeway \in Leeways1
        BY DEF SkillTypes, Leeways1
      <3>2. leeway.ends > 0 /\ leeway' = [leeway EXCEPT !.ends = @ - 1]
        BY <1>10, CutShortIs
      <3>3. QED
        BY <3>1, <3>2, LeewayTypes
    <2>4. QED
      BY <1>1, <1>7, <2>2, <2>3
  <1>11. ASSUME Accrue PROVE Steady /\ leeway'.obeys = leeway.obeys
    <2>1. /\ wallet'.does = wallet.does /\ wallet'.rate = wallet.rate + 1 /\ txs' = txs
          /\ leeway'.obeys = leeway.obeys
      BY <1>11, AccrueIs
    <2>2. wallet'.rate \in Nat /\ wallet.rate <= wallet'.rate
      BY <1>0, <2>1
    <2>3. QED
      BY <2>1, <2>2 DEF Steady
  <1>12. ASSUME Tomorrow PROVE Steady /\ leeway'.obeys = leeway.obeys
    BY <1>1, <1>12, TomorrowIs
  <1> DEFINE Kept == leeway'.obeys = leeway.obeys
             Mines == \E i \in DOMAIN txs : MineTx(i)
  <1>13. ASSUME leeway' = leeway PROVE Kept
    BY <1>13
  <1>14. ASSUME NEW i \in DOMAIN txs, MineTx(i) PROVE Mines /\ Kept
    BY <1>6, <1>13, <1>14, Zenon
  <1>15. QED
    <2> HIDE DEF Kept, Mines
    <2>1. Kept /\ (Steady \/ Turns \/ Mines)
      BY <1>2, <1>3, <1>4, <1>5, <1>8, <1>9, <1>10, <1>11, <1>12, <1>13, <1>14, Zenon DEF SkillNext, Kept
    <2>2. QED
      BY <2>1 DEF Kept, Mines

\* What is booked was in the skill's hand, and its plan's.
LEMMA CountsAt ==
    ASSUME SkillTypes, Facts, OneAtATime, NEW r \in Requests, Booking(r)
    PROVE  /\ InHand /\ wallet.does.tx = req[r].tx /\ Deed = txs[req[r].tx] /\ Doer = req[r].plan
           /\ Deed.mined /\ wallet.does.tx \in DOMAIN txs /\ Doer \in SkillPlans /\ Deed \in Sends
  <1>1. Write(r) /\ txs[req[r].tx].booked = Nowhere
    BY DEF Booking
  <1>2. req[r].pc # "none" /\ req[r].tx \in DOMAIN txs /\ txs[req[r].tx].mined /\ req[r].plan \in SkillPlans
        /\ txs[req[r].tx] \in Sends
    BY <1>1, ReqAt DEF Write
  <1>3. ~txs[req[r].tx].done
    BY <1>1, <1>2 DEF Facts, TxFacts
  <1>4. Sending /\ wallet.does.tx = req[r].tx
    BY <1>2, <1>3 DEF OneAtATime, OneOut
  <1>5. Doer = req[r].plan
    BY <1>2, <1>4 DEF OneAtATime, DeedIs, ForItsPlan, Deed
  <1>6. QED
    BY <1>1, <1>2, <1>4, <1>5 DEF InHand, Deed

LEMMA OneOutStep ==
    ASSUME SkillTypes, Facts, OneAtATime, leeway.obeys, SkillNext
    PROVE  OneOut'
  <1>0. Onward /\ OneOut /\ DeedIs
    BY TxStep DEF OneAtATime
  <1>1. ASSUME DOMAIN txs' = DOMAIN txs, wallet'.does = wallet.does PROVE OneOut'
    BY <1>0, <1>1 DEF OneOut, Onward, Sending
  <1>2. CASE Steady
    BY <1>1, <1>2 DEF Steady
  <1>3. ASSUME NEW i \in DOMAIN txs, MineTx(i) PROVE OneOut'
    BY <1>1, <1>3, MineIs
  <1>4. ASSUME \A i \in DOMAIN txs : txs[i].done, txs' = txs PROVE OneOut'
    BY <1>4 DEF OneOut
  <1>5. ASSUME NEW p \in SkillPlans, Ask(p) \/ PutIn(p) PROVE OneOut'
    <2>1. ~Sending /\ txs' = txs
      <3>1. Rest.pc = "rest"
        BY DEF Rest
      <3>2. wallet.does = Rest /\ txs' = txs
        BY <1>5, Zenon DEF Ask, PutIn
      <3>3. QED
        BY <3>1, <3>2 DEF Sending
    <2>2. QED
      BY <1>0, <1>4, <2>1 DEF OneOut
  <1>6. CASE Send
    <2> DEFINE d == wallet.does
               usd == IF d.pc = "redeem" THEN d.redeem ELSE d.usd
               kind == d.pc
               p == d.plan
               n == Len(txs) + 1
    <2>1. d \in Deeds /\ d.pc \in {"deposit", "redeem", "swap"} /\ Sent(kind, p, usd)
          /\ wallet'.does.tx = n /\ wallet'.does.pc \in {"redeeming", "sending"}
      BY <1>6, SendsIs
    <2>2. kind \in Kinds /\ p \in SkillPlans /\ usd \in Nat
      BY <2>1 DEF Deeds, Kinds
    <2>3. DOMAIN txs' = DOMAIN txs \cup {n} /\ \A i \in DOMAIN txs : txs'[i] = txs[i]
      <3> HIDE DEF d, usd, kind, p
      <3>1. QED
        BY <2>1, <2>2, SendTypes
    <2>4. \A i \in DOMAIN txs : txs[i].done
      BY <1>0, <2>1 DEF OneOut, Sending
    <2>5. QED
      <3> HIDE DEF n
      <3>1. QED
        BY <2>1, <2>3, <2>4 DEF OneOut, Sending
  <1>7. CASE Next1 \/ Decline
    <2>1. txs' = txs
      BY <1>7, NextIs
    <2>2. \A i \in DOMAIN txs : txs[i].done
      <3>1. CASE Next1
        BY <1>0, <3>1 DEF Next1, OneOut
      <3>2. CASE Decline
        BY <1>0, <3>2 DEF Decline, OneOut, Sending
      <3>3. QED
        BY <1>7, <3>1, <3>2
    <2>3. QED
      BY <1>4, <2>1, <2>2
  <1>8. QED
    BY <1>2, <1>3, <1>5, <1>6, <1>7, StepClass DEF Turns

LEMMA DeedStep ==
    ASSUME SkillTypes, Facts, OneAtATime, leeway.obeys, SkillNext
    PROVE  DeedIs'
  <1>0. Onward /\ DeedIs
    BY TxStep DEF OneAtATime
  <1>1. CASE Steady
    <2>1. wallet'.does = wallet.does
      BY <1>1 DEF Steady
    <2>2. CASE ~Sending
      BY <2>1, <2>2 DEF DeedIs, Sending
    <2>3. CASE Sending
      <3> DEFINE i == wallet.does.tx
      <3>1. /\ i \in DOMAIN txs /\ txs[i].plan = wallet.does.plan
            /\ txs[i].kind = "redeem" <=> wallet.does.pc = "redeeming"
            /\ txs[i].kind = "swap" => txs[i].usd = wallet.does.usd
            /\ txs[i].kind = "redeem" /\ ~txs[i].mined => txs[i].usd = wallet.does.redeem
        BY <1>0, <2>3 DEF DeedIs, Deed, Doer
      <3>2. /\ i \in DOMAIN txs' /\ txs'[i].plan = txs[i].plan /\ txs'[i].kind = txs[i].kind
            /\ txs'[i].usd = txs[i].usd /\ txs'[i].mined = txs[i].mined
        BY <1>0, <1>1, <3>1 DEF Onward, Steady
      <3>3. QED
        BY <2>1, <3>1, <3>2 DEF DeedIs, Deed, Doer
    <2>4. QED
      BY <2>2, <2>3
  <1>2. ASSUME NEW j \in DOMAIN txs, MineTx(j) PROVE DeedIs'
    <2>1. wallet'.does = wallet.does /\ DOMAIN txs' = DOMAIN txs
      BY <1>2, MineIs
    <2>2. CASE ~Sending
      BY <2>1, <2>2 DEF DeedIs, Sending
    <2>3. CASE Sending
      <3>1. PICK i \in DOMAIN txs : i = wallet.does.tx
        BY <1>0, <2>3 DEF DeedIs
      <3>2. /\ txs[i].plan = wallet.does.plan
            /\ txs[i].kind = "redeem" <=> wallet.does.pc = "redeeming"
            /\ txs[i].kind = "swap" => txs[i].usd = wallet.does.usd
            /\ txs[i].kind = "redeem" /\ ~txs[i].mined => txs[i].usd = wallet.does.redeem
        BY <1>0, <2>3, <3>1 DEF DeedIs, Deed, Doer
      <3>3. /\ txs'[i].plan = txs[i].plan /\ txs'[i].kind = txs[i].kind
            /\ txs'[i].kind = "swap" => txs'[i].usd = txs[i].usd
            /\ ~txs'[i].mined => txs'[i] = txs[i]
        BY <1>2, MineIs
      <3>4. QED
        BY <2>1, <3>1, <3>2, <3>3 DEF DeedIs, Deed, Doer
    <2>4. QED
      BY <2>2, <2>3
  <1>3. ASSUME NEW p \in SkillPlans, Ask(p) \/ PutIn(p) PROVE DeedIs'
    BY <1>3, AskIs, PutsIs DEF DeedIs, Sending
  <1>4. CASE Send
    <2> DEFINE d == wallet.does
               usd == IF d.pc = "redeem" THEN d.redeem ELSE d.usd
               kind == d.pc
               p == d.plan
               n == Len(txs) + 1
    <2>1. d \in Deeds /\ d.pc \in {"deposit", "redeem", "swap"} /\ Sent(kind, p, usd)
          /\ wallet'.does.plan = p /\ wallet'.does.usd = d.usd /\ wallet'.does.redeem = d.redeem
          /\ wallet'.does.tx = n /\ wallet'.does.pc = IF d.pc = "redeem" THEN "redeeming" ELSE "sending"
      BY <1>4, SendsIs
    <2>2. kind \in Kinds /\ p \in SkillPlans /\ usd \in Nat
      BY <2>1 DEF Deeds, Kinds
    <2>3. /\ DOMAIN txs' = DOMAIN txs \cup {n}
          /\ txs'[n] = [kind |-> kind, plan |-> p, usd |-> usd, vt |-> 0, mined |-> FALSE,
                                    booked |-> Nowhere, done |-> FALSE, cut |-> FALSE]
      <3> HIDE DEF d, usd, kind, p
      <3>1. QED
        BY <2>1, <2>2, SendTypes
    <2>4. txs'[n].kind = kind /\ txs'[n].plan = p /\ txs'[n].usd = usd /\ n \in DOMAIN txs'
      BY <2>3
    <2>5. QED
      <3> HIDE DEF n
      <3>1. QED
        BY <2>1, <2>4 DEF DeedIs, Deed, Doer
  <1>5. CASE Next1 \/ Decline
    BY <1>5, NextIs DEF DeedIs, Sending, Rest
  <1>6. QED
    BY <1>1, <1>2, <1>3, <1>4, <1>5, StepClass DEF Turns

\* What the skill sends is within the limits, as the plan's row is.
LEMMA SwapFits ==
    ASSUME SkillTypes, Facts, OneAtATime, Limited, NEW r \in Requests, Booking(r), txs[req[r].tx].kind = "swap"
    PROVE  /\ ~OverLimit(req[r].plan, txs[req[r].tx].usd)
           /\ sk[req[r].plan].today + txs[req[r].tx].usd <= PerDay
  <1>1. /\ InHand /\ wallet.does.tx = req[r].tx /\ Deed = txs[req[r].tx] /\ Doer = req[r].plan
        /\ Deed \in Sends /\ Doer \in SkillPlans
    BY CountsAt
  <1>2. wallet.does.pc = "sending" /\ Deed.usd = wallet.does.usd
    BY <1>1 DEF InHand, Sending, OneAtATime, DeedIs
  <1>3. wallet.does.usd <= PerBuy /\ sk[Doer].today + wallet.does.usd <= PerDay
    BY <1>1, <1>2 DEF Limited, Buying
  <1>4. Deed.usd \in Nat /\ sk[Doer].today \in Nat
    BY <1>1, SendFields DEF SkillTypes, SkillRows
  <1>5. QED
    BY <1>1, <1>2, <1>3, <1>4, SkillAssumption DEF OverLimit

LEMMA ForItsPlanStep ==
    ASSUME SkillTypes, Facts, OneAtATime, Limited, leeway.obeys, SkillNext
    PROVE  ForItsPlan'
  <1> DEFINE Good(r) == req'[r].pc # "none" => req'[r].plan = txs'[req'[r].tx].plan /\ ~req'[r].over
  <1>0. Onward /\ ForItsPlan
    BY TxStep DEF OneAtATime
  <1>1. ASSUME NEW r \in Requests, req'[r] = req[r] \/ req'[r] = NoReport PROVE Good(r)
    <2>1. CASE req'[r] = NoReport
      BY <2>1 DEF NoReport
    <2>2. CASE req'[r] = req[r] /\ req[r].pc # "none"
      <3>1. req[r].tx \in DOMAIN txs /\ req[r].plan = txs[req[r].tx].plan /\ ~req[r].over
        BY <1>0, <2>2, ReqAt DEF ForItsPlan
      <3>2. QED
        BY <1>0, <2>2, <3>1 DEF Onward
    <2>3. QED
      BY <1>1, <2>1, <2>2
  <1>2. ASSUME NEW r \in Requests, NEW i \in DOMAIN txs, NEW p \in SkillPlans, Report(r, i, p)
        PROVE \A s \in Requests : Good(s)
    <2>1. CASE req' = req
      BY <1>1, <2>1
    <2>2. CASE req' = [req EXCEPT ![r] = [pc |-> "write", tx |-> i, plan |-> p, over |-> FALSE]]
      <3>1. req'[r] = [pc |-> "write", tx |-> i, plan |-> p, over |-> FALSE]
            /\ \A s \in Requests : s # r => req'[s] = req[s]
        BY <2>2 DEF SkillTypes
      <3>2. p = txs[i].plan
        BY <1>2, ReportIs DEF For
      <3>3. txs'[i].plan = p
        BY <1>0, <3>2 DEF Onward
      <3>4. Good(r)
        BY <3>1, <3>3
      <3> HIDE DEF Good
      <3>5. QED
        BY <1>1, <3>1, <3>4
    <2>3. QED
      BY <1>2, <2>1, <2>2, ReportIs
  <1>3. ASSUME NEW r \in Requests, Write(r) PROVE \A s \in Requests : Good(s)
    <2>0. PICK i \in DOMAIN txs : i = req[r].tx
      BY <1>3, WriteIs
    <2>1. PICK p \in SkillPlans : p = req[r].plan
      BY <1>3, WriteIs
    <2> DEFINE over == txs[i].kind = "swap" /\ OverLimit(p, txs[i].usd)
    <2>2. req[r] \in Reports /\ req[r].pc = "write"
      BY <1>3, WriteIs
    <2>3. CASE req' = [req EXCEPT ![r] = NoReport]
      <3>1. \A s \in Requests : req'[s] = req[s] \/ req'[s] = NoReport
        BY <2>3 DEF SkillTypes
      <3>2. QED
        BY <1>1, <3>1
    <2>4. CASE req' = [req EXCEPT ![r].pc = "patch", ![r].over = over] /\ txs[i].booked = Nowhere
      <3>1. over = FALSE
        BY <1>3, <2>0, <2>1, <2>4, SwapFits DEF Booking
      <3>2. /\ req'[r].tx = i /\ req'[r].plan = p /\ req'[r].over = FALSE
            /\ \A s \in Requests : s # r => req'[s] = req[s]
        <4> HIDE DEF over
        <4>1. QED
          BY <2>0, <2>1, <2>2, <2>4, <3>1, ToPatch
      <3>3. p = txs[i].plan /\ txs'[i].plan = txs[i].plan
        BY <1>0, <2>0, <2>1, <2>2 DEF ForItsPlan, Onward
      <3>4. Good(r)
        BY <3>2, <3>3
      <3> HIDE DEF Good
      <3>5. QED
        BY <1>1, <3>2, <3>4
    <2>5. QED
      BY <1>3, <2>0, <2>1, <2>3, <2>4, WriteIs
  <1>4. ASSUME NEW r \in Requests, Patch(r) \/ CutShort(r) PROVE \A s \in Requests : Good(s)
    <2>1. req' = [req EXCEPT ![r] = NoReport]
      BY <1>4, PatchIs, CutShortIs
    <2>2. \A s \in Requests : req'[s] = req[s] \/ req'[s] = NoReport
      BY <2>1 DEF SkillTypes
    <2>3. QED
      BY <1>1, <2>2
  <1>5. req' = req => \A s \in Requests : Good(s)
    BY <1>1
  <1>6. \/ req' = req \/ (\E r \in Requests, i \in DOMAIN txs, p \in SkillPlans : Report(r, i, p))
        \/ \E r \in Requests : Write(r) \/ Patch(r) \/ CutShort(r)
    BY Zenon DEF SkillNext, Make, StopSkill, Ask, PutIn, Free, Send, Next1, Decline, MineTx, Tomorrow, Accrue
  <1>7. \A s \in Requests : Good(s)
    <2> HIDE DEF Good
    <2>1. QED
      BY <1>2, <1>3, <1>4, <1>5, <1>6
  <1>8. QED
    BY <1>7, Zenon DEF ForItsPlan

\* The skill was not at rest, so what it does is a deed.
LEMMA DoerIs ==
    ASSUME SkillTypes, wallet.does.pc \in {"deposit", "redeem", "swap", "redeeming", "sending"}
    PROVE  /\ wallet.does \in Deeds /\ Doer \in SkillPlans /\ wallet.does.usd \in Nat /\ wallet.does.redeem \in Nat
           /\ sk[Doer].today \in Nat /\ sk[Doer].vt \in Nat /\ sk[Doer].principal \in Nat
  <1>1. wallet.does \in Deeds
    BY NotRest
  <1>2. Doer \in SkillPlans /\ wallet.does.usd \in Nat /\ wallet.does.redeem \in Nat
    BY <1>1 DEF Doer, Deeds
  <1>3. QED
    BY <1>1, <1>2 DEF SkillTypes, SkillRows

LEMMA LimitedStep ==
    ASSUME SkillTypes, SkillTypes', Facts, OneAtATime, Limited, WithinLimits, leeway.obeys, SkillNext
    PROVE  Limited'
  <1>0. Onward /\ DeedIs /\ PerBuy \in Nat /\ PerDay \in Nat /\ PerBuy <= PerDay
    BY TxStep, SkillAssumption DEF OneAtATime
  <1>1. ASSUME wallet'.does = wallet.does, DOMAIN txs' = DOMAIN txs PROVE Limited'
    <2>1. SUFFICES ASSUME Buying' PROVE wallet'.does.usd <= PerBuy /\ sk'[Doer].today + wallet'.does.usd <= PerDay
      BY <1>1 DEF Limited, Doer
    <2>2. Buying /\ (wallet.does.pc = "sending" => Deed'.booked = Nowhere)
      <3>1. CASE wallet.does.pc \in {"redeem", "redeeming", "swap"}
        BY <3>1 DEF Buying
      <3>2. CASE wallet.does.pc = "sending"
        <4>1. wallet.does.tx \in DOMAIN txs /\ Sending
          BY <1>0, <3>2 DEF DeedIs, Sending
        <4>2. Deed'.booked = Nowhere /\ Deed'.kind = "swap"
          BY <1>1, <2>1, <3>2 DEF Buying, InHand
        <4>3. Deed' = txs'[wallet.does.tx]
          BY <1>1 DEF Deed
        <4>4. Deed.kind = "swap" /\ Deed.booked = Nowhere
          BY <1>0, <4>1, <4>2, <4>3 DEF Deed, Onward
        <4>5. QED
          BY <3>2, <4>1, <4>2, <4>4 DEF Buying, InHand
      <3>3. QED
        BY <1>1, <2>1, <3>1, <3>2 DEF Buying
    <2>3. /\ wallet.does.usd <= PerBuy /\ sk[Doer].today + wallet.does.usd <= PerDay
          /\ wallet.does.usd \in Nat /\ sk[Doer].today \in Nat /\ Doer \in SkillPlans
      BY <2>2, DoerIs DEF Limited, Buying
    <2>4. sk'[Doer].today = sk[Doer].today \/ sk'[Doer].today = 0
      <3>1. CASE RowsKept
        BY <2>3, <3>1 DEF RowsKept
      <3>2. ASSUME NEW r \in Requests, NEW p \in SkillPlans, NEW tx \in Sends, Counts(r, p, tx)
            PROVE sk'[Doer].today = sk[Doer].today
        <4>1. /\ InHand /\ wallet.does.tx = req[r].tx /\ Deed = tx /\ Doer = p
              /\ wallet.does.tx \in DOMAIN txs /\ txs'[req[r].tx].booked = p
              /\ sk' = [sk EXCEPT ![p] = Booked(p, tx)] /\ (tx.kind = "redeem" => tx.vt > 0)
          BY <3>2, CountsAt, WriteIs, ReqAt DEF Counts, Booking
        <4>2. p # Nowhere
          BY SkillAssumption
        <4>3. Deed'.booked = p
          BY <1>1, <4>1 DEF Deed
        <4>4. wallet.does.pc # "sending"
          BY <2>2, <4>2, <4>3
        <4>5. Deed.kind = "redeem"
          BY <1>0, <4>1, <4>4 DEF InHand, Sending, DeedIs
        <4>6. sk'[p] = Booked(p, tx)
          BY <4>1 DEF SkillTypes
        <4>7. QED
          BY <4>1, <4>5, <4>6, BookedIs
      <3>3. QED
        BY <3>1, <3>2, CountStep
    <2>5. QED
      BY <1>0, <1>1, <2>3, <2>4
  <1>2. CASE Steady
    BY <1>1, <1>2 DEF Steady
  <1>3. ASSUME NEW i \in DOMAIN txs, MineTx(i) PROVE Limited'
    BY <1>1, <1>3, MineIs
  <1>4. ASSUME NEW p \in SkillPlans, Ask(p) PROVE Limited'
    <2>1. sk' = sk /\ wallet'.does.plan = p /\ wallet'.does.usd = Spend(p)
      BY <1>4, AskIs
    <2>2. sk[p].today <= PerDay
      BY DEF WithinLimits
    <2>3. Spend(p) <= PerBuy /\ sk[p].today + Spend(p) <= PerDay
      BY <2>2, SpendTypes
    <2>4. QED
      BY <2>1, <2>3 DEF Limited, Doer
  <1>5. ASSUME NEW p \in SkillPlans, PutIn(p) PROVE Limited'
    BY <1>5, PutsIs DEF Limited, Buying
  <1>6. CASE Send
    <2> DEFINE d == wallet.does
               usd == IF d.pc = "redeem" THEN d.redeem ELSE d.usd
               kind == d.pc
               p == d.plan
               n == Len(txs) + 1
    <2>1. d \in Deeds /\ d.pc \in {"deposit", "redeem", "swap"} /\ Sent(kind, p, usd) /\ sk' = sk
          /\ wallet'.does.plan = p /\ wallet'.does.usd = d.usd
          /\ wallet'.does.tx = n /\ wallet'.does.pc = IF d.pc = "redeem" THEN "redeeming" ELSE "sending"
      BY <1>6, SendsIs
    <2>2. kind \in Kinds /\ p \in SkillPlans /\ usd \in Nat
      BY <2>1 DEF Deeds, Kinds
    <2>3. txs'[n] = [kind |-> kind, plan |-> p, usd |-> usd, vt |-> 0, mined |-> FALSE,
                                    booked |-> Nowhere, done |-> FALSE, cut |-> FALSE]
      <3> HIDE DEF d, usd, kind, p
      <3>1. QED
        BY <2>1, <2>2, SendTypes
    <2>4. txs'[n].kind = kind
      BY <2>3
    <2>5. Buying' => Buying
      <3> HIDE DEF n
      <3>1. QED
        BY <2>1, <2>4 DEF Buying, Deed
    <2>6. QED
      BY <2>1, <2>5 DEF Limited, Doer
  <1>7. CASE Next1 \/ Decline
    <2>1. CASE wallet'.does = Rest
      BY <2>1 DEF Limited, Buying, Rest
    <2>2. CASE /\ wallet.does.pc = "redeeming" /\ wallet'.does.pc = "swap"
               /\ wallet'.does.plan = wallet.does.plan /\ wallet'.does.usd = wallet.does.usd
      <3>1. Buying /\ sk' = sk
        BY <1>7, <2>2, NextIs DEF Buying
      <3>2. QED
        BY <2>2, <3>1 DEF Limited, Doer
    <2>3. QED
      BY <1>7, <2>1, <2>2, NextIs
  <1>8. QED
    BY <1>2, <1>3, <1>4, <1>5, <1>6, <1>7, StepClass DEF Turns

\* While the wallet does what it did, what it has sent and not recorded stays as it was.
LEMMA InHandOn ==
    ASSUME SkillTypes, Facts, DeedIs, Onward, wallet'.does = wallet.does
    PROVE  /\ InHand' => InHand /\ wallet.does.tx \in DOMAIN txs
           /\ Deed' = txs'[wallet.does.tx] /\ Deed = txs[wallet.does.tx] /\ Doer' = Doer
  <1>1. Deed' = txs'[wallet.does.tx] /\ Deed = txs[wallet.does.tx] /\ Doer' = Doer
    BY DEF Deed, Doer
  <1>2. ASSUME InHand' PROVE InHand /\ wallet.does.tx \in DOMAIN txs
    <2>1. Sending /\ Deed'.booked = Nowhere
      BY <1>2 DEF InHand, Sending
    <2>2. wallet.does.tx \in DOMAIN txs
      BY <2>1 DEF DeedIs
    <2>3. Deed.booked = Nowhere
      BY <1>1, <2>1, <2>2 DEF Onward
    <2>4. QED
      BY <2>1, <2>2, <2>3 DEF InHand
  <1>3. QED
    BY <1>1, <1>2

LEMMA KeepsRoom ==
    \A p, n, v, r, s \in Nat : p + n <= v * r /\ r <= s => p + n <= v * s
  <1> SUFFICES ASSUME NEW p \in Nat, NEW n \in Nat, NEW v \in Nat, NEW r \in Nat, NEW s \in Nat,
                      p + n <= v * r, r <= s
      PROVE  p + n <= v * s
    OBVIOUS
  <1> DEFINE a == v * r
             b == v * s
  <1>1. a \in Nat /\ b \in Nat /\ a <= b
    BY MulIs, MulLess
  <1>2. p + n <= a
    OBVIOUS
  <1> HIDE DEF a, b
  <1>3. p + n <= b
    BY <1>1, <1>2
  <1>4. QED
    BY <1>3 DEF b

\* What the skill redeems, from Ask on, is interest.
LEMMA AskedInterest ==
    ASSUME SkillTypes, NEW p \in SkillPlans, p \in YieldPlans, Drop(Spend(p), sk[p].harvested) > 0
    PROVE  sk[p].principal + Drop(Spend(p), sk[p].harvested) <= sk[p].vt * wallet.rate
  <1> DEFINE s == Spend(p)
             h == sk[p].harvested
             c == sk[p].principal
             n == Drop(s, h)
             u == PositionUsd(p)
             x == sk[p].vt * wallet.rate
             i == Interest(p)
  <1>1. s \in Nat /\ s <= i + h /\ i \in Nat /\ u \in Nat
    BY SpendTypes
  <1>2. h \in Nat /\ c \in Nat /\ wallet.vt \in Nat /\ sk[p].vt \in Nat /\ wallet.rate \in Nat
    BY DEF SkillTypes, SkillRows
  <1>3. u <= x /\ x \in Nat
    <2>1. Least(wallet.vt, sk[p].vt) \in Nat /\ Least(wallet.vt, sk[p].vt) <= sk[p].vt
      BY <1>2, SmallTypes
    <2>2. QED
      BY <1>2, <2>1, MulIs, MulLess DEF PositionUsd
  <1>4. i = Drop(u, c)
    BY DEF Interest
  <1>5. n > 0
    OBVIOUS
  <1>6. n \in Nat /\ h + n = s
    <2> HIDE DEF s, h
    <2>1. QED
      BY <1>1, <1>2, <1>5, SmallTypes
  <1> HIDE DEF s, h, c, n, u, x, i
  <1>7. n <= i
    BY <1>1, <1>2, <1>6
  <1>8. c + i = u
    BY <1>1, <1>2, <1>4, <1>5, <1>6, <1>7, SmallTypes
  <1>9. c + n <= x
    BY <1>1, <1>2, <1>3, <1>6, <1>7, <1>8
  <1>10. QED
    BY <1>9 DEF c, n, x, s, h

LEMMA RedeemsInterestStep ==
    ASSUME SkillTypes, SkillTypes', Facts, OneAtATime, RedeemsInterest, leeway.obeys, SkillNext
    PROVE  RedeemsInterest'
  <1>0. Onward /\ DeedIs /\ OneOut
    BY TxStep DEF OneAtATime
  <1>1. ASSUME wallet'.does = wallet.does, DOMAIN txs' = DOMAIN txs, wallet'.rate \in Nat, wallet.rate <= wallet'.rate
        PROVE  RedeemsInterest'
    <2>1. SUFFICES ASSUME \/ wallet.does.pc = "redeem"
                          \/ wallet.does.pc = "redeeming" /\ ~Deed'.mined
          PROVE sk'[Doer].principal + wallet.does.redeem <= sk'[Doer].vt * wallet'.rate
      BY <1>1 DEF RedeemsInterest, Doer
    <2>2. Deed' = txs'[wallet.does.tx] /\ Deed = txs[wallet.does.tx]
      BY <1>1 DEF Deed
    <2>3. wallet.does.pc = "redeem" \/ (wallet.does.pc = "redeeming" /\ ~Deed.mined)
      <3>1. CASE wallet.does.pc = "redeeming"
        <4>1. wallet.does.tx \in DOMAIN txs
          BY <1>0, <3>1 DEF DeedIs, Sending
        <4>2. QED
          BY <1>0, <2>1, <2>2, <3>1, <4>1 DEF Onward
      <3>2. QED
        BY <2>1, <3>1
    <2>4. RowsKept
      <3>1. ASSUME NEW r \in Requests, Booking(r) PROVE FALSE
        <4>1. Sending /\ Deed.mined
          BY <3>1, CountsAt DEF InHand
        <4>2. QED
          BY <2>3, <4>1 DEF Sending
      <3>2. QED
        BY <3>1, CountStep DEF Counts
    <2>5. /\ sk[Doer].principal + wallet.does.redeem <= sk[Doer].vt * wallet.rate
          /\ Doer \in SkillPlans /\ wallet.does.redeem \in Nat /\ sk[Doer].vt \in Nat /\ sk[Doer].principal \in Nat
      BY <2>3, DoerIs DEF RedeemsInterest
    <2>6. sk'[Doer].principal = sk[Doer].principal /\ sk'[Doer].vt = sk[Doer].vt
      BY <2>4, <2>5 DEF RowsKept
    <2>7. sk[Doer].principal + wallet.does.redeem <= sk[Doer].vt * wallet'.rate
      <3>1. wallet.rate \in Nat
        BY DEF SkillTypes
      <3>2. QED
        BY <1>1, <2>5, <3>1, KeepsRoom
    <2>8. QED
      BY <2>6, <2>7
  <1>2. CASE Steady
    BY <1>1, <1>2 DEF Steady
  <1>3. ASSUME NEW i \in DOMAIN txs, MineTx(i) PROVE RedeemsInterest'
    <2>1. wallet'.does = wallet.does /\ DOMAIN txs' = DOMAIN txs /\ wallet'.rate = wallet.rate
      BY <1>3, MineIs
    <2>2. wallet.rate \in Nat /\ wallet.rate <= wallet.rate
      BY DEF SkillTypes
    <2>3. QED
      BY <1>1, <2>1, <2>2
  <1>4. ASSUME NEW p \in SkillPlans, Ask(p) PROVE RedeemsInterest'
    <2>1. /\ sk' = sk /\ wallet'.rate = wallet.rate /\ wallet'.does.plan = p
          /\ \/ /\ p \in YieldPlans /\ wallet'.does.pc = "redeem"
                /\ wallet'.does.redeem = Drop(Spend(p), sk[p].harvested) /\ wallet'.does.redeem > 0
             \/ wallet'.does.pc = "swap"
      BY <1>4, AskIs
    <2>2. CASE wallet'.does.pc = "swap"
      BY <2>2 DEF RedeemsInterest
    <2>3. CASE /\ p \in YieldPlans /\ wallet'.does.pc = "redeem"
               /\ wallet'.does.redeem = Drop(Spend(p), sk[p].harvested) /\ wallet'.does.redeem > 0
      <3>1. sk[p].principal + Drop(Spend(p), sk[p].harvested) <= sk[p].vt * wallet.rate
        BY <2>3, AskedInterest
      <3>2. QED
        BY <2>1, <2>3, <3>1 DEF RedeemsInterest, Doer
    <2>4. QED
      BY <2>1, <2>2, <2>3
  <1>5. ASSUME NEW p \in SkillPlans, PutIn(p) PROVE RedeemsInterest'
    BY <1>5, PutsIs DEF RedeemsInterest
  <1>6. CASE Send
    <2>1. /\ sk' = sk /\ wallet'.rate = wallet.rate /\ wallet'.does.plan = wallet.does.plan
          /\ wallet'.does.redeem = wallet.does.redeem
          /\ wallet'.does.pc = IF wallet.does.pc = "redeem" THEN "redeeming" ELSE "sending"
      BY <1>6, SendsIs
    <2>2. QED
      BY <2>1 DEF RedeemsInterest, Doer
  <1>7. CASE Next1 \/ Decline
    BY <1>7, NextIs DEF RedeemsInterest, Rest
  <1>8. QED
    BY <1>2, <1>3, <1>4, <1>5, <1>6, <1>7, StepClass DEF Turns

LEMMA RedeemsItsOwnStep ==
    ASSUME SkillTypes, SkillTypes', Facts, OneAtATime, Redeems, leeway.obeys, SkillNext
    PROVE  RedeemsItsOwn'
  <1>0. Onward /\ DeedIs /\ RedeemsInterest /\ RedeemsItsOwn
    BY TxStep DEF OneAtATime, Redeems
  <1>1. ASSUME wallet'.does = wallet.does, InHand', wallet.does.pc = "redeeming"
        PROVE  /\ InHand /\ wallet.does.tx \in DOMAIN txs /\ sk'[Doer].vt = sk[Doer].vt
               /\ Doer \in SkillPlans /\ sk[Doer].vt \in Nat
    <2>1. /\ InHand /\ wallet.does.tx \in DOMAIN txs /\ Deed' = txs'[wallet.does.tx]
          /\ Doer \in SkillPlans /\ sk[Doer].vt \in Nat
      BY <1>0, <1>1, InHandOn, DoerIs
    <2>2. RowsKept
      <3>1. ASSUME NEW r \in Requests, Booking(r) PROVE FALSE
        <4>1. /\ txs'[wallet.does.tx].booked = req[r].plan /\ req[r].plan \in SkillPlans
          BY <3>1, CountsAt, WriteIs DEF Booking
        <4>2. Deed'.booked # Nowhere
          BY <2>1, <4>1, SkillAssumption
        <4>3. QED
          BY <1>1, <4>2 DEF InHand
      <3>2. QED
        BY <3>1, CountStep DEF Counts
    <2>3. QED
      BY <2>1, <2>2 DEF RowsKept
  <1>2. CASE Steady
    <2>1. SUFFICES ASSUME wallet.does.pc = "redeeming", InHand', Deed'.mined PROVE Deed'.vt <= sk'[Doer'].vt
      BY <1>2 DEF RedeemsItsOwn, Steady
    <2>2. InHand /\ wallet.does.tx \in DOMAIN txs /\ sk'[Doer].vt = sk[Doer].vt
      BY <1>1, <1>2, <2>1 DEF Steady
    <2>3. Deed' = txs'[wallet.does.tx] /\ Deed = txs[wallet.does.tx] /\ Doer' = Doer
      BY <1>2 DEF Steady, Deed, Doer
    <2>4. Deed.mined /\ Deed'.vt = Deed.vt
      BY <1>2, <2>1, <2>2, <2>3 DEF Steady
    <2>5. QED
      BY <1>0, <2>1, <2>2, <2>3, <2>4 DEF RedeemsItsOwn
  <1>3. ASSUME NEW i \in DOMAIN txs, MineTx(i) PROVE RedeemsItsOwn'
    <2>0. wallet'.does = wallet.does
      BY <1>3, MineIs
    <2>1. SUFFICES ASSUME wallet.does.pc = "redeeming", InHand', Deed'.mined PROVE Deed'.vt <= sk'[Doer'].vt
      BY <2>0 DEF RedeemsItsOwn
    <2>2. /\ InHand /\ wallet.does.tx \in DOMAIN txs /\ sk'[Doer].vt = sk[Doer].vt
          /\ Doer \in SkillPlans /\ sk[Doer].vt \in Nat
      BY <1>1, <2>0, <2>1
    <2>3. Deed' = txs'[wallet.does.tx] /\ Deed = txs[wallet.does.tx] /\ Doer' = Doer
      BY <2>0 DEF Deed, Doer
    <2>4. CASE i # wallet.does.tx
      <3>1. Deed' = Deed
        BY <1>3, <2>2, <2>3, <2>4, MineIs
      <3>2. QED
        BY <1>0, <2>1, <2>2, <2>3, <3>1 DEF RedeemsItsOwn
    <2>5. CASE i = wallet.does.tx
      <3>1. Deed.kind = "redeem" /\ ~Deed.mined /\ Deed.usd = wallet.does.redeem
        BY <1>0, <1>3, <2>1, <2>2, <2>3, <2>5, MineIs DEF DeedIs, InHand
      <3>2. Deed'.vt = UpDiv(Deed.usd, wallet.rate)
        BY <1>3, <2>3, <2>5, <3>1, MineIs
      <3>3. sk[Doer].principal + wallet.does.redeem <= sk[Doer].vt * wallet.rate
        BY <1>0, <2>1, <3>1 DEF RedeemsInterest
      <3>4. wallet.does.redeem \in Nat /\ sk[Doer].principal \in Nat /\ wallet.rate \in Nat \ {0}
        BY <2>1, DoerIs DEF SkillTypes
      <3> DEFINE x == sk[Doer].vt * wallet.rate
      <3>5. x \in Nat
        BY <2>2, <3>4, MulIs
      <3>6. wallet.does.redeem <= x
        <4> HIDE DEF x
        <4>1. sk[Doer].principal + wallet.does.redeem <= x
          BY <3>3 DEF x
        <4>2. QED
          BY <3>4, <3>5, <4>1
      <3>7. UpDiv(wallet.does.redeem, wallet.rate) <= sk[Doer].vt
        BY <2>2, <3>4, <3>6, UpDivIs
      <3>8. QED
        BY <2>2, <2>3, <3>1, <3>2, <3>7
    <2>6. QED
      BY <2>4, <2>5
  <1>4. ASSUME NEW p \in SkillPlans, Ask(p) \/ PutIn(p) PROVE RedeemsItsOwn'
    BY <1>4, AskIs, PutsIs DEF RedeemsItsOwn
  <1>5. CASE Send
    <2> DEFINE d == wallet.does
               usd == IF d.pc = "redeem" THEN d.redeem ELSE d.usd
               kind == d.pc
               p == d.plan
               n == Len(txs) + 1
    <2>1. d \in Deeds /\ d.pc \in {"deposit", "redeem", "swap"} /\ Sent(kind, p, usd) /\ wallet'.does.tx = n
      BY <1>5, SendsIs
    <2>2. kind \in Kinds /\ p \in SkillPlans /\ usd \in Nat
      BY <2>1 DEF Deeds, Kinds
    <2>3. txs'[n] = [kind |-> kind, plan |-> p, usd |-> usd, vt |-> 0, mined |-> FALSE,
                                    booked |-> Nowhere, done |-> FALSE, cut |-> FALSE]
      <3> HIDE DEF d, usd, kind, p
      <3>1. QED
        BY <2>1, <2>2, SendTypes
    <2>4. txs'[n].mined = FALSE
      BY <2>3
    <2>5. QED
      <3> HIDE DEF n
      <3>1. QED
        BY <2>1, <2>4 DEF RedeemsItsOwn, Deed
  <1>6. CASE Next1 \/ Decline
    BY <1>6, NextIs DEF RedeemsItsOwn, Rest
  <1>7. QED
    BY <1>2, <1>3, <1>4, <1>5, <1>6, StepClass DEF Turns

LEMMA WithinStep ==
    ASSUME SkillTypes, SkillTypes', Facts, OneAtATime, Limited, WithinLimits, leeway.obeys, SkillNext
    PROVE  WithinLimits'
  <1>0. PerDay \in Nat /\ WithinLimits /\ ForItsPlan
    BY SkillAssumption DEF OneAtATime
  <1>1. \A p \in SkillPlans : sk'[p].today <= PerDay
    <2>1. CASE RowsKept
      BY <1>0, <2>1 DEF RowsKept, WithinLimits
    <2>2. ASSUME NEW r \in Requests, NEW p \in SkillPlans, NEW tx \in Sends, Counts(r, p, tx)
          PROVE \A q \in SkillPlans : sk'[q].today <= PerDay
      <3>1. /\ Booking(r) /\ p = req[r].plan /\ tx = txs[req[r].tx]
            /\ sk' = [sk EXCEPT ![p] = Booked(p, tx)] /\ (tx.kind = "redeem" => tx.vt > 0) /\ tx.kind \in Kinds
        BY <2>2, WriteIs, ReqAt, SendFields DEF Counts, Booking
      <3>2. sk'[p] = Booked(p, tx) /\ \A q \in SkillPlans : q # p => sk'[q] = sk[q]
        BY <3>1 DEF SkillTypes
      <3>3. CASE tx.kind = "swap"
        <4>1. sk[p].today + tx.usd <= PerDay
          BY <3>1, <3>3, SwapFits
        <4>2. Booked(p, tx).today = sk[p].today + tx.usd
          BY <3>1, <3>3, BookedIs
        <4>3. QED
          BY <1>0, <3>2, <4>1, <4>2 DEF WithinLimits
      <3>4. CASE tx.kind # "swap"
        <4>1. Booked(p, tx).today = sk[p].today
          BY <3>1, <3>4, BookedIs DEF Kinds
        <4>2. QED
          BY <1>0, <3>2, <4>1 DEF WithinLimits
      <3>5. QED
        BY <3>3, <3>4
    <2>3. QED
      BY <2>1, <2>2, CountStep
  <1>2. \A p \in SkillPlans : sk'[p].reason # "report_over_limit"
    <2> DEFINE Good == \A p \in SkillPlans : sk'[p].reason # "report_over_limit"
    <2>1. ASSUME NEW p \in SkillPlans, sk' = [sk EXCEPT ![p] = sk'[p]], sk'[p].reason # "report_over_limit"
          PROVE  Good
      <3>1. \A q \in SkillPlans : q # p => sk'[q] = sk[q]
        BY <2>1 DEF SkillTypes
      <3>2. QED
        BY <1>0, <2>1, <3>1 DEF WithinLimits
    <2>2. sk' = sk => Good
      BY <1>0 DEF WithinLimits
    <2>3. ASSUME NEW p \in SkillPlans, Make(p) \/ StopSkill(p) PROVE Good
      BY <2>1, <2>3, MadeIs, StopIs
    <2>4. ASSUME Tomorrow PROVE Good
      BY <1>0, <2>4, TomorrowIs DEF WithinLimits
    <2>5. ASSUME NEW r \in Requests, Write(r) PROVE Good
      <3>1. PICK p \in SkillPlans : p = req[r].plan
        BY <2>5, WriteIs
      <3>2. PICK tx \in Sends : tx = txs[req[r].tx]
        BY <2>5, ReqAt DEF Write
      <3>3. CASE sk' = [sk EXCEPT ![p] = Booked(p, tx)]
        <4>1. (tx.kind = "redeem" => tx.vt > 0) /\ tx.kind \in Kinds
          BY <2>5, <3>2, ReqAt, SendFields DEF Write
        <4>2. Booked(p, tx).reason = sk[p].reason \/ Booked(p, tx).reason = "redeemed"
          BY <4>1, BookedIs DEF Kinds
        <4>3. sk'[p] = Booked(p, tx)
          BY <3>3 DEF SkillTypes
        <4>4. QED
          BY <1>0, <2>1, <3>3, <4>2, <4>3 DEF WithinLimits
      <3>4. QED
        BY <2>2, <2>5, <3>1, <3>2, <3>3, WriteIs
    <2>6. ASSUME NEW r \in Requests, Patch(r) PROVE Good
      <3>1. PICK p \in SkillPlans : p = req[r].plan
        BY <2>6, PatchIs
      <3>2. ~req[r].over
        BY <1>0, <2>6 DEF ForItsPlan, Patch
      <3>3. /\ sk' = [sk EXCEPT ![p] = sk'[p]]
            /\ sk'[p].reason = "" \/ sk'[p] = sk[p]
        BY <2>6, <3>1, <3>2, PatchIs
      <3>4. QED
        BY <1>0, <2>1, <3>3 DEF WithinLimits
    <2>7. \/ sk' = sk \/ Tomorrow \/ (\E p \in SkillPlans : Make(p) \/ StopSkill(p))
          \/ \E r \in Requests : Write(r) \/ Patch(r)
      BY Zenon DEF SkillNext, Ask, PutIn, Free, Send, Next1, Decline, MineTx, Report, CutShort, Accrue
    <2>8. QED
      <3> HIDE DEF Good
      <3>1. Good
        BY <2>2, <2>3, <2>4, <2>5, <2>6, <2>7
      <3>2. QED
        BY <3>1 DEF Good
  <1>3. QED
    BY <1>1, <1>2 DEF WithinLimits

LEMMA HeldStep ==
    ASSUME SkillTypes, SkillTypes', Facts, OneAtATime, RedeemsItsOwn, Held1, leeway.obeys, SkillNext
    PROVE  Held1'
  <1> DEFINE Ins(p) == Total(p, "deposit", "vt")
             Outs(p) == Total(p, "redeem", "vt")
  <1>0. /\ \A p \in SkillPlans : sk[p].vt + Outs(p) = Ins(p) /\ sk[p].vt \in Nat /\ Outs(p) \in Nat /\ Ins(p) \in Nat
        /\ "vt" \in Fields /\ "deposit" \in Kinds /\ "redeem" \in Kinds /\ "swap" \in Kinds
    <2>1. "vt" \in Fields /\ "deposit" \in Kinds /\ "redeem" \in Kinds /\ "swap" \in Kinds
      BY DEF Fields, Kinds
    <2>2. \A p \in SkillPlans : Outs(p) \in Nat /\ Ins(p) \in Nat
      BY <2>1, TotalIs
    <2>3. \A p \in SkillPlans : sk[p].vt + Outs(p) = Ins(p)
      BY DEF Held1
    <2>4. \A p \in SkillPlans : sk[p].vt \in Nat
      BY DEF SkillTypes, SkillRows
    <2>5. QED
      BY <2>1, <2>2, <2>3, <2>4
  <1>1. CASE TotalsKept /\ RowsKept
    <2>1. \A p \in SkillPlans : Ins(p)' = Ins(p) /\ Outs(p)' = Outs(p)
      BY <1>0, <1>1 DEF TotalsKept
    <2>2. \A p \in SkillPlans : sk'[p].vt = sk[p].vt
      BY <1>1 DEF RowsKept
    <2> HIDE DEF Ins, Outs
    <2>3. \A p \in SkillPlans : sk'[p].vt + Outs(p)' = Ins(p)'
      BY <1>0, <2>1, <2>2
    <2>4. QED
      BY <2>3 DEF Held1, Ins, Outs
  <1>2. ASSUME NEW r \in Requests, NEW p \in SkillPlans, NEW tx \in Sends, Counts(r, p, tx) PROVE Held1'
    <2>1. /\ tx.kind \in Kinds /\ tx.vt \in Nat /\ (tx.kind = "redeem" => tx.vt > 0)
          /\ sk' = [sk EXCEPT ![p] = Booked(p, tx)] /\ Books(p, tx) /\ Booking(r)
      BY <1>2, WriteIs, ReqAt, SendFields DEF Booking, Counts
    <2>2. sk'[p] = Booked(p, tx) /\ \A q \in SkillPlans : q # p => sk'[q] = sk[q]
      BY <2>1 DEF SkillTypes
    <2>3. ASSUME NEW q \in SkillPlans, q # p PROVE Ins(q)' = Ins(q) /\ Outs(q)' = Outs(q)
      BY <1>0, <2>1, <2>3, Zenon DEF Books
    <2>4. ASSUME tx.kind = "deposit"
          PROVE  Ins(p)' = Ins(p) + tx.vt /\ Outs(p)' = Outs(p) /\ sk'[p].vt = sk[p].vt + tx.vt
      <3>1. Total(p, tx.kind, "vt")' = Total(p, tx.kind, "vt") + tx["vt"]
        BY <1>0, <2>1, Zenon DEF Books
      <3>2. "redeem" # tx.kind
        BY <2>4
      <3>3. Outs(p)' = Outs(p)
        BY <1>0, <2>1, <3>2, Zenon DEF Books
      <3>4. Ins(p)' = Ins(p) + tx.vt
        BY <2>4, <3>1, Zenon
      <3>5. QED
        BY <2>1, <2>2, <2>4, <3>3, <3>4, BookedIs
    <2>5. ASSUME tx.kind = "redeem"
          PROVE  Ins(p)' = Ins(p) /\ Outs(p)' = Outs(p) + tx.vt /\ sk'[p].vt + tx.vt = sk[p].vt
      <3>1. Total(p, tx.kind, "vt")' = Total(p, tx.kind, "vt") + tx["vt"]
        BY <1>0, <2>1, Zenon DEF Books
      <3>2. "deposit" # tx.kind
        BY <2>5
      <3>3. Ins(p)' = Ins(p)
        BY <1>0, <2>1, <3>2, Zenon DEF Books
      <3>4. Outs(p)' = Outs(p) + tx.vt
        BY <2>5, <3>1, Zenon
      <3>5. InHand /\ Deed.mined /\ Deed = tx /\ Doer = p
        BY <1>2, <2>1, CountsAt DEF Counts
      <3>6. wallet.does.pc = "redeeming"
        BY <2>5, <3>5 DEF OneAtATime, DeedIs, InHand
      <3>7. tx.vt <= sk[p].vt
        BY <3>5, <3>6 DEF RedeemsItsOwn
      <3>8. sk'[p].vt = Drop(sk[p].vt, tx.vt)
        BY <2>1, <2>2, <2>5, BookedIs
      <3>9. sk'[p].vt + tx.vt = sk[p].vt
        <4>1. sk[p].vt \in Nat /\ tx.vt \in Nat
          BY <1>0, <2>1
        <4>2. Drop(sk[p].vt, tx.vt) = sk[p].vt - tx.vt
          BY <3>7, <4>1, SmallTypes
        <4>3. QED
          BY <3>8, <4>1, <4>2
      <3>10. QED
        BY <3>3, <3>4, <3>9
    <2>6. ASSUME tx.kind = "swap"
          PROVE  Ins(p)' = Ins(p) /\ Outs(p)' = Outs(p) /\ sk'[p].vt = sk[p].vt
      <3>1. "redeem" # tx.kind /\ "deposit" # tx.kind
        BY <2>6
      <3>2. Ins(p)' = Ins(p) /\ Outs(p)' = Outs(p)
        BY <1>0, <2>1, <3>1, Zenon DEF Books
      <3>3. QED
        BY <2>1, <2>2, <2>6, <3>2, BookedIs
    <2> HIDE DEF Ins, Outs
    <2>7. sk'[p].vt + Outs(p)' = Ins(p)'
      <3>1. CASE tx.kind = "deposit"
        BY <1>0, <2>1, <2>4, <3>1
      <3>2. CASE tx.kind = "redeem"
        <4>1. Ins(p)' = Ins(p) /\ Outs(p)' = Outs(p) + tx.vt /\ sk'[p].vt + tx.vt = sk[p].vt
          BY <2>5, <3>2
        <4>2. sk'[p].vt \in Nat
          BY DEF SkillTypes, SkillRows
        <4>3. QED
          BY <1>0, <2>1, <4>1, <4>2
      <3>3. CASE tx.kind = "swap"
        BY <1>0, <2>6, <3>3
      <3>4. QED
        BY <2>1, <3>1, <3>2, <3>3 DEF Kinds
    <2>8. ASSUME NEW q \in SkillPlans PROVE sk'[q].vt + Outs(q)' = Ins(q)'
      <3>1. CASE q = p
        BY <2>7, <3>1, Zenon
      <3>2. CASE q # p
        BY <1>0, <2>2, <2>3, <3>2
      <3>3. QED
        BY <3>1, <3>2
    <2>9. QED
      BY <2>8 DEF Held1, Ins, Outs
  <1>3. QED
    BY <1>1, <1>2, CountStep

LEMMA ObeysKept ==
    ASSUME SkillTypes, Facts, SkillNext
    PROVE  leeway'.obeys = leeway.obeys
  <1>1. leeway \in Leeways1
    BY DEF SkillTypes, Leeways1
  <1>2. ASSUME NEW r \in Requests, CutShort(r) PROVE leeway'.obeys = leeway.obeys
    BY <1>1, <1>2, CutShortIs, LeewayTypes
  <1>3. ASSUME Accrue \/ Tomorrow PROVE leeway'.obeys = leeway.obeys
    BY <1>3, AccrueIs, TomorrowIs
  <1>4. leeway' = leeway \/ Accrue \/ Tomorrow \/ \E r \in Requests : CutShort(r)
    BY Zenon DEF SkillNext, Make, StopSkill, Ask, PutIn, Free, Send, Next1, Decline, MineTx, Report, Write, Patch
  <1>5. QED
    BY <1>2, <1>3, <1>4

LEMMA ObeyedStep ==
    ASSUME SkillTypes, SkillTypes', Facts, Obeyed, SkillNext
    PROVE  Obeyed'
  <1> SUFFICES ASSUME leeway'.obeys PROVE (OneAtATime /\ Limited /\ Redeems /\ WithinLimits /\ Held1)'
    BY DEF Obeyed
  <1>1. leeway.obeys
    BY ObeysKept
  <1>2. OneAtATime /\ Limited /\ Redeems /\ RedeemsInterest /\ RedeemsItsOwn /\ WithinLimits /\ Held1
    BY <1>1 DEF Obeyed, Redeems
  <1>3. OneOut' /\ DeedIs' /\ ForItsPlan'
    BY <1>1, <1>2, OneOutStep, DeedStep, ForItsPlanStep
  <1>4. Limited' /\ WithinLimits'
    BY <1>1, <1>2, LimitedStep, WithinStep
  <1>5. RedeemsInterest' /\ RedeemsItsOwn'
    BY <1>1, <1>2, RedeemsInterestStep, RedeemsItsOwnStep
  <1>6. Held1'
    BY <1>1, <1>2, HeldStep
  <1>7. QED
    BY <1>3, <1>4, <1>5, <1>6, Zenon DEF OneAtATime, Redeems

-----------------------------------------------------------------------------
(* The skill's side: the theorems                                          *)

LEMMA NothingRecorded ==
    ASSUME SkillTypes, txs = <<>>, NEW p \in SkillPlans, NEW kind \in Kinds, NEW field \in Fields
    PROVE  Total(p, kind, field) = 0
  <1>1. RecordedOn(p, kind) = {} /\ Total(p, kind, field) = SumFunctionOnSet(Column(field), RecordedOn(p, kind))
    <2>1. DOMAIN txs = {}
      OBVIOUS
    <2>2. RecordedOn(p, kind) = {}
      BY <2>1 DEF RecordedOn
    <2>3. QED
      BY <2>2, TotalIs
  <1>2. IsFiniteSet({})
    BY FS_EmptySet
  <1>3. SumFunctionOnSet(Column(field), {}) = 0
    BY <1>2, SumNone
  <1>4. QED
    BY <1>1, <1>3

LEMMA SkillStart ==
    ASSUME SkillInit
    PROVE  SkillInv
  <1>1. /\ sk = [p \in SkillPlans |-> Unmade] /\ wallet = [vt |-> 0, rate |-> 1, does |-> Rest]
        /\ txs = <<>> /\ req = [r \in Requests |-> NoReport] /\ leeway \in Leeways
    BY Zenon DEF SkillInit
  <1>2. /\ Unmade.made = FALSE /\ Unmade.status = "active" /\ Unmade.reason = "" /\ Unmade.principal = 0
        /\ Unmade.vt = 0 /\ Unmade.today = 0 /\ Unmade.spent = 0
    BY DEF Unmade
  <1>3. SkillTypes
    <2>1. sk \in [SkillPlans -> SkillRows]
      BY <1>1, UnmadeIs
    <2>2. wallet \in [vt : Nat, rate : Nat \ {0}, does : {Rest} \cup Deeds]
      BY <1>1
    <2>3. txs \in Seq(Sends) /\ req \in [Requests -> {NoReport} \cup Reports]
      BY <1>1
    <2>4. leeway \in Leeways1
      BY <1>1, SkillAssumption DEF Leeways1
    <2>5. QED
      BY <2>1, <2>2, <2>3, <2>4, Zenon DEF SkillTypes, Leeways1
  <1>4. DOMAIN txs = {} /\ wallet.does = Rest /\ Rest.pc = "rest" /\ \A r \in Requests : req[r].pc = "none"
    BY <1>1 DEF Rest, NoReport
  <1>5. \A p \in SkillPlans : sk[p] = Unmade
    BY <1>1
  <1>6. Facts
    <2>1. TxFacts
      BY <1>4 DEF TxFacts
    <2>2. ReqFacts
      BY <1>4 DEF ReqFacts
    <2>3. DoesFacts
      BY <1>4 DEF DoesFacts
    <2>4. RowFacts
      BY <1>2, <1>5 DEF RowFacts
    <2>5. QED
      BY <2>1, <2>2, <2>3, <2>4 DEF Facts
  <1>7. \A p \in SkillPlans : /\ Total(p, "swap", "usd") = 0 /\ Total(p, "deposit", "vt") = 0
                              /\ Total(p, "redeem", "vt") = 0
    <2>1. "usd" \in Fields /\ "vt" \in Fields /\ Kinds = {"deposit", "redeem", "swap"}
      BY DEF Fields, Kinds
    <2>2. QED
      BY <1>1, <1>3, <2>1, NothingRecorded
  <1>8. SpentOnce
    BY <1>2, <1>5, <1>7 DEF SpentOnce
  <1>14. \A p \in SkillPlans : /\ sk[p].principal = 0 /\ sk[p].today = 0 /\ sk[p].vt = 0
                               /\ sk[p].reason = "" /\ sk[p].spent = 0
    <2> SUFFICES ASSUME NEW p \in SkillPlans
        PROVE  /\ sk[p].principal = 0 /\ sk[p].today = 0 /\ sk[p].vt = 0
               /\ sk[p].reason = "" /\ sk[p].spent = 0
      OBVIOUS
    <2>1. sk[p] = Unmade
      BY <1>5
    <2>2. QED
      BY <1>2, <2>1, Zenon
  <1>9. Patched
    <2>1. \A p \in SkillPlans : ~Idles(p) /\ ~Overruns(p)
      <3>1. PerDay \in Nat
        BY SkillAssumption
      <3>2. \A n \in Nat : ~(0 > n)
        OBVIOUS
      <3>3. QED
        BY <1>14, <3>1, <3>2, Zenon DEF Idles, Overruns
    <2>2. QED
      BY <2>1, PatchedIs
  <1>10. OneAtATime /\ Limited /\ Redeems
    <2>1. OneOut /\ DeedIs /\ ForItsPlan
      BY <1>4 DEF OneOut, DeedIs, ForItsPlan, Sending
    <2>2. Limited /\ RedeemsInterest /\ RedeemsItsOwn
      BY <1>4 DEF Limited, Buying, RedeemsInterest, RedeemsItsOwn
    <2>3. QED
      BY <2>1, <2>2 DEF OneAtATime, Redeems
  <1>11. WithinLimits /\ Held1
    <2>1. PerDay \in Nat
      BY SkillAssumption
    <2>2. \A n \in Nat : 0 <= n
      OBVIOUS
    <2>3. 0 + 0 = 0
      OBVIOUS
    <2>4. WithinLimits
      BY <1>14, <2>1, <2>2, Zenon DEF WithinLimits
    <2>5. Held1
      BY <1>7, <1>14, <2>3, Zenon DEF Held1
    <2>6. QED
      BY <2>4, <2>5
  <1>12. QED
    BY <1>3, <1>6, <1>8, <1>9, <1>10, <1>11 DEF SkillInv, Obeyed

LEMMA SkillStep ==
    ASSUME SkillInv, [SkillNext]_skillVars
    PROVE  SkillInv'
  <1>1. CASE SkillNext
    <2>1. SkillTypes' /\ Facts'
      BY <1>1, TypesStep, FactsStep DEF SkillInv
    <2>2. SpentOnce' /\ Patched' /\ Obeyed'
      BY <1>1, <2>1, SpentStep, PatchedStep, ObeyedStep DEF SkillInv
    <2>3. QED
      BY <2>1, <2>2 DEF SkillInv
  <1>2. CASE UNCHANGED skillVars
    <2>1. sk' = sk /\ wallet' = wallet /\ txs' = txs /\ req' = req /\ leeway' = leeway
      BY <1>2 DEF skillVars
    <2>2. SkillTypes' /\ Facts'
      BY <2>1, Zenon DEF SkillInv, SkillTypes, Facts, TxFacts, ReqFacts, DoesFacts, RowFacts
    <2>3. SpentOnce' /\ Patched'
      <3>1. SpentOnce'
        BY <2>1, Zenon DEF SkillInv, SpentOnce, Total, RecordedOn
      <3>2. Patched'
        BY <2>1 DEF SkillInv, Patched, Waits
      <3>3. QED
        BY <3>1, <3>2
    <2>4. Obeyed'
      BY <2>1, Zenon DEF SkillInv, Obeyed, OneAtATime, OneOut, DeedIs, ForItsPlan, Limited, Buying, Redeems,
         RedeemsInterest, RedeemsItsOwn, WithinLimits, Held1, Total, RecordedOn, Sending, Deed, Doer, InHand
    <2>5. QED
      BY <2>2, <2>3, <2>4 DEF SkillInv
  <1>3. QED
    BY <1>1, <1>2

LEMMA SkillInvariant == WebSpec => []SkillInv
  <1>1. WebInit => SkillInv
    BY SkillStart DEF WebInit, NoSkill
  <1>2. SkillInv /\ [WebNext]_webVars => SkillInv'
    <2> SUFFICES ASSUME SkillInv, [WebNext]_webVars PROVE SkillInv'
      OBVIOUS
    <2>1. [SkillNext]_skillVars
      <3>1. CASE WebNext
        BY <3>1 DEF WebNext
      <3>2. CASE UNCHANGED webVars
        BY <3>2 DEF webVars, skillVars
      <3>3. QED
        BY <3>1, <3>2
    <2>2. QED
      BY <2>1, SkillStep
  <1>3. QED
    BY <1>1, <1>2, PTL DEF WebSpec

\* However often, and by however many requests at once, a transaction is reported, it counts
\* once (report.ts:6).
THEOREM RecordedHolds == WebSpec => []RecordedOnce
  <1>1. SkillInv => RecordedOnce
    <2> SUFFICES ASSUME SkillInv, NEW p \in SkillPlans
        PROVE  /\ sk[p].spent = Total(p, "swap", "usd")
               /\ leeway.obeys => sk[p].vt = Total(p, "deposit", "vt") - Total(p, "redeem", "vt")
      BY DEF RecordedOnce
    <2>1. sk[p].spent = Total(p, "swap", "usd")
      BY DEF SkillInv, SpentOnce
    <2>2. ASSUME leeway.obeys PROVE sk[p].vt = Total(p, "deposit", "vt") - Total(p, "redeem", "vt")
      <3> DEFINE v == sk[p].vt
                 a == Total(p, "deposit", "vt")
                 b == Total(p, "redeem", "vt")
      <3>1. v + b = a
        BY <2>2 DEF SkillInv, Obeyed, Held1
      <3>2. v \in Nat /\ a \in Nat /\ b \in Nat
        <4>1. "vt" \in Fields /\ "deposit" \in Kinds /\ "redeem" \in Kinds /\ SkillTypes
          BY DEF Fields, Kinds, SkillInv
        <4>2. a \in Nat /\ b \in Nat
          BY <4>1, TotalIs
        <4>3. QED
          BY <4>1, <4>2 DEF SkillTypes, SkillRows
      <3> HIDE DEF v, a, b
      <3>3. v = a - b
        BY <3>1, <3>2
      <3>4. QED
        BY <3>3 DEF v, a, b
    <2>3. QED
      BY <2>1, <2>2
  <1>2. QED
    BY <1>1, SkillInvariant, PTL

\* Once nothing is being reported and nothing recorded was cut short, a deposit on record has
\* started its plan, and an ordinary plan over its day's limit does not run (report.ts:166, 248).
THEOREM RestsHolds == WebSpec => []RestsRight
  <1>1. SkillInv => RestsRight
    <2> SUFFICES ASSUME SkillInv, Resting, \A i \in DOMAIN txs : ~txs[i].cut, NEW p \in SkillPlans PROVE Right(p)
      BY DEF RestsRight
    <2>1. ~IsCut
      BY DEF IsCut
    <2>2. (Idles(p) => Starts(p)) /\ (Overruns(p) => Pauses(p))
      BY <2>1, PatchedIs DEF SkillInv
    <2>3. ~Starts(p) /\ ~Pauses(p)
      BY DEF Starts, Pauses, Waits, Resting
    <2>4. QED
      BY <2>2, <2>3 DEF Right, Idles, Overruns
  <1>2. QED
    BY <1>1, SkillInvariant, PTL

\* While the user acts through the skill alone, no plan buys past its limits, and no report
\* pauses it for that: what the skill was told to buy still fits when it is recorded.
THEOREM LimitsHold == WebSpec => [](leeway.obeys => WithinLimits)
  <1>1. SkillInv => (leeway.obeys => WithinLimits)
    BY DEF SkillInv, Obeyed
  <1>2. QED
    BY <1>1, SkillInvariant, PTL

-----------------------------------------------------------------------------
(* The skill's side: the principals stay covered                           *)

\* Deposits that buy whole vTokens, at every rate there may be, leave each principal covered.
Rates == 1 .. wallet.rate + leeway.rises
Divides(k, n) == \E q \in Nat : n = q * k
Whole == \A k \in Rates : Divides(k, Put) /\ \A p \in SkillPlans : Divides(k, sk[p].principal)
PaidFor == \A p \in SkillPlans : sk[p].principal <= sk[p].vt * wallet.rate
\* What the wallet holds is the plans', but for what was mined and is not recorded.
VtSum == SumFunction([p \in SkillPlans |-> sk[p].vt])
OnWay(kind) == IF InHand /\ Deed.mined /\ Deed.kind = kind THEN Deed.vt ELSE 0
Counted == wallet.vt + OnWay("redeem") = VtSum + OnWay("deposit")
PutsIn == /\ wallet.does.pc = "deposit" => wallet.does.usd = Put
          /\ Sending /\ Deed.kind = "deposit" => /\ Deed.usd = Put
                                                 /\ Deed.mined => Deed.usd <= Deed.vt * wallet.rate
\* A redeem that is mined leaves the principal, at the rate it had.
LeavesIt == InHand /\ Deed.mined /\ Deed.kind = "redeem" =>
    \E m \in 1 .. wallet.rate : /\ Deed.usd = Deed.vt * m
                                /\ sk[Doer].principal + Deed.usd <= sk[Doer].vt * m
Covered == Whole /\ PaidFor /\ Counted /\ PutsIn /\ LeavesIt

\* Parts that are each worth as much as another's, are so together.
LEMMA SumBelow ==
    ASSUME NEW f, NEW g, NEW D, IsFiniteSet(D), NEW k \in Nat,
           \A x \in D : f[x] \in Nat /\ g[x] \in Nat /\ f[x] <= g[x] * k
    PROVE  /\ SumFunctionOnSet(f, D) \in Nat /\ SumFunctionOnSet(g, D) \in Nat
           /\ SumFunctionOnSet(f, D) <= SumFunctionOnSet(g, D) * k
  <1> DEFINE below(s) == SumFunctionOnSet(f, s) <= SumFunctionOnSet(g, s) * k
             bad == {s \in SUBSET D : ~below(s)}
  <1>0. \A s \in SUBSET D : SumFunctionOnSet(f, s) \in Nat /\ SumFunctionOnSet(g, s) \in Nat
    <2> TAKE s \in SUBSET D
    <2>1. IsFiniteSet(s) /\ (\A y \in s : f[y] \in Nat) /\ \A y \in s : g[y] \in Nat
      BY SubsetsFinite
    <2>2. QED
      BY <2>1, SumType, Zenon
  <1>1. D \in SUBSET D
    OBVIOUS
  <1>2. bad = {}
    <2> SUFFICES ASSUME bad # {} PROVE FALSE
      BY Zenon
    <2>1. \A s \in bad : IsFiniteSet(s)
      BY SubsetsFinite
    <2>2. PICK s \in bad : \A t \in bad : Cardinality(s) <= Cardinality(t)
      <3> HIDE DEF bad
      <3>1. QED
        BY <2>1, SmallestSet, Zenon
    <2>3. /\ SumFunctionOnSet(f, s) = IF s = {} THEN 0 ELSE f[First(s)] + SumFunctionOnSet(f, s \ {First(s)})
          /\ SumFunctionOnSet(g, s) = IF s = {} THEN 0 ELSE g[First(s)] + SumFunctionOnSet(g, s \ {First(s)})
      BY <2>1, <2>2, SumSteps, Zenon
    <2>4. ASSUME s = {} PROVE FALSE
      <3>1. SumFunctionOnSet(f, s) = 0 /\ SumFunctionOnSet(g, s) = 0
        BY <2>3, <2>4, Zenon
      <3>2. 0 <= 0 * k
        OBVIOUS
      <3>3. below(s)
        BY <3>1, <3>2, Zenon
      <3>4. QED
        BY <3>3, Zenon
    <2> DEFINE c == First(s)
               t == s \ {First(s)}
    <2>5. c \in s /\ t \in SUBSET D /\ c \in D
      BY <2>4, FirstIn
    <2>6. t \notin bad
      <3>1. Cardinality(t) \in Nat /\ Cardinality(s) \in Nat /\ Cardinality(t) < Cardinality(s)
        BY <2>1, <2>5, OneLess
      <3> HIDE DEF t
      <3>2. ~(Cardinality(s) <= Cardinality(t))
        BY <3>1
      <3>3. QED
        BY <2>2, <3>2, Zenon
    <2> DEFINE a == f[c]
               b == g[c]
               x == SumFunctionOnSet(f, t)
               y == SumFunctionOnSet(g, t)
    <2>7. a \in Nat /\ b \in Nat /\ a <= b * k
      BY <2>5, Zenon
    <2>8. x \in Nat /\ y \in Nat /\ x <= y * k
      BY <1>0, <2>5, <2>6, Zenon
    <2>9. a + x <= (b + y) * k
      <3> DEFINE u == b * k
                 v == y * k
      <3>1. u \in Nat /\ v \in Nat /\ (b + y) * k = u + v
        <4> HIDE DEF b, y
        <4>1. QED
          BY <2>7, <2>8
      <3> HIDE DEF a, b, x, y
      <3>2. a <= u /\ x <= v
        BY <2>7, <2>8
      <3> HIDE DEF u, v
      <3>3. QED
        BY <2>7, <2>8, <3>1, <3>2
    <2>10. SumFunctionOnSet(f, s) = a + x /\ SumFunctionOnSet(g, s) = b + y
      BY <2>3, <2>4, Zenon
    <2>11. below(s)
      BY <2>9, <2>10, Zenon
    <2>12. QED
      BY <2>11, Zenon
  <1>3. QED
    BY <1>0, <1>1, <1>2, Zenon

Vts(rows) == [p \in SkillPlans |-> rows[p].vt]
LEMMA VtSumIs ==
    /\ VtSum = SumFunctionOnSet(Vts(sk), SkillPlans)
    /\ VtSum' = SumFunctionOnSet(Vts(sk'), SkillPlans)
  <1>1. VtSum = SumFunction(Vts(sk)) /\ VtSum' = SumFunction(Vts(sk'))
    BY DEF VtSum, Vts
  <1>2. DOMAIN Vts(sk) = SkillPlans /\ DOMAIN Vts(sk') = SkillPlans
    BY DEF Vts
  <1>3. /\ SumFunction(Vts(sk)) = SumFunctionOnSet(Vts(sk), DOMAIN Vts(sk))
        /\ SumFunction(Vts(sk')) = SumFunctionOnSet(Vts(sk'), DOMAIN Vts(sk'))
    BY Zenon DEF SumFunction
  <1>4. QED
    BY <1>1, <1>2, <1>3, Zenon

LEMMA VtTypes ==
    ASSUME NEW rows \in [SkillPlans -> SkillRows]
    PROVE  \A p \in SkillPlans : rows[p].vt \in Nat /\ Vts(rows)[p] = rows[p].vt
  BY DEF Vts, SkillRows

\* One plan's vTokens change, and so does their sum.
LEMMA VtSumChanges ==
    ASSUME SkillTypes, SkillTypes', NEW x \in SkillPlans, \A p \in SkillPlans \ {x} : sk'[p].vt = sk[p].vt
    PROVE  VtSum \in Nat /\ VtSum' \in Nat /\ VtSum' + sk[x].vt = VtSum + sk'[x].vt
  <1> DEFINE f == Vts(sk)
             g == Vts(sk')
  <1>1. \A p \in SkillPlans : /\ sk[p].vt \in Nat /\ f[p] = sk[p].vt
                              /\ sk'[p].vt \in Nat /\ g[p] = sk'[p].vt
    BY VtTypes DEF SkillTypes
  <1>2. IsFiniteSet(SkillPlans)
    BY SkillAssumption
  <1> HIDE DEF f, g
  <1>3. (\A p \in SkillPlans : f[p] \in Nat /\ g[p] \in Nat) /\ \A p \in SkillPlans \ {x} : g[p] = f[p]
    BY <1>1
  <1>4. /\ SumFunctionOnSet(f, SkillPlans) \in Nat /\ SumFunctionOnSet(g, SkillPlans) \in Nat
        /\ SumFunctionOnSet(g, SkillPlans) + f[x] = SumFunctionOnSet(f, SkillPlans) + g[x]
    BY <1>2, <1>3, SumChanges
  <1>5. VtSum = SumFunctionOnSet(f, SkillPlans) /\ VtSum' = SumFunctionOnSet(g, SkillPlans)
    BY VtSumIs DEF f, g
  <1>6. QED
    BY <1>1, <1>4, <1>5

LEMMA VtSumSame ==
    ASSUME SkillTypes, SkillTypes', \A p \in SkillPlans : sk'[p].vt = sk[p].vt
    PROVE  VtSum \in Nat /\ VtSum' = VtSum
  <1> DEFINE f == Vts(sk)
             g == Vts(sk')
  <1>1. \A p \in SkillPlans : sk[p].vt \in Nat /\ f[p] = sk[p].vt /\ g[p] = sk'[p].vt
    BY VtTypes DEF SkillTypes
  <1>2. IsFiniteSet(SkillPlans)
    BY SkillAssumption
  <1> HIDE DEF f, g
  <1>3. (\A p \in SkillPlans : f[p] \in Nat) /\ \A p \in SkillPlans : f[p] = g[p]
    BY <1>1
  <1>4. SumFunctionOnSet(f, SkillPlans) \in Nat /\ SumFunctionOnSet(f, SkillPlans) = SumFunctionOnSet(g, SkillPlans)
    BY <1>2, <1>3, SumSame, SumType, Zenon
  <1>5. VtSum = SumFunctionOnSet(f, SkillPlans) /\ VtSum' = SumFunctionOnSet(g, SkillPlans)
    BY VtSumIs DEF f, g
  <1>6. QED
    BY <1>4, <1>5, Zenon

\* A step that moves no vTokens, in the wallet, in the rows, or on their way.
Still(i) == /\ txs'[i].usd = txs[i].usd /\ txs'[i].vt = txs[i].vt /\ txs'[i].mined = txs[i].mined
            /\ txs'[i].kind = txs[i].kind /\ txs'[i].booked = txs[i].booked
Unmoved == /\ wallet'.does = wallet.does /\ wallet'.vt = wallet.vt
           /\ wallet'.rate \in Nat /\ wallet.rate <= wallet'.rate
           /\ wallet'.rate + leeway'.rises = wallet.rate + leeway.rises
           /\ RowsKept /\ DOMAIN txs' = DOMAIN txs /\ \A i \in DOMAIN txs : Still(i)
LEMMA CoverClass ==
    ASSUME SkillTypes, SkillTypes', Facts, SkillNext, leeway.obeys
    PROVE  Unmoved \/ Turns \/ (\E i \in DOMAIN txs : MineTx(i)) \/ \E r \in Requests : Booking(r)
  <1> DEFINE Mines == \E i \in DOMAIN txs : MineTx(i)
             Books1 == \E r \in Requests : Booking(r)
  <1>0. wallet.rate \in Nat /\ wallet.rate <= wallet.rate /\ leeway.rises \in Nat /\ leeway \in Leeways1
    BY DEF SkillTypes, Leeways1
  <1>1. RowsKept \/ Books1
    BY CountStep DEF Counts
  <1>2. ASSUME RowsKept, wallet' = wallet, leeway'.rises = leeway.rises, txs' = txs PROVE Unmoved
    BY <1>0, <1>2 DEF Unmoved, Still
  <1>3. ASSUME RowsKept, wallet' = wallet, leeway'.rises = leeway.rises, NEW i \in DOMAIN txs, Only(i),
               Alike(txs'[i], txs[i]), txs'[i].booked = txs[i].booked
        PROVE  Unmoved
    <2>1. \A j \in DOMAIN txs : Still(j)
      BY <1>3 DEF Still, Only, Alike
    <2>2. QED
      BY <1>0, <1>3, <2>1 DEF Unmoved, Only
  <1>4. ASSUME NEW p \in SkillPlans, Make(p) \/ StopSkill(p) PROVE wallet' = wallet /\ leeway' = leeway /\ txs' = txs
    BY <1>4, Zenon DEF Make, StopSkill
  <1>5. ASSUME NEW p \in SkillPlans, Ask(p) \/ PutIn(p) PROVE Turns
    BY <1>5, Zenon DEF Turns
  <1>6. ASSUME NEW p \in SkillPlans, Free(p) PROVE FALSE
    BY <1>6 DEF Free
  <1>7. Send \/ Next1 \/ Decline => Turns
    BY Zenon DEF Turns
  <1>8. ASSUME NEW i \in DOMAIN txs, NEW r \in Requests, NEW p \in SkillPlans, Report(r, i, p), RowsKept PROVE Unmoved
    <2>1. wallet' = wallet /\ leeway'.rises = leeway.rises
          /\ (txs' = txs \/ (Only(i) /\ Alike(txs'[i], txs[i]) /\ txs'[i].booked = txs[i].booked))
      BY <1>8, ReportIs
    <2>2. QED
      BY <1>2, <1>3, <1>8, <2>1
  <1>9. ASSUME NEW r \in Requests, Write(r), RowsKept PROVE Unmoved \/ Books1
    <2>1. PICK i \in DOMAIN txs : i = req[r].tx
      BY <1>9, WriteIs
    <2>2. CASE txs[i].booked = Nowhere
      BY <1>9, <2>1, <2>2 DEF Booking
    <2>3. CASE txs[i].booked # Nowhere
      <3>1. /\ wallet' = wallet /\ leeway'.rises = leeway.rises /\ Only(i) /\ Alike(txs'[i], txs[i])
            /\ txs'[i].booked = txs[i].booked
        BY <1>9, <2>1, <2>3, WriteIs
      <3>2. QED
        BY <1>3, <1>9, <3>1
    <2>4. QED
      BY <2>2, <2>3
  <1>10. ASSUME NEW r \in Requests, Patch(r), RowsKept PROVE Unmoved
    <2>1. PICK i \in DOMAIN txs : i = req[r].tx
      BY <1>10, PatchIs
    <2>2. /\ wallet' = wallet /\ leeway'.rises = leeway.rises /\ Only(i) /\ Alike(txs'[i], txs[i])
          /\ txs'[i].booked = txs[i].booked
      BY <1>10, <2>1, PatchIs
    <2>3. QED
      BY <1>3, <1>10, <2>2
  <1>11. ASSUME NEW r \in Requests, CutShort(r), RowsKept PROVE Unmoved
    <2>1. PICK i \in DOMAIN txs : i = req[r].tx
      BY <1>11, CutShortIs
    <2>2. /\ wallet' = wallet /\ leeway.ends > 0 /\ leeway' = [leeway EXCEPT !.ends = @ - 1]
          /\ (txs' = txs \/ (Only(i) /\ Alike(txs'[i], txs[i]) /\ txs'[i].booked = txs[i].booked))
      BY <1>11, <2>1, CutShortIs
    <2>3. leeway'.rises = leeway.rises
      BY <1>0, <2>2, LeewayTypes
    <2>4. QED
      BY <1>2, <1>3, <1>11, <2>2, <2>3
  <1>12. ASSUME Accrue, RowsKept PROVE Unmoved
    <2>1. /\ wallet'.does = wallet.does /\ wallet'.vt = wallet.vt /\ wallet'.rate = wallet.rate + 1
          /\ leeway'.rises = leeway.rises - 1 /\ txs' = txs
      BY <1>12, AccrueIs
    <2>2. /\ wallet'.rate \in Nat /\ wallet.rate <= wallet'.rate
          /\ wallet'.rate + leeway'.rises = wallet.rate + leeway.rises
      BY <1>0, <2>1
    <2>3. QED
      BY <1>12, <2>1, <2>2 DEF Unmoved, Still
  <1>13. Tomorrow => wallet' = wallet /\ leeway'.rises = leeway.rises /\ txs' = txs
    BY TomorrowIs
  <1>14. leeway' = leeway => leeway'.rises = leeway.rises
    OBVIOUS
  <1>15. Unmoved \/ Turns \/ Mines \/ Books1
    <2> SUFFICES ASSUME RowsKept PROVE Unmoved \/ Turns \/ Mines \/ Books1
      BY <1>1
    <2> HIDE DEF Books1
    <2>1. ASSUME NEW p \in SkillPlans, Make(p) \/ StopSkill(p) PROVE Unmoved
      BY <1>2, <1>4, <1>14, <2>1
    <2>2. Tomorrow => Unmoved
      BY <1>2, <1>13
    <2>3. QED
      BY <1>5, <1>6, <1>7, <1>8, <1>9, <1>10, <1>11, <1>12, <2>1, <2>2, Zenon DEF SkillNext
  <1>16. QED
    BY <1>15 DEF Mines, Books1

\* What the wallet does, and what of it is on its way, step by step.
LEMMA WalletTypes ==
    ASSUME SkillTypes
    PROVE  /\ wallet.vt \in Nat /\ wallet.rate \in Nat \ {0} /\ leeway.rises \in Nat
           /\ \A p \in SkillPlans : sk[p].principal \in Nat /\ sk[p].vt \in Nat
  BY DEF SkillTypes, SkillRows

LEMMA DeedAt ==
    ASSUME SkillTypes, DeedIs, Sending
    PROVE  /\ wallet.does.tx \in DOMAIN txs /\ Deed = txs[wallet.does.tx] /\ Deed \in Sends /\ Doer \in SkillPlans
           /\ Deed.usd \in Nat /\ Deed.vt \in Nat /\ Deed.kind \in Kinds
  <1>1. wallet.does.tx \in DOMAIN txs /\ Deed = txs[wallet.does.tx]
    BY DEF DeedIs, Deed
  <1>2. Deed \in Sends
    BY <1>1, TxAt
  <1>3. Doer \in SkillPlans
    BY DoerIs DEF Sending
  <1>4. QED
    BY <1>1, <1>2, <1>3, SendFields

LEMMA OnWayTypes ==
    ASSUME SkillTypes, DeedIs
    PROVE  \A kind \in Kinds : OnWay(kind) \in Nat
  <1>1. InHand => Deed.vt \in Nat
    BY DeedAt DEF InHand
  <1>2. QED
    BY <1>1 DEF OnWay

RoomKept == \A p, v, r, s \in Nat : p <= v * r /\ r <= s => p <= v * s
LEMMA RoomIsKept == RoomKept
  <1> SUFFICES ASSUME NEW p \in Nat, NEW v \in Nat, NEW r \in Nat, NEW s \in Nat, p <= v * r, r <= s
      PROVE  p <= v * s
    BY DEF RoomKept
  <1>1. p + 0 <= v * r => p + 0 <= v * s
    BY KeepsRoom
  <1>2. p + 0 = p
    OBVIOUS
  <1>3. QED
    BY <1>1, <1>2

LEMMA CalmKeeps ==
    ASSUME SkillTypes, SkillTypes', DeedIs, Covered, Unmoved
    PROVE  Covered'
  <1>0. /\ wallet.vt \in Nat /\ wallet.rate \in Nat \ {0} /\ wallet'.rate \in Nat /\ wallet.rate <= wallet'.rate
        /\ \A p \in SkillPlans : sk[p].principal \in Nat /\ sk[p].vt \in Nat
    BY WalletTypes DEF Unmoved
  <1>1. \A p \in SkillPlans : sk'[p].vt = sk[p].vt /\ sk'[p].principal = sk[p].principal
    BY DEF Unmoved, RowsKept
  <1>2. /\ Sending' = Sending /\ Doer' = Doer /\ wallet'.does = wallet.does
    BY DEF Unmoved, Sending, Doer
  <1>3. Sending => /\ Deed'.usd = Deed.usd /\ Deed'.vt = Deed.vt /\ Deed'.mined = Deed.mined
                   /\ Deed'.kind = Deed.kind /\ Deed'.booked = Deed.booked
    BY DeedAt DEF Unmoved, Still, Deed
  <1>4. InHand' <=> InHand
    BY <1>2, <1>3 DEF InHand
  <1>5. Whole'
    <2>1. Rates' = Rates
      BY DEF Unmoved, Rates
    <2>2. QED
      BY <1>1, <2>1 DEF Covered, Whole, Divides
  <1>6. PaidFor'
    <2> SUFFICES ASSUME NEW p \in SkillPlans PROVE sk'[p].principal <= sk'[p].vt * wallet'.rate
      BY DEF PaidFor
    <2>1. sk[p].principal <= sk[p].vt * wallet.rate
      BY DEF Covered, PaidFor
    <2>2. sk[p].principal <= sk[p].vt * wallet'.rate
      BY <1>0, <2>1, RoomIsKept DEF RoomKept
    <2>3. QED
      BY <1>1, <2>2
  <1>7. Counted'
    <2>1. VtSum' = VtSum
      BY <1>1, VtSumSame
    <2>2. OnWay("redeem")' = OnWay("redeem") /\ OnWay("deposit")' = OnWay("deposit")
      BY <1>3, <1>4 DEF OnWay, InHand
    <2>3. wallet'.vt = wallet.vt
      BY DEF Unmoved
    <2>4. QED
      BY <2>1, <2>2, <2>3, Zenon DEF Covered, Counted
  <1>8. PutsIn'
    <2>1. PutsIn
      BY DEF Covered
    <2>2. Sending /\ Deed.kind = "deposit" /\ Deed.mined => Deed.usd <= Deed.vt * wallet'.rate
      <3> SUFFICES ASSUME Sending, Deed.kind = "deposit", Deed.mined PROVE Deed.usd <= Deed.vt * wallet'.rate
        OBVIOUS
      <3>1. Deed.usd <= Deed.vt * wallet.rate /\ Deed.usd \in Nat /\ Deed.vt \in Nat
        BY <2>1, DeedAt DEF PutsIn
      <3>2. QED
        BY <1>0, <3>1, RoomIsKept DEF RoomKept
    <2>3. /\ wallet'.does.pc = "deposit" => wallet'.does.usd = Put
          /\ Sending' /\ Deed'.kind = "deposit" => /\ Deed'.usd = Put
                                                   /\ Deed'.mined => Deed'.usd <= Deed'.vt * wallet'.rate
      BY <1>2, <1>3, <2>1, <2>2 DEF PutsIn
    <2>4. QED
      BY <2>3 DEF PutsIn
  <1>9. LeavesIt'
    <2> SUFFICES ASSUME InHand, Deed.mined, Deed.kind = "redeem"
        PROVE \E m \in 1 .. wallet'.rate : /\ Deed'.usd = Deed'.vt * m
                                           /\ sk'[Doer'].principal + Deed'.usd <= sk'[Doer'].vt * m
      BY <1>3, <1>4 DEF LeavesIt, InHand
    <2>1. PICK m \in 1 .. wallet.rate : /\ Deed.usd = Deed.vt * m
                                        /\ sk[Doer].principal + Deed.usd <= sk[Doer].vt * m
      BY DEF Covered, LeavesIt
    <2>2. m \in 1 .. wallet'.rate
      BY <1>0
    <2>3. Doer \in SkillPlans
      BY DeedAt DEF InHand
    <2>4. /\ Deed'.usd = Deed'.vt * m
          /\ sk'[Doer'].principal + Deed'.usd <= sk'[Doer'].vt * m
      BY <1>1, <1>2, <1>3, <2>1, <2>3 DEF InHand
    <2>5. QED
      BY <2>2, <2>4
  <1>10. QED
    BY <1>5, <1>6, <1>7, <1>8, <1>9 DEF Covered

\* The wallet's own steps, between what it sent: nothing is on its way before or after.
LEMMA StandsStill ==
    ASSUME SkillTypes, SkillTypes', Covered, sk' = sk, leeway' = leeway, wallet'.vt = wallet.vt,
           wallet'.rate = wallet.rate, ~(InHand /\ Deed.mined), ~(InHand' /\ Deed'.mined), PutsIn'
    PROVE  Covered'
  <1>1. Whole' /\ PaidFor'
    <2>1. Rates' = Rates
      BY DEF Rates
    <2>2. Whole'
      BY <2>1 DEF Covered, Whole, Divides
    <2>3. PaidFor'
      BY DEF Covered, PaidFor
    <2>4. QED
      BY <2>2, <2>3
  <1>2. Counted'
    <2>1. VtSum' = VtSum
      BY VtSumSame
    <2>2. /\ OnWay("redeem") = 0 /\ OnWay("deposit") = 0
          /\ OnWay("redeem")' = 0 /\ OnWay("deposit")' = 0
      BY Zenon DEF OnWay
    <2>3. QED
      BY <2>1, <2>2, Zenon DEF Covered, Counted
  <1>3. LeavesIt'
    BY DEF LeavesIt
  <1>4. QED
    BY <1>1, <1>2, <1>3 DEF Covered

LEMMA TurnsKeep ==
    ASSUME SkillTypes, SkillTypes', Facts, OneAtATime, Covered, Turns
    PROVE  Covered'
  <1>0. /\ sk' = sk /\ leeway' = leeway /\ wallet'.vt = wallet.vt /\ wallet'.rate = wallet.rate
    BY AskIs, PutsIs, SendsIs, NextIs DEF Turns
  <1>1. ~(InHand /\ Deed.mined)
    <2>1. ASSUME NEW p \in SkillPlans, Ask(p) \/ PutIn(p) PROVE ~Sending
      <3>1. Rest.pc = "rest"
        BY DEF Rest
      <3>2. wallet.does = Rest
        BY <2>1, Zenon DEF Ask, PutIn
      <3>3. QED
        BY <3>1, <3>2 DEF Sending
    <2>2. Send \/ Decline => ~Sending
      BY DEF Send, Decline, Sending
    <2>3. ASSUME Next1 PROVE Deed.booked # Nowhere
      <3>1. Sending /\ txs[wallet.does.tx].done
        BY <2>3 DEF Next1, Sending
      <3>2. wallet.does.tx \in DOMAIN txs /\ Deed = txs[wallet.does.tx]
        BY <3>1, DeedAt DEF OneAtATime
      <3>3. QED
        BY <3>1, <3>2 DEF Facts, TxFacts
    <2>4. QED
      BY <2>1, <2>2, <2>3, Zenon DEF Turns, InHand
  <1>2. CASE Send
    <2> DEFINE d == wallet.does
               usd == IF d.pc = "redeem" THEN d.redeem ELSE d.usd
               kind == d.pc
               p == d.plan
               n == Len(txs) + 1
    <2>1. d \in Deeds /\ d.pc \in {"deposit", "redeem", "swap"} /\ Sent(kind, p, usd)
          /\ wallet'.does.tx = n /\ wallet'.does.pc \in {"redeeming", "sending"}
      BY <1>2, SendsIs
    <2>2. kind \in Kinds /\ p \in SkillPlans /\ usd \in Nat
      BY <2>1 DEF Deeds, Kinds
    <2>3. txs'[n] = [kind |-> kind, plan |-> p, usd |-> usd, vt |-> 0, mined |-> FALSE,
                     booked |-> Nowhere, done |-> FALSE, cut |-> FALSE]
      <3> HIDE DEF d, usd, kind, p
      <3>1. QED
        BY <2>1, <2>2, SendTypes
    <2>4. txs'[n].mined = FALSE /\ txs'[n].kind = kind /\ txs'[n].usd = usd
      BY <2>3
    <2>5. Deed' = txs'[n]
      <3> HIDE DEF n
      <3>1. QED
        BY <2>1 DEF Deed
    <2>6. Deed'.mined = FALSE /\ Deed'.kind = kind /\ Deed'.usd = usd
      BY <2>4, <2>5
    <2>7. kind = "deposit" => usd = Put
      BY DEF Covered, PutsIn
    <2>8. wallet'.does.pc # "deposit"
      BY <2>1
    <2>9. QED
      <3>1. ~(InHand' /\ Deed'.mined)
        BY <2>6
      <3>2. PutsIn'
        <4> HIDE DEF d, usd, kind, p, n
        <4>1. QED
          BY <2>6, <2>7, <2>8 DEF PutsIn
      <3>3. QED
        BY <1>0, <1>1, <3>1, <3>2, StandsStill
  <1>3. ASSUME ~Sending', wallet'.does.pc = "deposit" => wallet'.does.usd = Put PROVE Covered'
    <2>1. ~(InHand' /\ Deed'.mined)
      BY <1>3 DEF InHand
    <2>2. PutsIn'
      BY <1>3 DEF PutsIn
    <2>3. QED
      BY <1>0, <1>1, <2>1, <2>2, StandsStill
  <1>4. ASSUME NEW p \in SkillPlans, Ask(p) PROVE Covered'
    <2>1. wallet'.does.pc \in {"redeem", "swap"}
      BY <1>4, AskIs
    <2>2. QED
      BY <1>3, <2>1 DEF Sending
  <1>5. ASSUME NEW p \in SkillPlans, PutIn(p) PROVE Covered'
    <2>1. wallet'.does.pc = "deposit" /\ wallet'.does.usd = Put
      BY <1>5, PutsIs
    <2>2. QED
      BY <1>3, <2>1 DEF Sending
  <1>6. CASE Next1 \/ Decline
    <2>1. wallet'.does.pc \in {"rest", "swap"}
      BY <1>6, NextIs DEF Rest
    <2>2. QED
      BY <1>3, <2>1 DEF Sending
  <1>7. QED
    BY <1>2, <1>4, <1>5, <1>6 DEF Turns

\* A redeem of interest out of a principal that is whole vTokens burns none of these.
LEMMA WholeRedeem ==
    ASSUME NEW q \in Nat, NEW u \in Nat, NEW v \in Nat, NEW r \in Nat \ {0}, q * r + u <= v * r
    PROVE  UpDiv(u, r) \in Nat /\ q * r + UpDiv(u, r) * r <= v * r
  <1>1. q <= v
    <2> SUFFICES ASSUME ~(q <= v) PROVE FALSE
      OBVIOUS
    <2> DEFINE a == q * r
               b == v * r
               c == (v + 1) * r
    <2>1. v + 1 <= q /\ v + 1 \in Nat
      OBVIOUS
    <2>2. a \in Nat /\ b \in Nat /\ c = b + r /\ c <= a
      BY <2>1, MulIs, MulLess
    <2>3. a + u <= b
      OBVIOUS
    <2> HIDE DEF a, b, c
    <2>4. QED
      BY <2>2, <2>3
  <1> DEFINE n == v - q
             x == UpDiv(u, r)
  <1>2. n \in Nat /\ n * r = v * r - q * r
    BY <1>1
  <1>3. u <= n * r
    <2> DEFINE a == q * r
               b == v * r
    <2>1. a \in Nat /\ b \in Nat /\ n * r = b - a /\ a + u <= b
      BY <1>2, MulIs
    <2> HIDE DEF a, b, n
    <2>2. QED
      BY <2>1
  <1>4. x \in Nat /\ x <= n
    <2> HIDE DEF n
    <2>1. QED
      BY <1>2, <1>3, UpDivIs
  <1>5. x * r <= n * r /\ x * r \in Nat
    <2> HIDE DEF n, x
    <2>1. QED
      BY <1>2, <1>4, MulIs, MulLess
  <1>6. q * r + x * r <= v * r
    <2> DEFINE a == q * r
               b == v * r
               c == x * r
               d == n * r
    <2>1. a \in Nat /\ b \in Nat /\ c \in Nat /\ d = b - a /\ c <= d
      <3> HIDE DEF n, x
      <3>1. QED
        BY <1>2, <1>5, MulIs
    <2> HIDE DEF a, b, c, d
    <2>2. a + c <= b
      BY <2>1
    <2>3. QED
      BY <2>2 DEF a, b, c
  <1>7. QED
    BY <1>4, <1>6

\* What is mined was in the skill's hand.
LEMMA MinesAt ==
    ASSUME SkillTypes, Facts, OneAtATime, NEW i \in DOMAIN txs, MineTx(i)
    PROVE  /\ InHand /\ wallet.does.tx = i /\ Deed = txs[i] /\ ~Deed.mined /\ Doer \in SkillPlans
           /\ InHand' /\ Deed' = txs'[i] /\ Doer' = Doer /\ Deed'.mined /\ Deed'.kind = Deed.kind
           /\ Deed.kind \in Kinds /\ Deed.usd \in Nat
  <1>1. ~txs[i].mined /\ wallet'.does = wallet.does /\ txs'[i].mined /\ txs'[i].kind = txs[i].kind
        /\ txs'[i].booked = txs[i].booked
    BY MineIs
  <1>2. txs[i].booked = Nowhere /\ ~txs[i].done
    BY <1>1 DEF Facts, TxFacts
  <1>3. Sending /\ wallet.does.tx = i
    BY <1>2 DEF OneAtATime, OneOut
  <1>4. Deed = txs[i] /\ Deed' = txs'[i] /\ Doer' = Doer /\ Sending'
    BY <1>1, <1>3 DEF Deed, Doer, Sending
  <1>5. Doer \in SkillPlans /\ Deed.kind \in Kinds /\ Deed.usd \in Nat
    BY <1>3, DeedAt DEF OneAtATime
  <1>6. QED
    BY <1>1, <1>2, <1>3, <1>4, <1>5 DEF InHand

LEMMA MinesKeep ==
    ASSUME SkillTypes, SkillTypes', Facts, OneAtATime, RedeemsInterest, Covered, NEW i \in DOMAIN txs, MineTx(i)
    PROVE  Covered'
  <1>0. /\ InHand /\ wallet.does.tx = i /\ Deed = txs[i] /\ ~Deed.mined /\ Doer \in SkillPlans
        /\ InHand' /\ Deed' = txs'[i] /\ Doer' = Doer /\ Deed'.mined /\ Deed'.kind = Deed.kind
        /\ Deed.kind \in Kinds /\ Deed.usd \in Nat
    BY MinesAt
  <1>1. /\ sk' = sk /\ leeway' = leeway /\ wallet'.rate = wallet.rate /\ wallet'.does = wallet.does
        /\ Deed'.vt \in Nat /\ Deed'.usd \in Nat
    BY <1>0, MineIs
  <1>2. /\ wallet.vt \in Nat /\ wallet.rate \in Nat \ {0} /\ leeway.rises \in Nat
        /\ \A p \in SkillPlans : sk[p].principal \in Nat /\ sk[p].vt \in Nat
    BY WalletTypes
  <1>3. Whole' /\ PaidFor'
    <2>1. Rates' = Rates
      BY <1>1 DEF Rates
    <2>2. Whole'
      BY <1>1, <2>1 DEF Covered, Whole, Divides
    <2>3. PaidFor'
      BY <1>1 DEF Covered, PaidFor
    <2>4. QED
      BY <2>2, <2>3
  <1>4. wallet.rate \in Rates
    BY <1>2 DEF Rates
  <1>5. /\ OnWay("redeem") = 0 /\ OnWay("deposit") = 0
        /\ Deed.kind = "redeem" => OnWay("redeem")' = Deed'.vt /\ OnWay("deposit")' = 0
        /\ Deed.kind = "deposit" => OnWay("deposit")' = Deed'.vt /\ OnWay("redeem")' = 0
        /\ Deed.kind = "swap" => OnWay("deposit")' = 0 /\ OnWay("redeem")' = 0
    BY <1>0 DEF OnWay
  <1>6. Counted'
    <2>1. VtSum' = VtSum /\ VtSum \in Nat
      BY <1>1, VtSumSame
    <2>2. wallet.vt = VtSum
      <3> HIDE DEF VtSum
      <3>1. wallet.vt + 0 = VtSum + 0
        BY <1>5, Zenon DEF Covered, Counted
      <3>2. QED
        BY <1>2, <2>1, <3>1
    <2>3. CASE Deed.kind = "redeem"
      <3>1. wallet'.vt = wallet.vt - Deed'.vt
        BY <1>0, <2>3, MineIs
      <3>2. wallet'.vt + Deed'.vt = wallet.vt
        BY <1>1, <1>2, <3>1
      <3>3. VtSum + 0 = VtSum
        BY <2>1
      <3>4. wallet'.vt + OnWay("redeem")' = VtSum' + OnWay("deposit")'
        BY <1>5, <2>1, <2>2, <2>3, <3>2, <3>3, Zenon
      <3>5. QED
        BY <3>4, Zenon DEF Counted
    <2>4. CASE Deed.kind = "deposit"
      <3>1. wallet'.vt = wallet.vt + Deed'.vt
        BY <1>0, <2>4, MineIs
      <3>2. wallet'.vt + 0 = wallet'.vt
        BY <1>1, <1>2, <3>1
      <3>3. wallet'.vt + OnWay("redeem")' = VtSum' + OnWay("deposit")'
        BY <1>5, <2>1, <2>2, <2>4, <3>1, <3>2, Zenon
      <3>4. QED
        BY <3>3, Zenon DEF Counted
    <2>5. CASE Deed.kind = "swap"
      <3>1. wallet'.vt = wallet.vt
        BY <1>0, <2>5, MineIs
      <3>2. wallet'.vt + OnWay("redeem")' = VtSum' + OnWay("deposit")'
        BY <1>5, <2>1, <2>2, <2>5, <3>1, Zenon
      <3>3. QED
        BY <3>2, Zenon DEF Counted
    <2>6. QED
      BY <1>0, <2>3, <2>4, <2>5 DEF Kinds
  <1>7. PutsIn'
    <2>1. wallet'.does.pc = "deposit" => wallet'.does.usd = Put
      BY <1>1 DEF Covered, PutsIn
    <2>2. ASSUME Deed'.kind = "deposit" PROVE Deed'.usd = Put /\ Deed'.usd <= Deed'.vt * wallet'.rate
      <3>1. Deed.usd = Put /\ Deed'.vt = Deed.usd \div wallet.rate /\ Deed'.usd = Deed.usd
        BY <1>0, <2>2, MineIs DEF Covered, PutsIn, InHand
      <3>2. PICK q \in Nat : Put = q * wallet.rate
        BY <1>4 DEF Covered, Whole, Divides
      <3>3. Deed'.vt = q
        BY <1>2, <3>1, <3>2, Undo
      <3>4. Put <= q * wallet.rate
        BY <3>2, SkillAssumption
      <3>5. QED
        BY <1>1, <3>1, <3>3, <3>4
    <2>3. QED
      BY <2>1, <2>2 DEF PutsIn
  <1>8. LeavesIt'
    <2> SUFFICES ASSUME Deed.kind = "redeem"
        PROVE \E m \in 1 .. wallet'.rate : /\ Deed'.usd = Deed'.vt * m
                                           /\ sk'[Doer'].principal + Deed'.usd <= sk'[Doer'].vt * m
      BY <1>0 DEF LeavesIt
    <2>1. Deed'.vt = UpDiv(Deed.usd, wallet.rate) /\ Deed'.usd = Deed'.vt * wallet.rate
      BY <1>0, MineIs
    <2>2. Deed.usd = wallet.does.redeem /\ wallet.does.pc = "redeeming"
      BY <1>0 DEF OneAtATime, DeedIs, InHand
    <2>3. sk[Doer].principal + Deed.usd <= sk[Doer].vt * wallet.rate
      BY <1>0, <2>2 DEF RedeemsInterest
    <2>4. PICK q \in Nat : sk[Doer].principal = q * wallet.rate
      BY <1>0, <1>4 DEF Covered, Whole, Divides
    <2>5. q * wallet.rate + UpDiv(Deed.usd, wallet.rate) * wallet.rate <= sk[Doer].vt * wallet.rate
      BY <1>0, <1>2, <2>3, <2>4, WholeRedeem
    <2>6. sk[Doer].principal + Deed'.usd <= sk[Doer].vt * wallet.rate
      BY <2>1, <2>4, <2>5, Zenon
    <2>7. wallet.rate \in 1 .. wallet'.rate
      BY <1>1, <1>2
    <2>8. QED
      BY <1>0, <1>1, <2>1, <2>6, <2>7, Zenon
  <1>9. QED
    BY <1>3, <1>6, <1>7, <1>8 DEF Covered

LEMMA TurnMul ==
    \A a, b, c \in Nat : a * (b * c) = (a * c) * b
  OBVIOUS
LEMMA LessMul ==
    \A a, b, c \in Nat : b <= a => (a - b) * c = a * c - b * c
  OBVIOUS

\* A redeem that left the principal takes interest only, and what stays still covers it.
LEMMA TakesInterest ==
    ASSUME SkillTypes, NEW p \in SkillPlans, NEW tx \in Sends, tx.vt > 0, NEW m \in Nat,
           tx.usd = tx.vt * m, tx.vt <= sk[p].vt, sk[p].principal + tx.usd <= sk[p].vt * m
    PROVE  /\ Keeps1(p, tx) = 0 \/ Keeps1(p, tx) = sk[p].principal
           /\ Drop(sk[p].vt, tx.vt) \in Nat /\ Drop(sk[p].vt, tx.vt) + tx.vt = sk[p].vt
           /\ sk[p].principal <= Drop(sk[p].vt, tx.vt) * m
  <1> DEFINE prin == sk[p].principal
             have == sk[p].vt
             burn == tx.vt
             usd == tx.usd
             worth == have * m
             stays == Drop(have, burn)
             gain == Drop((have * usd) \div burn, prin)
  <1>1. prin \in Nat /\ have \in Nat /\ burn \in Nat \ {0} /\ usd \in Nat
    BY SendFields DEF SkillTypes, SkillRows
  <1>2. worth \in Nat /\ usd = burn * m /\ prin + usd <= worth
    BY <1>1, MulIs
  <1>3. (have * usd) \div burn = worth
    <2> HIDE DEF have, burn, usd
    <2>1. have * (burn * m) = (have * m) * burn
      BY <1>1, TurnMul
    <2>2. have * usd = worth * burn
      BY <1>2, <2>1
    <2> HIDE DEF worth
    <2>3. (worth * burn) \div burn = worth
      BY <1>1, <1>2, Undo
    <2>4. QED
      BY <2>2, <2>3
  <1>4. gain \in Nat /\ usd <= gain
    <2> HIDE DEF prin, have, burn, usd, worth
    <2>1. gain = Drop(worth, prin)
      BY <1>3, Zenon
    <2>2. prin <= worth
      BY <1>1, <1>2
    <2>3. Drop(worth, prin) = worth - prin
      BY <1>1, <1>2, <2>2, SmallTypes
    <2>4. worth - prin \in Nat /\ usd <= worth - prin
      BY <1>1, <1>2
    <2>5. QED
      BY <2>1, <2>3, <2>4, Zenon
  <1>5. Part(p, tx) = usd
    <2>1. Part(p, tx) = Least(usd, gain)
      BY Zenon DEF Part
    <2> HIDE DEF usd, gain
    <2>2. Least(usd, gain) = usd
      BY <1>1, <1>4 DEF Least
    <2>3. QED
      BY <2>1, <2>2, Zenon
  <1>6. Rest1(p, tx) = prin
    <2>1. Rest1(p, tx) = Drop(prin, usd - Part(p, tx))
      BY Zenon DEF Rest1
    <2> HIDE DEF prin, usd
    <2>2. usd - usd = 0
      BY <1>1
    <2>3. Drop(prin, 0) = prin
      BY <1>1 DEF Drop
    <2>4. QED
      BY <1>5, <2>1, <2>2, <2>3, Zenon
  <1>7. Keeps1(p, tx) = 0 \/ Keeps1(p, tx) = prin
    BY <1>6, Zenon DEF Keeps1
  <1>8. stays \in Nat /\ stays = have - burn
    <2> HIDE DEF have, burn
    <2>1. QED
      BY <1>1, SmallTypes DEF have, burn
  <1>9. prin <= stays * m
    <2> HIDE DEF prin, have, burn, usd, stays
    <2>1. (have - burn) * m = have * m - burn * m
      BY <1>1, LessMul DEF have, burn
    <2>2. prin <= worth - usd
      BY <1>1, <1>2
    <2>3. QED
      BY <1>2, <1>8, <2>1, <2>2
  <1>10. stays + burn = have
    <2> HIDE DEF have, burn, stays
    <2>1. QED
      BY <1>1, <1>8
  <1>11. QED
    BY <1>7, <1>8, <1>9, <1>10

\* What booking a transaction makes of its plan's row, and what that leaves on the way.
LEMMA BookMakes ==
    ASSUME SkillTypes, SkillTypes', Facts, OneAtATime, RedeemsItsOwn, Covered,
           NEW p \in SkillPlans, NEW tx \in Sends, Doer = p, Deed = tx, InHand, Deed.mined,
           sk'[p] = Booked(p, tx)
    PROVE  /\ sk'[p].principal \in Nat /\ sk'[p].vt \in Nat /\ sk[p].principal \in Nat /\ sk[p].vt \in Nat
           /\ sk'[p].vt + OnWay("redeem") = sk[p].vt + OnWay("deposit")
           /\ \A k \in Rates : Divides(k, sk'[p].principal)
           /\ sk'[p].principal <= sk'[p].vt * wallet.rate
  <1>1. /\ sk'[p].principal \in Nat /\ sk'[p].vt \in Nat /\ sk[p].principal \in Nat /\ sk[p].vt \in Nat
        /\ wallet.rate \in Nat \ {0}
    BY WalletTypes DEF SkillTypes, SkillRows
  <1>2. tx.kind \in Kinds /\ tx.usd \in Nat /\ tx.vt \in Nat
    BY SendFields
  <1>3. tx.kind = "redeem" => tx.vt > 0
    BY DEF OneAtATime, DeedIs, InHand, Facts, TxFacts, Deed
  <1>4. /\ \A k \in Rates : Divides(k, Put) /\ Divides(k, sk[p].principal)
        /\ sk[p].principal <= sk[p].vt * wallet.rate
    BY DEF Covered, Whole, PaidFor
  <1>5. Sending
    BY DEF InHand
  <1>6. CASE tx.kind = "deposit"
    <2>1. OnWay("redeem") = 0 /\ OnWay("deposit") = tx.vt
      BY <1>6 DEF OnWay
    <2>2. sk'[p].principal = sk[p].principal + tx.usd /\ sk'[p].vt = sk[p].vt + tx.vt
      BY <1>3, <1>6, BookedIs
    <2>3. tx.usd = Put /\ tx.usd <= tx.vt * wallet.rate
      BY <1>5, <1>6 DEF Covered, PutsIn
    <2>4. \A k \in Rates : Divides(k, sk'[p].principal)
      <3> SUFFICES ASSUME NEW k \in Rates PROVE Divides(k, sk'[p].principal)
        OBVIOUS
      <3>1. k \in Nat
        BY WalletTypes DEF Rates
      <3>2. PICK a \in Nat : Put = a * k
        BY <1>4 DEF Divides
      <3>3. PICK b \in Nat : sk[p].principal = b * k
        BY <1>4 DEF Divides
      <3>4. a + b \in Nat /\ b * k + a * k = (a + b) * k
        BY <3>1
      <3>5. sk'[p].principal = (a + b) * k
        BY <2>2, <2>3, <3>2, <3>3, <3>4, Zenon
      <3>6. QED
        BY <3>4, <3>5, Zenon DEF Divides
    <2>5. sk'[p].principal <= sk'[p].vt * wallet.rate
      <3> DEFINE x == sk[p].vt * wallet.rate
                 y == tx.vt * wallet.rate
      <3>1. x \in Nat /\ y \in Nat /\ (sk[p].vt + tx.vt) * wallet.rate = x + y
        BY <1>1, <1>2
      <3>2. sk[p].principal <= x /\ tx.usd <= y
        BY <1>4, <2>3
      <3> HIDE DEF x, y
      <3>3. sk[p].principal + tx.usd <= x + y
        BY <1>1, <1>2, <3>1, <3>2
      <3>4. QED
        BY <2>2, <3>1, <3>3, Zenon
    <2>6. sk'[p].vt + 0 = sk[p].vt + tx.vt
      BY <1>1, <2>2
    <2>7. QED
      BY <1>1, <2>1, <2>4, <2>5, <2>6, Zenon
  <1>7. CASE tx.kind = "redeem"
    <2>1. OnWay("redeem") = tx.vt /\ OnWay("deposit") = 0
      BY <1>7 DEF OnWay
    <2>2. sk'[p].principal = Keeps1(p, tx) /\ sk'[p].vt = Drop(sk[p].vt, tx.vt)
      BY <1>3, <1>7, BookedIs
    <2>3. wallet.does.pc = "redeeming"
      BY <1>5, <1>7 DEF OneAtATime, DeedIs
    <2>4. tx.vt <= sk[p].vt
      BY <2>3 DEF RedeemsItsOwn
    <2>5. PICK m \in 1 .. wallet.rate : tx.usd = tx.vt * m /\ sk[p].principal + tx.usd <= sk[p].vt * m
      BY <1>7 DEF Covered, LeavesIt
    <2>6. m \in Nat /\ m <= wallet.rate
      BY <1>1
    <2>7. /\ Keeps1(p, tx) = 0 \/ Keeps1(p, tx) = sk[p].principal
          /\ sk'[p].vt + tx.vt = sk[p].vt /\ sk[p].principal <= sk'[p].vt * m
      BY <1>3, <1>7, <2>2, <2>4, <2>5, <2>6, TakesInterest
    <2>8. sk[p].principal <= sk'[p].vt * wallet.rate
      BY <1>1, <2>6, <2>7, RoomIsKept DEF RoomKept
    <2>9. sk'[p].principal = 0 \/ sk'[p].principal = sk[p].principal
      BY <2>2, <2>7
    <2>10. \A k \in Rates : Divides(k, 0)
      <3>1. \A k \in Rates : k \in Nat
        BY WalletTypes DEF Rates
      <3>2. \A k \in Nat : 0 = 0 * k
        OBVIOUS
      <3>3. QED
        BY <3>1, <3>2 DEF Divides
    <2>11. \A k \in Rates : Divides(k, sk'[p].principal)
      BY <1>4, <2>9, <2>10
    <2>12. sk'[p].principal <= sk'[p].vt * wallet.rate
      <3>1. 0 <= sk'[p].vt * wallet.rate
        BY <1>1, MulIs
      <3>2. QED
        BY <2>8, <2>9, <3>1
    <2>13. sk[p].vt + 0 = sk[p].vt
      BY <1>1
    <2>14. QED
      BY <1>1, <2>1, <2>7, <2>11, <2>12, <2>13, Zenon
  <1>8. CASE tx.kind = "swap"
    <2>1. OnWay("redeem") = 0 /\ OnWay("deposit") = 0
      BY <1>8 DEF OnWay
    <2>2. sk'[p].principal = sk[p].principal /\ sk'[p].vt = sk[p].vt
      BY <1>3, <1>8, BookedIs
    <2>3. QED
      BY <1>1, <1>4, <2>1, <2>2
  <1>9. QED
    BY <1>2, <1>6, <1>7, <1>8 DEF Kinds

LEMMA BookKeeps ==
    ASSUME SkillTypes, SkillTypes', Facts, OneAtATime, RedeemsItsOwn, Covered, NEW r \in Requests, Booking(r)
    PROVE  Covered'
  <1>1. /\ InHand /\ wallet.does.tx = req[r].tx /\ Deed = txs[req[r].tx] /\ Doer = req[r].plan
        /\ Deed.mined /\ wallet.does.tx \in DOMAIN txs /\ Doer \in SkillPlans /\ Deed \in Sends
    BY CountsAt
  <1>2. PICK p \in SkillPlans : p = Doer
    BY <1>1
  <1>3. PICK tx \in Sends : tx = Deed
    BY <1>1
  <1>4. PICK i \in DOMAIN txs : i = req[r].tx
    BY <1>1
  <1>5. /\ wallet' = wallet /\ leeway' = leeway /\ Only(i) /\ Alike(txs'[i], txs[i])
        /\ txs'[i].booked = p /\ sk' = [sk EXCEPT ![p] = Booked(p, tx)]
    BY <1>1, <1>2, <1>3, <1>4, WriteIs DEF Booking
  <1>6. sk'[p] = Booked(p, tx) /\ \A q \in SkillPlans \ {p} : sk'[q] = sk[q]
    BY <1>5 DEF SkillTypes
  <1>7. /\ sk'[p].principal \in Nat /\ sk'[p].vt \in Nat /\ sk[p].principal \in Nat /\ sk[p].vt \in Nat
        /\ sk'[p].vt + OnWay("redeem") = sk[p].vt + OnWay("deposit")
        /\ \A k \in Rates : Divides(k, sk'[p].principal)
        /\ sk'[p].principal <= sk'[p].vt * wallet.rate
    BY <1>1, <1>2, <1>3, <1>6, BookMakes
  <1>8. Deed' = txs'[i] /\ Sending' = Sending /\ p # Nowhere
    <2>1. p # Nowhere
      BY SkillAssumption
    <2>2. QED
      BY <1>1, <1>4, <1>5, <2>1 DEF Deed, Sending
  <1>9. ~InHand'
    BY <1>5, <1>8 DEF InHand
  <1>10. Whole'
    <2>1. Rates' = Rates
      BY <1>5 DEF Rates
    <2>2. \A k \in Rates : Divides(k, Put) /\ \A q \in SkillPlans : Divides(k, sk[q].principal)
      BY DEF Covered, Whole
    <2>3. \A k \in Rates : Divides(k, Put) /\ \A q \in SkillPlans : Divides(k, sk'[q].principal)
      BY <1>6, <1>7, <2>2
    <2>4. QED
      BY <2>1, <2>3 DEF Whole, Divides
  <1>11. PaidFor'
    <2>1. \A q \in SkillPlans : sk'[q].principal <= sk'[q].vt * wallet.rate
      <3> SUFFICES ASSUME NEW q \in SkillPlans PROVE sk'[q].principal <= sk'[q].vt * wallet.rate
        OBVIOUS
      <3>1. CASE q = p
        BY <1>7, <3>1
      <3>2. CASE q # p
        BY <1>6, <3>2 DEF Covered, PaidFor
      <3>3. QED
        BY <3>1, <3>2
    <2>2. QED
      BY <1>5, <2>1 DEF PaidFor
  <1>12. Counted'
    <2>1. VtSum \in Nat /\ VtSum' \in Nat /\ VtSum' + sk[p].vt = VtSum + sk'[p].vt
      BY <1>6, VtSumChanges
    <2>2. OnWay("redeem")' = 0 /\ OnWay("deposit")' = 0
      BY <1>9, Zenon DEF OnWay
    <2>3. OnWay("redeem") \in Nat /\ OnWay("deposit") \in Nat
      BY OnWayTypes DEF OneAtATime, Kinds
    <2>4. wallet.vt \in Nat /\ wallet'.vt = wallet.vt
      BY <1>5, WalletTypes
    <2>5. wallet.vt + OnWay("redeem") = VtSum + OnWay("deposit")
      BY DEF Covered, Counted
    <2>6. wallet'.vt + 0 = VtSum' + 0
      <3> DEFINE a == wallet.vt
                 b == VtSum
                 c == VtSum'
                 d == OnWay("redeem")
                 e == OnWay("deposit")
                 x == sk[p].vt
                 y == sk'[p].vt
      <3>1. a + d = b + e /\ c + x = b + y /\ y + d = x + e
        BY <1>7, <2>1, <2>5
      <3>2. a \in Nat /\ b \in Nat /\ c \in Nat /\ d \in Nat /\ e \in Nat /\ x \in Nat /\ y \in Nat
        BY <1>7, <2>1, <2>3, <2>4
      <3> HIDE DEF a, b, c, d, e, x, y
      <3>3. a + 0 = c + 0
        BY <3>1, <3>2
      <3>4. QED
        BY <2>4, <3>3 DEF a, c
    <2>7. QED
      BY <2>2, <2>6, Zenon DEF Counted
  <1>13. PutsIn'
    <2>1. Deed'.usd = Deed.usd /\ Deed'.vt = Deed.vt /\ Deed'.mined = Deed.mined /\ Deed'.kind = Deed.kind
      BY <1>1, <1>4, <1>5, <1>8 DEF Alike
    <2>2. QED
      BY <1>5, <1>8, <2>1 DEF Covered, PutsIn
  <1>14. LeavesIt'
    BY <1>9 DEF LeavesIt
  <1>15. QED
    BY <1>10, <1>11, <1>12, <1>13, <1>14 DEF Covered

Prins == [p \in SkillPlans |-> sk[p].principal]
LEMMA PrinSum == SumFunction([p \in SkillPlans |-> sk[p].principal]) = SumFunctionOnSet(Prins, SkillPlans)
  <1>1. SumFunction(Prins) = SumFunctionOnSet(Prins, DOMAIN Prins)
    BY Zenon DEF SumFunction
  <1>2. DOMAIN Prins = SkillPlans
    BY DEF Prins
  <1>3. QED
    BY <1>1, <1>2, Zenon DEF Prins

\* What covers each principal is held: the plans' vTokens, less those of a redeem on its way.
LEMMA CoversAll ==
    ASSUME SkillTypes, NEW g, \A p \in SkillPlans : g[p] \in Nat /\ sk[p].principal <= g[p] * wallet.rate,
           SumFunctionOnSet(g, SkillPlans) <= wallet.vt
    PROVE  PrincipalCovered
  <1>1. /\ wallet.vt \in Nat /\ wallet.rate \in Nat /\ IsFiniteSet(SkillPlans)
        /\ \A p \in SkillPlans : Prins[p] = sk[p].principal /\ Prins[p] \in Nat
    BY WalletTypes, SkillAssumption DEF Prins
  <1> DEFINE x == SumFunctionOnSet(Prins, SkillPlans)
             y == SumFunctionOnSet(g, SkillPlans)
             k == wallet.rate
  <1>2. \A p \in SkillPlans : Prins[p] \in Nat /\ g[p] \in Nat /\ Prins[p] <= g[p] * wallet.rate
    BY <1>1
  <1>3. x \in Nat /\ y \in Nat /\ x <= y * k
    BY <1>1, <1>2, SumBelow
  <1>4. x <= wallet.vt * k
    <2>1. k \in Nat /\ y <= wallet.vt
      BY <1>1
    <2> HIDE DEF x, y, k
    <2>2. y * k \in Nat /\ wallet.vt * k \in Nat /\ y * k <= wallet.vt * k
      BY <1>1, <1>3, <2>1, MulIs, MulLess
    <2>3. QED
      BY <1>3, <2>2
  <1>5. QED
    BY <1>4, PrinSum, Zenon DEF PrincipalCovered

LEMMA CoveredIsCovered ==
    ASSUME SkillTypes, OneAtATime, RedeemsItsOwn, Covered
    PROVE  PrincipalCovered
  <1>0. /\ wallet.vt \in Nat /\ wallet.rate \in Nat \ {0} /\ IsFiniteSet(SkillPlans)
        /\ \A p \in SkillPlans : sk[p].principal \in Nat /\ sk[p].vt \in Nat
    BY WalletTypes, SkillAssumption
  <1> DEFINE f == Vts(sk)
  <1>1. \A p \in SkillPlans : f[p] = sk[p].vt
    BY DEF Vts
  <1>2. /\ VtSum = SumFunctionOnSet(f, SkillPlans)
        /\ wallet.vt + OnWay("redeem") = VtSum + OnWay("deposit")
    BY VtSumIs DEF Covered, Counted
  <1> HIDE DEF f
  <1>3. \A p \in SkillPlans : sk[p].principal <= f[p] * wallet.rate
    BY <1>1 DEF Covered, PaidFor
  <1>4. SumFunctionOnSet(f, SkillPlans) \in Nat
    BY <1>0, <1>1, SumType
  <1>5. CASE InHand /\ Deed.mined /\ Deed.kind = "redeem"
    <2>1. PICK d \in SkillPlans : d = Doer
      BY <1>5, DeedAt DEF OneAtATime, InHand
    <2>2. PICK tx \in Sends : tx = Deed
      BY <1>5, DeedAt DEF OneAtATime, InHand
    <2>3. tx.vt \in Nat /\ tx.usd \in Nat
      BY SendFields
    <2>4. tx.vt <= sk[d].vt
      <3>1. wallet.does.pc = "redeeming"
        BY <1>5 DEF OneAtATime, DeedIs, InHand
      <3>2. QED
        BY <1>5, <2>1, <2>2, <3>1 DEF RedeemsItsOwn
    <2>5. PICK m \in 1 .. wallet.rate : tx.usd = tx.vt * m /\ sk[d].principal + tx.usd <= sk[d].vt * m
      BY <1>5, <2>1, <2>2 DEF Covered, LeavesIt
    <2> DEFINE stays == sk[d].vt - tx.vt
               g == [f EXCEPT ![d] = stays]
    <2>6. stays \in Nat /\ stays + tx.vt = sk[d].vt
      BY <1>0, <2>3, <2>4
    <2>7. sk[d].principal <= stays * wallet.rate
      <3>1. m \in Nat /\ m <= wallet.rate
        BY <1>0
      <3>2. stays * m = sk[d].vt * m - tx.vt * m
        BY <1>0, <2>3, <2>4, <3>1, LessMul
      <3>3. sk[d].principal <= stays * m
        <4> DEFINE u == tx.vt * m
                   w == sk[d].vt * m
                   t == stays * m
                   prin == sk[d].principal
        <4>1. u \in Nat /\ w \in Nat /\ prin \in Nat /\ prin + u <= w /\ t = w - u
          BY <1>0, <2>3, <2>5, <3>1, <3>2, MulIs
        <4> HIDE DEF u, w, t, prin
        <4>2. prin <= t
          BY <4>1
        <4>3. QED
          BY <4>2 DEF prin, t
      <3> HIDE DEF stays
      <3>4. QED
        BY <1>0, <2>6, <3>1, <3>3, RoomIsKept DEF RoomKept
    <2>8. DOMAIN f = SkillPlans
      BY DEF f, Vts
    <2> HIDE DEF stays
    <2>9. g[d] = stays /\ \A p \in SkillPlans \ {d} : g[p] = f[p]
      BY <2>8
    <2> HIDE DEF g
    <2>10. \A p \in SkillPlans : f[p] \in Nat /\ g[p] \in Nat /\ sk[p].principal <= g[p] * wallet.rate
      <3> SUFFICES ASSUME NEW p \in SkillPlans
          PROVE f[p] \in Nat /\ g[p] \in Nat /\ sk[p].principal <= g[p] * wallet.rate
        OBVIOUS
      <3>1. CASE p = d
        BY <1>0, <1>1, <2>6, <2>7, <2>9, <3>1, Zenon
      <3>2. CASE p # d
        <4>1. g[p] = f[p]
          BY <2>9, <3>2
        <4>2. QED
          BY <1>0, <1>1, <1>3, <4>1
      <3>3. QED
        BY <3>1, <3>2
    <2>11. /\ SumFunctionOnSet(g, SkillPlans) \in Nat
           /\ SumFunctionOnSet(g, SkillPlans) + f[d] = SumFunctionOnSet(f, SkillPlans) + g[d]
      <3>1. \A p \in SkillPlans : f[p] \in Nat /\ g[p] \in Nat
        BY <2>10
      <3>2. QED
        BY <1>0, <2>9, <3>1, SumChanges
    <2>12. SumFunctionOnSet(g, SkillPlans) = wallet.vt
      <3> DEFINE x == SumFunctionOnSet(g, SkillPlans)
                 y == SumFunctionOnSet(f, SkillPlans)
                 held == wallet.vt
                 have == sk[d].vt
                 burn == tx.vt
      <3>1. OnWay("redeem") = burn /\ OnWay("deposit") = 0
        BY <1>5, <2>2 DEF OnWay
      <3>2. held + burn = y + 0
        BY <1>2, <3>1, Zenon
      <3>3. x + have = y + stays
        BY <1>1, <2>9, <2>11, Zenon
      <3>4. x \in Nat /\ y \in Nat /\ held \in Nat /\ have \in Nat /\ burn \in Nat /\ stays \in Nat /\ stays + burn = have
        BY <1>0, <1>4, <2>3, <2>6, <2>11
      <3> HIDE DEF x, y, held, have, burn
      <3>5. x = held
        BY <3>2, <3>3, <3>4
      <3>6. QED
        BY <3>5 DEF x, held
    <2>13. SumFunctionOnSet(g, SkillPlans) <= wallet.vt
      BY <1>0, <2>12
    <2>14. QED
      BY <2>10, <2>13, CoversAll
  <1>6. CASE ~(InHand /\ Deed.mined /\ Deed.kind = "redeem")
    <2>1. OnWay("redeem") = 0
      BY <1>6, Zenon DEF OnWay
    <2>2. OnWay("deposit") \in Nat
      BY OnWayTypes DEF OneAtATime, Kinds
    <2>3. SumFunctionOnSet(f, SkillPlans) <= wallet.vt
      <3>1. wallet.vt + 0 = SumFunctionOnSet(f, SkillPlans) + OnWay("deposit")
        BY <1>2, <2>1, Zenon
      <3>2. QED
        BY <1>0, <1>4, <2>2, <3>1
    <2>4. \A p \in SkillPlans : f[p] \in Nat /\ sk[p].principal <= f[p] * wallet.rate
      BY <1>0, <1>1, <1>3
    <2>5. QED
      BY <2>3, <2>4, CoversAll
  <1>7. QED
    BY <1>5, <1>6

CoveredInv == leeway.obeys => Covered
\* Every deposit buys whole vTokens, at every rate there may be.
WholePuts == \A l \in Leeways : \A k \in 1 .. 1 + l.rises : \E q \in Nat : Put = q * k

LEMMA CoveredStart ==
    ASSUME SkillInit, WholePuts
    PROVE  Covered
  <1>1. /\ sk = [p \in SkillPlans |-> Unmade] /\ wallet = [vt |-> 0, rate |-> 1, does |-> Rest] /\ leeway \in Leeways
    BY Zenon DEF SkillInit
  <1>2. Unmade.principal = 0 /\ Unmade.vt = 0
    BY DEF Unmade
  <1>3. \A p \in SkillPlans : sk[p].principal = 0 /\ sk[p].vt = 0
    <2> SUFFICES ASSUME NEW p \in SkillPlans PROVE sk[p].principal = 0 /\ sk[p].vt = 0
      OBVIOUS
    <2>1. sk[p] = Unmade
      BY <1>1
    <2>2. QED
      BY <1>2, <2>1, Zenon
  <1>4. wallet.vt = 0 /\ wallet.rate = 1 /\ wallet.does.pc = "rest" /\ leeway.rises \in Nat
    BY <1>1, SkillAssumption DEF Rest
  <1>5. Whole
    <2> SUFFICES ASSUME NEW k \in Rates PROVE Divides(k, Put) /\ \A p \in SkillPlans : Divides(k, sk[p].principal)
      BY DEF Whole
    <2>1. k \in 1 .. 1 + leeway.rises /\ k \in Nat
      BY <1>4 DEF Rates
    <2>2. Divides(k, Put)
      BY <1>1, <2>1 DEF WholePuts, Divides
    <2>3. 0 = 0 * k
      BY <2>1
    <2>4. QED
      BY <1>3, <2>2, <2>3 DEF Divides
  <1>6. PaidFor
    BY <1>3, <1>4 DEF PaidFor
  <1>7. ~Sending
    BY <1>4 DEF Sending
  <1>8. Counted
    <2>1. OnWay("redeem") = 0 /\ OnWay("deposit") = 0
      BY <1>7, Zenon DEF OnWay, InHand
    <2>2. \A p \in SkillPlans : Vts(sk)[p] = 0
      BY <1>3 DEF Vts
    <2>3. IsFiniteSet(SkillPlans)
      BY SkillAssumption
    <2>4. SumFunctionOnSet(Vts(sk), SkillPlans) = 0
      BY <2>2, <2>3, SumNone
    <2>5. VtSum = 0
      BY <2>4, VtSumIs, Zenon
    <2>6. QED
      BY <1>4, <2>1, <2>5, Zenon DEF Counted
  <1>9. PutsIn /\ LeavesIt
    BY <1>4, <1>7 DEF PutsIn, LeavesIt, InHand
  <1>10. QED
    BY <1>5, <1>6, <1>8, <1>9 DEF Covered

LEMMA CoveredStep ==
    ASSUME SkillInv, SkillInv', CoveredInv, [SkillNext]_skillVars
    PROVE  CoveredInv'
  <1>1. SkillTypes /\ SkillTypes' /\ Facts
    BY DEF SkillInv
  <1>2. CASE SkillNext
    <2> SUFFICES ASSUME leeway'.obeys PROVE Covered'
      BY DEF CoveredInv
    <2>1. leeway.obeys
      BY <1>1, <1>2, ObeysKept
    <2>2. Covered /\ OneAtATime /\ DeedIs /\ RedeemsInterest /\ RedeemsItsOwn
      BY <2>1 DEF CoveredInv, SkillInv, Obeyed, OneAtATime, Redeems
    <2>3. Unmoved => Covered'
      BY <1>1, <2>2, CalmKeeps
    <2>4. Turns => Covered'
      BY <1>1, <2>2, TurnsKeep
    <2>5. ASSUME NEW i \in DOMAIN txs, MineTx(i) PROVE Covered'
      BY <1>1, <2>2, <2>5, MinesKeep
    <2>6. ASSUME NEW r \in Requests, Booking(r) PROVE Covered'
      BY <1>1, <2>2, <2>6, BookKeeps
    <2>7. QED
      BY <1>1, <1>2, <2>1, <2>3, <2>4, <2>5, <2>6, CoverClass
  <1>3. CASE UNCHANGED skillVars
    <2>1. sk' = sk /\ wallet' = wallet /\ txs' = txs /\ leeway' = leeway
      BY <1>3 DEF skillVars
    <2>2. Whole' <=> Whole
      BY <2>1, Zenon DEF Whole, Rates, Divides
    <2>3. (PaidFor' <=> PaidFor) /\ (PutsIn' <=> PutsIn) /\ (LeavesIt' <=> LeavesIt)
      BY <2>1, Zenon DEF PaidFor, PutsIn, LeavesIt, InHand, Deed, Doer, Sending
    <2>4. Counted' <=> Counted
      BY <2>1, Zenon DEF Counted, VtSum, OnWay, InHand, Deed, Sending
    <2>5. QED
      BY <2>1, <2>2, <2>3, <2>4, Zenon DEF CoveredInv, Covered
  <1>4. QED
    BY <1>2, <1>3

\* What is on record counts once, spends interest only, and leaves each plan as it should be;
\* what is left in Venus covers every principal, when each deposit buys whole vTokens.
THEOREM SkillHolds ==
    ASSUME WholePuts
    PROVE  WebSpec => []SkillTrue
  <1>1. WebInit => CoveredInv
    BY CoveredStart DEF WebInit, NoSkill, CoveredInv
  <1>2. SkillInv /\ SkillInv' /\ CoveredInv /\ [WebNext]_webVars => CoveredInv'
    <2> SUFFICES ASSUME SkillInv, SkillInv', CoveredInv, [WebNext]_webVars PROVE CoveredInv'
      OBVIOUS
    <2>1. [SkillNext]_skillVars
      <3>1. CASE WebNext
        BY <3>1 DEF WebNext
      <3>2. CASE UNCHANGED webVars
        BY <3>2 DEF webVars, skillVars
      <3>3. QED
        BY <3>1, <3>2
    <2>2. QED
      BY <2>1, CoveredStep
  <1>3. WebSpec => []CoveredInv
    BY <1>1, <1>2, SkillInvariant, PTL DEF WebSpec
  <1>4. SkillInv /\ CoveredInv => InterestOnly
    BY CoveredIsCovered DEF SkillInv, CoveredInv, Obeyed, Redeems, InterestOnly
  <1>5. RecordedOnce /\ RestsRight /\ InterestOnly => SkillTrue
    BY DEF SkillTrue
  <1>6. QED
    BY <1>3, <1>4, <1>5, SkillInvariant, RecordedHolds, RestsHolds, PTL
====
