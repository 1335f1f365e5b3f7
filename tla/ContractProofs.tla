---------------------------- MODULE ContractProofs ----------------------------
(* Proofs about SteeringContract, Calendar and TaskResults.                  *)
EXTENDS SteeringContract, Calendar, TaskResults, FiniteSetTheorems, WellFoundedInduction, TLAPS

\* A nonempty set of numbers has a least one.
LEMMA LeastNumber ==
  ASSUME NEW S, S \subseteq Nat, S # {}
  PROVE  \E n \in S : \A m \in S : n <= m
<1> DEFINE R == {p \in Nat \X Nat : p[1] < p[2]}
<1>1. R = OpToRel(<, Nat)
  BY DEF OpToRel
<1>2. IsWellFoundedOn(R, Nat)
  BY <1>1, NatLessThanWellFounded, Zenon
<1>3. \E n \in S : \A m \in S : ~(<<m, n>> \in R)
  <2> HIDE DEF R
  <2> QED  BY <1>2, WFMin
<1>4. PICK n \in S : \A m \in S : ~(<<m, n>> \in R)
  BY <1>3
<1>5. ASSUME NEW m \in S
      PROVE  n <= m
  <2>1. m \in Nat /\ n \in Nat /\ <<m, n>> \notin R
    BY <1>4
  <2>2. ~(m < n)
    BY <2>1
  <2> QED  BY <2>1, <2>2
<1> QED  BY <1>5

------------------------------------------------------------------------------
(* SteeringContract. The order of the effects does not matter to what is     *)
(* said of them.                                                             *)

\* A closed walk through a graph is a set of tasks that none of the ways leaves:
\* where the search finds no cycle there is none.
LEMMA NoClosedWalk ==
  ASSUME NEW graph, NEW id, ~Cycle(graph, id),
         NEW n \in Nat \ {0}, NEW way \in [0..n -> DOMAIN graph],
         way[0] = id, way[n] = id
  PROVE  \E k \in 1..n : way[k] \notin graph[way[k - 1]]
<1> SUFFICES ASSUME \A k \in 1..n : way[k] \in graph[way[k - 1]]
             PROVE  FALSE
  OBVIOUS
<1> DEFINE S == {way[k] : k \in 0..n}
<1>1. S \in SUBSET DOMAIN graph /\ id \in S
  OBVIOUS
<1>2. ASSUME NEW t \in S
      PROVE  graph[t] \cap S # {}
  <2>1. PICK k \in 0..n : t = way[k]
    OBVIOUS
  <2>2. CASE k < n
    <3>1. k + 1 \in 1..n /\ (k + 1) - 1 = k /\ k + 1 \in 0..n
      BY <2>2
    <3>2. way[k + 1] \in graph[way[k]] /\ way[k + 1] \in S
      BY <3>1
    <3> QED  BY <2>1, <3>2
  <2>3. CASE k = n
    <3>1. 1 \in 1..n /\ 1 - 1 = 0 /\ 1 \in 0..n
      OBVIOUS
    <3>2. way[1] \in graph[way[0]] /\ way[1] \in S
      BY <3>1
    <3> QED  BY <2>1, <2>3, <3>2
  <2> QED  BY <2>2, <2>3
<1> QED  BY <1>1, <1>2 DEF Cycle

\* A valid change of a task leaves the graph without a way back to the task
\* (validateTaskDependencies).
LEMMA ValidStaysAcyclic ==
  ASSUME NEW e, EffectOK(e), e.type = "update_task" => e.task_id # None
  PROVE  StaysAcyclic(e)
<1> SUFFICES ASSUME e.type = "update_task", Has(e.task, "deps")
             PROVE  StaysAcyclic(e)
  BY DEF StaysAcyclic
<1>1. UpdateTaskOK(e)
  BY DEF EffectOK, Plain, Resolving, AppAction, RowAction
<1>2. DependenciesOK(e.task.deps, e.task_id, state.tasks[e.task_id].workspace)
  BY <1>1 DEF UpdateTaskOK
<1> DEFINE graph == Graph(e.task_id, e.task.deps)
<1>3. ~Cycle(graph, e.task_id)
  BY <1>2 DEF DependenciesOK
<1>4. ASSUME NEW n \in 1..Cardinality(DOMAIN graph), NEW way \in [0..n -> DOMAIN graph],
             way[0] = e.task_id, way[n] = e.task_id
      PROVE  \E k \in 1..n : way[k] \notin graph[way[k - 1]]
  <2>1. n \in Nat \ {0}
    OBVIOUS
  <2> HIDE DEF graph
  <2> QED  BY <1>3, <1>4, <2>1, NoClosedWalk
<1> QED  BY <1>4 DEF StaysAcyclic

\* The effects of another order: a bijection of the places.
Rearranged(es, f) == [k \in DOMAIN es |-> es[f[k]]]

\* What is sound is sound in any order.
LEMMA SoundInAnyOrder ==
  ASSUME NEW es, NEW n \in Nat, DOMAIN es = 1..n, NEW f \in Bijection(1..n, 1..n)
  PROVE  Sound(Rearranged(es, f)) <=> Sound(es)
<1>0. PICK fs : fs = Rearranged(es, f)
  OBVIOUS
<1> DEFINE Of(gs, type) == {k \in DOMAIN gs : gs[k].type = type}
           Types(gs) == {gs[k].type : k \in DOMAIN gs}
<1>1. /\ DOMAIN fs = 1..n
      /\ \A k \in 1..n : f[k] \in 1..n /\ fs[k] = es[f[k]]
      /\ \A j, k \in 1..n : f[j] = f[k] => j = k
  BY <1>0 DEF Rearranged, Bijection, Injection, Surjection, IsInjective
<1>2. \A k \in 1..n : \E j \in 1..n : f[j] = k /\ fs[j] = es[k]
  <2>1. \A k \in 1..n : \E j \in 1..n : f[j] = k
    BY DEF Bijection, Surjection
  <2>2. ASSUME NEW k \in 1..n
        PROVE  \E j \in 1..n : f[j] = k /\ fs[j] = es[k]
    <3>1. PICK j \in 1..n : f[j] = k
      BY <2>1
    <3>2. fs[j] = es[f[j]]
      BY <1>1
    <3> QED  BY <3>1, <3>2
  <2> QED  BY <2>2
<1>3. \A k \in 1..n : \E j \in 1..n : fs[k] = es[j]
  BY <1>1
<1>4. /\ (\A k \in DOMAIN fs : EffectOK(fs[k]) /\ StaysAcyclic(fs[k])) <=>
         (\A k \in DOMAIN es : EffectOK(es[k]) /\ StaysAcyclic(es[k]))
      /\ Types(fs) = Types(es)
      /\ (\A k \in Of(fs, "create_task") : fs[k].task.title \notin OpenTitles) <=>
         (\A k \in Of(es, "create_task") : es[k].task.title \notin OpenTitles)
      /\ (\A k \in Of(fs, "update_task") \cup Of(fs, "cancel_task") : fs[k].task_id = state.recovery) <=>
         (\A k \in Of(es, "update_task") \cup Of(es, "cancel_task") : es[k].task_id = state.recovery)
  <2> DEFINE Right(e) ==
        /\ EffectOK(e) /\ StaysAcyclic(e)
      Fresh(e) == e.type = "create_task" => e.task.title \notin OpenTitles
      Recovers(e) == e.type \in {"update_task", "cancel_task"} => e.task_id = state.recovery
  <2>1. (\A k \in 1..n : Right(fs[k])) <=> (\A k \in 1..n : Right(es[k]))
    <3> HIDE DEF Right
    <3> QED  BY <1>2, <1>3
  <2>2. (\A k \in 1..n : Fresh(fs[k])) <=> (\A k \in 1..n : Fresh(es[k]))
    <3> HIDE DEF Fresh
    <3> QED  BY <1>2, <1>3
  <2>3. (\A k \in 1..n : Recovers(fs[k])) <=> (\A k \in 1..n : Recovers(es[k]))
    <3> HIDE DEF Recovers
    <3> QED  BY <1>2, <1>3
  <2>4. Types(fs) = Types(es)
    <3>1. Types(fs) \subseteq Types(es)
      <4> SUFFICES ASSUME NEW k \in 1..n
                   PROVE  fs[k].type \in Types(es)
        BY <1>1
      <4>1. PICK j \in 1..n : fs[k] = es[j]
        BY <1>3
      <4> QED  BY <4>1
    <3>2. Types(es) \subseteq Types(fs)
      <4> SUFFICES ASSUME NEW k \in 1..n
                   PROVE  es[k].type \in Types(fs)
        OBVIOUS
      <4>1. PICK j \in 1..n : fs[j] = es[k]
        BY <1>2
      <4> QED  BY <1>1, <4>1
    <3> QED  BY <3>1, <3>2
  <2> QED  BY <1>1, <2>1, <2>2, <2>3, <2>4
<1>8. (\A j, k \in DOMAIN fs : j # k => ~Conflict(fs[j], fs[k])) <=>
      (\A j, k \in DOMAIN es : j # k => ~Conflict(es[j], es[k]))
  <2>1. ASSUME \A j, k \in 1..n : j # k => ~Conflict(es[j], es[k]),
               NEW j \in 1..n, NEW k \in 1..n, j # k
        PROVE  ~Conflict(fs[j], fs[k])
    BY <1>1, <2>1
  <2>2. ASSUME \A j, k \in 1..n : j # k => ~Conflict(fs[j], fs[k]),
               NEW j \in 1..n, NEW k \in 1..n, j # k
        PROVE  ~Conflict(es[j], es[k])
    <3>1. PICK a \in 1..n : f[a] = j /\ fs[a] = es[j]
      BY <1>2
    <3>2. PICK b \in 1..n : f[b] = k /\ fs[b] = es[k]
      BY <1>2
    <3> QED  BY <2>2, <3>1, <3>2
  <2> QED  BY <1>1, <2>1, <2>2
<1>5. ASSUME NEW type
      PROVE  Cardinality(Of(fs, type)) = Cardinality(Of(es, type))
  <2> DEFINE g == [k \in Of(fs, type) |-> f[k]]
             S == Of(fs, type)
             T == Of(es, type)
  <2>1. g \in [S -> T]
    BY <1>1
  <2>2. \A j, k \in S : g[j] = g[k] => j = k
    BY <1>1
  <2>3. \A t \in T : \E s \in S : g[s] = t
    <3> SUFFICES ASSUME NEW t \in T
                 PROVE  \E s \in S : g[s] = t
      OBVIOUS
    <3>1. PICK s \in 1..n : f[s] = t
      BY <1>2
    <3> QED  BY <1>1, <3>1
  <2>4. IsFiniteSet(S)
    <3>1. S \subseteq 1..n /\ IsFiniteSet(1..n)
      BY <1>1, FS_Interval
    <3> QED  BY <3>1, FS_Subset, Zenon
  <2> HIDE DEF g, S, T
  <2>5. g \in Bijection(S, T)
    BY <2>1, <2>2, <2>3 DEF Bijection, Injection, Surjection, IsInjective
  <2>6. ExistsBijection(S, T)
    BY <2>5 DEF ExistsBijection
  <2>7. Cardinality(T) = Cardinality(S)
    BY <2>4, <2>6, FS_Bijection, Zenon
  <2> QED  BY <2>7 DEF S, T
<1> DEFINE Apart(gs) == /\ \A k \in Of(gs, "create_task") : gs[k].task.title \notin OpenTitles
                        /\ state.recovery # None =>
                             \A k \in Of(gs, "update_task") \cup Of(gs, "cancel_task") :
                               gs[k].task_id = state.recovery
<1>7. Apart(fs) <=> Apart(es)
  BY <1>4
<1>9. \A gs : Sound(gs) <=>
        /\ \A k \in DOMAIN gs : EffectOK(gs[k]) /\ StaysAcyclic(gs[k])
        /\ \A j, k \in DOMAIN gs : j # k => ~Conflict(gs[j], gs[k])
        /\ Gated => Types(gs) \subseteq Setup \/ "complete_context" \in Types(gs)
        /\ "complete_context" \in Types(gs) => state.confirmed /\ ~state.ready
        /\ "propose_context" \in Types(gs) => ~state.ready
        /\ Cardinality(Of(gs, "create_task")) <= MaxCreated
        /\ Apart(gs)
  BY Zenon DEF Sound
<1> HIDE DEF Of, Types, Apart
<1> QED  BY <1>0, <1>4, <1>5, <1>7, <1>8, <1>9

\* The order the effects are validated in is a rearrangement, with a confirmed
\* completion in front.
LEMMA OrderedRearranges ==
  ASSUME NEW S, NEW es \in Seq(S)
  PROVE  /\ \E f \in Bijection(1..Len(es), 1..Len(es)) : Ordered(es) = Rearranged(es, f)
         /\ Ordered(es) \in Seq(S) /\ Len(Ordered(es)) = Len(es)
         /\ Gated /\ state.confirmed /\ (\E k \in DOMAIN es : es[k].type = "complete_context")
               => Ordered(es)[1].type = "complete_context"
<1> DEFINE completes == {k \in DOMAIN es : es[k].type = "complete_context"}
           n == Len(es)
<1>0. n \in Nat /\ DOMAIN es = 1..n
  OBVIOUS
<1>1. CASE ~Gated \/ ~state.confirmed \/ completes = {}
  <2>1. Ordered(es) = es
    BY <1>1 DEF Ordered
  <2> DEFINE f == [k \in 1..n |-> k]
  <2>2. f \in Bijection(1..n, 1..n)
    BY DEF Bijection, Injection, Surjection, IsInjective
  <2>3. Rearranged(es, f) = es
    BY DEF Rearranged
  <2> QED  BY <1>1, <2>1, <2>2, <2>3
<1>2. CASE Gated /\ state.confirmed /\ completes # {}
  <2> DEFINE first == CHOOSE k \in completes : \A j \in completes : k <= j
             f == [k \in 1..n |-> IF k = 1 THEN first ELSE IF k <= first THEN k - 1 ELSE k]
  <2>1. completes \subseteq Nat
    OBVIOUS
  <2>2. first \in completes
    BY <1>2, <2>1, LeastNumber
  <2>3. Ordered(es) = [k \in DOMAIN es |-> IF k = 1 THEN es[first] ELSE IF k <= first THEN es[k - 1] ELSE es[k]]
    BY <1>2 DEF Ordered
  <2>4. first \in 1..n /\ es[first].type = "complete_context"
    BY <2>2
  <2> HIDE DEF first
  <2>5. f \in [1..n -> 1..n]
    BY <1>0, <2>4
  <2>6. \A j, k \in 1..n : f[j] = f[k] => j = k
    BY <1>0, <2>4
  <2>7. ASSUME NEW t \in 1..n
        PROVE  \E s \in 1..n : f[s] = t
    <3>1. CASE t = first
      BY <1>0, <2>4, <3>1
    <3>2. CASE t < first
      <4>1. t + 1 \in 1..n /\ t + 1 # 1 /\ t + 1 <= first /\ (t + 1) - 1 = t
        BY <1>0, <2>4, <3>2
      <4> QED  BY <4>1
    <3>3. CASE t > first
      BY <1>0, <2>4, <3>3
    <3> QED  BY <1>0, <2>4, <3>1, <3>2, <3>3
  <2>8. f \in Bijection(1..n, 1..n)
    BY <2>5, <2>6, <2>7 DEF Bijection, Injection, Surjection, IsInjective
  <2>9. Ordered(es) = Rearranged(es, f)
    BY <1>0, <2>3 DEF Rearranged
  <2>10. Ordered(es) \in Seq(S) /\ Len(Ordered(es)) = n
    <3>1. \A k \in 1..n : Ordered(es)[k] \in S /\ DOMAIN Ordered(es) = 1..n
      BY <1>0, <2>5, <2>9 DEF Rearranged
    <3>2. Ordered(es) = [k \in 1..n |-> Ordered(es)[k]]
      BY <1>0, <2>3
    <3> QED  BY <1>0, <3>1, <3>2
  <2>11. 1 \in DOMAIN es
    BY <1>0, <2>4
  <2>12. Ordered(es)[1] = es[first]
    BY <2>3, <2>11
  <2> QED  BY <2>4, <2>8, <2>9, <2>10, <2>12
<1> QED  BY <1>1, <1>2

------------------------------------------------------------------------------
(* SteeringContract. What is remembered of the effects.                      *)

Of(es, n, types) == {k \in 1..n : es[k].type \in types}

\* seen after the first n effects.
Summary(es, n) ==
  [created |-> Cardinality(Of(es, n, {"create_task"})),
   titles |-> {es[k].task.title : k \in Of(es, n, {"create_task"})},
   tasks |-> {es[k].task_id : k \in Of(es, n, {"update_task", "cancel_task"})},
   approvals |-> {es[k].approval_id : k \in Of(es, n, Resolving)},
   categories |-> {es[k].policy.category : k \in Of(es, n, {"update_policy"})},
   apps |-> {es[k].app_id : k \in Of(es, n, AppAction)},
   once |-> {Once(es[k]) : k \in 1..n}]

\* Outside the gate, or after the completion.
Entered(es, n) ==
  Gated => \A k \in 1..n :
    es[k].type \in Setup \/ \E j \in 1..(k - 1) : es[j].type = "complete_context"

\* What holds of the first n effects when all were accepted. That a result with
\* conversation_only has no other effect is found at the end.
Validated(es, n) ==
  /\ \A k \in 1..n : EffectOK(es[k])
  /\ \A j, k \in 1..n :
       j # k => ~Conflict(es[j], es[k]) \/ "conversation_only" \in {es[j].type, es[k].type}
  /\ Entered(es, n)
  /\ \A k \in 1..n : /\ es[k].type = "complete_context" => state.confirmed /\ ~state.ready
                     /\ es[k].type = "propose_context" => ~state.ready
                     /\ es[k].type = "create_task" => es[k].task.title \notin OpenTitles
                     /\ state.recovery # None /\ es[k].type \in {"update_task", "cancel_task"}
                          => es[k].task_id = state.recovery
  /\ Cardinality(Of(es, n, {"create_task"})) <= MaxCreated

\* The candidate in hand.
Tried ==
  /\ pick \in DOMAIN answer
  /\ Extract(pick) /\ Begins(answer[pick])
  /\ effects = Ordered(answer[pick].effects)
  /\ index \in 1..(Len(effects) + 1)

ContractInv ==
  /\ state \in Worlds
  /\ answer \in Answers \cup Repairs \cup {<< >>}
  /\ turn \in {"first", "repair"}
  /\ at \in {"run", "next", "effect", "accepted", "refused"}
  /\ pick \in 0..Len(answer)
  /\ index \in 1..(MaxEffects + 1) /\ seen.created \in 0..(index - 1)
  /\ at \in {"effect", "accepted"} => Tried
  /\ at = "effect" => seen = Summary(effects, index - 1) /\ Validated(effects, index - 1)
  /\ at = "accepted" => Sound(effects) /\ Entered(effects, Len(effects))
  /\ \A k \in (pick + 1)..Len(answer) : ~Acceptable(k)

------------------------------------------------------------------------------
(* SteeringContract. One more effect.                                        *)

\* Of n effects at most n are of some types.
LEMMA OfType ==
  ASSUME NEW es, NEW n \in Nat, NEW types
  PROVE  /\ IsFiniteSet(Of(es, n, types))
         /\ Cardinality(Of(es, n, types)) \in 0..n
         /\ Of(es, 0, types) = {}
         /\ n + 1 \notin Of(es, n, types)
<1>1. Of(es, n, types) \subseteq 1..n
  BY DEF Of
<1>2. IsFiniteSet(1..n) /\ Cardinality(1..n) = n
  BY FS_Interval
<1>3. IsFiniteSet(Of(es, n, types)) /\ Cardinality(Of(es, n, types)) <= n
  BY <1>1, <1>2, FS_Subset, Zenon
<1>4. Cardinality(Of(es, n, types)) \in Nat
  BY <1>3, FS_CardinalityType, Zenon
<1>5. n + 1 \notin 1..n /\ 1..(n + 1) = (1..n) \cup {n + 1} /\ 1..0 = {}
  OBVIOUS
<1> QED  BY <1>1, <1>3, <1>4, <1>5 DEF Of

\* How many of a type there are after one more.
LEMMA OneMore ==
  ASSUME NEW es, NEW n \in Nat, NEW types
  PROVE  Cardinality(Of(es, n + 1, types)) =
           Cardinality(Of(es, n, types)) + (IF es[n + 1].type \in types THEN 1 ELSE 0)
<1>1. PICK S : S = Of(es, n, types)
  OBVIOUS
<1>2. IsFiniteSet(S) /\ n + 1 \notin S /\ Cardinality(S) \in Nat
  BY <1>1, OfType
<1>3. Cardinality(S \cup {n + 1}) = Cardinality(S) + 1
  BY <1>2, FS_AddElement
<1>6. 1..(n + 1) = (1..n) \cup {n + 1}
  OBVIOUS
<1>4. CASE es[n + 1].type \in types
  <2>1. Of(es, n + 1, types) = S \cup {n + 1}
    BY <1>1, <1>4, <1>6 DEF Of
  <2> QED  BY <1>1, <1>3, <1>4, <2>1
<1>5. CASE es[n + 1].type \notin types
  <2>1. Of(es, n + 1, types) = S
    BY <1>1, <1>5, <1>6 DEF Of
  <2> QED  BY <1>1, <1>2, <1>5, <2>1
<1> QED  BY <1>4, <1>5

\* Remember keeps the summary.
LEMMA Remembered ==
  ASSUME NEW es, NEW n \in Nat, seen = Summary(es, n), Remember(es[n + 1])
  PROVE  seen' = Summary(es, n + 1)
<1>1. PICK e : e = es[n + 1]
  OBVIOUS
<1>2. 1..(n + 1) = (1..n) \cup {n + 1}
  OBVIOUS
<1>3. seen.created + (IF e.type = "create_task" THEN 1 ELSE 0) = Cardinality(Of(es, n + 1, {"create_task"}))
  BY <1>1, OneMore DEF Summary
<1>4. (IF e.type = "create_task" THEN seen.titles \cup {e.task.title} ELSE seen.titles)
        = {es[k].task.title : k \in Of(es, n + 1, {"create_task"})}
  BY <1>1, <1>2 DEF Summary, Of
<1>5. (IF e.type \in {"update_task", "cancel_task"} THEN seen.tasks \cup {e.task_id} ELSE seen.tasks)
        = {es[k].task_id : k \in Of(es, n + 1, {"update_task", "cancel_task"})}
  BY <1>1, <1>2 DEF Summary, Of
<1>6. (IF e.type \in Resolving THEN seen.approvals \cup {e.approval_id} ELSE seen.approvals)
        = {es[k].approval_id : k \in Of(es, n + 1, Resolving)}
  BY <1>1, <1>2 DEF Summary, Of
<1>7. (IF e.type = "update_policy" THEN seen.categories \cup {e.policy.category} ELSE seen.categories)
        = {es[k].policy.category : k \in Of(es, n + 1, {"update_policy"})}
  BY <1>1, <1>2 DEF Summary, Of
<1>8. (IF e.type \in AppAction THEN seen.apps \cup {e.app_id} ELSE seen.apps)
        = {es[k].app_id : k \in Of(es, n + 1, AppAction)}
  BY <1>1, <1>2 DEF Summary, Of
<1>9. seen.once \cup {Once(e)} = {Once(es[k]) : k \in 1..(n + 1)}
  BY <1>1, <1>2 DEF Summary
<1>10. Remember(e)
  BY <1>1
<1> QED  BY <1>3, <1>4, <1>5, <1>6, <1>7, <1>8, <1>9, <1>10, Zenon DEF Remember, Summary

\* Which of two effects comes first does not matter to their conflict.
LEMMA ConflictIsMutual ==
  ASSUME NEW d, NEW e
  PROVE  Conflict(d, e) <=> Conflict(e, d)
BY DEF Conflict, Resolving, AppAction

\* Two effects conflict just when the second is refused after the first, an
\* effect of conversation_only apart.
LEMMA RefusedIsConflict ==
  ASSUME NEW es, NEW n \in Nat, seen = Summary(es, n), NEW e,
         NEW k \in 1..n, Conflict(es[k], e), "conversation_only" \notin {es[k].type, e.type}
  PROVE  Refuses(e)
<1> DEFINE d == es[k]
<1>1. CASE d.type = e.type /\ d.type \in {"request_choice", "complete_context", "update_mission", "create_plan"}
  <2>1. Once(d) = e.type /\ Once(e) = e.type /\ Once(d) \in seen.once
    BY <1>1 DEF Once, Summary
  <2> QED  BY <1>1, <2>1 DEF Refuses, Singular
<1>2. CASE {d.type, e.type} \subseteq {"update_context", "update_soul"}
  <2>1. Once(d) = "update_context" /\ Once(e) = "update_context" /\ Once(d) \in seen.once
    BY <1>2 DEF Once, Summary
  <2> QED  BY <2>1 DEF Refuses, Singular
<1>3. CASE {d.type, e.type} \subseteq {"pause", "resume"}
  <2>1. Once(d) = "pause" /\ Once(e) = "pause" /\ Once(d) \in seen.once
    BY <1>3 DEF Once, Summary
  <2> QED  BY <2>1 DEF Refuses, Singular
<1>4. CASE d.type = "create_task" /\ e.type = "create_task" /\ d.task.title = e.task.title
  <2>1. d.task.title \in seen.titles
    BY <1>4 DEF Summary, Of
  <2> QED  BY <1>4, <2>1 DEF Refuses
<1>5. CASE d.type = "update_policy" /\ e.type = "update_policy" /\ d.policy.category = e.policy.category
  <2>1. d.policy.category \in seen.categories
    BY <1>5 DEF Summary, Of
  <2> QED  BY <1>5, <2>1 DEF Refuses
<1>6. CASE {d.type, e.type} \subseteq {"update_task", "cancel_task"} /\ d.task_id = e.task_id
  <2>1. d.task_id \in seen.tasks
    BY <1>6 DEF Summary, Of
  <2> QED  BY <1>6, <2>1 DEF Refuses
<1>7. CASE {d.type, e.type} \subseteq Resolving /\ d.approval_id = e.approval_id
  <2>1. d.approval_id \in seen.approvals
    BY <1>7 DEF Summary, Of
  <2> QED  BY <1>7, <2>1 DEF Refuses
<1>8. CASE {d.type, e.type} \subseteq AppAction /\ d.app_id = e.app_id
  <2>1. d.app_id \in seen.apps
    BY <1>8 DEF Summary, Of
  <2> QED  BY <1>8, <2>1 DEF Refuses
<1> QED  BY <1>1, <1>2, <1>3, <1>4, <1>5, <1>6, <1>7, <1>8 DEF Conflict

\* A completion that was validated is remembered.
LEMMA CompletionIsSeen ==
  ASSUME NEW es, NEW n \in Nat, seen = Summary(es, n)
  PROVE  "complete_context" \in seen.once <=> \E j \in 1..n : es[j].type = "complete_context"
<1>1. \A e : Once(e) = "complete_context" <=> e.type = "complete_context"
  BY DEF Once
<1>2. "complete_context" \in seen.once <=> \E j \in 1..n : Once(es[j]) = "complete_context"
  BY DEF Summary
<1> QED  BY <1>1, <1>2

\* What is not refused may be added.
LEMMA Validate ==
  ASSUME NEW es, NEW n \in Nat, seen = Summary(es, n), Validated(es, n),
         EffectOK(es[n + 1]), ~Refuses(es[n + 1])
  PROVE  Validated(es, n + 1)
<1>1. PICK e : e = es[n + 1]
  OBVIOUS
<1>2. 1..(n + 1) = (1..n) \cup {n + 1} /\ n + 1 \notin 1..n /\ (n + 1) - 1 = n
  OBVIOUS
<1>3. \A k \in 1..(n + 1) : EffectOK(es[k])
  BY <1>2 DEF Validated
<1>4. \A k \in 1..n : ~Conflict(es[k], e) \/ "conversation_only" \in {es[k].type, e.type}
  BY <1>1, RefusedIsConflict
<1>5. \A j, k \in 1..(n + 1) :
        j # k => ~Conflict(es[j], es[k]) \/ "conversation_only" \in {es[j].type, es[k].type}
  <2> SUFFICES ASSUME NEW j \in 1..(n + 1), NEW k \in 1..(n + 1), j # k
               PROVE  ~Conflict(es[j], es[k]) \/ "conversation_only" \in {es[j].type, es[k].type}
    OBVIOUS
  <2>1. CASE j \in 1..n /\ k \in 1..n
    BY <2>1 DEF Validated
  <2>2. CASE j \in 1..n /\ k = n + 1
    BY <1>1, <1>4, <2>2
  <2>3. CASE j = n + 1 /\ k \in 1..n
    <3>1. ~Conflict(es[k], e) \/ "conversation_only" \in {es[k].type, e.type}
      BY <1>4, <2>3
    <3>2. Conflict(es[k], e) <=> Conflict(e, es[k])
      BY ConflictIsMutual
    <3> QED  BY <1>1, <2>3, <3>1, <3>2
  <2> QED  BY <1>2, <2>1, <2>2, <2>3
<1>6. Entered(es, n + 1)
  <2> SUFFICES ASSUME Gated, NEW k \in 1..(n + 1), es[k].type \notin Setup
               PROVE  \E j \in 1..(k - 1) : es[j].type = "complete_context"
    BY DEF Entered
  <2>1. CASE k \in 1..n
    BY <2>1 DEF Validated, Entered
  <2>2. CASE k = n + 1
    <3>1. "complete_context" \in seen.once
      BY <2>2 DEF Refuses
    <3> QED  BY <1>2, <2>2, <3>1, CompletionIsSeen
  <2> QED  BY <1>2, <2>1, <2>2
<1>7. /\ e.type = "complete_context" => state.confirmed /\ ~state.ready
      /\ e.type = "propose_context" => ~state.ready
      /\ e.type = "create_task" => e.task.title \notin OpenTitles
      /\ state.recovery # None /\ e.type \in {"update_task", "cancel_task"} => e.task_id = state.recovery
  BY <1>1 DEF Refuses
<1>8. \A k \in 1..(n + 1) :
        /\ es[k].type = "complete_context" => state.confirmed /\ ~state.ready
        /\ es[k].type = "propose_context" => ~state.ready
        /\ es[k].type = "create_task" => es[k].task.title \notin OpenTitles
        /\ state.recovery # None /\ es[k].type \in {"update_task", "cancel_task"}
             => es[k].task_id = state.recovery
  BY <1>1, <1>2, <1>7 DEF Validated
<1>9. Cardinality(Of(es, n + 1, {"create_task"})) <= MaxCreated
  <2>1. Cardinality(Of(es, n, {"create_task"})) \in Nat /\ Cardinality(Of(es, n, {"create_task"})) <= MaxCreated
    BY OfType DEF Validated
  <2>2. Cardinality(Of(es, n + 1, {"create_task"})) =
          Cardinality(Of(es, n, {"create_task"})) + (IF e.type = "create_task" THEN 1 ELSE 0)
    BY <1>1, OneMore
  <2>3. e.type = "create_task" => ~(seen.created >= MaxCreated)
    BY <1>1 DEF Refuses
  <2>4. seen.created = Cardinality(Of(es, n, {"create_task"}))
    BY DEF Summary
  <2> QED  BY <2>1, <2>2, <2>3, <2>4, EffectsAreBounded
<1> QED  BY <1>3, <1>5, <1>6, <1>8, <1>9 DEF Validated

\* What is refused could not be sound, whatever comes after it: a completion
\* would have come first.
LEMMA Refused ==
  ASSUME NEW es, NEW L \in Nat, DOMAIN es = 1..L, NEW n \in Nat, n < L,
         seen = Summary(es, n), Refuses(es[n + 1]),
         Gated /\ state.confirmed /\ (\E k \in DOMAIN es : es[k].type = "complete_context")
           => es[1].type = "complete_context"
  PROVE  ~Sound(es)
<1> SUFFICES ASSUME Sound(es)
             PROVE  FALSE
  OBVIOUS
<1>1. PICK e : e = es[n + 1]
  OBVIOUS
<1>2. n + 1 \in 1..L /\ 1 \in 1..L /\ \A k \in 1..n : k \in 1..L /\ k # n + 1
  OBVIOUS
<1>3. \A k \in 1..n : ~Conflict(es[k], e)
  BY <1>1, <1>2 DEF Sound
<1>4. /\ Gated => \/ \A k \in 1..L : es[k].type \in Setup
                 \/ \E k \in 1..L : es[k].type = "complete_context"
      /\ \A k \in 1..L : /\ es[k].type = "complete_context" => state.confirmed /\ ~state.ready
                         /\ es[k].type = "propose_context" => ~state.ready
  BY DEF Sound
<1>5. /\ e.type = "create_task" => e.task.title \notin OpenTitles
      /\ state.recovery # None /\ e.type \in {"update_task", "cancel_task"} => e.task_id = state.recovery
  BY <1>1, <1>2 DEF Sound
<1>6. CASE Gated /\ "complete_context" \notin seen.once /\ e.type \notin Setup
  <2>1. PICK k \in 1..L : es[k].type = "complete_context"
    BY <1>1, <1>2, <1>4, <1>6
  <2>2. es[1].type = "complete_context"
    BY <1>4, <1>6, <2>1
  <2>3. n # 0
    BY <1>1, <1>6, <2>2 DEF Setup
  <2>4. 1 \in 1..n
    BY <2>3
  <2> QED  BY <1>6, <2>2, <2>4, CompletionIsSeen
<1>7. CASE e.type = "propose_context" /\ state.ready
  BY <1>1, <1>2, <1>4, <1>7
<1>8. CASE e.type = "complete_context" /\ (state.ready \/ "complete_context" \in seen.once \/ ~state.confirmed)
  <2>1. "complete_context" \in seen.once
    BY <1>1, <1>2, <1>4, <1>8
  <2>2. PICK j \in 1..n : es[j].type = "complete_context"
    BY <2>1, CompletionIsSeen
  <2>3. Conflict(es[j], e)
    BY <1>8, <2>2 DEF Conflict
  <2> QED  BY <1>3, <2>3
<1>9. CASE e.type = "create_task" /\ seen.created >= MaxCreated
  <2>1. Cardinality(Of(es, L, {"create_task"})) <= MaxCreated
    <3>1. {k \in DOMAIN es : es[k].type = "create_task"} = Of(es, L, {"create_task"})
      BY DEF Of
    <3> QED  BY <3>1 DEF Sound
  <2>2. Of(es, n + 1, {"create_task"}) \subseteq Of(es, L, {"create_task"})
    BY DEF Of
  <2>3. IsFiniteSet(Of(es, L, {"create_task"})) /\ Cardinality(Of(es, L, {"create_task"})) \in Nat
    BY OfType
  <2>4. Cardinality(Of(es, n + 1, {"create_task"})) <= Cardinality(Of(es, L, {"create_task"}))
    BY <2>2, <2>3, FS_Subset, Zenon
  <2>5. Cardinality(Of(es, n + 1, {"create_task"})) = seen.created + 1 /\ seen.created \in Nat
    <3>1. Cardinality(Of(es, n + 1, {"create_task"})) = Cardinality(Of(es, n, {"create_task"})) + 1
      BY <1>1, <1>9, OneMore
    <3>2. seen.created = Cardinality(Of(es, n, {"create_task"})) /\ seen.created \in Nat
      BY OfType DEF Summary
    <3> QED  BY <3>1, <3>2
  <2> QED  BY <1>9, <2>1, <2>3, <2>4, <2>5, EffectsAreBounded
<1>10. CASE e.type = "create_task" /\ e.task.title \in OpenTitles \cup seen.titles
  <2>1. PICK j \in 1..n : es[j].type = "create_task" /\ es[j].task.title = e.task.title
    BY <1>5, <1>10 DEF Summary, Of
  <2>2. Conflict(es[j], e)
    BY <1>10, <2>1 DEF Conflict
  <2> QED  BY <1>3, <2>2
<1>11. CASE e.type \in {"update_task", "cancel_task"} /\ state.recovery # None /\ e.task_id # state.recovery
  BY <1>5, <1>11
<1>12. CASE e.type \in {"update_task", "cancel_task"} /\ e.task_id \in seen.tasks
  <2>1. PICK j \in 1..n : es[j].type \in {"update_task", "cancel_task"} /\ es[j].task_id = e.task_id
    BY <1>12 DEF Summary, Of
  <2>2. Conflict(es[j], e)
    BY <1>12, <2>1 DEF Conflict
  <2> QED  BY <1>3, <2>2
<1>13. CASE e.type = "update_policy" /\ e.policy.category \in seen.categories
  <2>1. PICK j \in 1..n : es[j].type = "update_policy" /\ es[j].policy.category = e.policy.category
    BY <1>13 DEF Summary, Of
  <2>2. Conflict(es[j], e)
    BY <1>13, <2>1 DEF Conflict
  <2> QED  BY <1>3, <2>2
<1>14. CASE e.type \in Resolving /\ e.approval_id \in seen.approvals
  <2>1. PICK j \in 1..n : es[j].type \in Resolving /\ es[j].approval_id = e.approval_id
    BY <1>14 DEF Summary, Of
  <2>2. Conflict(es[j], e)
    BY <1>14, <2>1 DEF Conflict
  <2> QED  BY <1>3, <2>2
<1>15. CASE e.type \in AppAction /\ e.app_id \in seen.apps
  <2>1. PICK j \in 1..n : es[j].type \in AppAction /\ es[j].app_id = e.app_id
    BY <1>15 DEF Summary, Of
  <2>2. Conflict(es[j], e)
    BY <1>15, <2>1 DEF Conflict
  <2> QED  BY <1>3, <2>2
<1>16. CASE Once(e) \in Singular /\ Once(e) \in seen.once
  <2>1. PICK j \in 1..n : Once(es[j]) = Once(e)
    BY <1>16 DEF Summary
  <2>2. Conflict(es[j], e)
    BY <1>16, <2>1 DEF Conflict, Once, Singular
  <2> QED  BY <1>3, <2>2
<1> QED
  BY <1>1, <1>6, <1>7, <1>8, <1>9, <1>10, <1>11, <1>12, <1>13, <1>14, <1>15, <1>16 DEF Refuses

\* Effects that were all validated are sound, if conversation_only stands alone.
LEMMA Accepted ==
  ASSUME NEW es, NEW L \in Nat, DOMAIN es = 1..L, seen = Summary(es, L), Validated(es, L),
         "conversation_only" \notin seen.once \/ L = 1,
         state \in Worlds
  PROVE  Sound(es)
<1>1. \A k \in 1..L : EffectOK(es[k]) /\ StaysAcyclic(es[k])
  <2> SUFFICES ASSUME NEW k \in 1..L
               PROVE  EffectOK(es[k]) /\ StaysAcyclic(es[k])
    OBVIOUS
  <2>1. EffectOK(es[k])
    BY DEF Validated
  <2>2. es[k].type = "update_task" => es[k].task_id # None
    <3>1. es[k].type = "update_task" => UpdateTaskOK(es[k])
      BY <2>1 DEF EffectOK, Plain, Resolving, AppAction, RowAction
    <3> QED  BY <3>1, NoneIsNoTask DEF UpdateTaskOK
  <2> QED  BY <2>1, <2>2, ValidStaysAcyclic
<1>2. \A j, k \in 1..L : j # k => ~Conflict(es[j], es[k])
  <2>1. CASE L = 1
    BY <2>1
  <2>2. CASE "conversation_only" \notin seen.once
    <3>1. \A e : e.type = "conversation_only" => Once(e) = "conversation_only"
      BY DEF Once
    <3>2. \A k \in 1..L : es[k].type # "conversation_only"
      BY <2>2, <3>1 DEF Summary
    <3> QED  BY <3>2 DEF Validated
  <2> QED  BY <2>1, <2>2
<1>3. /\ Gated => {es[k].type : k \in 1..L} \subseteq Setup \/ "complete_context" \in {es[k].type : k \in 1..L}
      /\ "complete_context" \in {es[k].type : k \in 1..L} => state.confirmed /\ ~state.ready
      /\ "propose_context" \in {es[k].type : k \in 1..L} => ~state.ready
  BY DEF Validated, Entered
<1>4. Cardinality({k \in 1..L : es[k].type = "create_task"}) <= MaxCreated
  <2>1. {k \in 1..L : es[k].type = "create_task"} = Of(es, L, {"create_task"})
    BY DEF Of
  <2> QED  BY <2>1 DEF Validated
<1>5. \A k \in {j \in 1..L : es[j].type = "create_task"} : es[k].task.title \notin OpenTitles
  BY DEF Validated
<1>6. state.recovery # None =>
        \A k \in {j \in 1..L : es[j].type = "update_task"} \cup {j \in 1..L : es[j].type = "cancel_task"} :
          es[k].task_id = state.recovery
  BY DEF Validated
<1> QED  BY <1>1, <1>2, <1>3, <1>4, <1>5, <1>6, Zenon DEF Sound

------------------------------------------------------------------------------
(* SteeringContract. The turn.                                               *)

\* What is right is said of the state of the turn, which no step changes.
LEMMA Unmoved ==
  ASSUME state' = state
  PROVE  /\ \A es : (Sound(es) <=> Sound(es)') /\ Ordered(es)' = Ordered(es)
         /\ \A es, n : (Validated(es, n) <=> Validated(es, n)') /\ (Entered(es, n) <=> Entered(es, n)')
<1>1. /\ Gated <=> Gated'
      /\ OpenTitles' = OpenTitles
      /\ \A t, d : Graph(t, d)' = Graph(t, d)
  BY DEF Gated, OpenTitles, Graph
<1>2. \A c, b : TaskChangeOK(c, b) <=> TaskChangeOK(c, b)'
  BY DEF TaskChangeOK
<1>3. \A d, t, w : DependenciesOK(d, t, w) <=> DependenciesOK(d, t, w)'
  BY <1>1 DEF DependenciesOK
<1>4. \A e : /\ CreateTaskOK(e) <=> CreateTaskOK(e)'
             /\ UpdateTaskOK(e) <=> UpdateTaskOK(e)'
             /\ CancelTaskOK(e) <=> CancelTaskOK(e)'
  BY <1>2, <1>3 DEF CreateTaskOK, UpdateTaskOK, CancelTaskOK
<1>5. \A e : /\ ScheduleOK(e) <=> ScheduleOK(e)'
             /\ ScriptOK(e) <=> ScriptOK(e)'
             /\ UpsertOK(e) <=> UpsertOK(e)'
             /\ RowOK(e) <=> RowOK(e)'
  <2> SUFFICES ASSUME NEW e
               PROVE  /\ ScheduleOK(e) <=> ScheduleOK(e)'
                      /\ ScriptOK(e) <=> ScriptOK(e)'
                      /\ UpsertOK(e) <=> UpsertOK(e)'
                      /\ RowOK(e) <=> RowOK(e)'
    OBVIOUS
  <2>1. ScheduleOK(e) <=> ScheduleOK(e)'
    BY <1>2 DEF ScheduleOK
  <2>2. ScriptOK(e) <=> ScriptOK(e)'
    BY DEF ScriptOK
  <2>3. UpsertOK(e) <=> UpsertOK(e)'
    BY DEF UpsertOK
  <2>4. RowOK(e) <=> RowOK(e)'
    BY DEF RowOK
  <2> QED  BY <2>1, <2>2, <2>3, <2>4
<1>6. \A e : EffectOK(e) <=> EffectOK(e)'
  BY <1>4, <1>5 DEF EffectOK
<1>7. \A e : StaysAcyclic(e) <=> StaysAcyclic(e)'
  BY <1>1 DEF StaysAcyclic
<1>8. \A es, n : Entered(es, n) <=> Entered(es, n)'
  BY <1>1 DEF Entered
<1>9. \A es, n : Validated(es, n) <=> Validated(es, n)'
  BY <1>1, <1>6, <1>8 DEF Validated
<1>10. \A es : Sound(es) <=> Sound(es)'
  BY <1>1, <1>6, <1>7 DEF Sound
<1>11. \A es : Ordered(es)' = Ordered(es)
  BY <1>1 DEF Ordered
<1> QED  BY <1>8, <1>9, <1>10, <1>11

\* An answer is a sequence, and so are the effects of each of its objects.
LEMMA AnswerParts ==
  ASSUME answer \in Answers \cup Repairs \cup {<< >>}
  PROVE  /\ Len(answer) \in Nat /\ DOMAIN answer = 1..Len(answer)
         /\ \A k \in DOMAIN answer : answer[k].effects \in Seq(ToSet(answer[k].effects))
<1>1. CASE answer = << >>
  BY <1>1
<1>2. CASE answer \in Answers \cup Repairs
  <2>1. answer \in Seq(ToSet(answer)) /\ \A c \in ToSet(answer) : c.effects \in Seq(ToSet(c.effects))
    BY <1>2, AnswersAreSequences
  <2>2. Len(answer) \in Nat /\ DOMAIN answer = 1..Len(answer)
    BY <2>1
  <2>3. \A k \in DOMAIN answer : answer[k] \in ToSet(answer)
    BY <2>1
  <2> QED  BY <2>1, <2>2, <2>3
<1> QED  BY <1>1, <1>2

\* The effects in hand are those of the candidate in another order.
LEMMA TriedEffects ==
  ASSUME answer \in Answers \cup Repairs \cup {<< >>}, NEW k \in DOMAIN answer, Begins(answer[k])
  PROVE  LET es == Ordered(answer[k].effects)
         IN /\ Len(es) \in 1..MaxEffects /\ DOMAIN es = 1..Len(es)
            /\ Sound(es) <=> Sound(answer[k].effects)
            /\ Gated /\ state.confirmed /\ (\E j \in DOMAIN es : es[j].type = "complete_context")
                 => es[1].type = "complete_context"
<1>1. PICK sent : sent = answer[k].effects
  OBVIOUS
<1>2. PICK S : sent \in Seq(S)
  BY <1>1, AnswerParts
<1>3. Len(sent) \in 1..MaxEffects /\ DOMAIN sent = 1..Len(sent)
  BY <1>1, <1>2 DEF Begins
<1>4. PICK es : es = Ordered(sent)
  OBVIOUS
<1>5. PICK f \in Bijection(1..Len(sent), 1..Len(sent)) : es = Rearranged(sent, f)
  BY <1>2, <1>4, OrderedRearranges
<1>6. es \in Seq(S) /\ Len(es) = Len(sent)
  BY <1>2, <1>4, OrderedRearranges
<1>7. Sound(es) <=> Sound(sent)
  <2>1. Len(sent) \in Nat
    BY <1>3
  <2> QED  BY <1>3, <1>5, <2>1, SoundInAnyOrder
<1>8. ASSUME Gated, state.confirmed, NEW j \in DOMAIN es, es[j].type = "complete_context"
      PROVE  es[1].type = "complete_context"
  <2>1. f[j] \in DOMAIN sent /\ es[j] = sent[f[j]]
    BY <1>3, <1>5, <1>6 DEF Rearranged, Bijection, Injection
  <2>2. \E i \in DOMAIN sent : sent[i].type = "complete_context"
    BY <1>8, <2>1
  <2> QED  BY <1>2, <1>4, <1>8, <2>2, OrderedRearranges
<1> QED  BY <1>1, <1>3, <1>4, <1>6, <1>7, <1>8

\* A turn begins in the invariant, and each of its steps keeps it: one that
\* rejects a candidate shows that it is not acceptable (<1>2).
LEMMA InitInvariant == ContractInit => ContractInv
<1> SUFFICES ASSUME ContractInit
             PROVE  ContractInv
  OBVIOUS
<1>1. seen.created = 0
  BY DEF ContractInit, NothingSeen
<1>2. Len(answer) = 0
  BY DEF ContractInit
<1> QED  BY <1>1, <1>2, EffectsAreBounded DEF ContractInit, ContractInv

LEMMA NextInvariant == ContractInv /\ [ContractNext]_contractVars => ContractInv'
<1> SUFFICES ASSUME ContractInv, [ContractNext]_contractVars
             PROVE  ContractInv'
  OBVIOUS
<1>0. /\ Len(answer) \in Nat /\ DOMAIN answer = 1..Len(answer)
      /\ pick \in Nat /\ index \in Nat
  BY AnswerParts, EffectsAreBounded DEF ContractInv
<1>1. ASSUME answer' = answer, state' = state
      PROVE  \A k : Acceptable(k)' <=> Acceptable(k)
  <2>1. \A es : Sound(es) <=> Sound(es)'
    BY <1>1, Unmoved
  <2> QED  BY <1>1, <2>1 DEF Acceptable, Extract, Begins
<1>2. ASSUME Reject, at \in {"next", "effect"}, pick \in 1..Len(answer), ~Acceptable(pick),
             UNCHANGED <<state, answer, turn>>
      PROVE  ContractInv'
  <2>1. pick' \in 0..Len(answer) /\ at' = "next" /\ UNCHANGED <<effects, index, seen>>
    BY <1>0, <1>2 DEF Reject
  <2>2. \A k \in (pick' + 1)..Len(answer) : ~Acceptable(k)
    BY <1>0, <1>2 DEF Reject, ContractInv
  <2>3. \A k \in (pick' + 1)..Len(answer') : ~Acceptable(k)'
    BY <1>1, <1>2, <2>2
  <2> QED  BY <1>2, <2>1, <2>3 DEF ContractInv
<1>3. CASE Answer
  <2>1. PICK a \in Answers \cup Repairs : answer' = a /\ pick' = Len(a)
    BY <1>3 DEF Answer
  <2>2. Len(a) \in Nat
    BY <2>1, AnswersAreSequences
  <2>3. (pick' + 1)..Len(answer') = {} /\ pick' \in 0..Len(answer')
    BY <2>1, <2>2
  <2> QED  BY <1>3, <2>1, <2>3 DEF Answer, ContractInv
<1>4. CASE RepairFails
  <2>1. \A k \in (pick' + 1)..Len(answer') : ~Acceptable(k)'
    BY <1>1, <1>4 DEF RepairFails, ContractInv
  <2> QED  BY <1>4, <2>1 DEF RepairFails, ContractInv
<1>5. CASE ParseResult
  <2>1. pick \in 1..Len(answer)
    BY <1>0, <1>5 DEF ParseResult, ContractInv
  <2>2. CASE ~(Extract(pick) /\ Begins(answer[pick]))
    BY <1>2, <1>5, <2>1, <2>2 DEF ParseResult, Acceptable
  <2>3. CASE Extract(pick) /\ Begins(answer[pick])
    <3>1. PICK es : es = Ordered(answer[pick].effects)
      OBVIOUS
    <3>2. /\ effects' = es /\ index' = 1 /\ seen' = NothingSeen /\ at' = "effect"
          /\ UNCHANGED <<pick, state, answer, turn>>
      BY <1>5, <2>3, <3>1 DEF ParseResult
    <3>3. Len(es) \in 1..MaxEffects
      BY <1>0, <2>1, <2>3, <3>1, TriedEffects DEF ContractInv
    <3>4. Tried'
      <4>1. (Ordered(answer[pick].effects))' = es
        <5>1. PICK sent : sent = answer[pick].effects
          OBVIOUS
        <5>2. Ordered(sent)' = Ordered(sent)
          BY <3>2, Unmoved
        <5> QED  BY <3>1, <3>2, <5>1, <5>2
      <4> QED  BY <1>0, <2>1, <2>3, <3>2, <3>3, <4>1 DEF Tried, Extract, Begins
    <3>5. Summary(es, 0) = NothingSeen
      <4>1. \A types : Of(es, 0, types) = {}
        BY DEF Of
      <4>2. Cardinality({}) = 0
        BY FS_EmptySet
      <4> QED  BY <4>1, <4>2 DEF Summary, NothingSeen
    <3>6. Validated(es, 0)
      <4>1. \A types : Of(es, 0, types) = {}
        BY DEF Of
      <4>2. Cardinality({}) = 0
        BY FS_EmptySet
      <4> QED  BY <4>1, <4>2, EffectsAreBounded DEF Validated, Entered
    <3>7. Validated(es, 0)'
      BY <3>2, <3>6, Unmoved
    <3>8. (seen = Summary(effects, index - 1) /\ Validated(effects, index - 1))'
      BY <3>2, <3>5, <3>7
    <3>9. \A k \in (pick' + 1)..Len(answer') : ~Acceptable(k)'
      BY <1>1, <3>2 DEF ContractInv
    <3>10. index' \in 1..(MaxEffects + 1) /\ seen'.created \in 0..(index' - 1)
      BY <3>2, EffectsAreBounded DEF NothingSeen
    <3> QED  BY <3>2, <3>4, <3>8, <3>9, <3>10 DEF ContractInv
  <2> QED  BY <2>2, <2>3
<1>6. CASE ValidateEffect
  <2>1. PICK es, n, e : es = effects /\ n = index - 1 /\ e = effects[index]
    OBVIOUS
  <2>2. /\ pick \in DOMAIN answer /\ Extract(pick) /\ Begins(answer[pick])
        /\ es = Ordered(answer[pick].effects)
        /\ index \in 1..(Len(es) + 1) /\ index <= Len(es)
        /\ seen = Summary(es, n) /\ Validated(es, n)
        /\ UNCHANGED <<state, answer, turn>>
    BY <1>6, <2>1 DEF ValidateEffect, ContractInv, Tried
  <2>3. /\ Len(es) \in 1..MaxEffects /\ DOMAIN es = 1..Len(es)
        /\ Sound(es) <=> Sound(answer[pick].effects)
        /\ Gated /\ state.confirmed /\ (\E j \in DOMAIN es : es[j].type = "complete_context")
             => es[1].type = "complete_context"
    BY <2>2, TriedEffects DEF ContractInv
  <2>4. n \in Nat /\ n < Len(es) /\ n + 1 = index /\ e = es[n + 1] /\ Len(es) \in Nat
    BY <1>0, <2>1, <2>2, <2>3, EffectsAreBounded
  <2>5. CASE EffectOK(e) /\ ~Refuses(e)
    <3>1. Remember(es[n + 1]) /\ index' = index + 1 /\ UNCHANGED <<pick, at, effects>> /\ at = "effect"
      BY <1>6, <2>1, <2>4, <2>5 DEF ValidateEffect
    <3>2. seen' = Summary(es, n + 1)
      BY <2>2, <2>4, <3>1, Remembered
    <3>3. Validated(es, n + 1)
      BY <2>2, <2>4, <2>5, Validate
    <3>4. Validated(es, n + 1)'
      BY <2>2, <3>3, Unmoved
    <3>5. index' - 1 = n + 1
      BY <2>4, <3>1
    <3>6. (seen = Summary(effects, index - 1) /\ Validated(effects, index - 1))'
      BY <2>1, <3>1, <3>2, <3>4, <3>5
    <3>7. Tried'
      <4>1. (Ordered(answer[pick].effects))' = es
        <5>1. PICK sent : sent = answer[pick].effects
          OBVIOUS
        <5>2. Ordered(sent)' = Ordered(sent)
          BY <2>2, Unmoved
        <5> QED  BY <2>2, <3>1, <5>1, <5>2
      <4>2. index' \in 1..(Len(effects') + 1)
        BY <2>1, <2>3, <2>4, <3>1, <3>5
      <4> QED  BY <2>1, <2>2, <3>1, <4>1, <4>2 DEF Tried, Extract, Begins
    <3>8. \A k \in (pick' + 1)..Len(answer') : ~Acceptable(k)'
      BY <1>1, <2>2, <3>1 DEF ContractInv
    <3>9. index' \in 1..(MaxEffects + 1) /\ seen'.created \in 0..(index' - 1)
      <4>1. seen'.created \in 0..(n + 1)
        BY <2>4, <3>2, OfType DEF Summary
      <4> QED  BY <2>3, <2>4, <3>1, <3>5, <4>1, EffectsAreBounded
    <3> QED  BY <2>2, <3>1, <3>6, <3>7, <3>8, <3>9 DEF ContractInv
  <2>6. CASE ~(EffectOK(e) /\ ~Refuses(e))
    <3>1. ~Sound(es)
      <4>1. CASE ~EffectOK(e)
        BY <2>3, <2>4, <4>1 DEF Sound
      <4>2. CASE Refuses(e)
        BY <2>2, <2>3, <2>4, <4>2, Refused
      <4> QED  BY <2>6, <4>1, <4>2
    <3>2. ~Acceptable(pick)
      BY <2>3, <3>1 DEF Acceptable
    <3>3. Reject /\ at = "effect"
      BY <1>6, <2>1, <2>6 DEF ValidateEffect
    <3> QED  BY <1>0, <1>2, <2>2, <3>2, <3>3
  <2> QED  BY <2>5, <2>6
<1>7. CASE ValidateResult
  <2>1. PICK es, n : es = effects /\ n = index - 1
    OBVIOUS
  <2>2. /\ pick \in DOMAIN answer /\ Extract(pick) /\ Begins(answer[pick])
        /\ es = Ordered(answer[pick].effects)
        /\ index \in 1..(Len(es) + 1) /\ index > Len(es)
        /\ seen = Summary(es, n) /\ Validated(es, n)
        /\ UNCHANGED <<state, answer, turn>>
    BY <1>7, <2>1 DEF ValidateResult, ContractInv, Tried
  <2>3. /\ Len(es) \in 1..MaxEffects /\ DOMAIN es = 1..Len(es)
        /\ Sound(es) <=> Sound(answer[pick].effects)
    BY <2>2, TriedEffects DEF ContractInv
  <2>4. n = Len(es) /\ n \in Nat
    BY <1>0, <2>1, <2>2, <2>3, EffectsAreBounded
  <2>5. CASE "conversation_only" \in seen.once /\ Len(es) # 1
    <3>1. PICK j \in 1..n : Once(es[j]) = "conversation_only"
      BY <2>2, <2>5 DEF Summary
    <3>2. es[j].type = "conversation_only"
      BY <3>1 DEF Once
    <3>3. PICK k \in 1..n : k # j
      <4>1. 1 \in 1..n /\ 2 \in 1..n
        BY <2>3, <2>4, <2>5
      <4> QED  BY <4>1
    <3>4. Conflict(es[j], es[k])
      BY <3>2 DEF Conflict
    <3>5. ~Acceptable(pick)
      BY <2>3, <2>4, <3>3, <3>4 DEF Acceptable, Sound
    <3>6. Reject /\ at = "effect"
      BY <1>7, <2>1, <2>5 DEF ValidateResult
    <3> QED  BY <1>0, <1>2, <2>2, <3>5, <3>6
  <2>6. CASE ~("conversation_only" \in seen.once /\ Len(es) # 1)
    <3>1. at' = "accepted" /\ UNCHANGED <<pick, effects, index, seen>>
      BY <1>7, <2>1, <2>6 DEF ValidateResult
    <3>2. Sound(es) /\ Entered(es, n)
      <4>1. state \in Worlds
        BY DEF ContractInv
      <4>2. Sound(es)
        BY <2>2, <2>3, <2>4, <2>6, <4>1, Accepted
      <4> QED  BY <2>2, <4>2 DEF Validated
    <3>3. Sound(es)' /\ Entered(es, n)'
      BY <2>2, <3>2, Unmoved
    <3>4. (Sound(effects) /\ Entered(effects, Len(effects)))'
      BY <2>1, <2>4, <3>1, <3>3
    <3>5. Tried'
      <4>1. (Ordered(answer[pick].effects))' = es
        <5>1. PICK sent : sent = answer[pick].effects
          OBVIOUS
        <5>2. Ordered(sent)' = Ordered(sent)
          BY <2>2, Unmoved
        <5> QED  BY <2>2, <3>1, <5>1, <5>2
      <4> QED  BY <2>1, <2>2, <3>1, <4>1 DEF Tried, Extract, Begins
    <3>6. \A k \in (pick' + 1)..Len(answer') : ~Acceptable(k)'
      BY <1>1, <2>2, <3>1 DEF ContractInv
    <3> QED  BY <2>2, <3>1, <3>4, <3>5, <3>6 DEF ContractInv
  <2> QED  BY <2>5, <2>6
<1>8. CASE NoCandidate
  <2>1. \A k \in (pick' + 1)..Len(answer') : ~Acceptable(k)'
    BY <1>1, <1>8 DEF NoCandidate, ContractInv
  <2>2. at' \in {"run", "refused"} /\ turn' \in {"first", "repair"}
    BY <1>8 DEF NoCandidate, ContractInv
  <2> QED  BY <1>8, <2>1, <2>2 DEF NoCandidate, ContractInv
<1>9. CASE UNCHANGED contractVars
  <2>1. \A k \in (pick' + 1)..Len(answer') : ~Acceptable(k)'
    BY <1>1, <1>9 DEF contractVars, ContractInv
  <2>2. state' = state
    BY <1>9 DEF contractVars
  <2>3. PICK es, n : es = effects /\ n = index - 1
    OBVIOUS
  <2>4. /\ Sound(es) <=> Sound(es)'
        /\ Validated(es, n) <=> Validated(es, n)'
        /\ Entered(es, Len(es)) <=> Entered(es, Len(es))'
    BY <2>2, Unmoved
  <2>5. Tried => Tried'
    <3>1. PICK sent : sent = answer[pick].effects
      OBVIOUS
    <3>2. Ordered(sent)' = Ordered(sent)
      BY <2>2, Unmoved
    <3>3. (Ordered(answer[pick].effects))' = Ordered(answer[pick].effects)
      BY <1>9, <3>1, <3>2 DEF contractVars
    <3> QED  BY <1>9, <3>3 DEF contractVars, Tried, Extract, Begins
  <2>6. Validated(effects, index - 1) => Validated(effects, index - 1)'
    BY <1>9, <2>3, <2>4 DEF contractVars
  <2>7. Sound(effects) /\ Entered(effects, Len(effects)) => (Sound(effects) /\ Entered(effects, Len(effects)))'
    BY <1>9, <2>3, <2>4 DEF contractVars
  <2> QED  BY <1>9, <2>1, <2>5, <2>6, <2>7 DEF contractVars, ContractInv, Summary, Of
<1> QED  BY <1>3, <1>4, <1>5, <1>6, <1>7, <1>8, <1>9 DEF ContractNext

\* So the invariant holds in every turn.
LEMMA ContractInvariant == ContractSpec => []ContractInv
BY InitInvariant, NextInvariant, PTL DEF ContractSpec

\* The counters of a validation stay in their bounds (ValidateResult).
THEOREM ContractTypes == ContractSpec => []ContractTypeOK
<1>1. ContractInv => ContractTypeOK
  <2> SUFFICES ASSUME ContractInv
               PROVE  ContractTypeOK
    OBVIOUS
  <2>1. index \in 1..(MaxEffects + 2) /\ seen.created \in 0..MaxEffects
    BY EffectsAreBounded DEF ContractInv
  <2> QED  BY <2>1 DEF ContractInv, ContractTypeOK
<1> QED  BY <1>1, ContractInvariant, PTL

\* Whatever the worlds and the answers are, what is accepted is the last object
\* of the answer that is acceptable as a whole, an answer is given up only if
\* there is none, and behind the gate nothing precedes the completion
\* (ParseResult, ValidateResult).
THEOREM AcceptedIsTheLastSound == ContractSpec => []AcceptedIsRight
<1>1. ContractInv => AcceptedIsRight
  <2> SUFFICES ASSUME ContractInv
               PROVE  AcceptedIsRight
    OBVIOUS
  <2>1. ASSUME at = "accepted"
        PROVE  /\ Acceptable(pick)
               /\ Gated => \A k \in DOMAIN effects :
                    effects[k].type \in Setup \/ \E j \in 1..(k - 1) : effects[j].type = "complete_context"
    <3>1. /\ pick \in DOMAIN answer /\ Extract(pick) /\ Begins(answer[pick])
          /\ effects = Ordered(answer[pick].effects)
          /\ Sound(effects) /\ Entered(effects, Len(effects))
      BY <2>1 DEF ContractInv, Tried
    <3>2. (Sound(effects) <=> Sound(answer[pick].effects)) /\ DOMAIN effects = 1..Len(effects)
      BY <3>1, TriedEffects DEF ContractInv
    <3> QED  BY <3>1, <3>2 DEF Acceptable, Entered
  <2> QED  BY <2>1 DEF ContractInv, AcceptedIsRight
<1> QED  BY <1>1, ContractInvariant, PTL

------------------------------------------------------------------------------
(* Calendar. Division.                                                       *)

\* The quotient and the remainder are the only ones.
LEMMA Quotient ==
  ASSUME NEW b \in Nat \ {0}, NEW q \in Int, NEW r \in 0..(b - 1)
  PROVE  (b * q + r) \div b = q /\ (b * q + r) % b = r
OBVIOUS

\* What is at most a quotient.
LEMMA Below ==
  ASSUME NEW b \in Nat \ {0}, NEW k \in Int, NEW n \in Int
  PROVE  k <= n \div b <=> b * k <= n
OBVIOUS

\* A number is its quotient and its remainder.
LEMMA Division ==
  ASSUME NEW a \in Int, NEW b \in Nat \ {0}
  PROVE  \E q \in Int, r \in 0..(b - 1) :
           /\ q = a \div b /\ r = a % b /\ a = b * q + r
           /\ a >= 0 => q >= 0
<1>1. a \div b \in Int
  OBVIOUS
<1>2. PICK q \in Int : q = a \div b
  BY <1>1
<1>3. b * q <= a /\ ~(b * (q + 1) <= a)
  <2>1. q + 1 \in Int /\ ~(q + 1 <= q)
    OBVIOUS
  <2> QED  BY <1>2, <2>1, Below
<1>4. PICK r \in Int : r = a - b * q
  OBVIOUS
<1>5. r \in 0..(b - 1) /\ a = b * q + r
  BY <1>3, <1>4
<1>6. r = a % b
  BY <1>5, Quotient
<1>7. a >= 0 => q >= 0
  <2>1. b * 0 = 0
    OBVIOUS
  <2> QED  BY <1>2, <2>1, Below
<1> QED  BY <1>2, <1>5, <1>6, <1>7, Zenon

------------------------------------------------------------------------------
(* Calendar. A field says of a value what its items say.                     *)

\* The numbers of a part: from start to end by steps.
LEMMA Steps ==
  ASSUME NEW start \in Int, NEW end \in Int, NEW step \in Nat \ {0}
  PROVE  {start + k * step : k \in 0..((end - start) \div step)} =
           {w \in start..end : (w - start) % step = 0}
<1>1. ASSUME NEW k \in 0..((end - start) \div step), NEW w, w = start + k * step
      PROVE  start <= w /\ w <= end /\ (w - start) % step = 0
  <2>1. k \in Nat /\ step * k <= end - start
    BY Below
  <2>2. step * k >= 0 /\ w - start = step * k + 0
    BY <1>1, <2>1
  <2>3. (w - start) % step = 0
    BY <2>1, <2>2, Quotient
  <2> QED  BY <1>1, <2>1, <2>2, <2>3
<1>2. ASSUME NEW w \in start..end, (w - start) % step = 0
      PROVE  \E k \in 0..((end - start) \div step) : w = start + k * step
  <2>1. PICK q \in Int, r \in 0..(step - 1) :
          /\ q = (w - start) \div step /\ r = (w - start) % step /\ w - start = step * q + r
          /\ w - start >= 0 => q >= 0
    BY Division
  <2>2. r = 0 /\ q >= 0 /\ w - start = step * q
    BY <1>2, <2>1
  <2>3. step * q <= end - start
    BY <1>2, <2>2
  <2>4. q <= (end - start) \div step
    BY <2>3, Below
  <2>5. q \in 0..((end - start) \div step) /\ w = start + q * step
    BY <2>2, <2>4
  <2> QED  BY <2>5
<1>3. {start + k * step : k \in 0..((end - start) \div step)} \subseteq {w \in start..end : (w - start) % step = 0}
  <2> SUFFICES ASSUME NEW k \in 0..((end - start) \div step)
               PROVE  start + k * step \in {w \in start..end : (w - start) % step = 0}
    OBVIOUS
  <2>1. PICK w : w = start + k * step
    OBVIOUS
  <2>2. w \in Int
    BY <2>1
  <2> QED  BY <1>1, <2>1, <2>2
<1>4. {w \in start..end : (w - start) % step = 0} \subseteq {start + k * step : k \in 0..((end - start) \div step)}
  BY <1>2
<1> QED  BY <1>3, <1>4

------------------------------------------------------------------------------
(* Calendar. The numbers of the calendar.                                    *)

\* Finitely many numbers have a bound: the numbers of months that have none
\* would have a least one.
LEMMA Bounded ==
  ASSUME NEW seq \in Seq(Nat)
  PROVE  \E b \in Nat : \A k \in DOMAIN seq : seq[k] <= b
<1> DEFINE Bound(n) == \E b \in Nat : \A k \in 1..n : seq[k] <= b
           Un == {n \in 0..Len(seq) : ~Bound(n)}
<1>0. Len(seq) \in Nat /\ DOMAIN seq = 1..Len(seq)
  OBVIOUS
<1>1. Un \subseteq Nat
  OBVIOUS
<1> HIDE DEF Bound
<1>2. CASE Un = {}
  <2>1. Len(seq) \in 0..Len(seq)
    BY <1>0
  <2>2. Bound(Len(seq))
    BY <1>2, <2>1
  <2> QED  BY <1>0, <2>2 DEF Bound
<1>3. CASE Un # {}
  <2>1. PICK n \in Un : \A m \in Un : n <= m
    <3> HIDE DEF Un
    <3> QED  BY <1>1, <1>3, LeastNumber
  <2>2. Bound(0)
    <3>1. \A k \in 1..0 : seq[k] <= 0
      OBVIOUS
    <3> QED  BY <3>1 DEF Bound
  <2>3. n \in 1..Len(seq) /\ n - 1 \in 0..Len(seq) /\ ~(n <= n - 1)
    BY <1>0, <2>1, <2>2
  <2>4. Bound(n - 1)
    BY <2>1, <2>3
  <2>5. PICK b \in Nat : \A k \in 1..(n - 1) : seq[k] <= b
    BY <2>4 DEF Bound
  <2>6. seq[n] \in Nat
    BY <1>0, <2>3
  <2>7. PICK c \in Nat : b <= c /\ seq[n] <= c
    BY <2>6
  <2>8. \A k \in 1..n : seq[k] <= c
    <3> SUFFICES ASSUME NEW k \in 1..n
                 PROVE  seq[k] <= c
      OBVIOUS
    <3>1. k = n \/ k \in 1..(n - 1)
      BY <2>3
    <3>2. seq[k] \in Nat
      BY <1>0, <2>3
    <3> QED  BY <2>5, <2>7, <3>1, <3>2
  <2>9. Bound(n)
    BY <2>8 DEF Bound
  <2> QED  BY <2>1, <2>9
<1> QED  BY <1>2, <1>3

\* Numbers that have a bound have a largest.
LEMMA MaxIsIn ==
  ASSUME NEW S, S \subseteq Nat, S # {}, NEW b \in Nat, \A n \in S : n <= b
  PROVE  Max(S) \in S /\ \A n \in S : n <= Max(S)
<1> DEFINE T == {b - n : n \in S}
<1>1. T \subseteq Nat /\ T # {}
  <2>1. \A n \in S : b - n \in Nat
    OBVIOUS
  <2> QED  BY <2>1
<1>2. PICK d \in T : \A e \in T : d <= e
  BY <1>1, LeastNumber
<1>3. PICK m \in S : d = b - m
  BY <1>2
<1>4. \A n \in S : m >= n
  <2> SUFFICES ASSUME NEW n \in S
               PROVE  m >= n
    OBVIOUS
  <2>1. b - m <= b - n
    BY <1>2, <1>3
  <2> QED  BY <2>1
<1>5. Max(S) \in S /\ \A n \in S : Max(S) >= n
  BY <1>4 DEF Max
<1> QED  BY <1>5

\* What is assumed of the calendar, one by one.
LEMMA Counts ==
  /\ Second \in Nat \ {0} /\ Minute \in Nat \ {0} /\ Hour \in Nat \ {0}
  /\ Week \in Nat \ {0} /\ Leap \in Nat \ {0} /\ Late \in Nat \ {0} /\ MaxTime \in Nat
  /\ Len(Months) \in Nat /\ Len(Months) >= 2 /\ DOMAIN Months = 1..Len(Months)
  /\ \A m \in DOMAIN Months : Months[m] \in Nat \ {0}
BY CalendarCounts

\* The days of a year are finitely many, and there are some.
LEMMA FiniteYear ==
  ASSUME NEW year
  PROVE  IsFiniteSet(DaysOf(year)) /\ Cardinality(DaysOf(year)) \in Nat \ {0}
<1>1. PICK b \in Nat : \A m \in DOMAIN Months : Months[m] <= b
  <2>1. Months \in Seq(Nat)
    BY CalendarCounts
  <2> QED  BY <2>1, Bounded
<1>2. DaysOf(year) \subseteq (1..Len(Months)) \X (1..(b + 1))
  <2> SUFFICES ASSUME NEW m \in DOMAIN Months, NEW d \in 1..Length(m, year)
               PROVE  m \in 1..Len(Months) /\ d \in 1..(b + 1)
    BY DEF DaysOf
  <2>1. Length(m, year) \in Nat /\ Length(m, year) <= b + 1
    BY <1>1, Counts DEF Length
  <2> QED  BY <2>1, Counts
<1>3. IsFiniteSet((1..Len(Months)) \X (1..(b + 1)))
  <2>1. IsFiniteSet(1..Len(Months)) /\ IsFiniteSet(1..(b + 1))
    BY FS_Interval, Counts
  <2> QED  BY <2>1, FS_Product
<1>4. IsFiniteSet(DaysOf(year))
  BY <1>2, <1>3, FS_Subset, Zenon
<1>5. <<1, 1>> \in DaysOf(year)
  <2>1. 1 \in DOMAIN Months /\ 1 \in 1..Length(1, year)
    BY Counts DEF Length
  <2> QED  BY <2>1 DEF DaysOf
<1>6. Cardinality(DaysOf(year)) \in Nat /\ Cardinality(DaysOf(year)) # 0
  BY <1>4, <1>5, FS_CardinalityType, FS_EmptySet
<1> QED  BY <1>4, <1>6

\* The sizes of the calendar are positive, and the bounds of the fields numbers.
LEMMA Days ==
  /\ DaySeconds \in Nat \ {0} /\ CommonYear \in Nat \ {0} /\ CycleDays \in Nat \ {0}
  /\ SearchMinutes \in Nat \ {0}
  /\ \A f \in FieldNames : Lowest(f) \in Int /\ Highest(f) \in Int
<1>1. CommonYear \in Nat \ {0}
  BY FiniteYear DEF CommonYear
<1>2. DaySeconds \in Nat \ {0} /\ CycleDays \in Nat \ {0} /\ SearchMinutes \in Nat \ {0}
  BY <1>1, Counts DEF DaySeconds, CycleDays, SearchMinutes
<1>3. Max({Months[k] : k \in DOMAIN Months}) \in Int
  <2>1. Months \in Seq(Nat)
    BY CalendarCounts
  <2>2. PICK b \in Nat : \A m \in DOMAIN Months : Months[m] <= b
    BY <2>1, Bounded
  <2>3. PICK S : S = {Months[k] : k \in DOMAIN Months}
    OBVIOUS
  <2>4. S \subseteq Nat /\ S # {} /\ \A n \in S : n <= b
    BY <2>2, <2>3, Counts
  <2> QED  BY <2>3, <2>4, MaxIsIn
<1>4. \A f \in FieldNames : Lowest(f) \in Int /\ Highest(f) \in Int
  BY <1>3, Counts DEF FieldNames, Lowest, Highest
<1> QED  BY <1>1, <1>2, <1>4

\* A face shows numbers, and a day of the week by its lower one.
LEMMA FaceNumbers ==
  ASSUME NEW t \in Nat
  PROVE  /\ \A f \in FieldNames : Face(t)[f] \in Int
         /\ Face(t)["weekday"] # Week
<1>1. \A a \in Int, b \in Nat \ {0} : a \div b \in Int /\ a % b \in 0..(b - 1) /\ a % b \in Int
  <2> SUFFICES ASSUME NEW a \in Int, NEW b \in Nat \ {0}
               PROVE  a \div b \in Int /\ a % b \in 0..(b - 1) /\ a % b \in Int
    OBVIOUS
  <2> QED  BY Division
<1>2. /\ (t \div Second) % Minute \in Int
      /\ (t \div (Second * Minute)) % Hour \in Int
  <2>1. Second * Minute \in Nat \ {0}
    BY Counts
  <2> QED  BY <1>1, <2>1, Counts
<1>3. PICK n \in Int : n = t \div DaySeconds
  BY <1>1, Days
<1>4. WeekdayOf(t) \in Int /\ WeekdayOf(t) # Week
  <2>1. n % Week \in 0..(Week - 1)
    BY <1>1, Counts
  <2> QED  BY <1>3, <2>1, Counts DEF WeekdayOf
<1>5. PICK d \in Nat : d = DayOf(t)
  <2>1. n % CycleDays \in 0..(CycleDays - 1)
    BY <1>1, Days
  <2> QED  BY <1>3, <2>1, Days DEF DayOf
<1>6. PICK y \in Nat : y = YearDay(d)
  <2>1. CASE d <= CommonYear
    BY <2>1 DEF YearDay
  <2>2. CASE ~(d <= CommonYear)
    <3>1. (d - 1) % CommonYear \in 0..(CommonYear - 1)
      BY <1>1, Days
    <3> QED  BY <2>2, <3>1, Days DEF YearDay
  <2> QED  BY <2>1, <2>2
<1>7. \A m, year : Before(m, year) \in Nat
  <2> SUFFICES ASSUME NEW m, NEW year
               PROVE  Before(m, year) \in Nat
    OBVIOUS
  <2>1. PICK S : S = {x \in DaysOf(year) : x[1] < m}
    OBVIOUS
  <2>2. IsFiniteSet(S)
    <3>1. S \subseteq DaysOf(year)
      BY <2>1
    <3> QED  BY <3>1, FiniteYear, FS_Subset, Zenon
  <2> QED  BY <2>1, <2>2, FS_CardinalityType DEF Before
<1>8. MonthOf(d) \in Nat
  <2>1. PICK S : S = {m \in DOMAIN Months : Before(m, YearOf(d)) <= YearDay(d)}
    OBVIOUS
  <2>2. 1 \in S
    <3>1. PICK year : year = YearOf(d)
      OBVIOUS
    <3>2. \A x \in DaysOf(year) : ~(x[1] < 1)
      BY Counts DEF DaysOf
    <3>3. {x \in DaysOf(year) : x[1] < 1} = {}
      BY <3>2
    <3>4. Before(1, year) = 0
      BY <3>3, FS_EmptySet DEF Before
    <3> QED  BY <1>6, <2>1, <3>1, <3>4, Counts
  <2>3. S \subseteq Nat /\ S # {} /\ \A n_1 \in S : n_1 <= Len(Months)
    BY <2>1, <2>2, Counts
  <2>4. Max(S) \in S
    BY <2>3, Counts, MaxIsIn
  <2> QED  BY <2>1, <2>3, <2>4 DEF MonthOf
<1>9. DayOfMonth(d) \in Int
  BY <1>6, <1>7 DEF DayOfMonth
<1> QED  BY <1>2, <1>4, <1>5, <1>8, <1>9 DEF Face, FieldNames

\* What the matcher of a field accepts is what the field says (parseField).
LEMMA MatchesWhatItSays ==
  ASSUME NEW f \in FieldNames, NEW field \in SUBSET Parts, \A p \in field : PartOK(f, p),
         NEW v \in Int, f = "weekday" => v # Week
  PROVE  Matches(f, field, v) <=> Says(f, field, v)
<1> DEFINE Numbers(p) == {Normal(f, Start(f, p) + k * p.step) : k \in 0..((End(f, p) - Start(f, p)) \div p.step)}
<1>1. ASSUME NEW p \in field
      PROVE  Start(f, p) \in Int /\ End(f, p) \in Int /\ p.step \in Nat \ {0} /\ End(f, p) <= Highest(f)
  <2>1. p.lo \in Int /\ p.hi \in Int /\ p.step \in Int
    BY DEF Parts
  <2> QED  BY <2>1, Days DEF PartOK, Start, End
<1>2. ASSUME NEW p \in field
      PROVE  v \in Numbers(p) <=>
               \E w \in {v} \cup (IF f = "weekday" /\ v = 0 THEN {Week} ELSE {}) :
                 Start(f, p) <= w /\ w <= End(f, p) /\ (w - Start(f, p)) % p.step = 0
  <2>1. PICK start \in Int, end \in Int, step \in Nat \ {0} :
          start = Start(f, p) /\ end = End(f, p) /\ step = p.step
    BY <1>1, <1>2
  <2>2. PICK hits : hits = {start + k * step : k \in 0..((end - start) \div step)}
    OBVIOUS
  <2>3. \A w \in Int : w \in hits <=> start <= w /\ w <= end /\ (w - start) % step = 0
    <3>1. hits = {w \in start..end : (w - start) % step = 0}
      BY <2>2, Steps
    <3> QED  BY <3>1
  <2>4. v \in Numbers(p) <=> \E w \in hits : v = Normal(f, w)
    <3>1. \A k \in 0..((end - start) \div step) : start + k * step \in Int
      OBVIOUS
    <3> QED  BY <2>1, <2>2, <3>1
  <2>5. \A w \in Int : v = Normal(f, w) <=> w \in {v} \cup (IF f = "weekday" /\ v = 0 THEN {Week} ELSE {})
    BY Counts DEF Normal
  <2>6. {v} \cup (IF f = "weekday" /\ v = 0 THEN {Week} ELSE {}) \subseteq Int
    BY Counts
  <2>7. hits \subseteq Int
    BY <2>2
  <2> QED  BY <2>1, <2>3, <2>4, <2>5, <2>6, <2>7
<1>3. Matches(f, field, v) <=> field = {} \/ \E p \in field : v \in Numbers(p)
  BY DEF Matches, ParseField
<1> HIDE DEF Numbers
<1> QED  BY <1>2, <1>3, Zenon DEF Says

------------------------------------------------------------------------------
(* Calendar. The search.                                                     *)

\* The minutes that are tried for an instant.
Minutes(t, n) == {FirstMinute(t) + j * Second : j \in 0..(n - 1)}

\* The search has a minute in hand, and none of those before it is an occurrence.
Searching ==
  /\ ~IsInterval(schedule)
  /\ tries \in 0..SearchMinutes
  /\ candidate = FirstMinute(asked) + tries * Second
  /\ \A t \in Minutes(asked, tries) : ~Occurs(t)

CalendarInv ==
  /\ schedule \in Schedules
  /\ now \in Nat /\ asked \in Nat
  /\ stage \in {"idle", "parse", "search", "refused"}
  /\ stage = "parse" => next = Never
  /\ stage \in {"idle", "search"} => IsInterval(schedule) \/ FieldsOK(schedule)
  /\ stage = "search" => Searching
  /\ NextIsFirst

\* The minutes that are tried are those of the year that follows.
LEMMA TriedMinutes ==
  ASSUME NEW a \in Nat, NEW n \in Nat
  PROVE  /\ Minutes(a, n) = {t \in (a + 1)..(a + n * Second) : t % Second = 0}
         /\ FirstMinute(a) \in Nat
<1>0. Second \in Nat \ {0}
  BY Counts
<1>1. PICK q \in Int, r \in 0..(Second - 1) :
        /\ q = a \div Second /\ r = a % Second /\ a = Second * q + r
        /\ a >= 0 => q >= 0
  BY <1>0, Division
<1>2. q \in Nat /\ FirstMinute(a) = q * Second + Second
  BY <1>1 DEF FirstMinute
<1>3. ASSUME NEW t \in Minutes(a, n)
      PROVE  t \in (a + 1)..(a + n * Second) /\ t % Second = 0
  <2>1. PICK j \in 0..(n - 1) : t = FirstMinute(a) + j * Second
    BY <1>3 DEF Minutes
  <2>2. t = Second * (q + 1 + j) + 0 /\ q + 1 + j \in Int
    BY <1>2, <2>1, Counts
  <2>3. t % Second = 0
    <3>1. 0 \in 0..(Second - 1)
      BY Counts
    <3> QED  BY <2>2, <3>1, Quotient, Counts
  <2>4. (j + 1) * Second <= n * Second /\ j * Second >= 0 /\ (j + 1) * Second = j * Second + Second
    BY Counts
  <2>5. a < Second * q + Second /\ Second * q = q * Second /\ q * Second <= a
    BY <1>0, <1>1
  <2> QED  BY <1>0, <1>2, <2>1, <2>3, <2>4, <2>5
<1>4. ASSUME NEW t \in (a + 1)..(a + n * Second), t % Second = 0
      PROVE  t \in Minutes(a, n)
  <2>1. PICK p \in Int, s \in 0..(Second - 1) :
          p = t \div Second /\ s = t % Second /\ t = Second * p + s
    BY <1>0, Division
  <2>2. t = Second * p
    BY <1>0, <1>4, <2>1
  <2>3. p > q
    <3>1. Second * p > Second * q
      BY <1>0, <1>1, <2>2
    <3>2. p <= q => Second * p <= Second * q
      BY <1>0
    <3> QED  BY <1>0, <3>1, <3>2
  <2>4. p < q + n + 1
    <3>1. Second * p < Second * (q + n + 1)
      <4>1. Second * (q + n + 1) = Second * q + n * Second + Second
        BY <1>0
      <4>2. a < Second * q + Second /\ Second * p <= a + n * Second
        BY <1>0, <1>1, <2>2
      <4>3. PICK x \in Int, y \in Int : x = Second * q /\ y = n * Second
        BY <1>0
      <4> QED  BY <1>0, <4>1, <4>2, <4>3
    <3>2. p >= q + n + 1 => Second * p >= Second * (q + n + 1)
      BY <1>0
    <3> QED  BY <1>0, <3>1, <3>2
  <2>5. PICK j \in Int : j = p - q - 1
    OBVIOUS
  <2>6. j \in 0..(n - 1) /\ t = FirstMinute(a) + j * Second
    BY <1>2, <2>2, <2>3, <2>4, <2>5, Counts
  <2> QED  BY <2>6 DEF Minutes
<1>5. FirstMinute(a) \in Nat
  BY <1>2, Counts
<1>6. \A t : t \in Minutes(a, n) <=> t \in (a + 1)..(a + n * Second) /\ t % Second = 0
  BY <1>3, <1>4
<1> QED  BY <1>5, <1>6

\* The matchers accept a minute just when it is an occurrence.
LEMMA AcceptedMinutes ==
  ASSUME schedule \in Schedules, ~IsInterval(schedule), FieldsOK(schedule), NEW t \in Nat, t % Second = 0
  PROVE  (\A f \in FieldNames : Matches(f, schedule[f], Face(t)[f])) <=> Occurs(t)
<1>1. \A f \in FieldNames : schedule[f] \in SUBSET Parts /\ \A p \in schedule[f] : PartOK(f, p)
  BY CadencesAreRead DEF FieldsOK
<1>2. ASSUME NEW f \in FieldNames
      PROVE  Matches(f, schedule[f], Face(t)[f]) <=> Says(f, schedule[f], Face(t)[f])
  <2>1. Face(t)[f] \in Int /\ (f = "weekday" => Face(t)[f] # Week)
    BY FaceNumbers
  <2>2. PICK v \in Int : v = Face(t)[f]
    BY <2>1
  <2> QED  BY <1>1, <2>1, <2>2, MatchesWhatItSays
<1> QED  BY <1>2, Zenon DEF Occurs

\* The first occurrence is the minute found after those that are none.
LEMMA FirstIsFound ==
  ASSUME NEW a \in Nat, NEW n \in 0..SearchMinutes, \A t \in Minutes(a, n) : ~Occurs(t),
         NEW hits, hits = {t \in (a + 1)..(a + SearchMinutes * Second) : Occurs(t)}
  PROVE  /\ n = SearchMinutes => hits = {}
         /\ n < SearchMinutes /\ Occurs(FirstMinute(a) + n * Second) =>
              hits # {} /\ FirstMinute(a) + n * Second = Min(hits)
<1>0. Second \in Nat \ {0} /\ SearchMinutes \in Nat
  BY Counts, Days
<1>1. hits = {t \in Minutes(a, SearchMinutes) : Occurs(t)}
  <2>1. Minutes(a, SearchMinutes) = {t \in (a + 1)..(a + SearchMinutes * Second) : t % Second = 0}
    BY <1>0, TriedMinutes
  <2>2. \A t : Occurs(t) => t % Second = 0
    BY DEF Occurs
  <2> QED  BY <2>1, <2>2
<1>2. ASSUME n < SearchMinutes, Occurs(FirstMinute(a) + n * Second)
      PROVE  hits # {} /\ FirstMinute(a) + n * Second = Min(hits)
  <2>1. PICK c : c = FirstMinute(a) + n * Second
    OBVIOUS
  <2>2. c \in hits
    <3>1. n \in 0..(SearchMinutes - 1)
      BY <1>0, <1>2
    <3> QED  BY <1>1, <1>2, <2>1, <3>1 DEF Minutes
  <2>3. ASSUME NEW t \in hits
        PROVE  c <= t /\ c \in Nat /\ t \in Nat
    <3>1. PICK j \in 0..(SearchMinutes - 1) : t = FirstMinute(a) + j * Second
      BY <1>1, <2>3 DEF Minutes
    <3>2. ~(j < n)
      <4>1. j < n => t \in Minutes(a, n)
        BY <3>1 DEF Minutes
      <4> QED  BY <1>1, <2>3, <4>1
    <3>3. n * Second <= j * Second /\ n * Second \in Nat /\ j * Second \in Nat
      BY <1>0, <3>2
    <3>4. FirstMinute(a) \in Nat
      BY TriedMinutes, <1>0
    <3> QED  BY <2>1, <3>1, <3>3, <3>4
  <2>4. \A x \in hits : (\A y \in hits : x <= y) => x = c
    BY <2>2, <2>3
  <2>5. Min(hits) = c
    <3>1. \E x \in hits : \A y \in hits : x <= y
      BY <2>2, <2>3
    <3> QED  BY <2>4, <3>1 DEF Min
  <2> QED  BY <2>1, <2>2, <2>5
<1>3. ASSUME n = SearchMinutes
      PROVE  hits = {}
  BY <1>1, <1>3
<1> QED  BY <1>2, <1>3

\* The invariant holds at first, and each step keeps it.
LEMMA CalendarInitInv == CalendarInit => CalendarInv
BY CalendarCounts DEF CalendarInit, CalendarInv, NextIsFirst

LEMMA CalendarNextInv == CalendarInv /\ [CalendarNext]_calendarVars => CalendarInv'
<1> SUFFICES ASSUME CalendarInv, [CalendarNext]_calendarVars
             PROVE  CalendarInv'
  OBVIOUS
<1>1. ASSUME schedule' = schedule
      PROVE  \A t : (Occurs(t) <=> Occurs(t)') /\ (FieldsOK(schedule) <=> FieldsOK(schedule)')
  BY <1>1 DEF Occurs, FieldsOK
<1>2. ASSUME NEW t \in Nat, Ask(schedule, t), schedule' = schedule, now' \in Nat,
             IsInterval(schedule) \/ FieldsOK(schedule)
      PROVE  CalendarInv'
  <2>1. CASE IsInterval(schedule)
    BY <1>2, <2>1 DEF Ask, CalendarInv, NextIsFirst
  <2>2. CASE ~IsInterval(schedule)
    <3>1. /\ asked' = t /\ tries' = 0 /\ stage' = "search" /\ candidate' = FirstMinute(t)
      BY <1>2, <2>2 DEF Ask
    <3>2. candidate' = FirstMinute(asked') + tries' * Second
      <4>1. 0 * Second = 0
        BY Counts
      <4>2. FirstMinute(t) \in Nat
        BY TriedMinutes
      <4> QED  BY <3>1, <4>1, <4>2
    <3>3. Minutes(asked', tries') = {}
      BY <3>1 DEF Minutes
    <3>4. tries' \in 0..SearchMinutes
      BY <3>1, Days
    <3>5. Searching'
      BY <1>2, <2>2, <3>2, <3>3, <3>4 DEF Searching
    <3>6. NextIsFirst'
      BY <3>1 DEF NextIsFirst
    <3> QED  BY <1>1, <1>2, <3>1, <3>5, <3>6 DEF CalendarInv
  <2> QED  BY <2>1, <2>2
<1>3. CASE Create
  <2>1. CASE IsInterval(schedule) \/ FieldsOK(schedule)
    BY <1>2, <1>3, <2>1 DEF Create, CalendarInv
  <2>2. CASE ~(IsInterval(schedule) \/ FieldsOK(schedule))
    BY <1>1, <1>3, <2>2 DEF Create, CalendarInv, NextIsFirst
  <2> QED  BY <2>1, <2>2
<1>4. ASSUME NEW t \in 0..MaxTime, Run(t)
      PROVE  CalendarInv'
  <2>1. t \in Nat
    BY Counts
  <2> QED  BY <1>2, <1>4, <2>1 DEF Run, CalendarInv
<1>5. CASE Search
  <2>0. /\ stage = "search" /\ ~IsInterval(schedule) /\ FieldsOK(schedule)
        /\ tries \in 0..SearchMinutes /\ candidate = FirstMinute(asked) + tries * Second
        /\ \A t \in Minutes(asked, tries) : ~Occurs(t)
        /\ asked \in Nat /\ schedule' = schedule /\ asked' = asked /\ now' = now /\ schedule \in Schedules
    BY <1>5 DEF Search, CalendarInv, Searching
  <2>1. PICK hits : hits = {t \in (asked + 1)..(asked + SearchMinutes * Second) : Occurs(t)}
    OBVIOUS
  <2>2. hits = {t \in (asked' + 1)..(asked' + SearchMinutes * Second) : Occurs(t)'}
    BY <1>1, <2>0, <2>1
  <2>3. SearchMinutes \in Nat /\ Second \in Nat \ {0} /\ FirstMinute(asked) \in Nat
    BY <2>0, Days, Counts, TriedMinutes
  <2>4. candidate \in Nat /\ candidate % Second = 0
    <3>1. tries * Second \in Nat
      BY <2>0, <2>3
    <3>2. candidate \in Minutes(asked, tries + 1)
      <4>1. tries \in 0..((tries + 1) - 1)
        BY <2>0, <2>3
      <4> QED  BY <2>0, <4>1 DEF Minutes
    <3>3. tries + 1 \in Nat
      BY <2>0, <2>3
    <3> QED  BY <2>0, <2>3, <3>1, <3>2, <3>3, TriedMinutes
  <2>5. CASE tries = SearchMinutes
    <3>1. next' = Never /\ stage' \in {"refused", "idle"}
      BY <1>5, <2>5 DEF Search
    <3>2. hits = {}
      BY <2>0, <2>1, <2>5, FirstIsFound
    <3>3. NextIsFirst'
      BY <2>0, <2>2, <3>1, <3>2 DEF NextIsFirst
    <3> QED  BY <1>1, <2>0, <3>1, <3>3 DEF CalendarInv
  <2>6. CASE tries # SearchMinutes /\ Occurs(candidate)
    <3>1. \A f \in FieldNames : Matches(f, schedule[f], Face(candidate)[f])
      BY <2>0, <2>4, <2>6, AcceptedMinutes
    <3>2. stage' = "idle" /\ next' = candidate
      BY <1>5, <2>6, <3>1 DEF Search
    <3>3. hits # {} /\ candidate = Min(hits)
      <4>1. tries < SearchMinutes
        BY <2>0, <2>3, <2>6
      <4> QED  BY <2>0, <2>1, <2>6, <4>1, FirstIsFound
    <3>4. candidate # Never
      BY <2>4 DEF Never
    <3>5. NextIsFirst'
      BY <2>0, <2>2, <3>2, <3>3, <3>4 DEF NextIsFirst
    <3> QED  BY <1>1, <2>0, <3>2, <3>5 DEF CalendarInv
  <2>7. CASE tries # SearchMinutes /\ ~Occurs(candidate)
    <3>1. ~(\A f \in FieldNames : Matches(f, schedule[f], Face(candidate)[f]))
      BY <2>0, <2>4, <2>7, AcceptedMinutes
    <3>2. candidate' = candidate + Second /\ tries' = tries + 1 /\ UNCHANGED <<stage, next>>
      BY <1>5, <2>7, <3>1 DEF Search
    <3>3. tries' \in 0..SearchMinutes
      BY <2>0, <2>3, <2>7, <3>2
    <3>4. candidate' = FirstMinute(asked) + tries' * Second
      <4>1. (tries + 1) * Second = tries * Second + Second /\ tries * Second \in Nat
        BY <2>0, <2>3
      <4> QED  BY <2>0, <2>3, <3>2, <4>1
    <3>5. \A t \in Minutes(asked, tries + 1) : ~Occurs(t)
      <4> SUFFICES ASSUME NEW j \in 0..((tries + 1) - 1)
                   PROVE  ~Occurs(FirstMinute(asked) + j * Second)
        BY DEF Minutes
      <4>1. j \in 0..(tries - 1) \/ j = tries
        BY <2>0, <2>3
      <4> QED  BY <2>0, <2>7, <4>1 DEF Minutes
    <3>6. Searching'
      BY <1>1, <2>0, <3>2, <3>3, <3>4, <3>5 DEF Searching
    <3>7. NextIsFirst'
      BY <2>0, <3>2 DEF NextIsFirst
    <3> QED  BY <1>1, <2>0, <3>2, <3>6, <3>7 DEF CalendarInv
  <2> QED  BY <2>5, <2>6, <2>7
<1>6. CASE UNCHANGED calendarVars
  <2>1. schedule' = schedule /\ asked' = asked /\ next' = next /\ stage' = stage /\ now' = now
        /\ tries' = tries /\ candidate' = candidate
    BY <1>6 DEF calendarVars
  <2>2. Searching => Searching'
    BY <1>1, <2>1 DEF Searching
  <2>3. NextIsFirst'
    BY <1>1, <2>1 DEF CalendarInv, NextIsFirst
  <2> QED  BY <1>1, <2>1, <2>2, <2>3 DEF CalendarInv
<1> QED  BY <1>3, <1>4, <1>5, <1>6 DEF CalendarNext

\* On any calendar, a cadence's next run is the first occurrence strictly after
\* the instant it was asked for, and it has none only if there is none for a year
\* (scheduler.Next).
THEOREM NextOccurrence == CalendarSpec => []NextIsFirst
<1>1. CalendarInv => NextIsFirst
  BY DEF CalendarInv
<1> QED  BY <1>1, CalendarInitInv, CalendarNextInv, PTL DEF CalendarSpec

------------------------------------------------------------------------------
(* TaskResults. Which object of a run's output is taken.                     *)

Paths == [file : Files, plain : BOOLEAN]

\* What is known of the parts of a report, and of a report that is in another.
LEMMA Fields ==
  ASSUME NEW R, NEW r \in ReportsWith(R)
  PROVE  /\ r.rows \in R
         /\ r = [status |-> r.status, summary |-> r.summary, asks |-> r.asks, kept |-> r.kept,
                 checks |-> r.checks, outcomes |-> r.outcomes, artifacts |-> r.artifacts,
                 writes |-> r.writes, apps |-> r.apps, rows |-> r.rows]
         /\ r.artifacts \in Seq(Paths)
         /\ r.outcomes \in Seq([text : STRING, status : Statuses])
         /\ r.writes \in Seq([operation : STRING, has : SUBSET STRING])
         /\ r.apps \in Seq([directory : STRING, command : STRING, port : Nat])
BY DEF ReportsWith, Paths

LEMMA Outer ==
  ASSUME NEW r \in Reports
  PROVE  r.rows \in Seq(ReportsWith({<< >>})) /\ r.artifacts \in Seq(Paths)
BY Fields DEF Reports

LEMMA Inner ==
  ASSUME NEW r \in ReportsWith({<< >>})
  PROVE  r \in Reports /\ r.rows = << >>
<1>1. r.rows = << >>
  BY Fields
<1>2. r.rows \in Seq(ReportsWith({<< >>}))
  BY <1>1
<1> QED  BY <1>1, <1>2 DEF Reports, ReportsWith

\* The objects of an output are reports, and what is in them is no deeper.
LEMMA ObjectsAreReports ==
  ASSUME NEW said \in Seq(Reports), NEW p \in Places(said)
  PROVE  /\ p \in Nat \X Nat /\ p[1] \in DOMAIN said /\ p[2] <= Len(said[p[1]].rows)
         /\ ObjectAt(said, p) \in Reports
         /\ p[2] # 0 => ObjectAt(said, p).rows = << >>
<1>1. PICK k \in DOMAIN said : p \in {k} \X (0..Len(said[k].rows))
  BY DEF Places
<1>2. said[k] \in Reports /\ said[k].rows \in Seq(ReportsWith({<< >>}))
  BY Outer
<1>3. p[1] = k /\ p[2] \in 0..Len(said[k].rows) /\ p \in Nat \X Nat
  BY <1>1, <1>2
<1>4. ASSUME p[2] # 0
      PROVE  said[k].rows[p[2]] \in ReportsWith({<< >>})
  BY <1>2, <1>3, <1>4
<1>5. ASSUME NEW r \in ReportsWith({<< >>})
      PROVE  r \in Reports /\ r.rows = << >>
  BY <1>5, Inner
<1> QED  BY <1>1, <1>2, <1>3, <1>4, <1>5 DEF ObjectAt

\* The place of an object in an output and the places of the objects in it.
LEMMA PlacesOf ==
  ASSUME NEW said \in Seq(Reports), NEW k \in DOMAIN said, NEW j \in Nat
  PROVE  <<k, j>> \in Places(said) <=> j <= Len(said[k].rows)
<1>1. said[k].rows \in Seq(ReportsWith({<< >>}))
  BY Outer
<1> QED  BY <1>1 DEF Places

\* If a report is found in an output there is a last one (ParseRunResult).
LEMMA LastIsFound ==
  ASSUME NEW said \in Seq(Reports), Found(said) # {}
  PROVE  /\ LastFound(said) \in Found(said)
         /\ \A q \in Found(said) : ~Earlier(LastFound(said), q)
<1> DEFINE F == Found(said)
           N == {Len(said) - p[1] : p \in F}
<1>1. \A p \in F : /\ p \in Places(said) /\ p \in Nat \X Nat /\ p[1] \in 1..Len(said)
                   /\ p[2] <= Len(said[p[1]].rows)
  BY ObjectsAreReports DEF Found
<1>2. N \subseteq Nat /\ N # {}
  BY <1>1
<1>3. PICK n \in N : \A m \in N : n <= m
  BY <1>2, LeastNumber
<1>4. PICK p \in F : n = Len(said) - p[1]
  BY <1>3
<1>5. \A q \in F : q[1] <= p[1]
  <2> SUFFICES ASSUME NEW q \in F
               PROVE  q[1] <= p[1]
    OBVIOUS
  <2>1. Len(said) - q[1] \in N
    OBVIOUS
  <2>2. Len(said) \in Nat /\ q[1] \in Nat /\ p[1] \in Nat
    BY <1>1
  <2>3. Len(said) - p[1] <= Len(said) - q[1]
    BY <1>3, <1>4, <2>1
  <2> QED  BY <2>2, <2>3
<1> DEFINE G == {q \in F : q[1] = p[1]}
           L == Len(said[p[1]].rows)
           M == {L - q[2] : q \in G}
<1>6. L \in Nat
  BY <1>1, Outer
<1>7. M \subseteq Nat /\ M # {}
  BY <1>1, <1>4, <1>6
<1>8. PICK m \in M : \A i \in M : m <= i
  BY <1>7, LeastNumber
<1>9. PICK g \in G : m = L - g[2]
  BY <1>8
<1>10. \A q \in G : q[2] <= g[2]
  <2> SUFFICES ASSUME NEW q \in G
               PROVE  q[2] <= g[2]
    OBVIOUS
  <2>1. L - q[2] \in M /\ q[2] \in Nat /\ g[2] \in Nat
    BY <1>1, <1>9
  <2>2. L - g[2] <= L - q[2]
    BY <1>8, <1>9, <2>1
  <2> QED  BY <1>6, <2>1, <2>2
<1>11. \A q \in F : ~Earlier(g, q)
  BY <1>1, <1>5, <1>9, <1>10 DEF Earlier
<1> QED  BY <1>9, <1>11 DEF LastFound

\* Reports with other checks, another status or more artifacts.
Tests == [about : {"other", "mentions", "verifies"}, status : Statuses, told : BOOLEAN]
Like(x, r) == /\ x \in Reports
              /\ x.rows = r.rows /\ x.asks = r.asks /\ x.writes = r.writes
              /\ x.summary = r.summary /\ x.outcomes = r.outcomes /\ x.apps = r.apps

LEMMA EditedChecks ==
  ASSUME NEW r \in Reports, NEW c \in SUBSET Tests, NEW x, x = [r EXCEPT !.checks = c]
  PROVE  Like(x, r) /\ x.checks = c /\ x.status = r.status /\ x.artifacts = r.artifacts
<1> DEFINE Rows == Seq(ReportsWith({<< >>}))
<1>1. r \in ReportsWith(Rows)
  BY DEF Reports
<1> HIDE DEF Rows
<1>2. x \in ReportsWith(Rows)
  BY <1>1 DEF ReportsWith, Tests
<1>3. x \in Reports
  BY <1>2 DEF Reports, Rows
<1> QED  BY <1>1, <1>3 DEF Like, ReportsWith

LEMMA EditedStatus ==
  ASSUME NEW r \in Reports, NEW s \in Statuses, NEW x, x = [r EXCEPT !.status = s]
  PROVE  Like(x, r) /\ x.checks = r.checks /\ x.status = s /\ x.artifacts = r.artifacts
<1> DEFINE Rows == Seq(ReportsWith({<< >>}))
<1>1. r \in ReportsWith(Rows)
  BY DEF Reports
<1> HIDE DEF Rows
<1>2. x \in ReportsWith(Rows)
  BY <1>1 DEF ReportsWith
<1>3. x \in Reports
  BY <1>2 DEF Reports, Rows
<1> QED  BY <1>1, <1>3 DEF Like, ReportsWith

LEMMA EditedArtifacts ==
  ASSUME NEW r \in Reports, NEW a \in Seq(Paths), NEW x, x = [r EXCEPT !.artifacts = a]
  PROVE  Like(x, r) /\ x.checks = r.checks /\ x.status = r.status /\ x.artifacts = a
<1> DEFINE Rows == Seq(ReportsWith({<< >>}))
<1>1. r \in ReportsWith(Rows)
  BY DEF Reports
<1> HIDE DEF Rows
<1>2. x \in ReportsWith(Rows)
  BY <1>1 DEF ReportsWith, Paths
<1>3. x \in Reports
  BY <1>2 DEF Reports, Rows
<1> QED  BY <1>1, <1>3 DEF Like, ReportsWith

LEMMA LikeIsUnderstood ==
  ASSUME NEW r, NEW x, Like(x, r)
  PROVE  /\ Understood(r) /\ x.status \in {r.status, "failed"} => Understood(x)
         /\ IncludesRows(x) <=> IncludesRows(r)
BY DEF Like, Understood, IncludesRows

\* What Nabu makes of a report differs from it in the checks, the status and
\* the artifacts only, so it is understood if the report is.
LEMMA WordOfReport ==
  ASSUME NEW r \in Reports, NEW w \in Words(Undelegated(r))
  PROVE  /\ Like(w, r) /\ w.status \in {r.status, "failed"}
         /\ Undelegated(r).checks \subseteq w.checks
         /\ w = BrowserFailed(Undelegated(r)) => w.status = "failed"
         /\ w = Deferred(Undelegated(r)) =>
              w.checks = Undelegated(r).checks \cup {Check("not_run")}
<1>1. /\ r.checks \in SUBSET Tests /\ r.artifacts \in Seq(Paths)
      /\ \A x : Like(x, r) => x \in Reports
  BY DEF Reports, ReportsWith, Tests, Paths, Like
<1>2. PICK kept : kept = {c \in r.checks : c.about = "other"}
  OBVIOUS
<1>3. PICK d : d = Undelegated(r)
  OBVIOUS
<1>4. kept \in SUBSET Tests /\ d = [r EXCEPT !.checks = kept]
  BY <1>1, <1>2, <1>3 DEF Undelegated
<1>5. /\ Like(d, r) /\ d.checks = kept /\ d.status = r.status /\ d \in Reports
      /\ d.artifacts = r.artifacts
  BY <1>1, <1>4, EditedChecks
\* The report with a check of Nabu's.
<1>6. ASSUME NEW s \in {"not_run", "failed", "passed"}, NEW y, y = WithCheck(d, s)
      PROVE  /\ Like(y, r) /\ y \in Reports /\ y.status = r.status
             /\ y.checks = d.checks \cup {Check(s)} /\ y.artifacts = r.artifacts
  <2>1. Check(s) \in Tests
    BY DEF Check, Tests, Statuses
  <2>2. PICK cs : cs = d.checks \cup {Check(s)}
    OBVIOUS
  <2>3. cs \in SUBSET Tests
    BY <1>4, <1>5, <2>1, <2>2
  <2>4. y = [d EXCEPT !.checks = cs]
    BY <1>6, <2>2 DEF WithCheck
  <2>5. Like(y, d) /\ y.checks = cs /\ y.status = d.status /\ y.artifacts = d.artifacts
    BY <1>5, <2>3, <2>4, EditedChecks
  <2> QED  BY <1>5, <2>2, <2>5 DEF Like
<1>7. ASSUME w = Deferred(d)
      PROVE  Like(w, r) /\ w.status = r.status /\ w.checks = d.checks \cup {Check("not_run")}
  <2>1. w = WithCheck(d, "not_run")
    BY <1>7 DEF Deferred
  <2>2. d.checks \cup {Check("not_run")} = w.checks /\ Like(w, r) /\ w.status = r.status
    BY <1>6, <2>1
  <2> QED  BY <2>2
<1>8. ASSUME w = BrowserFailed(d)
      PROVE  Like(w, r) /\ w.status = "failed" /\ d.checks \subseteq w.checks
  <2>1. PICK y : y = WithCheck(d, "failed")
    OBVIOUS
  <2>2. Like(y, r) /\ y \in Reports /\ d.checks \subseteq y.checks
    BY <1>6, <2>1
  <2>3. w = [y EXCEPT !.status = "failed"]
    BY <1>8, <2>1 DEF BrowserFailed
  <2>4. "failed" \in Statuses
    BY DEF Statuses
  <2>5. Like(w, y) /\ w.status = "failed" /\ w.checks = y.checks
    BY <2>2, <2>3, <2>4, EditedStatus
  <2> QED  BY <2>2, <2>5 DEF Like
<1>9. ASSUME NEW more \in Brought, w = Confirmed(d, more)
      PROVE  Like(w, r) /\ w.status = r.status /\ d.checks \subseteq w.checks
  <2>1. PICK y : y = WithCheck(d, "passed")
    OBVIOUS
  <2>2. /\ Like(y, r) /\ y \in Reports /\ y.status = r.status /\ y.artifacts = r.artifacts
        /\ d.checks \subseteq y.checks
    BY <1>6, <2>1
  <2>3. more \in Seq(Paths)
    <3>1. \A f \in Files : [file |-> f, plain |-> TRUE] \in Paths
      BY DEF Paths
    <3>2. \A e \in Paths : <<e>> \in Seq(Paths)
      OBVIOUS
    <3>3. more = << >> \/ \E f \in Files : more = <<[file |-> f, plain |-> TRUE]>>
      BY DEF Brought
    <3>4. << >> \in Seq(Paths)
      OBVIOUS
    <3> QED  BY <3>1, <3>2, <3>3, <3>4
  <2>4. PICK a : a = y.artifacts \o more
    OBVIOUS
  <2>5. a \in Seq(Paths)
    BY <1>1, <2>2, <2>3, <2>4
  <2>6. w = [y EXCEPT !.artifacts = a]
    BY <1>9, <2>1, <2>4 DEF Confirmed
  <2>7. Like(w, y) /\ w.status = y.status /\ w.checks = y.checks
    BY <2>2, <2>5, <2>6, EditedArtifacts
  <2> QED  BY <2>2, <2>7 DEF Like
<1>10. w = Deferred(d) \/ w = BrowserFailed(d) \/ \E more \in Brought : w = Confirmed(d, more)
  BY <1>3 DEF Words
<1> QED  BY <1>3, <1>7, <1>8, <1>9, <1>10

LEMMA UndelegatedLasts ==
  ASSUME NEW r \in Reports
  PROVE  Durable(Undelegated(r)) <=> Durable(r)
<1>1. r.checks \in SUBSET Tests
  BY DEF Reports, ReportsWith, Tests
<1>2. PICK d, kept : d = Undelegated(r) /\ kept = {c \in r.checks : c.about = "other"}
  OBVIOUS
<1>3. kept \in SUBSET Tests /\ d = [r EXCEPT !.checks = kept]
  BY <1>1, <1>2 DEF Undelegated
<1>4. d.kept = r.kept /\ d.artifacts = r.artifacts /\ d.writes = r.writes /\ d.apps = r.apps
  BY <1>3, EditedChecks DEF Reports, ReportsWith
<1> QED  BY <1>2, <1>4 DEF Durable

\* Nabu's word, put behind the output, is what the output says now: it is last,
\* and what is in it was in the report that it was made of (replaceTaskResult).
LEMMA LastWord ==
  ASSUME NEW said \in Outputs, Found(said) # {},
         NEW w \in Words(Undelegated(ParseRunResult(said)))
  PROVE  Found(Append(said, w)) # {} /\ ParseRunResult(Append(said, w)) = w
<1> DEFINE r == ParseRunResult(said)
           p == LastFound(said)
           new == Append(said, w)
           n == Len(said) + 1
<1>1. said \in Seq(Reports)
  BY OutputsAreReports
<1>2. /\ p \in Found(said) /\ r = ObjectAt(said, p)
      /\ \A q \in Found(said) : ~Earlier(p, q)
  BY <1>1, LastIsFound DEF ParseRunResult
<1>3. /\ r \in Reports /\ Understood(r) /\ p \in Places(said) /\ p \in Nat \X Nat
      /\ p[1] \in DOMAIN said
      /\ p[2] # 0 => r.rows = << >>
  BY <1>1, <1>2, ObjectsAreReports DEF Found
<1>4. w \in Reports /\ w.rows = r.rows /\ Understood(w)
  BY <1>3, WordOfReport, LikeIsUnderstood DEF Like
<1>5. new \in Seq(Reports) /\ Len(new) = n /\ new[n] = w /\ \A k \in DOMAIN said : new[k] = said[k]
  BY <1>1, <1>4
<1> HIDE DEF r, p, new, n
<1>6. /\ n = Len(said) + 1 /\ DOMAIN said = 1..Len(said) /\ Len(said) \in Nat
      /\ DOMAIN new = 1..n /\ n \in Nat
  BY <1>1, <1>5 DEF n
\* The places of the old output, and those of the word.
<1>7. ASSUME NEW q \in Places(said)
      PROVE  /\ q \in Places(new) /\ ObjectAt(new, q) = ObjectAt(said, q)
             /\ Earlier(q, <<n, 0>>) /\ ~Earlier(<<n, 0>>, q)
  BY <1>1, <1>5, <1>6, ObjectsAreReports DEF Places, ObjectAt, Earlier
<1>8. ASSUME NEW q \in Places(new)
      PROVE  q \in Places(said) \/ (q \in Nat \X Nat /\ q[1] = n /\ q[2] <= Len(w.rows))
  BY <1>5, <1>6, ObjectsAreReports DEF Places
<1>9. <<n, 0>> \in Places(new) /\ ObjectAt(new, <<n, 0>>) = w
  <2>1. Len(w.rows) \in Nat
    BY <1>4, Outer
  <2> QED  BY <1>5, <1>6, <2>1 DEF Places, ObjectAt
\* An object in the word stands in the output already.
<1>10. ASSUME NEW q \in Places(new), q \notin Places(said), q[2] # 0
       PROVE  q \notin Found(new)
  <2>1. q \in Nat \X Nat /\ q[1] = n /\ q[2] \in 1..Len(r.rows)
    BY <1>4, <1>8, <1>10, <1>3, Outer
  <2>2. p[2] = 0 /\ r = said[p[1]]
    BY <1>2, <1>3, <2>1 DEF ObjectAt
  <2> DEFINE o == <<p[1], q[2]>>
  <2>3. o \in Places(said) /\ ObjectAt(said, o) = r.rows[q[2]]
    BY <1>1, <1>3, <2>1, <2>2, PlacesOf DEF ObjectAt
  <2>4. Earlier(o, q)
    BY <1>3, <1>6, <2>1 DEF Earlier
  <2>5. ObjectAt(new, q) = ObjectAt(new, o)
    BY <1>4, <1>5, <1>7, <1>10, <2>1, <2>3 DEF ObjectAt
  <2> QED  BY <1>7, <2>3, <2>4, <2>5 DEF Found, IsFirst
\* What was found is found still, and nothing else of the old output is.
<1>11. ASSUME NEW q \in Places(said)
       PROVE  q \in Found(new) <=> q \in Found(said)
  <2>1. ASSUME NEW o \in Places(new), Earlier(o, q)
        PROVE  o \in Places(said)
    BY <1>1, <1>6, <1>8, <2>1, ObjectsAreReports DEF Earlier
  <2> QED  BY <1>7, <2>1 DEF Found, IsFirst
<1>12. ASSUME NEW q \in Found(new)
       PROVE  q \in Found(said) \/ q = <<n, 0>>
  BY <1>8, <1>10, <1>11, <1>12 DEF Found
<1>13. CASE \A q \in Places(said) : ObjectAt(said, q) # w
  <2>1. ASSUME NEW o \in Places(new), Earlier(o, <<n, 0>>)
        PROVE  o \in Places(said)
    BY <1>6, <1>8, <2>1 DEF Earlier
  <2>2. <<n, 0>> \in Found(new)
    BY <1>4, <1>7, <1>9, <1>13, <2>1 DEF Found, IsFirst
  <2>3. LastFound(new) \in Found(new) /\ \A q \in Found(new) : ~Earlier(LastFound(new), q)
    BY <1>5, <2>2, LastIsFound
  <2>4. LastFound(new) = <<n, 0>>
    BY <1>7, <1>12, <2>2, <2>3 DEF Found
  <2> QED  BY <1>9, <2>2, <2>4 DEF ParseRunResult, new
<1>14. CASE w = r
  <2>1. <<n, 0>> \notin Found(new)
    BY <1>2, <1>3, <1>7, <1>9, <1>14 DEF Found, IsFirst
  <2>2. Found(new) = Found(said)
    BY <1>11, <1>12, <2>1 DEF Found
  <2>3. LastFound(new) = p
    BY <2>2 DEF LastFound, p
  <2> QED  BY <1>2, <1>3, <1>7, <1>14, <2>2, <2>3 DEF ParseRunResult, new
<1> QED  BY <1>13, <1>14, WordIsNew DEF r

------------------------------------------------------------------------------
(* TaskResults. The inductive invariant.                                     *)

\* What the run's output says, whether Nabu's word is behind it, and how it
\* came to it.
Spoken(r, w) ==
  \/ w = BrowserFailed(Undelegated(r))
  \/ /\ w = Deferred(Undelegated(r)) /\ Durable(Undelegated(r))
     /\ witness = "unattended" \/ (witness = "deferred" /\ plan.verifier = NoScript)
  \/ /\ witness = "passed" /\ plan.verifier # NoScript
     /\ \E more \in Brought : w = Confirmed(Undelegated(r), more)

Heard ==
  /\ printed \in Seq(Reports)
  /\ place \in {"codex", "verify"} => witness = "none"
  /\ place = "verify" => printed \in Outputs /\ Delegated(printed)
  /\ witness = "none" /\ (place = "judge" \/ verdict.status # "none") =>
       printed \in Outputs /\ ~Delegated(printed)
  /\ witness # "none" =>
       \E said \in Outputs : Delegated(said) /\ \E w : /\ Spoken(ParseRunResult(said), w)
                                                     /\ printed = Append(said, w)

\* What the verdict was passed on, and where the attempt is with it.
Judgement ==
  /\ verdict.status # "none" =>
       /\ Found(printed) # {} /\ verdict.report = ParseRunResult(printed)
       /\ verdict.status = Judged(verdict.report)
       /\ ToSet(verdict.report.artifacts) \subseteq ToSet(artifacts)
  /\ place \in {"codex", "verify", "judge"} => verdict.status = "none"
  /\ place \in {"apply", "settle", "mark", "promote"} => verdict.status # "none"
  /\ place \in {"apply", "promote"} => verdict.status = "completed"
  /\ place \in {"codex", "verify", "judge", "apply", "settle"} => row.status = "running"
  /\ row.status = "completed" => verdict.status = "completed"

Typed ==
  /\ ResultTypeOK
  /\ row = [status |-> row.status, items |-> row.items]
  /\ artifacts \in Seq(Paths)

ResultInv == Typed /\ Heard /\ Judgement /\ ReportsKept

LEMMA TypedInit == ResultInit => Typed
<1> SUFFICES ASSUME ResultInit
             PROVE  Typed
  OBVIOUS
<1>1. PICK d \in Definitions : row = [status |-> "ready", items |-> Items(d)]
  BY DEF ResultInit
<1>2. \A k \in DOMAIN d : d[k] \in Texts
  BY TextsAreKnown
<1>3. /\ \A k \in DOMAIN row.items :
            row.items[k] \in [text : Texts, completed : BOOLEAN, failed : BOOLEAN]
      /\ row.status = "ready" /\ row = [status |-> row.status, items |-> row.items]
  BY <1>1, <1>2 DEF Items, Unmarked
<1>4. artifacts = << >> /\ artifacts \in Seq(Paths) /\ DOMAIN artifacts = {}
  BY DEF ResultInit
<1>5. {attempts, edits, starts} = {0} /\ {MaxAttempts, MaxEdits, MaxStarts} \subseteq Nat
  BY TextsAreKnown DEF ResultInit
<1>6. DOMAIN plan = DOMAIN NoPlan /\ verdict.status = "none" /\ witness = "none" /\ place = "idle"
  BY DEF ResultInit, NoVerdict
<1>7. /\ readable = Files /\ deleted = {} /\ reports \in [Files -> Nat]
      /\ attached = FALSE /\ steady = TRUE
  BY DEF ResultInit
<1>8. /\ \A k \in DOMAIN artifacts : artifacts[k] \in [file : Files, plain : BOOLEAN]
      /\ {readable, deleted} \subseteq SUBSET Files /\ {attached, steady} \subseteq BOOLEAN
  BY <1>4, <1>7
<1>9. attempts \in 0..MaxAttempts /\ edits \in 0..MaxEdits /\ starts \in 0..MaxStarts
  BY <1>5
<1>10. ResultTypeOK
  BY <1>3, <1>6, <1>7, <1>8, <1>9 DEF ResultTypeOK
<1> QED  BY <1>3, <1>4, <1>10 DEF Typed

\* A report has a path at most twice: the counts of reports stay numbers.
LEMMA NewPaths ==
  ASSUME NEW paths \in Seq(Paths), NEW f \in Files
  PROVE  /\ IsFiniteSet({p \in {q \in Unreported(paths) : Readable(q)} : p.file = f})
         /\ Cardinality({p \in {q \in Unreported(paths) : Readable(q)} : p.file = f}) \in Nat
<1> DEFINE S == {p \in {q \in Unreported(paths) : Readable(q)} : p.file = f}
           Two == {[file |-> f, plain |-> TRUE]} \cup {[file |-> f, plain |-> FALSE]}
<1>1. IsFiniteSet(Two)
  BY FS_Singleton, FS_Union, Zenon
<1>2. ASSUME NEW p \in S
      PROVE  p \in Two
  <2>1. p \in Paths /\ p.file = f
    BY DEF Unreported, ToSet
  <2>2. p = [file |-> f, plain |-> p.plain] /\ p.plain \in BOOLEAN
    BY <2>1 DEF Paths
  <2> QED  BY <2>2
<1>3. IsFiniteSet(S)
  BY <1>1, <1>2, FS_Subset, Zenon
<1> QED  BY <1>3, FS_CardinalityType, Zenon

LEMMA PromoteTyped ==
  ASSUME Typed, NEW paths \in Seq(Paths), PromoteTaskReports(paths)
  PROVE  /\ reports' \in [Files -> Nat] /\ deleted' \subseteq Files /\ steady' = TRUE
<1> DEFINE New(f) == Cardinality({p \in {q \in Unreported(paths) : Readable(q)} : p.file = f})
<1>1. reports' = [f \in Files |-> reports[f] + New(f)] /\ deleted' \subseteq deleted /\ steady' = TRUE
  BY DEF PromoteTaskReports
<1>2. \A f \in Files : New(f) \in Nat
  BY NewPaths
<1>3. reports \in [Files -> Nat] /\ deleted \subseteq Files
  BY DEF Typed, ResultTypeOK
<1> HIDE DEF New
<1> QED  BY <1>1, <1>2, <1>3

\* The report of a verdict is a report.
LEMMA ReportOfVerdict ==
  ASSUME Heard, Judgement, verdict.status # "none"
  PROVE  /\ verdict.report \in Reports /\ Understood(verdict.report)
         /\ verdict.report.artifacts \in Seq(Paths)
<1>1. LastFound(printed) \in Found(printed) /\ verdict.report = ObjectAt(printed, LastFound(printed))
  BY LastIsFound DEF Heard, Judgement, ParseRunResult
<1> QED  BY <1>1, ObjectsAreReports, Outer DEF Heard, Found

LEMMA ReportFound ==
  ASSUME NEW said \in Seq(Reports), Found(said) # {}
  PROVE  /\ ParseRunResult(said) \in Reports /\ Understood(ParseRunResult(said))
         /\ ParseRunResult(said).artifacts \in Seq(Paths)
         /\ \E p \in Places(said) : ParseRunResult(said) = ObjectAt(said, p)
<1>1. LastFound(said) \in Found(said)
  BY LastIsFound
<1> QED  BY <1>1, ObjectsAreReports, Outer DEF ParseRunResult, Found

\* The status that a verdict may have.
LEMMA JudgedStatus ==
  ASSUME NEW r, Understood(r)
  PROVE  Judged(r) \in {"completed", "failed", "cancelled", "needs_approval"}
BY DEF Judged, Understood

LEMMA TypedNext ==
  ASSUME Typed, Heard, Judgement, [ResultNext]_resultVars
  PROVE  Typed'
<1> USE DEF Typed, ResultTypeOK, attemptVars, outputVars
<1>1. CASE Claim
  <2>1. DOMAIN plan' = DOMAIN NoPlan
    BY <1>1 DEF Claim, NoPlan
  <2>2. verdict'.status = "none"
    BY <1>1 DEF Claim, NoVerdict
  <2>3. row' = [status |-> "running", items |-> row.items]
    BY <1>1 DEF Claim
  <2>4. attempts' \in 0..MaxAttempts
    BY <1>1, TextsAreKnown DEF Claim
  <2> QED  BY <1>1, <2>1, <2>2, <2>3, <2>4 DEF Claim
<1>2. CASE Fail
  <2>1. row' = [status |-> "failed", items |-> row.items]
    BY <1>2 DEF Fail, Rejected
  <2> QED  BY <1>2, <2>1 DEF Fail, Rejected
<1>3. CASE Finish
  BY <1>3 DEF Finish
<1>4. CASE Verify
  BY <1>4 DEF Verify
<1>5. CASE Judge
  <2>1. CASE Found(printed) = {}
    <3>1. row' = [status |-> "failed", items |-> row.items]
      BY <1>5, <2>1 DEF Judge, Rejected
    <3> QED  BY <1>5, <2>1, <3>1 DEF Judge, Rejected
  <2>2. CASE Found(printed) # {}
    <3> DEFINE r == ParseRunResult(printed)
    <3>1. r.artifacts \in Seq(Paths) /\ Judged(r) \in {"completed", "failed", "cancelled", "needs_approval"}
      BY <2>2, ReportFound, JudgedStatus DEF Heard
    <3>2. /\ verdict' = [status |-> Judged(r), report |-> r] /\ artifacts' = artifacts \o r.artifacts
          /\ place' \in {"apply", "settle"}
      BY <1>5, <2>2 DEF Judge
    <3> HIDE DEF r
    <3>3. artifacts' \in Seq(Paths)
      BY <3>1, <3>2
    <3>4. \A k \in DOMAIN artifacts' : artifacts'[k] \in [file : Files, plain : BOOLEAN]
      <4>1. \A k \in DOMAIN artifacts' : artifacts'[k] \in Paths
        BY <3>3
      <4> QED  BY <4>1 DEF Paths
    <3>5. UNCHANGED <<row, plan, witness, attempts, edits, starts, readable, deleted, reports, attached, steady>>
      BY <1>5, <2>2 DEF Judge
    <3> QED  BY <3>1, <3>2, <3>3, <3>4, <3>5
  <2> QED  BY <2>1, <2>2
<1>6. CASE Apply
  <2>1. row' \in {row, [status |-> "failed", items |-> row.items]}
    BY <1>6 DEF Apply, Rejected
  <2> QED  BY <1>6, <2>1 DEF Apply, Rejected
<1>7. CASE Settle
  <2>1. row' = [status |-> verdict.status, items |-> row.items]
    BY <1>7 DEF Settle
  <2>2. verdict.status # "none"
    BY <1>7 DEF Settle, Judgement
  <2> QED  BY <1>7, <2>1, <2>2 DEF Settle
<1>8. CASE Mark
  <2>1. row' = [status |-> row.status, items |-> [k \in DOMAIN row.items |-> Marked(k, row.items[k])]]
    BY <1>8 DEF Mark
  <2>2. ASSUME NEW k, NEW item \in [text : Texts, completed : BOOLEAN, failed : BOOLEAN]
        PROVE  Marked(k, item) \in [text : Texts, completed : BOOLEAN, failed : BOOLEAN]
    BY DEF Marked
  <2> QED  BY <1>8, <2>1, <2>2 DEF Mark
<1>9. CASE Promote
  <2>1. verdict.report.artifacts \in Seq(Paths)
    BY <1>9, ReportOfVerdict DEF Promote, Judgement
  <2>2. reports' \in [Files -> Nat] /\ deleted' \subseteq Files /\ steady' = TRUE
    BY <1>9, <2>1, PromoteTyped DEF Promote
  <2> QED  BY <1>9, <2>2 DEF Promote
<1>10. CASE Requeue
  <2>1. row' = [status |-> "ready", items |-> row.items]
    BY <1>10 DEF Requeue
  <2> QED  BY <1>10, <2>1 DEF Requeue
<1>11. CASE EditDefinition
  <2>1. PICK d \in Definitions : row' = [status |-> row.status, items |-> Items(d)]
    BY <1>11 DEF EditDefinition
  <2>2. \A k \in DOMAIN d : d[k] \in Texts
    BY TextsAreKnown
  <2>3. \A k \in DOMAIN row'.items :
          row'.items[k] \in [text : Texts, completed : BOOLEAN, failed : BOOLEAN]
    BY <2>1, <2>2 DEF Items, Unmarked
  <2>4. edits' \in 0..MaxEdits
    BY <1>11, TextsAreKnown DEF EditDefinition
  <2> QED  BY <1>11, <2>1, <2>3, <2>4 DEF EditDefinition
<1>12. CASE DeleteReport
  <2>1. edits' \in 0..MaxEdits
    BY <1>12, TextsAreKnown DEF DeleteReport
  <2>2. reports' \in [Files -> Nat] /\ deleted' \subseteq Files
    BY <1>12 DEF DeleteReport
  <2> QED  BY <1>12, <2>1, <2>2 DEF DeleteReport
<1>13. CASE FilesChange
  <2>1. edits' \in 0..MaxEdits
    BY <1>13, TextsAreKnown DEF FilesChange
  <2>2. readable' \subseteq Files
    BY <1>13 DEF FilesChange
  <2> QED  BY <1>13, <2>1, <2>2 DEF FilesChange
<1>14. CASE Restart
  <2>1. starts' \in 0..MaxStarts
    BY <1>14, TextsAreKnown DEF Restart
  <2>2. row' \in {row, [status |-> "ready", items |-> row.items]}
    BY <1>14 DEF Restart
  <2>3. reports' \in [Files -> Nat] /\ deleted' \subseteq Files /\ steady' \in BOOLEAN
    BY <1>14, PromoteTyped DEF Restart
  <2> QED  BY <1>14, <2>1, <2>2, <2>3 DEF Restart
<1>15. CASE SetAutomation
  BY <1>15 DEF SetAutomation
<1>16. CASE UNCHANGED resultVars
  BY <1>16 DEF resultVars
<1> QED
  BY <1>1, <1>2, <1>3, <1>4, <1>5, <1>6, <1>7, <1>8, <1>9, <1>10, <1>11, <1>12, <1>13,
     <1>14, <1>15, <1>16 DEF ResultNext

LEMMA HeardInit == ResultInit => Heard /\ Judgement
BY DEF ResultInit, Heard, Judgement, NoVerdict

\* What was said stays said while the output, the plan and the word are kept.
LEMMA StillHeard ==
  ASSUME Heard, UNCHANGED <<printed, witness, plan>>,
         place' \in {"codex", "verify"} => place = place',
         place' = "judge" \/ verdict'.status # "none" => place = "judge" \/ verdict.status # "none"
  PROVE  Heard'
<1>1. /\ Delegated(printed)' <=> Delegated(printed)
      /\ \A said : Delegated(said)' <=> Delegated(said)
      /\ \A r, w : Spoken(r, w)' <=> Spoken(r, w)
  BY DEF Delegated, Spoken
<1> QED  BY <1>1 DEF Heard

LEMMA HeardNext ==
  ASSUME Typed, Heard, Judgement, [ResultNext]_resultVars
  PROVE  Heard'
<1> USE DEF attemptVars, outputVars
<1>1. CASE Claim
  BY <1>1 DEF Claim, Heard, NoVerdict
<1>2. CASE Fail
  BY <1>2, StillHeard DEF Fail, Rejected
<1>3. CASE Finish
  <2>1. PICK said \in Outputs : /\ printed' = said
                                /\ place' = IF Delegated(said) THEN "verify" ELSE "judge"
    BY <1>3 DEF Finish
  <2>2. said \in Seq(Reports) /\ witness' = "none" /\ plan' = plan
    BY <1>3, OutputsAreReports DEF Finish, Heard
  <2>3. Delegated(printed)' <=> Delegated(said)
    BY <2>1, <2>2 DEF Delegated
  <2>4. verdict'.status = "none"
    BY <1>3 DEF Finish, Judgement
  <2> QED  BY <2>1, <2>2, <2>3, <2>4 DEF Heard
<1>4. CASE Verify
  <2>1. /\ printed \in Outputs /\ Delegated(printed) /\ Found(printed) # {} /\ plan' = plan
        /\ place' = "judge"
    BY <1>4 DEF Verify, Heard, Delegated
  <2>2. PICK said, r, d : said = printed /\ r = ParseRunResult(said) /\ d = Undelegated(r)
    OBVIOUS
  <2>3. PICK w : w \in Words(d) /\ printed' = Append(said, w) /\ witness' # "none" /\ Spoken(r, w)'
    <3>1. ASSUME plan.verifier = NoScript \/ ~attached
          PROVE  /\ printed' = Append(said, IF Durable(d) THEN Deferred(d) ELSE BrowserFailed(d))
                 /\ witness' = IF attached THEN "deferred" ELSE "unattended"
      BY <1>4, <2>2, <3>1 DEF Verify, Replaced
    <3>2. CASE (plan.verifier = NoScript \/ ~attached) /\ Durable(d)
      <4>1. Deferred(d) \in Words(d) /\ Spoken(r, Deferred(d))'
        BY <2>1, <2>2, <3>1, <3>2 DEF Words, Spoken
      <4> QED  BY <3>1, <3>2, <4>1
    <3>3. ASSUME NEW x, x = BrowserFailed(d)
          PROVE  x \in Words(d) /\ Spoken(r, x)'
      BY <2>2, <3>3 DEF Words, Spoken
    <3>4. CASE (plan.verifier = NoScript \/ ~attached) /\ ~Durable(d)
      BY <3>1, <3>3, <3>4
    <3>5. CASE plan.verifier # NoScript /\ attached
      <4>1. CASE witness' = "failed" /\ printed' = Append(said, BrowserFailed(d))
        BY <3>3, <4>1
      <4>2. ASSUME NEW more \in Brought, witness' = "passed", printed' = Append(said, Confirmed(d, more))
            PROVE  Confirmed(d, more) \in Words(d) /\ Spoken(r, Confirmed(d, more))'
        BY <2>1, <2>2, <3>5, <4>2 DEF Words, Spoken
      <4>3. \/ witness' = "failed" /\ printed' = Append(said, BrowserFailed(d))
            \/ witness' = "passed" /\ \E more \in Brought : printed' = Append(said, Confirmed(d, more))
        BY <1>4, <2>2, <3>5 DEF Verify, Replaced
      <4> QED  BY <4>1, <4>2, <4>3
    <3> QED  BY <3>2, <3>4, <3>5
  <2>4. r \in Reports /\ w \in Reports
    BY <2>1, <2>2, <2>3, OutputsAreReports, ReportFound, WordOfReport DEF Like
  <2>5. printed' \in Seq(Reports)
    BY <2>2, <2>3, <2>4 DEF Heard
  <2>6. Delegated(said)'
    BY <2>1, <2>2 DEF Delegated
  <2>7. verdict'.status = "none" \/ witness' # "none"
    BY <2>3
  <2> QED  BY <2>1, <2>2, <2>3, <2>5, <2>6 DEF Heard
<1>5. CASE Judge
  BY <1>5, StillHeard DEF Judge, Rejected
<1>6. CASE Apply
  BY <1>6, StillHeard DEF Apply, Rejected
<1>7. CASE Settle
  BY <1>7, StillHeard DEF Settle
<1>8. CASE Mark
  BY <1>8, StillHeard DEF Mark
<1>9. CASE Promote
  BY <1>9, StillHeard DEF Promote
<1>10. CASE Requeue
  BY <1>10, StillHeard DEF Requeue
<1>11. CASE EditDefinition
  BY <1>11, StillHeard DEF EditDefinition
<1>12. CASE DeleteReport
  BY <1>12, StillHeard DEF DeleteReport
<1>13. CASE FilesChange
  BY <1>13, StillHeard DEF FilesChange
<1>14. CASE Restart
  BY <1>14, StillHeard DEF Restart
<1>15. CASE SetAutomation
  BY <1>15, StillHeard DEF SetAutomation
<1>16. CASE UNCHANGED resultVars
  BY <1>16, StillHeard DEF resultVars
<1> QED
  BY <1>1, <1>2, <1>3, <1>4, <1>5, <1>6, <1>7, <1>8, <1>9, <1>10, <1>11, <1>12, <1>13,
     <1>14, <1>15, <1>16 DEF ResultNext

LEMMA JudgementNext ==
  ASSUME Typed, Heard, Judgement, [ResultNext]_resultVars
  PROVE  Judgement'
<1> USE DEF attemptVars, outputVars
<1>1. plan' = plan => \A r : Judged(r)' = Judged(r)
  BY DEF Judged
<1>2. CASE Claim
  BY <1>2 DEF Claim, Judgement, NoVerdict, Typed
<1>3. CASE Fail
  BY <1>1, <1>3 DEF Fail, Rejected, Judgement, Typed
<1>4. CASE Finish
  BY <1>4 DEF Finish, Judgement
<1>5. CASE Verify
  BY <1>5 DEF Verify, Judgement
<1>6. CASE Judge
  <2>1. CASE Found(printed) = {}
    BY <1>1, <1>6, <2>1 DEF Judge, Rejected, Judgement, Typed
  <2>2. CASE Found(printed) # {}
    <3>1. PICK r, s : r = ParseRunResult(printed) /\ s = Judged(r)
      OBVIOUS
    <3>2. /\ verdict' = [status |-> s, report |-> r] /\ artifacts' = artifacts \o r.artifacts
          /\ place' = IF s = "completed" THEN "apply" ELSE "settle"
          /\ UNCHANGED <<row, plan, printed>>
      BY <1>6, <2>2, <3>1 DEF Judge
    <3>3. r.artifacts \in Seq(Paths) /\ s \in {"completed", "failed", "cancelled", "needs_approval"}
      BY <2>2, <3>1, ReportFound, JudgedStatus DEF Heard
    <3>4. ToSet(r.artifacts) \subseteq ToSet(artifacts')
      <4>1. artifacts \in Seq(Paths)
        BY DEF Typed
      <4>2. \A k \in DOMAIN r.artifacts :
              /\ Len(artifacts) + k \in DOMAIN artifacts'
              /\ artifacts'[Len(artifacts) + k] = r.artifacts[k]
        BY <3>2, <3>3, <4>1
      <4> QED  BY <4>2 DEF ToSet
    <3>5. row.status = "running"
      BY <1>6 DEF Judge, Judgement
    <3>6. Judged(r)' = s /\ Found(printed') # {} /\ r = ParseRunResult(printed')
      BY <1>1, <2>2, <3>1, <3>2
    <3>7. verdict'.status = s /\ verdict'.report = r /\ place' \in {"apply", "settle"}
      BY <3>2
    <3>8. place' = "apply" => s = "completed"
      BY <3>2
    <3> QED  BY <3>2, <3>3, <3>4, <3>5, <3>6, <3>7, <3>8 DEF Judgement
  <2> QED  BY <2>1, <2>2
<1>7. CASE Apply
  BY <1>1, <1>7 DEF Apply, Rejected, Judgement, Typed
<1>8. CASE Settle
  BY <1>1, <1>8 DEF Settle, Judgement, Typed
<1>9. CASE Mark
  BY <1>1, <1>9 DEF Mark, Judgement, Typed
<1>10. CASE Promote
  BY <1>1, <1>10 DEF Promote, Judgement
<1>11. CASE Requeue
  BY <1>1, <1>11 DEF Requeue, Judgement, Typed
<1>12. CASE EditDefinition
  BY <1>1, <1>12 DEF EditDefinition, Judgement, Typed
<1>13. CASE DeleteReport
  BY <1>1, <1>13 DEF DeleteReport, Judgement
<1>14. CASE FilesChange
  BY <1>1, <1>14 DEF FilesChange, Judgement
<1>15. CASE Restart
  BY <1>1, <1>15 DEF Restart, Judgement, Typed
<1>16. CASE SetAutomation
  BY <1>1, <1>16 DEF SetAutomation, Judgement
<1>17. CASE UNCHANGED resultVars
  BY <1>1, <1>17 DEF resultVars, Judgement
<1> QED
  BY <1>2, <1>3, <1>4, <1>5, <1>6, <1>7, <1>8, <1>9, <1>10, <1>11, <1>12, <1>13,
     <1>14, <1>15, <1>16, <1>17 DEF ResultNext

LEMMA Invariant == ResultSpec => [](Typed /\ Heard /\ Judgement)
<1>1. ResultInit => Typed /\ Heard /\ Judgement
  BY TypedInit, HeardInit
<1>2. Typed /\ Heard /\ Judgement /\ [ResultNext]_resultVars => (Typed /\ Heard /\ Judgement)'
  BY TypedNext, HeardNext, JudgementNext
<1> QED  BY <1>1, <1>2, PTL DEF ResultSpec

------------------------------------------------------------------------------
(* TaskResults. The theorems.                                                *)

LEMMA EarnedFromInvariant == Typed /\ Heard /\ Judgement => VerdictIsEarned
<1> SUFFICES ASSUME Typed, Heard, Judgement, row.status = "completed"
             PROVE  VerdictIsEarned
  BY DEF VerdictIsEarned, Typed
<1>1. PICK v : v = verdict.report
  OBVIOUS
<1>2. /\ verdict.status = "completed" /\ Found(printed) # {} /\ v = ParseRunResult(printed)
      /\ Judged(v) = "completed"
  BY <1>1 DEF Judgement
<1>3. /\ v \in Reports /\ Understood(v) /\ \E p \in Places(printed) : v = ObjectAt(printed, p)
  BY <1>2, ReportFound DEF Heard
<1>4. /\ v.status = "completed" /\ ~v.asks /\ VerificationPassed(v.checks)
      /\ plan.rows => IncludesRows(v)
  BY <1>2, <1>3 DEF Judged, Understood
<1>5. CASE witness = "none"
  <2>1. Own = printed /\ printed \in Outputs /\ ~Delegated(printed)
    BY <1>2, <1>5 DEF Own, Heard
  <2>2. plan.browser => plan.mcp /\ BrowserPassed(v)
    BY <1>2, <1>4, <2>1 DEF Delegated
  <2>3. Good(v.checks) /\ Passes(v.checks)
    BY <1>4 DEF VerificationPassed, Good, Passes
  <2>4. Earned(v)
    BY <1>3, <1>4, <1>5, <2>2, <2>3 DEF Earned
  <2> QED  BY <1>3, <2>1, <2>4 DEF VerdictIsEarned, Typed
<1>6. CASE witness # "none"
  <2>0. PICK said \in Outputs : \E w : /\ Delegated(said) /\ Spoken(ParseRunResult(said), w)
                                       /\ printed = Append(said, w)
    BY <1>6 DEF Heard
  <2>1. PICK w : Delegated(said) /\ Spoken(ParseRunResult(said), w) /\ printed = Append(said, w)
    BY <2>0
  <2>2. PICK r, d : r = ParseRunResult(said) /\ d = Undelegated(r)
    OBVIOUS
  <2>3. /\ r \in Reports /\ Understood(r) /\ r.status = "completed" /\ Found(said) # {}
        /\ \E p \in Places(said) : r = ObjectAt(said, p)
    BY <2>1, <2>2, OutputsAreReports, ReportFound DEF Delegated
  <2>4. w \in Words(d)
    BY <2>1, <2>2 DEF Spoken, Words
  <2>5. v = w
    BY <1>2, <2>1, <2>2, <2>3, <2>4, LastWord
  <2>6. /\ ~r.asks
        /\ plan.rows => IncludesRows(r)
    BY <1>4, <2>2, <2>3, <2>4, <2>5, WordOfReport, LikeIsUnderstood DEF Like
  <2>7. Own = said
    <3>1. said \in Seq(Reports) /\ w \in Reports
      BY <1>3, <2>5, OutputsAreReports
    <3>2. SubSeq(Append(said, w), 1, Len(Append(said, w)) - 1) = said
      BY <3>1
    <3> QED  BY <1>6, <2>1, <3>2 DEF Own, Front
  <2>8. w # BrowserFailed(d)
    BY <1>4, <2>2, <2>3, <2>4, <2>5, WordOfReport
  <2>9. d.checks \subseteq w.checks
    BY <2>2, <2>3, <2>4, WordOfReport
  <2>10. Good(d.checks)
    BY <1>4, <2>5, <2>9 DEF VerificationPassed, Good
  <2>11. CASE /\ w = Deferred(d) /\ Durable(d)
              /\ witness = "unattended" \/ (witness = "deferred" /\ plan.verifier = NoScript)
    <3>1. w.checks = d.checks \cup {Check("not_run")}
      BY <2>2, <2>3, <2>4, <2>11, WordOfReport
    <3>2. Passes(d.checks)
      BY <1>4, <2>5, <3>1 DEF VerificationPassed, Passes, Check
    <3>3. Durable(r)
      BY <2>2, <2>3, <2>11, UndelegatedLasts
    <3>4. Earned(r)
      BY <2>2, <2>3, <2>6, <2>10, <2>11, <3>2, <3>3 DEF Earned
    <3> QED  BY <2>3, <2>7, <3>4 DEF VerdictIsEarned, Typed
  <2>12. CASE witness = "passed" /\ plan.verifier # NoScript
    <3>1. Earned(r)
      BY <2>2, <2>3, <2>6, <2>10, <2>12 DEF Earned
    <3> QED  BY <2>3, <2>7, <3>1 DEF VerdictIsEarned, Typed
  <2> QED  BY <2>1, <2>2, <2>8, <2>11, <2>12 DEF Spoken
<1> QED  BY <1>5, <1>6

\* A completed task was reported, checked and verified in this very attempt.
THEOREM VerdictsAreEarned == ResultSpec => []VerdictIsEarned
BY Invariant, EarnedFromInvariant, PTL

\* What is promoted: each file that is there gets a report, and one only if its
\* path is always its own.
LEMMA Promotion ==
  ASSUME Typed, NEW paths \in Seq(Paths), PromoteTaskReports(paths)
  PROVE  /\ \A p \in ToSet(paths) : p.file \in readable => reports'[p.file] > 0
         /\ \A f \in Files :
              reports[f] <= 1 /\ (\A p \in ToSet(paths) : p.file = f => p.plain) => reports'[f] <= 1
<1> DEFINE Anew(f) == {p \in {q \in Unreported(paths) : Readable(q)} : p.file = f}
<1>1. \A f \in Files : reports'[f] = reports[f] + Cardinality(Anew(f))
  BY DEF PromoteTaskReports
<1>2. \A f \in Files : /\ IsFiniteSet(Anew(f)) /\ Cardinality(Anew(f)) \in Nat
                      /\ reports[f] \in Nat
  BY NewPaths DEF Typed, ResultTypeOK
<1>3. \A p \in ToSet(paths) : p \in Paths
  BY DEF ToSet
<1> HIDE DEF Anew
<1>4. ASSUME NEW p \in ToSet(paths), p.file \in readable
      PROVE  reports'[p.file] > 0
  <2>1. p.file \in Files
    BY <1>3 DEF Paths
  <2>2. CASE reports[p.file] > 0
    BY <1>1, <1>2, <2>1, <2>2
  <2>3. CASE ~(reports[p.file] > 0)
    <3>1. p \in Anew(p.file)
      BY <1>4, <2>3 DEF Unreported, Readable, Anew
    <3>2. Cardinality(Anew(p.file)) # 0
      BY <1>2, <2>1, <3>1, FS_EmptySet
    <3> QED  BY <1>1, <1>2, <2>1, <3>2
  <2> QED  BY <2>2, <2>3
<1>5. ASSUME NEW f \in Files, reports[f] <= 1, \A p \in ToSet(paths) : p.file = f => p.plain
      PROVE  reports'[f] <= 1
  <2> DEFINE own == [file |-> f, plain |-> TRUE]
  <2>1. ASSUME NEW p \in Anew(f)
        PROVE  p = own /\ reports[f] = 0
    <3>1. p \in ToSet(paths) /\ p.file = f /\ ~(p.plain /\ reports[p.file] > 0)
      BY DEF Anew, Unreported
    <3>2. p \in Paths /\ p.plain /\ ~(reports[f] > 0)
      BY <1>3, <1>5, <3>1
    <3>3. p = [file |-> p.file, plain |-> p.plain] /\ p.plain \in BOOLEAN
      BY <3>2 DEF Paths
    <3>4. p.plain = TRUE
      BY <3>2, <3>3
    <3> QED  BY <1>2, <3>1, <3>2, <3>3, <3>4
  <2>2. CASE Anew(f) = {}
    BY <1>1, <1>2, <1>5, <2>2, FS_EmptySet
  <2>3. CASE Anew(f) # {}
    <3>1. Anew(f) = {own} /\ reports[f] = 0
      BY <2>1, <2>3
    <3>2. Cardinality(Anew(f)) = 1
      BY <3>1, FS_Singleton
    <3>3. reports'[f] = 0 + 1
      BY <1>1, <3>1, <3>2
    <3> QED  BY <3>3
  <2> QED  BY <2>2, <2>3
<1> QED  BY <1>4, <1>5

LEMMA KeptNext ==
  ASSUME Typed, Heard, Judgement, ReportsKept, [ResultNext]_resultVars
  PROVE  ReportsKept'
<1> USE DEF attemptVars, outputVars
<1> DEFINE Row == row.status
<1>1. CASE Claim
  BY <1>1 DEF Claim, ReportsKept
<1>2. CASE Fail
  BY <1>2 DEF Fail, Rejected, ReportsKept, Typed
<1>3. CASE Finish
  BY <1>3 DEF Finish, ReportsKept
<1>4. CASE Verify
  BY <1>4 DEF Verify, ReportsKept
<1>5. CASE Judge
  <2>1. CASE Found(printed) = {}
    BY <1>5, <2>1 DEF Judge, Rejected, ReportsKept, Typed
  <2>2. CASE Found(printed) # {}
    <3>1. PICK r : r = ParseRunResult(printed)
      OBVIOUS
    <3>2. /\ artifacts' = artifacts \o r.artifacts /\ r.artifacts \in Seq(Paths)
          /\ place' # "idle" /\ reports' = reports
      BY <1>5, <2>2, <3>1, ReportFound DEF Judge, Heard
    <3>3. artifacts \in Seq(Paths)
      BY DEF Typed
    <3>4. ToSet(artifacts) \subseteq ToSet(artifacts')
      <4>1. \A k \in DOMAIN artifacts : k \in DOMAIN artifacts' /\ artifacts'[k] = artifacts[k]
        BY <3>2, <3>3
      <4> QED  BY <4>1 DEF ToSet
    <3> QED  BY <3>2, <3>4 DEF ReportsKept
  <2> QED  BY <2>1, <2>2
<1>6. CASE Apply
  BY <1>6 DEF Apply, Rejected, ReportsKept, Typed
<1>7. CASE Settle
  BY <1>7 DEF Settle, ReportsKept
<1>8. CASE Mark
  <2>1. row'.status = row.status /\ UNCHANGED <<verdict, artifacts, readable, reports, steady, deleted>>
    BY <1>8 DEF Mark, Typed
  <2>2. place' = "idle" => row.status # "completed"
    BY <1>8 DEF Mark, Judgement
  <2> QED  BY <2>1, <2>2 DEF ReportsKept
<1>9. CASE Promote
  <2> DEFINE paths == verdict.report.artifacts
  <2>1. paths \in Seq(Paths) /\ ToSet(paths) \subseteq ToSet(artifacts)
    BY <1>9, ReportOfVerdict DEF Promote, Judgement
  <2>2. PromoteTaskReports(paths) /\ UNCHANGED <<row, verdict, artifacts, readable>>
    BY <1>9 DEF Promote
  <2>3. deleted' \subseteq deleted
    BY <2>2 DEF PromoteTaskReports
  <2> HIDE DEF paths
  <2>4. /\ \A p \in ToSet(paths) : p.file \in readable => reports'[p.file] > 0
        /\ \A f \in Files :
              reports[f] <= 1 /\ (\A p \in ToSet(paths) : p.file = f => p.plain) => reports'[f] <= 1
    BY <2>1, <2>2, Promotion
  <2> QED  BY <2>1, <2>2, <2>3, <2>4 DEF ReportsKept, paths
<1>10. CASE Requeue
  BY <1>10 DEF Requeue, ReportsKept, Typed
<1>11. CASE EditDefinition
  BY <1>11 DEF EditDefinition, ReportsKept, Typed
<1>12. CASE DeleteReport
  <2>1. PICK f \in Files : /\ reports[f] > 0 /\ reports' = [reports EXCEPT ![f] = @ - 1]
                           /\ deleted' = deleted \cup {f}
    BY <1>12 DEF DeleteReport
  <2>2. reports \in [Files -> Nat]
    BY DEF Typed, ResultTypeOK
  <2>3. \A g \in Files : reports'[g] <= reports[g] /\ (g # f => reports'[g] = reports[g])
    BY <2>1, <2>2
  <2>4. \A g \in Files : reports[g] <= 1 => reports'[g] <= 1
    BY <2>1, <2>2
  <2>5. UNCHANGED <<row, place, verdict, artifacts, readable, steady>>
    BY <1>12 DEF DeleteReport
  <2>6. readable \subseteq Files
    BY DEF Typed, ResultTypeOK
  <2>7. \A g \in readable \ deleted' : g \in readable \ deleted /\ reports'[g] = reports[g]
    BY <2>1, <2>3, <2>6
  <2> QED  BY <2>4, <2>5, <2>7 DEF ReportsKept
<1>13. CASE FilesChange
  BY <1>13 DEF FilesChange, ReportsKept
<1>14. CASE Restart
  <2>1. CASE row.status = "completed"
    <3>1. PromoteTaskReports(artifacts) /\ UNCHANGED <<row, verdict, artifacts, readable>>
      BY <1>14, <2>1 DEF Restart
    <3>2. artifacts \in Seq(Paths) /\ ToSet(verdict.report.artifacts) \subseteq ToSet(artifacts)
      BY <2>1 DEF Typed, Judgement
    <3>3. deleted' \subseteq deleted
      BY <3>1 DEF PromoteTaskReports
    <3>4. /\ \A p \in ToSet(artifacts) : p.file \in readable => reports'[p.file] > 0
          /\ \A f \in Files :
              reports[f] <= 1 /\ (\A p \in ToSet(artifacts) : p.file = f => p.plain) => reports'[f] <= 1
      BY <3>1, <3>2, Promotion
    <3> QED  BY <3>1, <3>2, <3>3, <3>4 DEF ReportsKept
  <2>2. CASE row.status # "completed"
    BY <1>14, <2>2 DEF Restart, ReportsKept, Typed
  <2> QED  BY <2>1, <2>2
<1>15. CASE SetAutomation
  BY <1>15 DEF SetAutomation, ReportsKept
<1>16. CASE UNCHANGED resultVars
  BY <1>16 DEF resultVars, ReportsKept
<1> QED
  BY <1>1, <1>2, <1>3, <1>4, <1>5, <1>6, <1>7, <1>8, <1>9, <1>10, <1>11, <1>12, <1>13,
     <1>14, <1>15, <1>16 DEF ResultNext

\* A completed task has its reports, each once, however its run was cut short.
THEOREM CompletedTasksHaveTheirReports == ResultSpec => []ReportsKept
<1>1. ResultInit => ReportsKept
  BY DEF ResultInit, ReportsKept
<1>2. Typed /\ Heard /\ Judgement /\ ReportsKept /\ [ResultNext]_resultVars => ReportsKept'
  BY KeptNext
<1> QED  BY <1>1, <1>2, Invariant, PTL DEF ResultSpec

\* The outcome of an item is one that is told of it, if any is.
LEMMA OutcomeIsTold ==
  ASSUME Heard, Judgement, verdict.status # "none", NEW k, NEW item
  PROVE  /\ Outcome(k, item) \in Told(k, item) \cup {"none"}
         /\ "none" \notin Told(k, item)
         /\ Outcome(k, item) = "none" => Told(k, item) = {}
<1>1. PICK outcomes : outcomes = verdict.report.outcomes
  OBVIOUS
<1>2. outcomes \in Seq([text : STRING, status : Statuses])
  BY <1>1, ReportOfVerdict, Fields DEF Reports
<1> DEFINE named == {j \in DOMAIN outcomes : outcomes[j].text = item.text}
           last == CHOOSE j \in named : \A i \in named : i <= j
           told == {outcomes[j].status : j \in {i \in DOMAIN outcomes : i = k \/ outcomes[i].text = item.text}}
<1>3. told = Told(k, item) /\ "none" \notin told
  <2>1. \A j \in DOMAIN outcomes : outcomes[j].status \in Statuses
    <3>1. PICK T : T = [text : STRING, status : Statuses]
      OBVIOUS
    <3>2. outcomes \in Seq(T)
      BY <1>2, <3>1
    <3>3. \A j \in DOMAIN outcomes : outcomes[j] \in T
      BY <3>2
    <3> QED  BY <3>1, <3>3
  <2> QED  BY <1>1, <2>1 DEF Told, Statuses
<1>4. Outcome(k, item) = IF named # {} THEN outcomes[last].status
                         ELSE IF k \in DOMAIN outcomes THEN outcomes[k].status ELSE "none"
  BY <1>1 DEF Outcome
<1>5. named # {} => last \in named
  <2> SUFFICES ASSUME named # {}
               PROVE  \E j \in named : \A i \in named : i <= j
    OBVIOUS
  <2> DEFINE S == {Len(outcomes) - j : j \in named}
  <2>1. S \subseteq Nat /\ S # {} /\ named \subseteq Nat /\ Len(outcomes) \in Nat
    BY <1>2
  <2>2. PICK n \in S : \A m \in S : n <= m
    BY <2>1, LeastNumber
  <2>3. PICK j \in named : n = Len(outcomes) - j
    BY <2>2
  <2>4. ASSUME NEW i \in named
        PROVE  i <= j
    <3>1. Len(outcomes) - i \in S
      OBVIOUS
    <3>2. Len(outcomes) - j <= Len(outcomes) - i /\ i \in Nat /\ j \in Nat
      BY <2>1, <2>2, <2>3, <3>1
    <3> QED  BY <2>1, <3>2
  <2> QED  BY <2>4
<1> HIDE DEF last
<1>6. named # {} => outcomes[last].status \in told
  BY <1>5
<1>7. k \in DOMAIN outcomes => outcomes[k].status \in told
  OBVIOUS
<1>8. named = {} /\ k \notin DOMAIN outcomes => told = {}
  OBVIOUS
<1> QED  BY <1>3, <1>4, <1>6, <1>7, <1>8

LEMMA MarkAgrees ==
  ASSUME Heard, Judgement, verdict.status # "none",
         NEW k, NEW item \in [text : Texts, completed : BOOLEAN, failed : BOOLEAN]
  PROVE  ItemAgrees(k, item, Marked(k, item))
<1>1. PICK outcome, told : outcome = Outcome(k, item) /\ told = Told(k, item)
  OBVIOUS
<1>2. /\ outcome \in told \cup {"none"} /\ "none" \notin told
      /\ outcome = "none" => told = {}
  BY <1>1, OutcomeIsTold
<1> DEFINE done ==
             \/ verdict.status = "completed" \/ outcome = "passed"
             \/ item.completed /\ outcome # "failed"
           failed == ~done /\ (outcome = "failed" \/ verdict.status = "failed")
           new == Marked(k, item)
<1>3. new = [item EXCEPT !.completed = done, !.failed = failed]
  BY <1>1 DEF Marked
<1>4. new.completed = done /\ new.failed = failed
  BY <1>3
<1> HIDE DEF new
<1>5. ItemAgrees(k, item, new)
  <2>1. ~(new.completed /\ new.failed)
    BY <1>4
  <2>2. /\ verdict.status = "completed" => new.completed
        /\ verdict.status = "failed" => new.completed \/ new.failed
    BY <1>4
  <2>3. new.failed => verdict.status = "failed" \/ "failed" \in told
    BY <1>2, <1>4
  <2>4. new.completed =>
          \/ verdict.status = "completed" \/ "passed" \in told
          \/ item.completed /\ told # {"failed"}
    <3>1. outcome = "passed" => "passed" \in told
      BY <1>2
    <3>2. outcome # "failed" => told # {"failed"}
      BY <1>2
    <3>3. new.completed => done
      BY <1>4
    <3> QED  BY <3>1, <3>2, <3>3
  <2> QED  BY <1>1, <2>1, <2>2, <2>3, <2>4 DEF ItemAgrees
<1> QED  BY <1>5 DEF new

\* What a verdict leaves of the definition agrees with it and with the report.
THEOREM MarksAgreeWithTheReport == ResultSpec => MarksAgree
<1>1. ASSUME Typed, Heard, Judgement, [ResultNext]_resultVars,
             place = "mark", place' # "mark", starts' = starts
      PROVE  \A k \in DOMAIN row.items : ItemAgrees(k, row.items[k], row'.items[k])
  <2>1. starts \in Nat /\ verdict.status # "none"
    BY <1>1, TextsAreKnown DEF Typed, ResultTypeOK, Judgement
  <2>2. Mark
    BY <1>1, <2>1 DEF ResultNext, resultVars, attemptVars, Claim, Fail, Finish, Verify, Judge, Apply,
       Settle, Promote, Requeue, EditDefinition, DeleteReport, FilesChange, Restart, SetAutomation
  <2>3. row'.items = [k \in DOMAIN row.items |-> Marked(k, row.items[k])]
    BY <1>1, <2>2 DEF Mark, Typed
  <2>4. \A k \in DOMAIN row.items :
          row.items[k] \in [text : Texts, completed : BOOLEAN, failed : BOOLEAN]
    BY <1>1 DEF Typed, ResultTypeOK
  <2> QED  BY <1>1, <2>1, <2>3, <2>4, MarkAgrees
<1> QED  BY <1>1, Invariant, PTL DEF ResultSpec, MarksAgree

\* The values that the variables may have.
THEOREM ResultTypes == ResultSpec => []ResultTypeOK
BY Invariant, PTL DEF Typed
===============================================================================
