------------------------- MODULE MachineRolloutProofs -------------------------
(***************************************************************************)
(* Safety of rolling updates for any number of instances, replicas, edits  *)
(* and faults and for every strategy.  First one selection, in every order *)
(* the code may put the machines in: it respects maxUnavailable, takes     *)
(* outdated machines first and the others by the delete policy, and takes  *)
(* some when there are too many.  Then the update: the surge bounds the    *)
(* instances that run, a machine is released after its instance only, and  *)
(* instances of another image go before those of the wanted one.           *)
(***************************************************************************)
EXTENDS MachineRollout, DeploymentSelection, FiniteSetTheorems, TLAPS

-----------------------------------------------------------------------------
(* Counts *)

LEMMA ScaledType ==
    ASSUME NEW v \in IntOrPercents, NEW total \in Nat, NEW up \in BOOLEAN
    PROVE  GetScaledValue(v, total, up) \in Nat
<1>1. v.value \in Nat
  BY DEF IntOrPercents
<1>2. v.value * total \in Nat
  BY <1>1
<1>3. \A n \in Nat : n \div 100 \in Nat
  OBVIOUS
<1>4. (v.value * total + 99) \in Nat
  BY <1>2
<1> QED BY <1>1, <1>2, <1>3, <1>4 DEF GetScaledValue

LEMMA SurgeType ==
    ASSUME NEW s \in Strategies, NEW r \in Nat
    PROVE  Surge(s, r) \in Nat
<1>1. s.maxSurge \in IntOrPercents \cup {Nil}
  BY DEF Strategies
<1> QED BY <1>1, ScaledType DEF Surge

LEMMA UnavailableType ==
    ASSUME NEW s \in Strategies, NEW d \in Nat
    PROVE  MaxUnavailable(s, d) \in Nat
<1>1. s.maxUnavailable \in IntOrPercents \cup {Nil}
  BY DEF Strategies
<1> QED BY <1>1, ScaledType DEF MaxUnavailable

-----------------------------------------------------------------------------
(* The size of a selection *)

\* Removing T takes at most as many elements from A as T has.
LEMMA Remaining ==
    ASSUME NEW A, NEW T, IsFiniteSet(A), IsFiniteSet(T)
    PROVE  Cardinality(A \ T) >= Cardinality(A) - Cardinality(T)
<1>1. /\ IsFiniteSet(A \ T)
      /\ Cardinality(A \ T) = Cardinality(A) - Cardinality(A \cap T)
  BY FS_Difference
<1>2. Cardinality(A \cap T) <= Cardinality(T)
  BY FS_Subset
<1>3. Cardinality(A) \in Nat /\ Cardinality(T) \in Nat /\ Cardinality(A \cap T) \in Nat
  BY FS_CardinalityType, FS_Intersection
<1> QED BY <1>1, <1>2, <1>3

\* A choice of the first k machines of S.
LEMMA FirstOfSize ==
    ASSUME NEW ms, NEW policy, NEW S, IsFiniteSet(S), NEW k \in Nat,
           NEW T \in FirstOf(ms, policy, S, k)
    PROVE  T \subseteq S /\ IsFiniteSet(T) /\ Cardinality(T) \in Nat /\ Cardinality(T) <= k
<1>1. T \subseteq S /\ Cardinality(T) = IF k < Cardinality(S) THEN k ELSE Cardinality(S)
  BY DEF FirstOf
<1>2. IsFiniteSet(T)
  BY <1>1, FS_Subset
<1>3. Cardinality(S) \in Nat /\ Cardinality(T) \in Nat
  BY <1>2, FS_CardinalityType
<1> QED BY <1>1, <1>2, <1>3

\* The machines an over-provisioned pool loses are at most the surplus.
LEMMA OverProvisionedSize ==
    ASSUME NEW ms, NEW policy, NEW over \in Nat, IsFiniteSet(DOMAIN ms),
           NEW T \in OverProvisioned(ms, policy, over)
    PROVE  IsFiniteSet(T) /\ Cardinality(T) <= over
<1>1. /\ IsFiniteSet(MachinesWithoutLatestModel(ms)) /\ IsFiniteSet(ReadyMachines(ms))
  BY FS_Subset DEF MachinesWithoutLatestModel, ReadyMachines
<1>2. PICK O \in FirstOf(ms, policy, MachinesWithoutLatestModel(ms), over) :
        T \in {O \cup U : U \in FirstOf(ms, policy, ReadyMachines(ms),
                                        over - Cardinality(O))}
  BY DEF OverProvisioned
<1>3. IsFiniteSet(O) /\ Cardinality(O) \in Nat /\ Cardinality(O) <= over
  BY <1>1, FirstOfSize
<1>4. PICK U \in FirstOf(ms, policy, ReadyMachines(ms), over - Cardinality(O)) :
        T = O \cup U
  BY <1>2
<1>5. over - Cardinality(O) \in Nat
  BY <1>3
<1>6. IsFiniteSet(U) /\ Cardinality(U) \in Nat /\ Cardinality(U) <= over - Cardinality(O)
  BY <1>1, <1>5, FirstOfSize
<1>7. /\ IsFiniteSet(O \cup U)
      /\ Cardinality(O \cup U) = Cardinality(O) + Cardinality(U) - Cardinality(O \cap U)
  BY <1>3, <1>6, FS_Union
<1>8. Cardinality(O \cap U) \in Nat
  BY <1>3, FS_Intersection, FS_CardinalityType
<1> QED BY <1>3, <1>4, <1>6, <1>7, <1>8

\* Whatever SelectMachinesToDelete returns leaves the required ready machines.
LEMMA SelectionBounded ==
    ASSUME NEW ms, NEW s \in Strategies, NEW d \in Nat, IsFiniteSet(DOMAIN ms),
           NEW T \in SelectMachinesToDelete(ms, s, d)
    PROVE  \/ Cardinality(ReadyMachines(ms) \ T) >= d - MaxUnavailable(s, d)
           \/ T \cap ReadyMachines(ms) = {}
<1> DEFINE R == ReadyMachines(ms)
           O == MachinesWithoutLatestModel(ms)
           X == FailedMachines(ms) \cup DeletingMachines(ms)
           u == MaxUnavailable(s, d)
           budget == DisruptionBudget(ms, d, u)
<1>1. u \in Nat
  BY UnavailableType
<1>2. IsFiniteSet(R) /\ Cardinality(R) \in Nat
  BY FS_Subset, FS_CardinalityType DEF ReadyMachines
<1>3. CASE X # {}
  <2>1. T = X
    BY <1>3 DEF SelectMachinesToDelete
  <2> QED BY <2>1 DEF ReadyMachines, FailedMachines, DeletingMachines
<1>4. CASE X = {} /\ Cardinality(R) < d
  BY <1>4 DEF SelectMachinesToDelete
<1>5. CASE X = {} /\ Cardinality(R) > d
  <2>1. T \in OverProvisioned(ms, s.deletePolicy, Cardinality(R) - d)
    BY <1>2, <1>5 DEF SelectMachinesToDelete
  <2>2. Cardinality(R) - d \in Nat
    BY <1>2, <1>5
  <2>3. IsFiniteSet(T) /\ Cardinality(T) <= Cardinality(R) - d
    BY <2>1, <2>2, OverProvisionedSize
  <2>4. Cardinality(R \ T) >= Cardinality(R) - Cardinality(T)
    BY <1>2, <2>3, Remaining
  <2>5. Cardinality(T) \in Nat /\ Cardinality(R \ T) \in Nat
    BY <1>2, <2>3, FS_CardinalityType, FS_Difference
  <2> HIDE DEF R, u
  <2>6. Cardinality(R \ T) >= d - u
    BY <1>1, <1>2, <2>3, <2>4, <2>5
  <2> QED BY <2>6 DEF R, u
<1>6. CASE X = {} /\ Cardinality(R) = d /\ (O = {} \/ budget <= 0)
  BY <1>6 DEF SelectMachinesToDelete
<1>7. CASE X = {} /\ Cardinality(R) = d /\ O # {} /\ budget > 0
  <2>1. T \in FirstOf(ms, s.deletePolicy, R \cap O, budget)
    BY <1>1, <1>2, <1>7 DEF SelectMachinesToDelete, DisruptionBudget
  <2>2. budget \in Nat /\ (u <= d => budget = u)
    BY <1>1, <1>2, <1>7 DEF DisruptionBudget
  <2>3. IsFiniteSet(R \cap O)
    BY <1>2, FS_Intersection
  <2>4. IsFiniteSet(T) /\ Cardinality(T) \in Nat /\ Cardinality(T) <= budget
    BY <2>1, <2>2, <2>3, FirstOfSize
  <2>5. Cardinality(R \ T) >= Cardinality(R) - Cardinality(T)
    BY <1>2, <2>4, Remaining
  <2>6. Cardinality(R \ T) \in Nat
    BY <1>2, FS_CardinalityType, FS_Difference
  <2> HIDE DEF R, u, budget
  <2>7. Cardinality(R \ T) >= d - u
    BY <1>1, <1>7, <2>2, <2>4, <2>5, <2>6
  <2> QED BY <2>7 DEF R, u
<1> HIDE DEF R, O, X, budget, u
<1>8. Cardinality(R) < d \/ Cardinality(R) = d \/ Cardinality(R) > d
  BY <1>2
<1>9. budget <= 0 \/ budget > 0
  BY <1>1, <1>2 DEF budget, DisruptionBudget, R
<1> QED BY <1>3, <1>4, <1>5, <1>6, <1>7, <1>8, <1>9

\* Only machines that were passed in are selected.
LEMMA SelectionSubset ==
    ASSUME NEW ms, NEW s, NEW d, NEW T \in SelectMachinesToDelete(ms, s, d)
    PROVE  T \subseteq DOMAIN ms
<1> USE DEF FailedMachines, DeletingMachines, ReadyMachines, MachinesWithoutLatestModel
<1>1. ASSUME NEW policy, NEW S, S \subseteq DOMAIN ms, NEW k,
             NEW U \in FirstOf(ms, policy, S, k)
      PROVE  U \subseteq DOMAIN ms
  BY <1>1 DEF FirstOf
<1>2. ASSUME NEW policy, NEW over, NEW U \in OverProvisioned(ms, policy, over)
      PROVE  U \subseteq DOMAIN ms
  <2>1. PICK O \in FirstOf(ms, policy, MachinesWithoutLatestModel(ms), over) :
          U \in {O \cup V : V \in FirstOf(ms, policy, ReadyMachines(ms),
                                          over - Cardinality(O))}
    BY <1>2 DEF OverProvisioned
  <2>2. PICK V \in FirstOf(ms, policy, ReadyMachines(ms), over - Cardinality(O)) :
          U = O \cup V
    BY <2>1
  <2>3. O \subseteq DOMAIN ms
    BY <1>1
  <2>4. V \subseteq DOMAIN ms
    BY <1>1
  <2> QED BY <2>2, <2>3, <2>4
<1> QED BY <1>1, <1>2 DEF SelectMachinesToDelete

-----------------------------------------------------------------------------
(* The order of a selection *)

\* The first machines of S: some of them when k allows it, all of them when k
\* suffices, and no machine that is left comes before one that is taken.
LEMMA FirstOfChoice ==
    ASSUME NEW ms, NEW policy, NEW S, IsFiniteSet(S), NEW k \in Nat,
           NEW T \in FirstOf(ms, policy, S, k)
    PROVE  /\ k > 0 /\ S # {} => T # {}
           /\ Cardinality(T) < k => T = S
           /\ k = 0 => T = {}
           /\ \A m \in S \ T, n \in T : ~Before(ms, policy, m, n)
<1>1. /\ T \subseteq S /\ Cardinality(T) = IF k < Cardinality(S) THEN k ELSE Cardinality(S)
      /\ \A m \in S \ T, n \in T : ~Before(ms, policy, m, n)
  BY DEF FirstOf
<1>2. IsFiniteSet(T) /\ Cardinality(T) \in Nat /\ Cardinality(S) \in Nat
  BY <1>1, FS_Subset, FS_CardinalityType
<1>3. (Cardinality(S) = 0 <=> S = {}) /\ (Cardinality(T) = 0 <=> T = {})
  BY <1>2, FS_EmptySet
<1>4. Cardinality(T) = Cardinality(S) => T = S
  BY <1>1, FS_Subset
<1>5. k > 0 /\ S # {} => T # {}
  BY <1>1, <1>2, <1>3
<1>6. Cardinality(T) < k => T = S
  BY <1>1, <1>2, <1>4
<1>7. k = 0 => T = {}
  BY <1>1, <1>2, <1>3
<1> QED BY <1>1, <1>5, <1>6, <1>7

\* The answers for an over-provisioned pool, taken apart: the outdated machines
\* O and the ready ones U that fill up.
Parts(ms, policy, over, T, O, U) ==
    /\ O \subseteq MachinesWithoutLatestModel(ms) /\ U \subseteq ReadyMachines(ms)
    /\ T = O \cup U
    /\ U # {} => O = MachinesWithoutLatestModel(ms)
    /\ over > 0 /\ ReadyMachines(ms) # {} => T # {}
    /\ \A m \in MachinesWithoutLatestModel(ms) \ O, n \in O : ~Before(ms, policy, m, n)
    /\ \A m \in ReadyMachines(ms) \ U, n \in U : ~Before(ms, policy, m, n)

LEMMA OverProvisionedParts ==
    ASSUME NEW ms, NEW policy, NEW over \in Nat, IsFiniteSet(DOMAIN ms),
           NEW T \in OverProvisioned(ms, policy, over)
    PROVE  \E O, U : Parts(ms, policy, over, T, O, U)
<1> DEFINE A == MachinesWithoutLatestModel(ms)
           R == ReadyMachines(ms)
<1>1. IsFiniteSet(A) /\ IsFiniteSet(R)
  BY FS_Subset DEF MachinesWithoutLatestModel, ReadyMachines
<1>2. PICK O \in FirstOf(ms, policy, A, over) :
        T \in {O \cup U : U \in FirstOf(ms, policy, R, over - Cardinality(O))}
  BY DEF OverProvisioned
<1>3. PICK U \in FirstOf(ms, policy, R, over - Cardinality(O)) : T = O \cup U
  BY <1>2
<1> HIDE DEF A, R
<1>4. O \subseteq A /\ IsFiniteSet(O) /\ Cardinality(O) \in Nat /\ Cardinality(O) <= over
  BY <1>1, FirstOfSize
<1>5. over - Cardinality(O) \in Nat
  BY <1>4
<1>6. U \subseteq R
  BY <1>1, <1>5, FirstOfSize
<1>7. /\ Cardinality(O) < over => O = A
      /\ over > 0 /\ A # {} => O # {}
      /\ \A m \in A \ O, n \in O : ~Before(ms, policy, m, n)
  BY <1>1, FirstOfChoice
<1>8. /\ over - Cardinality(O) = 0 => U = {}
      /\ over - Cardinality(O) > 0 /\ R # {} => U # {}
      /\ \A m \in R \ U, n \in U : ~Before(ms, policy, m, n)
  BY <1>1, <1>5, FirstOfChoice
<1>9. U # {} => O = A
  BY <1>4, <1>7, <1>8
<1>10. ASSUME over > 0, R # {} PROVE T # {}
  <2>1. CASE O # {}
    BY <1>3, <2>1
  <2>2. CASE O = {}
    <3>1. over - Cardinality(O) > 0
      BY <1>10, <2>2, FS_EmptySet
    <3> QED BY <1>3, <1>8, <1>10, <3>1
  <2> QED BY <2>1, <2>2
<1> QED BY <1>3, <1>4, <1>6, <1>7, <1>8, <1>9, <1>10 DEF A, R, Parts

\* What the delete policy says of a machine that stays and one that goes.
LEMMA NotBefore ==
    ASSUME NEW ms, NEW policy, NEW m, NEW n, ms[m].created \in Nat, ms[n].created \in Nat,
           ~Before(ms, policy, m, n)
    PROVE  CASE policy = "Oldest" -> ms[m].created >= ms[n].created
             [] policy = "Newest" -> ms[m].created <= ms[n].created
             [] OTHER -> TRUE
  BY DEF Before

\* Every answer keeps the order: a machine of the latest model that has not failed
\* is in it with all outdated ones only, and the policy decides among the ready.
LEMMA SelectionInOrder ==
    ASSUME NEW ms, NEW s \in Strategies, NEW d \in Nat, IsFiniteSet(DOMAIN ms),
           NEW T \in SelectMachinesToDelete(ms, s, d)
    PROVE  /\ \A m \in T \ (FailedMachines(ms) \cup DeletingMachines(ms)) :
                  ms[m].latestModelApplied => MachinesWithoutLatestModel(ms) \subseteq T
           /\ \A m \in ReadyMachines(ms) \ T, n \in ReadyMachines(ms) \cap T :
                  ms[m].latestModelApplied = ms[n].latestModelApplied
                      => ~Before(ms, s.deletePolicy, m, n)
           /\ Cardinality(ReadyMachines(ms)) > d \/ FailedMachines(ms) # {} => T # {}
<1> DEFINE A == MachinesWithoutLatestModel(ms)
           R == ReadyMachines(ms)
           removed == FailedMachines(ms) \cup DeletingMachines(ms)
           budget == DisruptionBudget(ms, d, MaxUnavailable(s, d))
           policy == s.deletePolicy
<1>1. IsFiniteSet(R) /\ IsFiniteSet(R \cap A) /\ R \subseteq DOMAIN ms
  BY FS_Subset DEF ReadyMachines
<1>2. Cardinality(R) \in Nat
  BY <1>1, FS_CardinalityType
<1>3. \A m \in R : m \in A <=> ~ms[m].latestModelApplied
  BY DEF ReadyMachines, MachinesWithoutLatestModel
<1>4. CASE removed # {}
  <2>1. T = removed
    BY <1>4 DEF SelectMachinesToDelete
  <2>2. T \cap R = {}
    BY <2>1 DEF FailedMachines, DeletingMachines, ReadyMachines
  <2> QED BY <1>4, <2>1, <2>2
<1>5. CASE removed = {} /\ Cardinality(R) > d
  <2> DEFINE over == Cardinality(R) - d
  <2>1. T \in OverProvisioned(ms, policy, over)
    BY <1>2, <1>5 DEF SelectMachinesToDelete
  <2>2. over \in Nat /\ over > 0
    BY <1>2, <1>5
  <2> HIDE DEF over
  <2>p. PICK O, U : Parts(ms, policy, over, T, O, U)
    BY <2>1, <2>2, OverProvisionedParts
  <2>3. /\ O \subseteq A /\ U \subseteq R /\ T = O \cup U
        /\ U # {} => O = A
        /\ over > 0 /\ R # {} => T # {}
        /\ \A m \in A \ O, n \in O : ~Before(ms, policy, m, n)
        /\ \A m \in R \ U, n \in U : ~Before(ms, policy, m, n)
    BY <2>p DEF Parts
  <2>4. R # {}
    BY <1>5, FS_EmptySet
  <2> HIDE DEF A, R, policy, removed
  <2>5. \A m \in T : ms[m].latestModelApplied => A \subseteq T
    BY <2>3 DEF A, MachinesWithoutLatestModel
  <2>6. ASSUME NEW m \in R \ T, NEW n \in R \cap T, 
               ms[m].latestModelApplied = ms[n].latestModelApplied
        PROVE  ~Before(ms, policy, m, n)
    BY <1>3, <2>3, <2>6
  <2> QED BY <2>2, <2>3, <2>4, <2>5, <2>6 DEF A, R, policy
<1>6. CASE removed = {} /\ ~(Cardinality(R) > d)
  <2>1. CASE T = {}
    BY <1>6, <2>1
  <2>2. CASE T # {}
    <3>1. A # {} /\ ~(budget <= 0) /\ T \in FirstOf(ms, policy, R \cap A, budget)
      BY <1>2, <1>6, <2>2 DEF SelectMachinesToDelete
    <3>2. T \subseteq R \cap A /\ \A m \in (R \cap A) \ T, n \in T : ~Before(ms, policy, m, n)
      BY <3>1 DEF FirstOf
    <3> QED BY <1>3, <1>6, <3>2
  <2> QED BY <2>1, <2>2
<1> QED BY <1>2, <1>4, <1>5, <1>6

-----------------------------------------------------------------------------
(* One call of SelectMachinesToDelete *)

\* The type of the call's inputs and the bound on its answer, together.
SelectionInv == SelectionTypeOK /\ DisruptionBounded

\* No call of SelectMachinesToDelete takes the ready machines of a pool below
\* desired - maxUnavailable.
THEOREM DisruptionIsBounded == SelectionSpec => []DisruptionBounded
<1>1. SelectionInit => SelectionInv
  <2> SUFFICES ASSUME SelectionInit PROVE SelectionInv
    OBVIOUS
  <2>1. PICK S \in SUBSET Machines : machines \in [S -> InputStatuses]
    BY DEF SelectionInit
  <2>2. SelectionTypeOK
    BY <2>1 DEF SelectionInit, SelectionTypeOK
  <2>3. DisruptionBounded
    BY DEF SelectionInit, DisruptionBounded
  <2> QED BY <2>2, <2>3 DEF SelectionInv
<1>2. SelectionInv /\ [Select]_selectionVars => SelectionInv'
  <2> SUFFICES ASSUME SelectionInv, [Select]_selectionVars PROVE SelectionInv'
    OBVIOUS
  <2>1. IsFiniteSet(DOMAIN machines)
    BY MachinesAssumption, FS_Subset DEF SelectionInv, SelectionTypeOK
  <2>2. strategy \in Strategies /\ desired \in Nat
    BY InputStrategiesAssumption, MaxDesiredAssumption DEF SelectionInv, SelectionTypeOK
  <2>3. CASE Select
    <3>1. PICK T \in SelectMachinesToDelete(machines, strategy, desired) : selected' = T
      BY <2>3 DEF Select
    <3>2. DisruptionBounded'
      <4>1. \/ Cardinality(ReadyMachines(machines) \ T)
                    >= desired - MaxUnavailable(strategy, desired)
            \/ T \cap ReadyMachines(machines) = {}
        BY <2>1, <2>2, <3>1, SelectionBounded
      <4> QED BY <2>3, <3>1, <4>1 DEF Select, DisruptionBounded, Ready
    <3>3. T \subseteq DOMAIN machines
      BY <3>1, SelectionSubset
    <3>4. SelectionTypeOK'
      BY <2>3, <3>1, <3>3 DEF SelectionInv, SelectionTypeOK, Select
    <3> QED BY <3>2, <3>4 DEF SelectionInv
  <2>4. CASE UNCHANGED selectionVars
    BY <2>4 DEF selectionVars, SelectionInv, SelectionTypeOK, DisruptionBounded, Ready
  <2> QED BY <2>3, <2>4
<1>3. SelectionInv => DisruptionBounded
  BY DEF SelectionInv
<1> QED BY <1>1, <1>2, <1>3, PTL DEF SelectionSpec

-----------------------------------------------------------------------------
(* The order of a selection, and its progress *)

\* What is shown of a call before and after it has returned.
OrderInv == SelectionOrdered /\ SelectionProgresses

LEMMA SelectKeepsOrder ==
    ASSUME SelectionTypeOK, Select, SelectionTypeOK'
    PROVE  OrderInv'
<1>1. PICK T \in SelectMachinesToDelete(machines, strategy, desired) : selected' = T
  BY DEF Select
<1>2. machines' = machines /\ strategy' = strategy /\ desired' = desired
  BY DEF Select
<1>3. IsFiniteSet(DOMAIN machines)
  BY MachinesAssumption, FS_Subset DEF SelectionTypeOK
<1>4. strategy \in Strategies /\ desired \in Nat /\ \A m \in DOMAIN machines : machines[m] \in Statuses
  BY InputStrategiesAssumption, InputStatusesAssumption, MaxDesiredAssumption DEF SelectionTypeOK
<1>5. /\ \A m \in T \ (FailedMachines(machines) \cup DeletingMachines(machines)) :
             machines[m].latestModelApplied => Outdated \subseteq T
      /\ \A m \in Ready \ T, n \in Ready \cap T :
             machines[m].latestModelApplied = machines[n].latestModelApplied
                 => ~Before(machines, strategy.deletePolicy, m, n)
      /\ Cardinality(Ready) > desired \/ FailedMachines(machines) # {} => T # {}
  BY <1>1, <1>3, <1>4, SelectionInOrder DEF Ready, Outdated
<1>6. Ready' = Ready /\ Outdated' = Outdated
  BY <1>2 DEF Ready, Outdated
<1>7. OutdatedFirst'
  <2>1. \A m \in Ready : m \notin FailedMachines(machines) \cup DeletingMachines(machines)
    BY DEF Ready, ReadyMachines, FailedMachines, DeletingMachines
  <2> QED BY <1>1, <1>2, <1>5, <1>6, <2>1 DEF OutdatedFirst
<1>8. SelectionProgresses'
  BY <1>1, <1>2, <1>5, <1>6 DEF SelectionProgresses
<1>9. PolicyRespected'
  <2>1. \A m \in Ready : machines[m].created \in Nat
    BY <1>4 DEF Ready, ReadyMachines, Statuses
  <2>2. ASSUME NEW m \in Ready \ T, NEW n \in Ready \cap T,
               machines[m].latestModelApplied = machines[n].latestModelApplied
        PROVE  CASE strategy.deletePolicy = "Oldest" -> machines[m].created >= machines[n].created
                 [] strategy.deletePolicy = "Newest" -> machines[m].created <= machines[n].created
                 [] OTHER -> TRUE
    <3>1. ~Before(machines, strategy.deletePolicy, m, n)
      BY <1>5, <2>2
    <3>2. machines[m].created \in Nat /\ machines[n].created \in Nat
      BY <2>1
    <3> QED BY <3>1, <3>2, NotBefore
  <2> QED BY <1>1, <1>2, <1>6, <2>2 DEF PolicyRespected
<1> QED BY <1>7, <1>8, <1>9 DEF OrderInv, SelectionOrdered

LEMMA OrderInductive == SelectionSpec => []OrderInv
<1>1. SelectionInit => OrderInv
  <2> SUFFICES ASSUME SelectionInit PROVE OrderInv
    OBVIOUS
  <2>1. PICK S \in SUBSET Machines : machines \in [S -> InputStatuses]
    BY DEF SelectionInit
  <2>2. SelectionTypeOK
    BY <2>1 DEF SelectionInit, SelectionTypeOK
  <2> QED BY <2>2 DEF SelectionInit, OrderInv, SelectionOrdered, OutdatedFirst, PolicyRespected,
                      SelectionProgresses
<1>2. OrderInv /\ [Select]_selectionVars => OrderInv'
  <2> SUFFICES ASSUME OrderInv, [Select]_selectionVars PROVE OrderInv'
    OBVIOUS
  <2>1. CASE Select
    <3>1. selected' \subseteq DOMAIN machines
      BY <2>1, SelectionSubset DEF Select
    <3>2. SelectionTypeOK /\ SelectionTypeOK'
      BY <2>1, <3>1 DEF OrderInv, SelectionOrdered, SelectionTypeOK, Select
    <3> QED BY <2>1, <3>2, SelectKeepsOrder
  <2>2. CASE UNCHANGED selectionVars
    BY <2>2 DEF selectionVars, OrderInv, SelectionOrdered, SelectionTypeOK, OutdatedFirst, PolicyRespected,
                SelectionProgresses, Ready, Outdated
  <2> QED BY <2>1, <2>2
<1> QED BY <1>1, <1>2, PTL DEF SelectionSpec

\* A selection keeps the order in which SelectMachinesToDelete goes through the
\* machines: outdated ones before current ones, and the delete policy within
\* each, however the slices were built, shuffled or sorted.
THEOREM SelectionKeepsOrder == SelectionSpec => []SelectionOrdered
<1>1. OrderInv => SelectionOrdered
  BY DEF OrderInv
<1> QED BY <1>1, OrderInductive, PTL

\* An over-provisioned pool, or one with a failed machine, always loses a
\* machine: the next reconciliation never returns the empty selection.
THEOREM SelectionMakesProgress == SelectionSpec => []SelectionProgresses
<1>1. OrderInv => SelectionProgresses
  BY DEF OrderInv
<1> QED BY <1>1, OrderInductive, PTL

-----------------------------------------------------------------------------
(* The inductive invariant *)

\* No patch asks for more than the surge above some replica count, whatever is
\* left of the patches before it.
Within(n) == \E r \in Replicas : n <= r + Surge(spec.strategy, r)

IndInv == TypeOK /\ Within(vmss.capacity) /\ SurgeBounded

-----------------------------------------------------------------------------
(* Counts *)

\* The capacity a patch asks for.
LEMMA WantedCapacityBounded ==
    ASSUME TypeOK
    PROVE  WantedCapacity \in Nat /\ Within(WantedCapacity)
<1>1. spec.strategy \in Strategies /\ spec.replicas \in Replicas /\ spec.replicas \in Nat
  BY StrategyAssumption, ReplicasAssumption DEF TypeOK, Specs
<1>2. Surge(spec.strategy, spec.replicas) \in Nat
  BY <1>1, SurgeType
<1>3. WantedCapacity \in {spec.replicas, spec.replicas + Surge(spec.strategy, spec.replicas)}
  BY DEF WantedCapacity
<1> QED BY <1>1, <1>2, <1>3 DEF Within

\* The instances that count are finitely many.
LEMMA CountedFinite ==
    /\ IsFiniteSet(Counted) /\ Cardinality(Counted) \in Nat
    /\ \A S : S \subseteq Counted => IsFiniteSet(S) /\ Cardinality(S) <= Cardinality(Counted)
                                       /\ Cardinality(S) \in Nat
<1>1. Counted \subseteq Machines
  BY DEF Counted
<1>2. IsFiniteSet(Counted)
  BY <1>1, MachinesAssumption, FS_Subset
<1> QED BY <1>2, FS_Subset, FS_CardinalityType

\* Fewer instances keep the bound.
LEMMA FewerCounted ==
    ASSUME IndInv, Counted' \subseteq Counted, spec'.strategy = spec.strategy
    PROVE  SurgeBounded'
<1>1. PICK r \in Replicas : Cardinality(Counted) <= r + Surge(spec.strategy, r)
  BY DEF IndInv, SurgeBounded
<1>2. Cardinality(Counted') <= Cardinality(Counted) /\ Cardinality(Counted') \in Nat
  BY CountedFinite
<1>3. r \in Nat /\ Surge(spec.strategy, r) \in Nat /\ Cardinality(Counted) \in Nat
  BY CountedFinite, SurgeType, ReplicasAssumption, StrategyAssumption DEF IndInv, TypeOK, Specs
<1>4. Cardinality(Counted') <= r + Surge(spec'.strategy, r)
  BY <1>1, <1>2, <1>3
<1> QED BY <1>4 DEF SurgeBounded

-----------------------------------------------------------------------------
(* Types *)

LEMMA NoMachineType == NoMachine \in AMPMs
  BY DEF NoMachine, AMPMs, InstanceStates

LEMMA TypeInit == Init => TypeOK
<1> SUFFICES ASSUME Init PROVE TypeOK
  OBVIOUS
<1>1. spec \in Specs /\ spec.replicas \in Nat /\ spec.model \in Models
  BY ReplicasAssumption DEF Init, Specs
<1>2. \A m \in Machines : m \in Nat
  BY InstanceAssumption
<1>3. ampm \in [Machines -> AMPMs]
  BY <1>2, NoMachineType DEF Init, AMPMs, InstanceStates
<1>4. inst \in [Machines -> [state : InstanceStates, model : Models]]
  BY <1>1 DEF Init, InstanceStates
<1>5. node \in [Machines -> Nodes]
  BY DEF Init, Nodes
<1> QED BY <1>1, <1>3, <1>4, <1>5, BoundsAssumption DEF Init, TypeOK

\* The status a machine controller writes.
LEMMA UpdateStatusType ==
    ASSUME TypeOK, NEW m \in Machines, NEW st \in InstanceStates, st # "none"
    PROVE  /\ UpdateStatus(m, st) \in AMPMs
           /\ [UpdateStatus(m, st) EXCEPT !.lro = TRUE] \in AMPMs
           /\ Deleted(UpdateStatus(m, st)) \in AMPMs
           /\ UpdateStatus(m, st).phase = ampm[m].phase
           /\ [UpdateStatus(m, st) EXCEPT !.lro = TRUE].phase = ampm[m].phase
<1>1. ampm[m] \in AMPMs
  BY DEF TypeOK
<1> DEFINE r == node[m] = "Ready"
           l == inst[m].model = spec.model
<1>2. UpdateStatus(m, st) = [ampm[m] EXCEPT !.ready = r, !.latestModelApplied = l, !.state = st]
  BY DEF UpdateStatus
<1>3. r \in BOOLEAN /\ l \in BOOLEAN
  OBVIOUS
<1> HIDE DEF r, l
<1>4. UpdateStatus(m, st) \in AMPMs /\ UpdateStatus(m, st).phase = ampm[m].phase
  BY <1>1, <1>2, <1>3 DEF AMPMs
<1> QED BY <1>4 DEF AMPMs, Deleted

LEMMA TypeStep == TypeOK /\ [Next]_vars => TypeOK'
<1> SUFFICES ASSUME TypeOK, [Next]_vars PROVE TypeOK'
  OBVIOUS
<1> USE BoundsAssumption
<1>1. CASE ScaleOut
  BY <1>1 DEF ScaleOut, Unused, TypeOK, InstanceStates
<1>2. CASE OperationDone
  BY <1>2 DEF OperationDone, azure, TypeOK
<1>3. ASSUME NEW m \in Machines, ScaleIn(m) PROVE TypeOK'
  BY <1>3 DEF ScaleIn, TypeOK, InstanceStates, Nodes
<1>4. ASSUME NEW m \in Machines, InstanceStarts(m) PROVE TypeOK'
  BY <1>4 DEF InstanceStarts, Fault, TypeOK, InstanceStates
<1>5. ASSUME NEW m \in Machines, InstanceDeleted(m) PROVE TypeOK'
  BY <1>5 DEF InstanceDeleted, TypeOK, InstanceStates, Nodes
<1>6. ASSUME NEW m \in Machines, NodeJoins(m) PROVE TypeOK'
  BY <1>6 DEF NodeJoins, azure, TypeOK, Nodes
<1>7. ASSUME NEW m \in Machines, NodeFails(m) PROVE TypeOK'
  BY <1>7 DEF NodeFails, Fault, azure, TypeOK, Nodes
<1>8. ASSUME NEW m \in Machines, MachineReconcile(m) PROVE TypeOK'
  <2>1. inst[m].state \in InstanceStates
    BY DEF TypeOK
  <2>2. ampm' \in [Machines -> AMPMs]
    BY <1>8, <2>1, UpdateStatusType DEF MachineReconcile, TypeOK, InstanceStates
  <2> QED BY <1>8, <2>2 DEF MachineReconcile, azure, TypeOK
<1>9. ASSUME NEW m \in Machines, MachineDelete(m) PROVE TypeOK'
  <2>1. CASE inst[m].state = "none"
    <3>1. ampm' \in [Machines -> AMPMs]
      BY <1>9, <2>1, NoMachineType DEF MachineDelete, TypeOK
    <3> QED BY <1>9, <2>1, <3>1 DEF MachineDelete, azure, TypeOK
  <2>2. CASE inst[m].state # "none"
    <3>1. ampm' \in [Machines -> AMPMs]
      BY <1>9, <2>2, UpdateStatusType DEF MachineDelete, TypeOK, InstanceStates
    <3>2. inst' \in [Machines -> [state : InstanceStates, model : Models]]
      BY <1>9, <2>2 DEF MachineDelete, TypeOK, InstanceStates
    <3>3. vmss' \in [model : Models, capacity : Nat]
      BY <1>9, <2>2 DEF MachineDelete, TypeOK
    <3>4. faults' \in 0..MaxFaults
      BY <1>9, <2>2 DEF MachineDelete, Fault, TypeOK
    <3> QED BY <1>9, <3>1, <3>2, <3>3, <3>4 DEF MachineDelete, TypeOK
  <2> QED BY <2>1, <2>2
<1>10. ASSUME NEW m \in Machines, MachineDeletePoll(m) PROVE TypeOK'
  <2>1. inst[m].state \in InstanceStates
    BY DEF TypeOK
  <2>2. ampm' \in [Machines -> AMPMs]
    BY <1>10, <2>1, NoMachineType, UpdateStatusType DEF MachineDeletePoll, TypeOK
  <2> QED BY <1>10, <2>2 DEF MachineDeletePoll, azure, TypeOK
<1>11. CASE PoolReconcile
  <2>1. WantedCapacity \in Nat
    BY WantedCapacityBounded
  <2>2. spec.model \in Models /\ spec.replicas \in Replicas
    BY DEF TypeOK, Specs
  <2>3. Instances \subseteq Machines
    BY DEF Instances
  <2>4. [model |-> spec.model, capacity |-> WantedCapacity] \in [model : Models, capacity : Nat]
    BY <2>1, <2>2
  <2> QED BY <1>11, <2>2, <2>3, <2>4 DEF PoolReconcile, TypeOK
<1>12. CASE PoolApply
  <2>1. \A m \in Machines : Created(m) \in AMPMs /\ Deleted(ampm[m]) \in AMPMs
    BY InstanceAssumption, NoMachineType DEF Created, Deleted, TypeOK, AMPMs
  <2>2. ampm' \in [Machines -> AMPMs]
    BY <1>12, <2>1 DEF PoolApply, TypeOK
  <2> QED BY <1>12, <2>2 DEF PoolApply, azure, TypeOK
<1>13. ASSUME NEW s \in Specs, Edit(s) PROVE TypeOK'
  BY <1>13 DEF Edit, azure, TypeOK
<1>14. CASE UNCHANGED vars
  BY <1>14 DEF vars, azure, TypeOK
<1> QED
  BY <1>1, <1>2, <1>3, <1>4, <1>5, <1>6, <1>7, <1>8, <1>9, <1>10, <1>11, <1>12, <1>13, <1>14
  DEF Next, Azure, MachineController

-----------------------------------------------------------------------------
(* The bound *)

LEMMA InvInit == Init => IndInv
<1> SUFFICES ASSUME Init PROVE IndInv
  OBVIOUS
<1>1. TypeOK
  BY TypeInit
<1>2. spec.strategy \in Strategies /\ spec.replicas \in Replicas /\ spec.replicas \in Nat
  BY <1>1, StrategyAssumption, ReplicasAssumption DEF TypeOK, Specs
<1>3. Surge(spec.strategy, spec.replicas) \in Nat
  BY <1>2, SurgeType
<1>4. vmss.capacity = spec.replicas
  BY DEF Init
<1>5. Counted \subseteq 1..spec.replicas
  <2> SUFFICES ASSUME NEW m \in Counted PROVE m \in 1..spec.replicas
    OBVIOUS
  <2>1. m \in Machines /\ m \in Nat \ {0} /\ inst[m].state # "none"
    BY InstanceAssumption DEF Counted
  <2>2. inst[m].state = IF m <= spec.replicas THEN "Succeeded" ELSE "none"
    BY <2>1 DEF Init
  <2> QED BY <1>2, <2>1, <2>2
<1>6. IsFiniteSet(1..spec.replicas) /\ Cardinality(1..spec.replicas) = spec.replicas
  BY <1>2, FS_Interval
<1>7. Cardinality(Counted) <= spec.replicas
  BY <1>5, <1>6, FS_Subset
<1>8. Cardinality(Counted) \in Nat
  BY CountedFinite
<1> QED BY <1>1, <1>2, <1>3, <1>4, <1>7, <1>8 DEF IndInv, Within, SurgeBounded

\* Steps that leave the capacity, the strategy and the set of counted instances,
\* or make the latter two smaller.
LEMMA InvStep == IndInv /\ [Next]_vars => IndInv'
<1> SUFFICES ASSUME IndInv, [Next]_vars PROVE IndInv'
  OBVIOUS
<1>1. TypeOK /\ TypeOK'
  BY TypeStep DEF IndInv
<1>2. ASSUME vmss'.capacity = vmss.capacity, spec'.strategy = spec.strategy,
             Counted' \subseteq Counted
      PROVE  IndInv'
  BY <1>1, <1>2, FewerCounted DEF IndInv, Within
<1>3. CASE ScaleOut
  <2>1. PICK m \in Machines :
            inst' = [inst EXCEPT ![m] = [state |-> "Creating", model |-> vmss.model]]
    BY <1>3 DEF ScaleOut, Unused
  <2>2. Counted' \subseteq Counted \cup {m}
    BY <1>1, <2>1 DEF Counted, TypeOK
  <2>3. IsFiniteSet(Counted) /\ IsFiniteSet(Counted \cup {m})
        /\ Cardinality(Counted \cup {m}) <= Cardinality(Counted) + 1
    BY CountedFinite, FS_AddElement
  <2>4. Cardinality(Counted') <= Cardinality(Counted \cup {m}) /\ Cardinality(Counted') \in Nat
    BY <2>2, <2>3, FS_Subset, FS_CardinalityType
  <2>5. Cardinality(Counted) < vmss.capacity /\ vmss.capacity \in Nat
        /\ Cardinality(Counted) \in Nat /\ Cardinality(Counted \cup {m}) \in Nat
    BY <1>1, <1>3, <2>3, FS_CardinalityType DEF ScaleOut, TypeOK
  <2>6. Cardinality(Counted') <= vmss.capacity
    BY <2>3, <2>4, <2>5
  <2>7. PICK r \in Replicas : vmss.capacity <= r + Surge(spec.strategy, r)
    BY DEF IndInv, Within
  <2>8. r \in Nat /\ Surge(spec.strategy, r) \in Nat
    BY <1>1, SurgeType, ReplicasAssumption, StrategyAssumption DEF TypeOK, Specs
  <2>9. Cardinality(Counted') <= r + Surge(spec'.strategy, r)
    BY <1>3, <2>4, <2>5, <2>6, <2>7, <2>8 DEF ScaleOut
  <2>10. vmss' = vmss /\ spec' = spec
    BY <1>3 DEF ScaleOut
  <2> QED BY <1>1, <2>9, <2>10 DEF IndInv, Within, SurgeBounded
<1>4. CASE OperationDone
  BY <1>2, <1>4 DEF OperationDone, azure, Counted
<1>5. ASSUME NEW m \in Machines, ScaleIn(m) PROVE IndInv'
  BY <1>1, <1>2, <1>5 DEF ScaleIn, Counted, TypeOK
<1>6. ASSUME NEW m \in Machines, InstanceStarts(m) PROVE IndInv'
  BY <1>1, <1>2, <1>6 DEF InstanceStarts, Counted, TypeOK
<1>7. ASSUME NEW m \in Machines, InstanceDeleted(m) PROVE IndInv'
  BY <1>1, <1>2, <1>7 DEF InstanceDeleted, Counted, TypeOK
<1>8. ASSUME NEW m \in Machines, NodeJoins(m) \/ NodeFails(m) PROVE IndInv'
  BY <1>2, <1>8 DEF NodeJoins, NodeFails, azure, Counted
<1>9. ASSUME NEW m \in Machines, MachineReconcile(m) \/ MachineDeletePoll(m) PROVE IndInv'
  BY <1>2, <1>9 DEF MachineReconcile, MachineDeletePoll, azure, Counted
<1>10. ASSUME NEW m \in Machines, MachineDelete(m) PROVE IndInv'
  <2>1. spec' = spec /\ Counted' \subseteq Counted
    BY <1>1, <1>10 DEF MachineDelete, azure, Counted, TypeOK
  <2>2. vmss'.capacity <= vmss.capacity /\ vmss'.capacity \in Nat /\ vmss.capacity \in Nat
    BY <1>1, <1>10 DEF MachineDelete, azure, TypeOK
  <2>3. PICK r \in Replicas : vmss.capacity <= r + Surge(spec.strategy, r)
    BY DEF IndInv, Within
  <2>4. r \in Nat /\ Surge(spec.strategy, r) \in Nat
    BY <1>1, SurgeType, ReplicasAssumption, StrategyAssumption DEF TypeOK, Specs
  <2>5. vmss'.capacity <= r + Surge(spec'.strategy, r)
    BY <2>1, <2>2, <2>3, <2>4
  <2>6. SurgeBounded'
    BY <2>1, FewerCounted
  <2> QED BY <1>1, <2>5, <2>6 DEF IndInv, Within
<1>11. CASE PoolReconcile
  <2>1. spec' = spec /\ Counted' = Counted
    BY <1>11 DEF PoolReconcile, Counted
  <2>2. vmss'.capacity \in {vmss.capacity, WantedCapacity}
    BY <1>11 DEF PoolReconcile
  <2>3. Within(WantedCapacity) /\ Within(vmss.capacity)
    BY <1>1, WantedCapacityBounded DEF IndInv
  <2> QED BY <1>1, <2>1, <2>2, <2>3 DEF IndInv, Within, SurgeBounded
<1>12. CASE PoolApply
  BY <1>2, <1>12 DEF PoolApply, azure, Counted
<1>13. ASSUME NEW s \in Specs, Edit(s) PROVE IndInv'
  BY <1>2, <1>13 DEF Edit, azure, Counted
<1>14. CASE UNCHANGED vars
  BY <1>2, <1>14 DEF vars, azure, Counted
<1> QED
  BY <1>3, <1>4, <1>5, <1>6, <1>7, <1>8, <1>9, <1>10, <1>11, <1>12, <1>13, <1>14
  DEF Next, Azure, MachineController

THEOREM Inductive == Spec => []IndInv
  BY InvInit, InvStep, PTL DEF Spec

\* The pool never runs more instances than some replica count the user asked for
\* with its surge, whatever patches, edits, lost responses and deletions follow
\* each other (scalesets.go, getVirtualMachineScaleSetIfDone and patchVMSSIfNeeded).
THEOREM SurgeIsBounded == Spec => []RolloutInv
<1>1. IndInv => RolloutInv
  BY DEF IndInv, RolloutInv
<1> QED BY <1>1, Inductive, PTL

-----------------------------------------------------------------------------
(* What the pool controller decides on *)

\* The instances the pool controller fetched are still those the machines stand
\* for: a machine without one of them has no instance.
FetchedInv == scope # Nil => \A m \in Existing \ scope.instances : inst[m].state = "none"

\* A machine that reports a failed or going instance does so for good.
ReportedInv ==
    \A m \in Existing : ampm[m].state \in {"Failed", "Deleting"}
                            => inst[m].state \notin {"Creating", "Succeeded"}

ReportInv == FetchedInv /\ ReportedInv

\* An instance starts where there is no machine, and fails or goes for good.
InstanceSteps(m) ==
    \/ inst'[m].state = inst[m].state
    \/ inst[m].state # "none" /\ inst'[m].state \in {"none", "Deleting"}
    \/ inst[m].state = "Creating" /\ inst'[m].state \in {"Succeeded", "Failed"}
    \/ m \notin Existing /\ ampm' = ampm /\ scope' = scope

\* What is written to a machine: the state of its instance, nothing but the
\* deletion, or a fresh machine, which only the pool controller does, at the end.
MachineSteps(m) ==
    \/ ampm'[m].phase = "gone"
    \/ ampm'[m].state = ampm[m].state /\ ampm[m].phase # "gone"
    \/ ampm'[m].state = inst'[m].state /\ ampm[m].phase # "gone"
    \/ ampm'[m].state = "" /\ scope' = Nil

\* The fields UpdateStatus writes.
LEMMA StatusWritten ==
    ASSUME TypeOK, NEW m \in Machines, NEW st
    PROVE  /\ UpdateStatus(m, st).state = st
           /\ Deleted(UpdateStatus(m, st)).state = st
           /\ [UpdateStatus(m, st) EXCEPT !.lro = TRUE].state = st
           /\ Deleted(ampm[m]).state = ampm[m].state
           /\ NoMachine.phase = "gone" /\ Created(m).state = ""
  BY DEF TypeOK, AMPMs, UpdateStatus, Deleted, Created, NoMachine

LEMMA InstanceStep ==
    ASSUME TypeOK, [Next]_vars, NEW m \in Machines
    PROVE  InstanceSteps(m)
<1> USE DEF TypeOK, InstanceSteps
<1>1. CASE ScaleOut
  BY <1>1 DEF ScaleOut, Unused, Existing
<1>2. ASSUME NEW n \in Machines, ScaleIn(n) PROVE InstanceSteps(m)
  BY <1>2 DEF ScaleIn, Counted
<1>3. ASSUME NEW n \in Machines, InstanceStarts(n) PROVE InstanceSteps(m)
  BY <1>3 DEF InstanceStarts
<1>4. ASSUME NEW n \in Machines, InstanceDeleted(n) PROVE InstanceSteps(m)
  BY <1>4 DEF InstanceDeleted
<1>5. ASSUME NEW n \in Machines, MachineDelete(n) PROVE InstanceSteps(m)
  BY <1>5 DEF MachineDelete, azure
<1>6. CASE UNCHANGED inst
  BY <1>6
<1> QED
  BY <1>1, <1>2, <1>3, <1>4, <1>5, <1>6
  DEF Next, Azure, MachineController, vars, azure, OperationDone, NodeJoins, NodeFails,
      MachineReconcile, MachineDeletePoll, PoolReconcile, PoolApply, Edit

LEMMA MachineStep ==
    ASSUME TypeOK, [Next]_vars, NEW m \in Machines
    PROVE  MachineSteps(m)
<1>u. ASSUME ampm'[m] = ampm[m] PROVE MachineSteps(m)
  BY <1>u DEF MachineSteps
<1>1. ASSUME NEW n \in Machines, MachineReconcile(n) PROVE MachineSteps(m)
  <2>1. CASE n = m
    <3>1. ampm[m].phase # "gone" /\ inst' = inst
      BY <1>1, <2>1 DEF MachineReconcile, azure
    <3>2. \/ ampm'[m] = UpdateStatus(m, inst[m].state)
          \/ ampm'[m] = Deleted(UpdateStatus(m, "Deleting")) /\ inst[m].state = "Deleting"
      BY <1>1, <2>1 DEF MachineReconcile, TypeOK
    <3>3. /\ UpdateStatus(m, inst[m].state).state = inst[m].state
          /\ Deleted(UpdateStatus(m, "Deleting")).state = "Deleting"
      BY StatusWritten
    <3> QED BY <3>1, <3>2, <3>3 DEF MachineSteps
  <2>2. n # m => ampm'[m] = ampm[m]
    BY <1>1 DEF MachineReconcile, TypeOK
  <2> QED BY <1>u, <2>1, <2>2
<1>2. ASSUME NEW n \in Machines, MachineDelete(n) PROVE MachineSteps(m)
  <2>1. CASE n = m /\ inst[m].state = "none"
    <3>1. ampm'[m] = NoMachine
      BY <1>2, <2>1 DEF MachineDelete, TypeOK
    <3> QED BY <3>1, StatusWritten DEF MachineSteps
  <2>2. CASE n = m /\ inst[m].state # "none"
    <3>1. ampm[m].phase # "gone" /\ inst'[m].state = "Deleting"
      BY <1>2, <2>2 DEF MachineDelete, TypeOK
    <3>2. ampm'[m] \in {UpdateStatus(m, "Deleting"),
                        [UpdateStatus(m, "Deleting") EXCEPT !.lro = TRUE]}
      BY <1>2, <2>2 DEF MachineDelete, TypeOK
    <3>3. /\ UpdateStatus(m, "Deleting").state = "Deleting"
          /\ [UpdateStatus(m, "Deleting") EXCEPT !.lro = TRUE].state = "Deleting"
      BY StatusWritten
    <3> QED BY <3>1, <3>2, <3>3 DEF MachineSteps
  <2>3. n # m => ampm'[m] = ampm[m]
    BY <1>2 DEF MachineDelete, TypeOK
  <2> QED BY <1>u, <2>1, <2>2, <2>3
<1>3. ASSUME NEW n \in Machines, MachineDeletePoll(n) PROVE MachineSteps(m)
  <2>1. CASE n = m
    <3>1. ampm[m].phase # "gone" /\ inst' = inst
      BY <1>3, <2>1 DEF MachineDeletePoll, azure
    <3>2. ampm'[m] \in {NoMachine, UpdateStatus(m, inst[m].state)}
      BY <1>3, <2>1 DEF MachineDeletePoll, TypeOK
    <3>3. UpdateStatus(m, inst[m].state).state = inst[m].state /\ NoMachine.phase = "gone"
      BY StatusWritten
    <3> QED BY <3>1, <3>2, <3>3 DEF MachineSteps
  <2>2. n # m => ampm'[m] = ampm[m]
    BY <1>3 DEF MachineDeletePoll, TypeOK
  <2> QED BY <1>u, <2>1, <2>2
<1>4. CASE PoolApply
  <2>1. PICK D \in ToDelete :
            ampm'[m] = IF m \in scope.instances \ Existing THEN Created(m)
                       ELSE IF m \in D THEN Deleted(ampm[m]) ELSE ampm[m]
    BY <1>4 DEF PoolApply
  <2>2. D \subseteq Existing
    BY SelectionSubset DEF ToDelete
  <2>3. m \in D => ampm[m].phase # "gone"
    BY <2>2 DEF Existing
  <2>4. scope' = Nil
    BY <1>4 DEF PoolApply
  <2> QED BY <1>u, <2>1, <2>3, <2>4, StatusWritten DEF MachineSteps
<1>5. CASE UNCHANGED ampm
  BY <1>5, <1>u
<1> QED
  BY <1>1, <1>2, <1>3, <1>4, <1>5
  DEF Next, Azure, MachineController, vars, ScaleOut, OperationDone, ScaleIn, InstanceStarts,
      InstanceDeleted, NodeJoins, NodeFails, PoolReconcile, Edit

LEMMA ReportInit == Init => ReportInv
<1> SUFFICES ASSUME Init PROVE ReportInv
  OBVIOUS
<1>1. \A m \in Machines : ampm[m].state \in {"Succeeded", ""}
  BY DEF Init, NoMachine
<1> QED BY <1>1 DEF Init, ReportInv, FetchedInv, ReportedInv, Existing

LEMMA ReportStep ==
    ASSUME TypeOK, TypeOK', ReportInv, [Next]_vars
    PROVE  ReportInv'
<1>1. ASSUME NEW m \in Machines, ampm'[m].phase # "gone",
             ampm'[m].state \in {"Failed", "Deleting"}
      PROVE  inst'[m].state \notin {"Creating", "Succeeded"}
  <2>1. MachineSteps(m) /\ InstanceSteps(m)
    BY MachineStep, InstanceStep
  <2>2. CASE ampm'[m].state = inst'[m].state
    BY <1>1, <2>2
  <2>3. CASE ampm'[m].state = ampm[m].state /\ ampm[m].phase # "gone"
    <3>1. m \in Existing /\ inst[m].state \notin {"Creating", "Succeeded"}
      BY <1>1, <2>3 DEF Existing, ReportInv, ReportedInv
    <3> QED BY <2>1, <3>1 DEF InstanceSteps
  <2> QED BY <1>1, <2>1, <2>2, <2>3 DEF MachineSteps
<1>2. ASSUME scope' # Nil, NEW m \in Machines, ampm'[m].phase # "gone",
             m \notin scope'.instances
      PROVE  inst'[m].state = "none"
  <2>1. CASE PoolReconcile
    <3>1. scope'.instances = Instances /\ inst' = inst
      BY <2>1 DEF PoolReconcile
    <3> QED BY <1>2, <3>1 DEF Instances
  <2>2. CASE scope' = scope
    <3>1. MachineSteps(m) /\ InstanceSteps(m)
      BY MachineStep, InstanceStep
    <3>2. ampm[m].phase # "gone"
      BY <1>2, <2>2, <3>1 DEF MachineSteps
    <3>3. m \in Existing /\ inst[m].state = "none"
      BY <1>2, <2>2, <3>2 DEF Existing, ReportInv, FetchedInv
    <3> QED BY <3>1, <3>3 DEF InstanceSteps
  <2>3. CASE PoolApply
    BY <1>2, <2>3 DEF PoolApply
  <2> QED
    BY <2>1, <2>2, <2>3
    DEF Next, Azure, MachineController, vars, ScaleOut, OperationDone, ScaleIn, InstanceStarts,
        InstanceDeleted, NodeJoins, NodeFails, MachineReconcile, MachineDelete,
        MachineDeletePoll, Edit
<1> QED BY <1>1, <1>2 DEF ReportInv, FetchedInv, ReportedInv, Existing

\* While machines report what their instances run, no instance of the wanted image
\* is picked by the pool controller unless all instances of other images go too,
\* under every strategy and in every interleaving of the two controllers
\* (machinepool_deployment_strategy.go, SelectMachinesToDelete).
THEOREM OutdatedGoFirst == Spec => OutdatedInstancesFirst
<1> DEFINE Kept == PoolApply => \A m, n \in Existing :
            (/\ ampm[m].phase = "live" /\ ampm'[m].phase = "deleted"
             /\ inst[m].state \in {"Creating", "Succeeded"} /\ inst[m].model = spec.model
             /\ inst[n].state # "none" /\ inst[n].model # spec.model
             /\ ReportsModel(m) /\ ReportsModel(n))
            => ampm'[n].phase = "deleted"
<1>1. TypeOK /\ ReportInv => Kept
  <2> SUFFICES ASSUME TypeOK, ReportInv, PoolApply, NEW m \in Existing, NEW n \in Existing,
                      ampm[m].phase = "live", ampm'[m].phase = "deleted",
                      inst[m].state \in {"Creating", "Succeeded"}, inst[m].model = spec.model,
                      inst[n].model # spec.model, ReportsModel(m), ReportsModel(n)
               PROVE  ampm'[n].phase = "deleted"
    BY Zenon
  <2> DEFINE ms == [x \in Existing |-> ampm[x]]
  <2>1. m \in Machines /\ n \in Machines
    BY DEF Existing
  <2>2. PICK D \in ToDelete :
            \A x \in Machines :
                ampm'[x] = IF x \in scope.instances \ Existing THEN Created(x)
                           ELSE IF x \in D THEN Deleted(ampm[x]) ELSE ampm[x]
    BY DEF PoolApply
  <2>3. m \in D
    BY <2>1, <2>2
  <2>4. Existing \subseteq scope.instances
    <3>1. Existing \ scope.instances # {} => D = Existing \ scope.instances
      BY DEF ToDelete
    <3>2. D # Existing \ scope.instances
      BY <2>3 DEF PoolApply, ReportInv, FetchedInv
    <3> QED BY <3>1, <3>2
  <2>5. D \in SelectMachinesToDelete(ms, spec.strategy, scope.replicas)
    BY <2>3, <2>4 DEF ToDelete
  <2>6. DOMAIN ms = Existing /\ ms[m] = ampm[m] /\ ms[n] = ampm[n]
    OBVIOUS
  <2>7. ms[m].latestModelApplied /\ ~ms[n].latestModelApplied
    BY <2>1, <2>6 DEF ReportsModel, TypeOK, AMPMs
  <2>8. m \notin FailedMachines(ms) \cup DeletingMachines(ms)
    BY <2>6 DEF FailedMachines, DeletingMachines, ReportInv, ReportedInv
  <2>9. n \in MachinesWithoutLatestModel(ms)
    BY <2>6, <2>7 DEF MachinesWithoutLatestModel
  <2>10. IsFiniteSet(DOMAIN ms)
    BY <2>6, MachinesAssumption, FS_Subset DEF Existing
  <2>11. spec.strategy \in Strategies /\ scope.replicas \in Nat
    BY StrategyAssumption, ReplicasAssumption DEF PoolApply, TypeOK, Specs
  <2> HIDE DEF ms
  <2>12. n \in D
    BY <2>3, <2>5, <2>7, <2>8, <2>9, <2>10, <2>11, SelectionInOrder
  <2>13. ampm'[n] = Deleted(ampm[n])
    BY <2>1, <2>2, <2>12
  <2> QED BY <2>1, <2>13 DEF Deleted, TypeOK, AMPMs
<1>2. TypeOK /\ TypeOK' /\ ReportInv /\ [Next]_vars => ReportInv'
  BY ReportStep
<1>3. IndInv => TypeOK
  BY DEF IndInv
<1> QED BY <1>1, <1>2, <1>3, ReportInit, Inductive, PTL DEF Spec, OutdatedInstancesFirst
=============================================================================
