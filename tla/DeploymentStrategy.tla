-------------------------- MODULE DeploymentStrategy --------------------------
(***************************************************************************)
(* The rolling update strategy of an AzureMachinePool: how far it surges   *)
(* and which AzureMachinePoolMachines it deletes.                          *)
(*                                                                         *)
(* The code picks machines from slices built in map order, shuffled or     *)
(* sorted by an unstable sort, so one input has several answers: the       *)
(* selection is modelled as the set of the sets of machines that may be    *)
(* chosen.                                                                 *)
(***************************************************************************)
EXTENDS Integers, FiniteSets

CONSTANTS
    Machines,  \* provider IDs
    Nil        \* a pointer that is not set

ASSUME MachinesAssumption == IsFiniteSet(Machines)

-----------------------------------------------------------------------------
(* Data *)

Policies == {"Random", "Newest", "Oldest"}

\* What the strategy reads of a machine; "" is a state that is not set.
Statuses == [ready : BOOLEAN, latestModelApplied : BOOLEAN,
             state : {"", "Creating", "Updating", "Succeeded", "Failed", "Deleting"},
             created : Nat]

\* intstr.IntOrString.
IntOrPercents == [percent : BOOLEAN, value : Nat]
Strategies == [maxSurge : IntOrPercents \cup {Nil},
               maxUnavailable : IntOrPercents \cup {Nil}, deletePolicy : Policies]

\* An empty rollingUpdate and an unknown strategy type give this strategy, whose
\* empty policy is ordered at random.
DefaultStrategy == [maxSurge |-> Nil, maxUnavailable |-> Nil, deletePolicy |-> "Random"]

-----------------------------------------------------------------------------
(* Counts *)

GetScaledValue(v, total, roundUp) ==
    IF ~v.percent THEN v.value
    ELSE IF roundUp THEN (v.value * total + 99) \div 100
    ELSE (v.value * total) \div 100

Surge(strategy, desired) ==
    IF strategy.maxSurge = Nil THEN 1 ELSE GetScaledValue(strategy.maxSurge, desired, TRUE)

MaxUnavailable(strategy, desired) ==
    IF strategy.maxUnavailable = Nil THEN 0
    ELSE GetScaledValue(strategy.maxUnavailable, desired, FALSE)

-----------------------------------------------------------------------------
(* Classes of machines; ms maps the machines there are to their statuses *)

FailedMachines(ms)   == {m \in DOMAIN ms : ms[m].state = "Failed"}
DeletingMachines(ms) == {m \in DOMAIN ms : ms[m].state = "Deleting"}
ReadyMachines(ms)    == {m \in DOMAIN ms : ms[m].ready /\ ms[m].state = "Succeeded"}

\* Slip: the flag is read the wrong way round.
MachinesWithLatestModel(ms) == {m \in DOMAIN ms : ms[m].latestModelApplied}

MachinesWithoutLatestModel(ms) == {m \in DOMAIN ms : ~ms[m].latestModelApplied}

-----------------------------------------------------------------------------
(* Selection *)

\* The order puts m strictly before n.
Before(ms, policy, m, n) ==
    CASE policy = "Oldest" -> ms[m].created < ms[n].created
      [] policy = "Newest" -> ms[m].created > ms[n].created
      [] OTHER -> FALSE

\* What the first k machines of the ordered slice of S may be.
FirstOf(ms, policy, S, k) ==
    {T \in SUBSET S :
        /\ Cardinality(T) = IF k < Cardinality(S) THEN k ELSE Cardinality(S)
        /\ \A m \in S \ T, n \in T : ~Before(ms, policy, m, n)}

\* Slip: one machine more than the budget allows.
DisruptionBudgetOffByOne(ms, desired, maxUnavailable) ==
    Cardinality(ReadyMachines(ms)) - desired + maxUnavailable + 1

DisruptionBudget(ms, desired, maxUnavailable) ==
    IF maxUnavailable > desired THEN desired
    ELSE Cardinality(ReadyMachines(ms)) - desired + maxUnavailable

\* Slip: ready machines go before outdated ones.
OverProvisionedReadyFirst(ms, policy, over) ==
    UNION {{T \cup U : U \in FirstOf(ms, policy, MachinesWithoutLatestModel(ms),
                                     over - Cardinality(T))} :
           T \in FirstOf(ms, policy, ReadyMachines(ms), over)}

\* Slip: only outdated machines go.
OverProvisionedOutdatedOnly(ms, policy, over) ==
    FirstOf(ms, policy, MachinesWithoutLatestModel(ms), over)

\* Outdated machines go first and ready ones fill up.  An outdated ready machine
\* may fill up too: it is then in the slice twice, and one machine fewer goes.
OverProvisioned(ms, policy, over) ==
    UNION {{T \cup U : U \in FirstOf(ms, policy, ReadyMachines(ms),
                                     over - Cardinality(T))} :
           T \in FirstOf(ms, policy, MachinesWithoutLatestModel(ms), over)}

\* The sets of machines SelectMachinesToDelete may return.
SelectMachinesToDelete(ms, strategy, desired) ==
    LET ready   == Cardinality(ReadyMachines(ms))
        budget  == DisruptionBudget(ms, desired, MaxUnavailable(strategy, desired))
        policy  == strategy.deletePolicy
        removed == FailedMachines(ms) \cup DeletingMachines(ms)
        outdated == MachinesWithoutLatestModel(ms)
    IN  IF removed # {} THEN {removed}
        ELSE IF ready < desired THEN {{}}
        ELSE IF ready > desired THEN OverProvisioned(ms, policy, ready - desired)
        ELSE IF outdated = {} \/ budget <= 0 THEN {{}}
        ELSE FirstOf(ms, policy, ReadyMachines(ms) \cap outdated, budget)
=============================================================================
