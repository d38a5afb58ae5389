-------------------------- MODULE AzureMachineProofs --------------------------
(***************************************************************************)
(* Safety of the AzureMachine controller for any number of machines, any   *)
(* configurations, ports and faults: no availability set is left behind,   *)
(* the finalizer of a machine protects its resources, a failure is final   *)
(* and a virtual machine that was lost is not created again.               *)
(***************************************************************************)
EXTENDS AzureMachine, TLAPS

-----------------------------------------------------------------------------
(* The inductive invariant *)

Normal ==
    {"register", "publicIPs", "readRules", "putRule", "networkInterfaces", "availabilitySets",
     "virtualMachines", "roleAssignments", "vmExtensions", "ready"}
AfterVM ==
    {"deleteNICs", "deleteRule", "deleteIP", "deleteDisks", "readSet", "deleteSet", "release"}
Deletion == {"deleting", "deleteVM"} \cup AfterVM
Known == DOMAIN cfg
VMStates == {"absent", "Creating", "Succeeded", "Failed"}
Specs(c) == PublicIPSpecs(c) \cup NICSpecs(c) \cup DiskSpecs(c) \cup {"role"}
Places(c) == {"idle", "deleting", "close"} \cup ToSet(ReconcileSteps(c)) \cup ToSet(DeleteSteps(c))

\* What TypeOK says of the variables that every step may change.
Types ==
    /\ obj \in [Machines -> Objects]
    /\ mem \in [Machines -> Objects]
    /\ pc \in [Machines -> {"idle", "close"} \cup Normal \cup Deletion]
    /\ seen \in [Machines -> SUBSET (1..NumPorts)]
    /\ az \in [Machines -> SUBSET Parts]
    /\ vm \in [Machines -> VMStates]
    /\ ext \in [Machines -> VMStates]
    /\ port \in [Machines -> 0..NumPorts]
    /\ skus \in BOOLEAN
    /\ faults \in 0..MaxFaults

\* Machines that the cluster does not start with never come.
Absent == \A m \in Machines \ Known : obj[m].life = "gone" /\ pc[m] = "idle"

\* How the object and the copy of a reconciliation are related, and that what
\* is not protected, or about to be released, owns nothing.
ObjectInv(m) ==
    /\ obj[m].life = "deleting" => obj[m].finalizer
    /\ obj[m].life = "gone" => ~obj[m].finalizer
    /\ pc[m] \in Normal \ {"register"} => mem[m].finalizer /\ obj[m].finalizer
    /\ pc[m] = "register" => mem[m].finalizer = obj[m].finalizer /\ ~mem[m].failure
    /\ pc[m] \in Normal => ~obj[m].failure /\ (obj[m].id => mem[m].id)
    /\ pc[m] \in Deletion => obj[m].life = "deleting" /\ mem[m].finalizer
    /\ pc[m] \in Deletion \cup {"close"} => (obj[m].failure => mem[m].failure)
    /\ pc[m] = "close" /\ obj[m].life # "gone" =>
           mem[m].finalizer = obj[m].finalizer \/ (obj[m].life = "deleting" /\ Owned(m) = {})
    /\ ~obj[m].finalizer \/ pc[m] = "release" => Owned(m) = {}

\* What a deletion has left behind it.
WalkInv(m) ==
    /\ az[m] \subseteq Specs(cfg[m])
    /\ "role" \in az[m] => vm[m] # "absent"
    /\ port[m] # 0 => cfg[m].controlPlane
    /\ pc[m] \in AfterVM \ {"release"} => vm[m] = "absent"
    /\ pc[m] \in AfterVM \ {"release", "deleteNICs"} => az[m] \cap NICSpecs(cfg[m]) = {}
    /\ pc[m] \in {"deleteIP", "deleteDisks", "readSet", "deleteSet"} => port[m] = 0
    /\ pc[m] \in {"deleteDisks", "readSet", "deleteSet"} => "ip" \notin az[m]
    /\ pc[m] \in {"readSet", "deleteSet"} => az[m] = {}

\* A machine whose finalizer is not on its way out.
Responsible(m) ==
    /\ obj[m].life # "gone" /\ obj[m].finalizer /\ pc[m] # "release"
    /\ pc[m] = "close" => mem[m].finalizer

\* Somebody is going to look at every availability set once more.
SetInv ==
    ~closing => \A s \in sets : \E m \in Known : AvailabilitySet(cfg[m]) = s /\ Responsible(m)

MachinesInv == \A m \in Known : ObjectInv(m) /\ WalkInv(m)

IndInv == TypeOK /\ Types /\ Absent /\ MachinesInv /\ SetInv

-----------------------------------------------------------------------------
(* The order of the steps *)

StepNames ==
    {"register", "publicIPs", "readRules", "putRule", "networkInterfaces", "availabilitySets",
     "virtualMachines", "roleAssignments", "vmExtensions", "ready", "deleteVM", "deleteNICs",
     "deleteRule", "deleteIP", "deleteDisks", "readSet", "deleteSet", "release"}

\* Both orders put the services in the order of their ranks.
Rank(s) ==
    CASE s = "register" -> 1
      [] s = "publicIPs" -> 2
      [] s = "readRules" -> 3
      [] s = "putRule" -> 4
      [] s = "networkInterfaces" -> 5
      [] s = "availabilitySets" -> 6
      [] s = "virtualMachines" -> 7
      [] s = "roleAssignments" -> 8
      [] s = "vmExtensions" -> 9
      [] s = "ready" -> 10
      [] s = "deleteVM" -> 11
      [] s = "deleteNICs" -> 12
      [] s = "deleteRule" -> 13
      [] s = "deleteIP" -> 14
      [] s = "deleteDisks" -> 15
      [] s = "readSet" -> 16
      [] s = "deleteSet" -> 17
      [] s = "release" -> 18
      [] OTHER -> 0

Ascends(s, lo, hi) ==
    /\ s \in Seq(StepNames)
    /\ \A i \in 1..Len(s) : Rank(s[i]) \in lo..hi
    /\ \A i \in 1..Len(s) : \A j \in 1..Len(s) : i < j => Rank(s[i]) < Rank(s[j])

LEMMA Concatenation ==
    ASSUME NEW s \in Seq(StepNames), NEW t \in Seq(StepNames)
    PROVE  /\ s \o t \in Seq(StepNames)
           /\ Len(s \o t) = Len(s) + Len(t) /\ Len(s) \in Nat /\ Len(t) \in Nat
           /\ \A i \in 1..Len(s) : (s \o t)[i] = s[i]
           /\ \A i \in 1..Len(t) : Len(s) + i \in 1..Len(s \o t) /\ (s \o t)[Len(s) + i] = t[i]
           /\ \A i \in 1..Len(s \o t) : i \in 1..Len(s) \/ i - Len(s) \in 1..Len(t)
           /\ ToSet(s \o t) = ToSet(s) \cup ToSet(t)
<1>1. s \o t \in Seq(StepNames) /\ Len(s \o t) = Len(s) + Len(t) /\ Len(s) \in Nat /\ Len(t) \in Nat
  OBVIOUS
<1>2. \A i \in 1..Len(s) : (s \o t)[i] = s[i]
  OBVIOUS
<1>3. \A i \in 1..Len(t) : Len(s) + i \in 1..Len(s \o t) /\ (s \o t)[Len(s) + i] = t[i]
  OBVIOUS
<1>4. \A i \in 1..Len(s \o t) : i \in 1..Len(s) \/ i - Len(s) \in 1..Len(t)
  BY <1>1
<1>5. ToSet(s \o t) = ToSet(s) \cup ToSet(t)
  <2>1. DOMAIN s = 1..Len(s) /\ DOMAIN t = 1..Len(t) /\ DOMAIN (s \o t) = 1..Len(s \o t)
    BY <1>1
  <2>2. ASSUME NEW x \in ToSet(s \o t) PROVE x \in ToSet(s) \cup ToSet(t)
    <3>1. PICK i \in 1..Len(s \o t) : x = (s \o t)[i]
      BY <2>1 DEF ToSet
    <3>2. CASE i \in 1..Len(s)
      BY <1>2, <2>1, <3>1, <3>2 DEF ToSet
    <3>3. CASE i - Len(s) \in 1..Len(t)
      <4>1. Len(s) + (i - Len(s)) = i
        BY <1>1
      <4>2. x = t[i - Len(s)]
        BY <1>3, <3>1, <3>3, <4>1
      <4> QED BY <2>1, <3>3, <4>2 DEF ToSet
    <3> QED BY <1>4, <3>2, <3>3
  <2>3. ASSUME NEW x \in ToSet(s) \cup ToSet(t) PROVE x \in ToSet(s \o t)
    <3>1. CASE x \in ToSet(s)
      <4>1. PICK i \in 1..Len(s) : x = s[i]
        BY <2>1, <3>1 DEF ToSet
      <4>2. i \in 1..Len(s \o t)
        BY <1>1
      <4> QED BY <1>2, <2>1, <4>1, <4>2 DEF ToSet
    <3>2. CASE x \in ToSet(t)
      <4>1. PICK i \in 1..Len(t) : x = t[i]
        BY <2>1, <3>2 DEF ToSet
      <4> QED BY <1>3, <2>1, <4>1 DEF ToSet
    <3> QED BY <3>1, <3>2
  <2> QED BY <2>2, <2>3
<1> QED BY <1>1, <1>2, <1>3, <1>4, <1>5

LEMMA RankType == ASSUME NEW s PROVE Rank(s) \in 0..18
  BY DEF Rank

LEMMA AscendsBoth ==
    ASSUME NEW s, NEW t, NEW a \in Nat, NEW b \in Nat, NEW c \in Nat, NEW d \in Nat,
           Ascends(s, a, b), Ascends(t, c, d), a <= b, b < c, c <= d
    PROVE  Ascends(s \o t, a, d) /\ ToSet(s \o t) = ToSet(s) \cup ToSet(t)
<1>1. s \in Seq(StepNames) /\ t \in Seq(StepNames)
  BY DEF Ascends
<1> DEFINE u == s \o t
<1>2. \A i \in 1..Len(s) : u[i] = s[i] /\ Rank(u[i]) \in a..b
  BY <1>1, Concatenation DEF Ascends
<1>3. \A i \in 1..Len(u) : i \notin 1..Len(s) =>
          i - Len(s) \in 1..Len(t) /\ u[i] = t[i - Len(s)] /\ Rank(u[i]) \in c..d
  <2>1. ASSUME NEW i \in 1..Len(u), i \notin 1..Len(s)
        PROVE  i - Len(s) \in 1..Len(t) /\ u[i] = t[i - Len(s)] /\ Rank(u[i]) \in c..d
    <3>1. i - Len(s) \in 1..Len(t) /\ Len(s) + (i - Len(s)) = i
      BY <1>1, <2>1, Concatenation
    <3>2. u[i] = t[i - Len(s)]
      BY <1>1, <3>1, Concatenation
    <3> QED BY <3>1, <3>2 DEF Ascends
  <2> QED BY <2>1
<1>4. ASSUME NEW i \in 1..Len(u) PROVE Rank(u[i]) \in a..d
  BY <1>2, <1>3, RankType
<1>5. ASSUME NEW i \in 1..Len(u), NEW j \in 1..Len(u), i < j PROVE Rank(u[i]) < Rank(u[j])
  <2>0. Len(s) \in Nat /\ Len(t) \in Nat /\ Len(u) = Len(s) + Len(t)
    BY <1>1, Concatenation
  <2>1. CASE j \in 1..Len(s)
    <3>1. i \in 1..Len(s)
      BY <1>5, <2>0, <2>1
    <3> QED BY <1>2, <1>5, <2>1, <3>1 DEF Ascends
  <2>2. CASE j \notin 1..Len(s) /\ i \in 1..Len(s)
    <3>1. Rank(u[i]) \in a..b /\ Rank(u[j]) \in c..d
      BY <1>2, <1>3, <2>2
    <3> HIDE DEF u
    <3> QED BY <3>1
  <2>3. CASE j \notin 1..Len(s) /\ i \notin 1..Len(s)
    <3>1. i - Len(s) < j - Len(s)
      BY <1>5, <2>0
    <3> QED BY <1>3, <2>3, <3>1 DEF Ascends
  <2> QED BY <2>1, <2>2, <2>3
<1> QED BY <1>1, <1>4, <1>5, Concatenation DEF Ascends

LEMMA AscendsOne ==
    ASSUME NEW a \in StepNames, NEW n \in Nat, Rank(a) = n
    PROVE  Ascends(<<a>>, n, n) /\ ToSet(<<a>>) = {a}
<1>1. <<a>> \in Seq(StepNames) /\ Len(<<a>>) = 1 /\ \A i \in 1..1 : <<a>>[i] = a
  OBVIOUS
<1>2. DOMAIN <<a>> = {1}
  BY <1>1
<1>3. ToSet(<<a>>) = {a}
  BY <1>1, <1>2 DEF ToSet
<1> QED BY <1>1, <1>3 DEF Ascends

LEMMA AscendsTwo ==
    ASSUME NEW a \in StepNames, NEW b \in StepNames, NEW n \in Nat, Rank(a) = n, Rank(b) = n + 1
    PROVE  Ascends(<<a, b>>, n, n + 1) /\ ToSet(<<a, b>>) = {a, b}
<1> DEFINE t == <<a, b>>
<1>1. t \in Seq(StepNames) /\ Len(t) = 2 /\ t[1] = a /\ t[2] = b
  OBVIOUS
<1>2. DOMAIN t = {1, 2} /\ 1..2 = {1, 2}
  BY <1>1
<1> HIDE DEF t
<1>3. ToSet(t) = {a, b}
  BY <1>1, <1>2 DEF ToSet
<1>4. \A i \in 1..Len(t) : Rank(t[i]) \in n..(n + 1)
  BY <1>1, <1>2
<1>5. \A i \in 1..Len(t) : \A j \in 1..Len(t) : i < j => Rank(t[i]) < Rank(t[j])
  BY <1>1, <1>2
<1>6. Ascends(t, n, n + 1)
  BY <1>1, <1>4, <1>5 DEF Ascends
<1> QED BY <1>3, <1>6 DEF t

LEMMA AscendsWhen ==
    ASSUME NEW t, NEW a \in Nat, NEW b \in Nat, NEW c \in BOOLEAN, Ascends(t, a, b)
    PROVE  /\ Ascends(When(c, t), a, b)
           /\ ToSet(When(c, t)) = IF c THEN ToSet(t) ELSE {}
<1>1. CASE c
  BY <1>1 DEF When
<1>2. CASE ~c
  <2>1. << >> \in Seq(StepNames) /\ Len(<< >>) = 0 /\ DOMAIN << >> = {} /\ 1..0 = {}
    OBVIOUS
  <2>2. Ascends(<< >>, a, b)
    BY <2>1 DEF Ascends
  <2>3. ToSet(<< >>) = {}
    BY <2>1 DEF ToSet
  <2> QED BY <1>2, <2>2, <2>3 DEF When
<1> QED BY <1>1, <1>2

\* The step after x is the one of the next rank.
LEMMA NextRank ==
    ASSUME NEW s, NEW a \in Nat, NEW b \in Nat, Ascends(s, a, b), NEW x \in ToSet(s),
           NEW z \in ToSet(s), Rank(x) < Rank(z)
    PROVE  /\ After(s, x) \in ToSet(s)
           /\ Rank(x) < Rank(After(s, x))
           /\ Rank(After(s, x)) <= Rank(z)
<1> DEFINE p == Rank(x)
          q == Rank(z)
          r == Rank(After(s, x))
<1>0. p \in Nat /\ q \in Nat /\ r \in Nat /\ p < q
  BY RankType
<1>1. s \in Seq(StepNames) /\ Len(s) \in Nat /\ DOMAIN s = 1..Len(s)
  BY DEF Ascends
<1> DEFINE i == CHOOSE k \in DOMAIN s : s[k] = x
<1>2. i \in 1..Len(s) /\ s[i] = x
  BY <1>1 DEF ToSet
<1>3. PICK j \in 1..Len(s) : s[j] = z
  BY <1>1 DEF ToSet
<1>4. After(s, x) = s[1 + i]
  BY DEF After
<1> HIDE DEF i
<1>5. i < j
  <2>1. ASSUME j < i PROVE FALSE
    <3>1. Rank(z) < Rank(x)
      BY <1>2, <1>3, <2>1 DEF Ascends
    <3>2. q < p
      BY <3>1
    <3> HIDE DEF p, q
    <3> QED BY <1>0, <3>2
  <2>2. i # j
    BY <1>2, <1>3, RankType
  <2> QED BY <1>1, <1>2, <2>1, <2>2
<1>6. 1 + i \in 1..Len(s) /\ i < 1 + i /\ (1 + i = j \/ 1 + i < j)
  BY <1>1, <1>2, <1>5
<1>7. After(s, x) \in ToSet(s) /\ Rank(x) < Rank(After(s, x))
  BY <1>1, <1>2, <1>4, <1>6 DEF ToSet, Ascends
<1>8. Rank(After(s, x)) <= Rank(z)
  <2>1. CASE 1 + i = j
    BY <1>0, <1>3, <1>4, <2>1
  <2>2. CASE 1 + i < j
    <3>1. Rank(s[1 + i]) < Rank(s[j])
      BY <1>6, <2>2 DEF Ascends
    <3>2. r < q
      BY <1>3, <1>4, <3>1
    <3>3. r <= q
      <4> HIDE DEF q, r
      <4> QED BY <1>0, <3>2
    <3> QED BY <3>3
  <2> QED BY <1>6, <2>1, <2>2
<1> QED BY <1>7, <1>8

LEMMA Ranks ==
    /\ Rank("register") = 1 /\ Rank("publicIPs") = 2 /\ Rank("readRules") = 3
    /\ Rank("putRule") = 4 /\ Rank("networkInterfaces") = 5 /\ Rank("availabilitySets") = 6
    /\ Rank("virtualMachines") = 7 /\ Rank("roleAssignments") = 8 /\ Rank("vmExtensions") = 9
    /\ Rank("ready") = 10 /\ Rank("deleteVM") = 11 /\ Rank("deleteNICs") = 12
    /\ Rank("deleteRule") = 13 /\ Rank("deleteIP") = 14 /\ Rank("deleteDisks") = 15
    /\ Rank("readSet") = 16 /\ Rank("deleteSet") = 17 /\ Rank("release") = 18
  BY DEF Rank

LEMMA ReconcileOrder ==
    ASSUME NEW c
    PROVE  /\ Ascends(ReconcileSteps(c), 1, 10)
           /\ {"register", "networkInterfaces", "virtualMachines", "ready"}
                  \subseteq ToSet(ReconcileSteps(c))
           /\ ToSet(ReconcileSteps(c)) =
                  {"register"}
                      \cup (IF PublicIPSpecs(c) # {} THEN {"publicIPs"} ELSE {})
                      \cup (IF InboundNatSpecs(c) # {} THEN {"readRules", "putRule"} ELSE {})
                      \cup {"networkInterfaces"}
                      \cup (IF AvailabilitySet(c) # "none" THEN {"availabilitySets"} ELSE {})
                      \cup {"virtualMachines"}
                      \cup (IF RoleAssignmentSpecs(c) # {} THEN {"roleAssignments"} ELSE {})
                      \cup (IF VMExtensionSpecs(c) # {} THEN {"vmExtensions"} ELSE {})
                      \cup {"ready"}
<1> DEFINE b == PublicIPSpecs(c) # {}
           d == InboundNatSpecs(c) # {}
           f == AvailabilitySet(c) # "none"
           g == RoleAssignmentSpecs(c) # {}
           h == VMExtensionSpecs(c) # {}
           s1 == <<"register">>
           t2 == <<"publicIPs">>
           t3 == <<"readRules", "putRule">>
           t4 == <<"networkInterfaces">>
           t5 == <<"availabilitySets">>
           t6 == <<"virtualMachines">>
           t7 == <<"roleAssignments">>
           t8 == <<"vmExtensions">>
           t9 == <<"ready">>
           w2 == When(b, t2)
           s2 == s1 \o w2
           w3 == When(d, t3)
           s3 == s2 \o w3
           s4 == s3 \o t4
           w5 == When(f, t5)
           s5 == s4 \o w5
           s6 == s5 \o t6
           w7 == When(g, t7)
           s7 == s6 \o w7
           w8 == When(h, t8)
           s8 == s7 \o w8
           s9 == s8 \o t9
<1>0. b \in BOOLEAN /\ d \in BOOLEAN /\ f \in BOOLEAN /\ g \in BOOLEAN /\ h \in BOOLEAN
  OBVIOUS
<1>1. Ascends(s1, 1, 1) /\ ToSet(s1) = {"register"}
  BY AscendsOne, Ranks DEF StepNames
<1>2. Ascends(t2, 2, 2) /\ ToSet(t2) = {"publicIPs"}
  BY AscendsOne, Ranks DEF StepNames
<1>3. Ascends(t3, 3, 4) /\ ToSet(t3) = {"readRules", "putRule"}
  <2>1. Rank("putRule") = 3 + 1
    BY Ranks
  <2>2. Ascends(t3, 3, 3 + 1) /\ ToSet(t3) = {"readRules", "putRule"}
    BY <2>1, AscendsTwo, Ranks DEF StepNames
  <2> QED BY <2>2
<1>4. Ascends(t4, 5, 5) /\ ToSet(t4) = {"networkInterfaces"}
  BY AscendsOne, Ranks DEF StepNames
<1>5. Ascends(t5, 6, 6) /\ ToSet(t5) = {"availabilitySets"}
  BY AscendsOne, Ranks DEF StepNames
<1>6. Ascends(t6, 7, 7) /\ ToSet(t6) = {"virtualMachines"}
  BY AscendsOne, Ranks DEF StepNames
<1>7. Ascends(t7, 8, 8) /\ ToSet(t7) = {"roleAssignments"}
  BY AscendsOne, Ranks DEF StepNames
<1>8. Ascends(t8, 9, 9) /\ ToSet(t8) = {"vmExtensions"}
  BY AscendsOne, Ranks DEF StepNames
<1>9. Ascends(t9, 10, 10) /\ ToSet(t9) = {"ready"}
  BY AscendsOne, Ranks DEF StepNames
<1> HIDE DEF b, d, f, g, h, s1, t2, t3, t4, t5, t6, t7, t8, t9
<1>32. Ascends(w2, 2, 2) /\ ToSet(w2) = IF b THEN ToSet(t2) ELSE {}
  BY <1>0, <1>2, AscendsWhen
<1>33. Ascends(w3, 3, 4) /\ ToSet(w3) = IF d THEN ToSet(t3) ELSE {}
  BY <1>0, <1>3, AscendsWhen
<1>35. Ascends(w5, 6, 6) /\ ToSet(w5) = IF f THEN ToSet(t5) ELSE {}
  BY <1>0, <1>5, AscendsWhen
<1>37. Ascends(w7, 8, 8) /\ ToSet(w7) = IF g THEN ToSet(t7) ELSE {}
  BY <1>0, <1>7, AscendsWhen
<1>38. Ascends(w8, 9, 9) /\ ToSet(w8) = IF h THEN ToSet(t8) ELSE {}
  BY <1>0, <1>8, AscendsWhen
<1> HIDE DEF w2, w3, w5, w7, w8
<1>12. Ascends(s2, 1, 2) /\ ToSet(s2) = ToSet(s1) \cup ToSet(w2)
  BY <1>1, <1>32, AscendsBoth
<1>13. Ascends(s3, 1, 4) /\ ToSet(s3) = ToSet(s2) \cup ToSet(w3)
  <2> HIDE DEF s2
  <2> QED BY <1>12, <1>33, AscendsBoth
<1>14. Ascends(s4, 1, 5) /\ ToSet(s4) = ToSet(s3) \cup ToSet(t4)
  <2> HIDE DEF s3
  <2> QED BY <1>13, <1>4, AscendsBoth
<1>15. Ascends(s5, 1, 6) /\ ToSet(s5) = ToSet(s4) \cup ToSet(w5)
  <2> HIDE DEF s4
  <2> QED BY <1>14, <1>35, AscendsBoth
<1>16. Ascends(s6, 1, 7) /\ ToSet(s6) = ToSet(s5) \cup ToSet(t6)
  <2> HIDE DEF s5
  <2> QED BY <1>15, <1>6, AscendsBoth
<1>17. Ascends(s7, 1, 8) /\ ToSet(s7) = ToSet(s6) \cup ToSet(w7)
  <2> HIDE DEF s6
  <2> QED BY <1>16, <1>37, AscendsBoth
<1>18. Ascends(s8, 1, 9) /\ ToSet(s8) = ToSet(s7) \cup ToSet(w8)
  <2> HIDE DEF s7
  <2> QED BY <1>17, <1>38, AscendsBoth
<1>19. Ascends(s9, 1, 10) /\ ToSet(s9) = ToSet(s8) \cup ToSet(t9)
  <2> HIDE DEF s8
  <2> QED BY <1>18, <1>9, AscendsBoth
<1> HIDE DEF s2, s3, s4, s5, s6, s7, s8
<1>20. ReconcileSteps(c) = s9
  BY DEF ReconcileSteps, w2, w3, w5, w7, w8, s2, s3, s4, s5, s6, s7, s8, s1, t2, t3, t4, t5, t6, t7, t8, t9, b, d, f, g, h
<1> HIDE DEF s9
<1>21. ToSet(s9) =
           {"register"}
               \cup (IF b THEN {"publicIPs"} ELSE {})
               \cup (IF d THEN {"readRules", "putRule"} ELSE {})
               \cup {"networkInterfaces"}
               \cup (IF f THEN {"availabilitySets"} ELSE {})
               \cup {"virtualMachines"}
               \cup (IF g THEN {"roleAssignments"} ELSE {})
               \cup (IF h THEN {"vmExtensions"} ELSE {})
               \cup {"ready"}
  BY <1>1, <1>2, <1>3, <1>4, <1>5, <1>6, <1>7, <1>8, <1>9, <1>12, <1>13, <1>14, <1>15, <1>16,
     <1>17, <1>18, <1>19,
     <1>32, <1>33, <1>35, <1>37, <1>38, Zenon
<1>22. {"register", "networkInterfaces", "virtualMachines", "ready"} \subseteq ToSet(s9)
  BY <1>21
<1> QED BY <1>19, <1>20, <1>21, <1>22 DEF b, d, f, g, h

LEMMA DeletionOrder ==
    ASSUME NEW c
    PROVE  /\ Ascends(DeleteSteps(c), 11, 18)
           /\ Head(DeleteSteps(c)) = "deleteVM"
           /\ {"deleteVM", "deleteNICs", "deleteDisks", "release"} \subseteq ToSet(DeleteSteps(c))
           /\ ToSet(DeleteSteps(c)) =
                  {"deleteVM", "deleteNICs"}
                      \cup (IF InboundNatSpecs(c) # {} THEN {"deleteRule"} ELSE {})
                      \cup (IF PublicIPSpecs(c) # {} THEN {"deleteIP"} ELSE {})
                      \cup {"deleteDisks"}
                      \cup (IF AvailabilitySet(c) # "none" THEN {"readSet", "deleteSet"} ELSE {})
                      \cup {"release"}
<1> DEFINE b == PublicIPSpecs(c) # {}
           d == InboundNatSpecs(c) # {}
           f == AvailabilitySet(c) # "none"
           s1 == <<"deleteVM", "deleteNICs">>
           t2 == <<"deleteRule">>
           t3 == <<"deleteIP">>
           t4 == <<"deleteDisks">>
           t5 == <<"readSet", "deleteSet">>
           t6 == <<"release">>
           w2 == When(d, t2)
           s2 == s1 \o w2
           w3 == When(b, t3)
           s3 == s2 \o w3
           s4 == s3 \o t4
           w5 == When(f, t5)
           s5 == s4 \o w5
           s6 == s5 \o t6
<1>0. b \in BOOLEAN /\ d \in BOOLEAN /\ f \in BOOLEAN
  OBVIOUS
<1>1. Ascends(s1, 11, 12) /\ ToSet(s1) = {"deleteVM", "deleteNICs"}
  <2>1. Rank("deleteNICs") = 11 + 1
    BY Ranks
  <2>2. Ascends(s1, 11, 11 + 1) /\ ToSet(s1) = {"deleteVM", "deleteNICs"}
    BY <2>1, AscendsTwo, Ranks DEF StepNames
  <2> QED BY <2>2
<1>2. Ascends(t2, 13, 13) /\ ToSet(t2) = {"deleteRule"}
  BY AscendsOne, Ranks DEF StepNames
<1>3. Ascends(t3, 14, 14) /\ ToSet(t3) = {"deleteIP"}
  BY AscendsOne, Ranks DEF StepNames
<1>4. Ascends(t4, 15, 15) /\ ToSet(t4) = {"deleteDisks"}
  BY AscendsOne, Ranks DEF StepNames
<1>5. Ascends(t5, 16, 17) /\ ToSet(t5) = {"readSet", "deleteSet"}
  <2>1. Rank("deleteSet") = 16 + 1
    BY Ranks
  <2>2. Ascends(t5, 16, 16 + 1) /\ ToSet(t5) = {"readSet", "deleteSet"}
    BY <2>1, AscendsTwo, Ranks DEF StepNames
  <2> QED BY <2>2
<1>6. Ascends(t6, 18, 18) /\ ToSet(t6) = {"release"}
  BY AscendsOne, Ranks DEF StepNames
<1> HIDE DEF b, d, f, s1, t2, t3, t4, t5, t6
<1>32. Ascends(w2, 13, 13) /\ ToSet(w2) = IF d THEN ToSet(t2) ELSE {}
  BY <1>0, <1>2, AscendsWhen
<1>33. Ascends(w3, 14, 14) /\ ToSet(w3) = IF b THEN ToSet(t3) ELSE {}
  BY <1>0, <1>3, AscendsWhen
<1>35. Ascends(w5, 16, 17) /\ ToSet(w5) = IF f THEN ToSet(t5) ELSE {}
  BY <1>0, <1>5, AscendsWhen
<1> HIDE DEF w2, w3, w5
<1>12. Ascends(s2, 11, 13) /\ ToSet(s2) = ToSet(s1) \cup ToSet(w2)
  BY <1>1, <1>32, AscendsBoth
<1>13. Ascends(s3, 11, 14) /\ ToSet(s3) = ToSet(s2) \cup ToSet(w3)
  <2> HIDE DEF s2
  <2> QED BY <1>12, <1>33, AscendsBoth
<1>14. Ascends(s4, 11, 15) /\ ToSet(s4) = ToSet(s3) \cup ToSet(t4)
  <2> HIDE DEF s3
  <2> QED BY <1>13, <1>4, AscendsBoth
<1>15. Ascends(s5, 11, 17) /\ ToSet(s5) = ToSet(s4) \cup ToSet(w5)
  <2> HIDE DEF s4
  <2> QED BY <1>14, <1>35, AscendsBoth
<1>16. Ascends(s6, 11, 18) /\ ToSet(s6) = ToSet(s5) \cup ToSet(t6)
  <2> HIDE DEF s5
  <2> QED BY <1>15, <1>6, AscendsBoth
<1> HIDE DEF s2, s3, s4, s5
<1>20. DeleteSteps(c) = s6
  BY DEF DeleteSteps, w2, w3, w5, s2, s3, s4, s5, s1, t2, t3, t4, t5, t6, b, d, f
<1> HIDE DEF s6
<1>21. ToSet(s6) =
           {"deleteVM", "deleteNICs"}
               \cup (IF d THEN {"deleteRule"} ELSE {})
               \cup (IF b THEN {"deleteIP"} ELSE {})
               \cup {"deleteDisks"}
               \cup (IF f THEN {"readSet", "deleteSet"} ELSE {})
               \cup {"release"}
  BY <1>1, <1>2, <1>3, <1>4, <1>5, <1>6, <1>12, <1>13, <1>14, <1>15, <1>16,
     <1>32, <1>33, <1>35, Zenon
<1>22. {"deleteVM", "deleteNICs", "deleteDisks", "release"} \subseteq ToSet(s6)
  BY <1>21
\* The first step is the one of the least rank.
<1>23. Head(s6) = "deleteVM"
  <2>1. s6 \in Seq(StepNames) /\ Len(s6) \in Nat /\ DOMAIN s6 = 1..Len(s6)
    BY <1>16 DEF Ascends
  <2>2. PICK i \in 1..Len(s6) : s6[i] = "deleteVM"
    BY <1>22, <2>1 DEF ToSet
  <2>3. ASSUME i # 1 PROVE FALSE
    <3>1. 1 \in 1..Len(s6) /\ 1 < i
      BY <2>1, <2>3
    <3>2. Rank(s6[1]) < Rank(s6[i]) /\ Rank(s6[1]) \in 11..18 /\ Rank(s6[i]) = 11
      BY <1>16, <2>2, <3>1, Ranks DEF Ascends
    <3> QED BY <3>2
  <2>4. s6[1] = "deleteVM" /\ s6 # << >>
    BY <2>2, <2>3
  <2> QED BY <2>1, <2>4
<1> QED BY <1>16, <1>20, <1>21, <1>22, <1>23 DEF b, d, f

LEMMA Placed ==
    ASSUME NEW c, NEW x \in Places(c)
    PROVE  /\ x \in {"idle", "close"} \cup Normal \cup Deletion
           /\ x \in Normal => x \in ToSet(ReconcileSteps(c))
           /\ x \in Deletion \ {"deleting"} => x \in ToSet(DeleteSteps(c))
           /\ x \in {"readRules", "putRule"} => c.controlPlane /\ "putRule" \in Places(c)
           /\ x \in {"availabilitySets", "readSet", "deleteSet"} => AvailabilitySet(c) # "none"
  BY ReconcileOrder, DeletionOrder
     DEF Places, Normal, Deletion, AfterVM, InboundNatSpecs

LEMMA NormalNext ==
    ASSUME NEW c, NEW x \in ToSet(ReconcileSteps(c)), x # "ready"
    PROVE  After(ReconcileSteps(c), x) \in ToSet(ReconcileSteps(c)) \ {"register"}
<1>1. Rank(x) < Rank("ready") /\ 1 <= Rank(x)
  BY ReconcileOrder, Ranks
<1>2. Ascends(ReconcileSteps(c), 1, 10) /\ "ready" \in ToSet(ReconcileSteps(c))
  BY ReconcileOrder
<1> DEFINE y == After(ReconcileSteps(c), x)
<1>3. y \in ToSet(ReconcileSteps(c)) /\ Rank(x) < Rank(y)
  BY <1>1, <1>2, NextRank
<1>4. y # "register"
  <2> HIDE DEF y
  <2>1. Rank(x) \in 0..18 /\ Rank(y) \in 0..18
    BY RankType
  <2>2. Rank(y) # 1
    BY <1>1, <1>3, <2>1
  <2> QED BY <2>2, Ranks
<1> QED BY <1>3, <1>4

LEMMA DeletionNext ==
    ASSUME NEW c
    PROVE  LET D(x) == After(DeleteSteps(c), x)
               afterIP == "deleteDisks"
               afterRule == IF c.publicIP THEN "deleteIP" ELSE afterIP
           IN  /\ D("deleteVM") = "deleteNICs"
               /\ D("deleteNICs") = IF c.controlPlane THEN "deleteRule" ELSE afterRule
               /\ c.controlPlane => D("deleteRule") = afterRule
               /\ c.publicIP => D("deleteIP") = afterIP
               /\ D("deleteDisks") = IF AvailabilitySet(c) # "none" THEN "readSet" ELSE "release"
               /\ AvailabilitySet(c) # "none" => D("readSet") = "deleteSet" /\ D("deleteSet") = "release"
<1> DEFINE S == ToSet(DeleteSteps(c))
           A(x) == After(DeleteSteps(c), x)
<1>1. ASSUME NEW x \in S, NEW z \in S, Rank(x) < Rank(z)
      PROVE  A(x) \in S /\ Rank(x) < Rank(A(x)) /\ Rank(A(x)) <= Rank(z)
  BY <1>1, DeletionOrder, NextRank
<1>2. S = {"deleteVM", "deleteNICs"}
              \cup (IF c.controlPlane THEN {"deleteRule"} ELSE {})
              \cup (IF c.publicIP THEN {"deleteIP"} ELSE {})
              \cup {"deleteDisks"}
              \cup (IF AvailabilitySet(c) # "none" THEN {"readSet", "deleteSet"} ELSE {})
              \cup {"release"}
  BY DeletionOrder DEF InboundNatSpecs, PublicIPSpecs
<1> HIDE DEF S, A
<1>3. ASSUME NEW x \in S, NEW z \in S, Rank(x) < Rank(z),
             \A y \in S : Rank(x) < Rank(y) /\ Rank(y) <= Rank(z) => y = z
      PROVE  A(x) = z
  BY <1>1, <1>3
<1>4. A("deleteVM") = "deleteNICs"
  BY <1>2, <1>3, Ranks
<1>5. A("deleteNICs") = IF c.controlPlane THEN "deleteRule"
                        ELSE IF c.publicIP THEN "deleteIP" ELSE "deleteDisks"
  <2>1. CASE c.controlPlane
    BY <1>2, <1>3, <2>1, Ranks
  <2>2. CASE ~c.controlPlane /\ c.publicIP
    BY <1>2, <1>3, <2>2, Ranks
  <2>3. CASE ~c.controlPlane /\ ~c.publicIP
    BY <1>2, <1>3, <2>3, Ranks
  <2> QED BY <2>1, <2>2, <2>3
<1>6. ASSUME c.controlPlane
      PROVE  A("deleteRule") = IF c.publicIP THEN "deleteIP" ELSE "deleteDisks"
  <2>1. CASE c.publicIP
    BY <1>2, <1>3, <1>6, <2>1, Ranks
  <2>2. CASE ~c.publicIP
    BY <1>2, <1>3, <1>6, <2>2, Ranks
  <2> QED BY <2>1, <2>2
<1>7. ASSUME c.publicIP PROVE A("deleteIP") = "deleteDisks"
  BY <1>2, <1>3, <1>7, Ranks
<1>8. A("deleteDisks") = IF AvailabilitySet(c) # "none" THEN "readSet" ELSE "release"
  <2>1. CASE AvailabilitySet(c) # "none"
    BY <1>2, <1>3, <2>1, Ranks
  <2>2. CASE AvailabilitySet(c) = "none"
    BY <1>2, <1>3, <2>2, Ranks
  <2> QED BY <2>1, <2>2
<1>9. ASSUME AvailabilitySet(c) # "none"
      PROVE  A("readSet") = "deleteSet" /\ A("deleteSet") = "release"
  BY <1>2, <1>3, <1>9, Ranks
<1> QED BY <1>4, <1>5, <1>6, <1>7, <1>8, <1>9 DEF A

-----------------------------------------------------------------------------
(* Configurations *)

LEMMA Configs ==
    ASSUME TypeOK, NEW m \in Known
    PROVE  /\ m \in Machines
           /\ cfg[m].controlPlane \in BOOLEAN /\ cfg[m].publicIP \in BOOLEAN
           /\ cfg[m].dataDisk \in BOOLEAN /\ cfg[m].ownedGroup \in BOOLEAN
<1>1. m \in Machines /\ cfg[m] \in MachineConfigs
  BY SetupsAssumption DEF TypeOK, Known
<1> QED BY <1>1 DEF MachineConfigs

LEMMA SetNames ==
    ASSUME NEW c
    PROVE  AvailabilitySet(c) \in {"none", "controlPlane", "deployment"}
  BY DEF AvailabilitySet

LEMMA Profiles ==
    ASSUME NEW c
    PROVE  /\ NICProfile(c) \in {"ok", "terminal"}
           /\ SetProfile(c) \in {"ok", "error"}
           /\ VMProfile(c) \in {"ok", "terminal", "error"}
  BY DEF NICProfile, SetProfile, VMProfile, StorageProfile, SecurityProfile

\* The writes whose effect the deletion relies on.
LEMMA Awaited ==
    /\ C!Effective(C!virtualmachines.Delete)
    /\ C!Effective(C!networkinterfaces.Delete)
    /\ C!Effective(C!publicips.Delete)
    /\ C!Effective(C!disks.Delete)
    /\ C!Effective(C!inboundnatrules.Delete)
    /\ C!Effective(C!availabilitysets.Delete)
  BY DEF C!Effective, C!virtualmachines, C!networkinterfaces, C!publicips, C!disks,
         C!inboundnatrules, C!availabilitysets

LEMMA AddedParts ==
    ASSUME NEW call, NEW parts
    PROVE  Added(call, parts) \subseteq parts /\ Begun(call) \in {"Succeeded", "Creating"}
  BY DEF Added, Begun

-----------------------------------------------------------------------------
(* Steps of one machine *)

\* Nothing of another machine changes.
Elsewhere(k) ==
    \A m \in Machines \ {k} :
        /\ obj'[m] = obj[m] /\ mem'[m] = mem[m] /\ pc'[m] = pc[m]
        /\ az'[m] = az[m] /\ vm'[m] = vm[m] /\ port'[m] = port[m]

\* The promise of the finalizer.
Promise(m) == [Protected(m)!Next]_<<obj[m], Owned(m)>>

\* A failure is final.
FinalStep(m) == obj[m].failure => obj'[m].failure /\ Owned(m)' \subseteq Owned(m)

\* A virtual machine that was recorded is not created again.
LossStep(m) == obj[m].id /\ vm[m] = "absent" => vm'[m] = "absent"

\* What a step of k does to the availability sets.
SetStep(k) ==
    ~closing => \A s \in sets' :
        \/ s \in sets /\ AvailabilitySet(cfg[k]) # s
        \/ AvailabilitySet(cfg[k]) = s /\ ((s \in sets /\ ~Responsible(k)) \/ Responsible(k)')
        \/ \E m \in Known \ {k} : AvailabilitySet(cfg[m]) = s /\ Responsible(m)

\* A step of k keeps the invariant and the promises.
Good(k) ==
    /\ UNCHANGED <<cfg, closing>>
    /\ given' \subseteq Machines \cup {"infrastructure"}
    /\ Types' /\ Elsewhere(k)
    /\ pc'[k] \in Places(cfg[k])
    /\ sets' \subseteq {"controlPlane", "deployment"}
    /\ ObjectInv(k)' /\ WalkInv(k)'
    /\ SetStep(k) /\ Promise(k) /\ FinalStep(k) /\ LossStep(k)

\* A service of reconcileNormal adds to what the machine has, or fails.
WalkStep(k) ==
    /\ pc[k] \in Normal \ {"register"}
    /\ UNCHANGED objects
    /\ Types' /\ Elsewhere(k)
    /\ pc'[k] \in {"close"} \cup (ToSet(ReconcileSteps(cfg[k])) \ {"register"})
    /\ mem'[k].finalizer = mem[k].finalizer
    /\ mem[k].id => mem'[k].id
    /\ az[k] \subseteq az'[k] /\ az'[k] \subseteq Specs(cfg[k])
    /\ "role" \in az'[k] => vm'[k] # "absent"
    /\ vm[k] # "absent" => vm'[k] # "absent"
    /\ vm[k] = "absent" /\ mem[k].id => vm'[k] = "absent"
    /\ port[k] # 0 => port'[k] # 0
    /\ port'[k] # 0 => cfg[k].controlPlane
    /\ sets \subseteq sets' /\ sets' \subseteq sets \cup ({AvailabilitySet(cfg[k])} \ {"none"})

LEMMA WalkIsGood ==
    ASSUME IndInv, NEW k \in Known, WalkStep(k)
    PROVE  Good(k)
<1> USE DEF IndInv
<1>1. k \in Machines /\ UNCHANGED <<cfg, closing, obj>>
  BY Configs DEF WalkStep, objects
<1>2. /\ given' \subseteq Machines \cup {"infrastructure"}
      /\ Types' /\ Elsewhere(k)
      /\ pc'[k] \in Places(cfg[k])
  BY DEF WalkStep, objects, TypeOK, Places
<1>3. sets' \subseteq {"controlPlane", "deployment"}
  BY SetNames DEF WalkStep, TypeOK
<1>4. /\ mem[k].finalizer /\ obj[k].finalizer /\ obj[k].life # "gone" /\ ~obj[k].failure
      /\ obj[k].id => mem[k].id
      /\ pc'[k] \in {"close"} \cup (Normal \ {"register"})
  <2>1. pc'[k] \in {"close"} \cup (Normal \ {"register"})
    BY Placed, ReconcileOrder DEF WalkStep, Normal
  <2> QED BY <2>1 DEF WalkStep, MachinesInv, ObjectInv
<1>5. ObjectInv(k)'
  BY <1>1, <1>4 DEF WalkStep, MachinesInv, ObjectInv, Normal, Deletion, AfterVM, Types
<1>6. WalkInv(k)'
  BY <1>1, <1>4 DEF WalkStep, WalkInv, Normal, AfterVM
<1>7. Responsible(k)'
  BY <1>1, <1>4 DEF WalkStep, Responsible, Normal
<1>8. SetStep(k)
  BY <1>1, <1>7 DEF WalkStep, SetStep
<1>9. Owned(k) \subseteq Owned(k)' /\ Owned(k)' \subseteq Parts \cup {NatRule, "vm"}
  BY <1>1, <1>2 DEF WalkStep, Owned, Present, ShouldDeleteIndividualResources, Types
<1>10. Promise(k)
  BY <1>1, <1>4, <1>9 DEF Promise, Protected!Next, Protected!Claim
<1>11. FinalStep(k) /\ LossStep(k)
  BY <1>1, <1>4 DEF WalkStep, FinalStep, LossStep
<1> QED BY <1>1, <1>2, <1>3, <1>5, <1>6, <1>8, <1>10, <1>11 DEF Good

-----------------------------------------------------------------------------
(* reconcileNormal *)

\* How a reconciliation goes on.
Went(k) ==
    /\ mem' \in [Machines -> Objects]
    /\ pc' \in [Machines -> {"idle", "close"} \cup Normal \cup Deletion]
    /\ seen' \in [Machines -> SUBSET (1..NumPorts)]
    /\ \A m \in Machines \ {k} : mem'[m] = mem[m] /\ pc'[m] = pc[m]

WentOn(k) ==
    /\ Went(k)
    /\ pc'[k] \in {"close"} \cup (ToSet(ReconcileSteps(cfg[k])) \ {"register"})
    /\ mem'[k].finalizer = mem[k].finalizer
    /\ mem[k].id => mem'[k].id

LEMMA GotoWent ==
    ASSUME Types, NEW k \in Machines, NEW new \in Objects,
           NEW step \in {"idle", "close"} \cup Normal \cup Deletion, Goto(k, step, new)
    PROVE  Went(k) /\ mem'[k] = new /\ pc'[k] = step
  BY DEF Types, Goto, Went

LEMMA Kept ==
    ASSUME IndInv, NEW k \in Known
    PROVE  /\ k \in Machines /\ mem[k] \in Objects /\ obj[k] \in Objects
           /\ pc[k] \in Places(cfg[k])
           /\ ObjectInv(k) /\ WalkInv(k)
<1>1. k \in Machines
  BY Configs DEF IndInv
<1>2. pc[k] \in Places(cfg[k])
  BY <1>1 DEF IndInv, TypeOK, Places, Steps
<1> QED BY <1>1, <1>2 DEF IndInv, Types, MachinesInv

LEMMA AdvanceWent ==
    ASSUME IndInv, NEW k \in Known, pc[k] \in Normal \ {"ready"}, NEW new \in Objects,
           new.finalizer = mem[k].finalizer, mem[k].id => new.id, Advance(k, new)
    PROVE  WentOn(k)
<1> DEFINE step == After(ReconcileSteps(cfg[k]), pc[k])
<1>1. step \in ToSet(ReconcileSteps(cfg[k])) \ {"register"}
  BY Kept, Placed, NormalNext
<1>2. step \in Normal
  BY <1>1, ReconcileOrder DEF Normal
<1>3. Goto(k, step, new)
  BY DEF Advance
<1> HIDE DEF step
<1>4. Went(k) /\ mem'[k] = new /\ pc'[k] = step
  BY <1>2, <1>3, Kept, GotoWent DEF IndInv
<1> QED BY <1>1, <1>4 DEF WentOn

LEMMA FailWent ==
    ASSUME IndInv, NEW k \in Known,
           NEW kind \in {"error", "transient", "terminal", "deleted"}, Fail(k, kind, mem[k])
    PROVE  WentOn(k)
<1>1. PICK new \in Objects :
          Goto(k, "close", new) /\ new.finalizer = mem[k].finalizer /\ new.id = mem[k].id
  <2>0. mem[k] \in Objects
    BY Kept
  <2>1. CASE kind = "error"
    BY <2>0, <2>1 DEF Fail
  <2>2. CASE kind = "transient"
    <3> DEFINE n == [mem[k] EXCEPT !.ready = FALSE]
    <3>1. Goto(k, "close", n)
      BY <2>2 DEF Fail
    <3>2. n \in Objects /\ n.finalizer = mem[k].finalizer /\ n.id = mem[k].id
      BY <2>0 DEF Objects
    <3> HIDE DEF n
    <3> QED BY <3>1, <3>2
  <2>3. CASE kind \in {"terminal", "deleted"}
    <3> DEFINE n == [mem[k] EXCEPT !.ready = FALSE, !.failure = TRUE]
    <3>1. Goto(k, "close", n)
      BY <2>3 DEF Fail
    <3>2. n \in Objects /\ n.finalizer = mem[k].finalizer /\ n.id = mem[k].id
      BY <2>0 DEF Objects
    <3> HIDE DEF n
    <3> QED BY <3>1, <3>2
  <2> QED BY <2>1, <2>2, <2>3
<1>2. Went(k) /\ mem'[k] = new /\ pc'[k] = "close"
  BY <1>1, Kept, GotoWent DEF IndInv
<1> QED BY <1>1, <1>2 DEF WentOn

\* Everything of Azure but what one service adds stays.
LEMMA WalkByParts ==
    ASSUME IndInv, NEW k \in Known, WentOn(k), UNCHANGED objects,
           pc[k] \in Normal \ {"register"}, faults' \in 0..MaxFaults, skus' \in BOOLEAN,
           az' \in [Machines -> SUBSET Parts],
           \A m \in Machines \ {k} : az'[m] = az[m],
           az[k] \subseteq az'[k], az'[k] \subseteq az[k] \cup Specs(cfg[k]),
           "role" \in az'[k] => "role" \in az[k] \/ vm[k] # "absent",
           ext' \in [Machines -> VMStates],
           NEW v \in VMStates \ {"absent"},
           \/ UNCHANGED vm
           \/ vm[k] = "absent" /\ ~mem[k].id /\ vm' = [vm EXCEPT ![k] = v],
           NEW q,
           \/ UNCHANGED port
           \/ q \in 1..NumPorts /\ cfg[k].controlPlane /\ port' = [port EXCEPT ![k] = q],
           sets \subseteq sets',
           sets' \subseteq sets \cup ({AvailabilitySet(cfg[k])} \ {"none"})
    PROVE  WalkStep(k)
<1>1. k \in Machines /\ Types /\ WalkInv(k)
  BY Kept DEF IndInv
<1>2. vm' \in [Machines -> VMStates] /\ (\A m \in Machines \ {k} : vm'[m] = vm[m])
  BY <1>1 DEF Types
<1>3. /\ vm[k] # "absent" => vm'[k] # "absent"
      /\ vm[k] = "absent" /\ mem[k].id => vm'[k] = "absent"
  BY <1>1 DEF Types, VMStates
<1>4. /\ port' \in [Machines -> 0..NumPorts]
      /\ \A m \in Machines \ {k} : port'[m] = port[m]
      /\ port[k] # 0 => port'[k] # 0
      /\ port'[k] # 0 => cfg[k].controlPlane
  <2>1. CASE UNCHANGED port
    BY <1>1, <2>1 DEF Types, WalkInv
  <2>2. CASE q \in 1..NumPorts /\ cfg[k].controlPlane /\ port' = [port EXCEPT ![k] = q]
    <3>1. q \in 0..NumPorts /\ q # 0
      BY <2>2, NumPortsAssumption
    <3> QED BY <1>1, <2>2, <3>1 DEF Types, WalkInv
  <2> QED BY <2>1, <2>2
<1>5. Types'
  BY <1>1, <1>2, <1>4 DEF Types, WentOn, Went, objects
<1>6. Elsewhere(k)
  BY <1>2, <1>4 DEF Elsewhere, WentOn, Went, objects
<1>7. az'[k] \subseteq Specs(cfg[k]) /\ ("role" \in az'[k] => vm'[k] # "absent")
  BY <1>1, <1>3 DEF WalkInv
<1> QED BY <1>3, <1>4, <1>5, <1>6, <1>7 DEF WalkStep, WentOn

LEMMA PublicIPsWalk ==
    ASSUME IndInv, NEW k \in Known, ReconcilePublicIPs(k)
    PROVE  WalkStep(k)
<1>1. WentOn(k)
  BY AdvanceWent, Kept DEF ReconcilePublicIPs, Normal
<1> DEFINE P == Added(C!publicips.CreateOrUpdate, PublicIPSpecs(cfg[k]))
<1>2. P \subseteq PublicIPSpecs(cfg[k])
  BY AddedParts
<1>3. P \subseteq {"ip"} /\ P \subseteq Specs(cfg[k])
  BY <1>2 DEF PublicIPSpecs, Specs
<1>4. az' = [az EXCEPT ![k] = @ \cup P]
  BY DEF ReconcilePublicIPs
<1> HIDE DEF P
<1>5. /\ k \in Machines /\ Types
      /\ az' \in [Machines -> SUBSET Parts]
      /\ \A m \in Machines \ {k} : az'[m] = az[m]
      /\ az'[k] = az[k] \cup P
  BY <1>3, <1>4, Kept DEF IndInv, Types, Parts
<1>6. pc[k] \in Normal \ {"register"} /\ UNCHANGED <<objects, vm, ext, port, sets, skus, faults>>
  BY DEF ReconcilePublicIPs, Normal
<1>7. "Creating" \in VMStates \ {"absent"}
  BY DEF VMStates
<1> QED BY <1>1, <1>3, <1>5, <1>6, <1>7, WalkByParts DEF Types

\* Nothing of Azure changes but perhaps the SKU cache.
LEMMA WalkOnly ==
    ASSUME IndInv, NEW k \in Known, WentOn(k), pc[k] \in Normal \ {"register"},
           UNCHANGED <<objects, az, vm, ext, port, sets>>,
           skus' \in BOOLEAN, faults' \in 0..MaxFaults
    PROVE  WalkStep(k)
<1>1. Types
  BY DEF IndInv
<1>2. "Creating" \in VMStates \ {"absent"}
  BY DEF VMStates
<1> QED BY <1>1, <1>2, WalkByParts DEF Types

LEMMA ReadRulesWalk ==
    ASSUME IndInv, NEW k \in Known, ReadRules(k)
    PROVE  WalkStep(k)
<1>0. /\ k \in Machines /\ Types /\ mem[k] \in Objects
      /\ pc[k] = "readRules" /\ pc[k] \in Normal \ {"register"}
      /\ UNCHANGED <<objects, azure, faults>>
  BY Kept DEF ReadRules, Normal, IndInv
<1>1. WentOn(k)
  <2>1. CASE port[k] # 0
    <3>1. Goto(k, "networkInterfaces", mem[k])
      BY <2>1 DEF ReadRules
    <3>2. Went(k) /\ mem'[k] = mem[k] /\ pc'[k] = "networkInterfaces"
      BY <1>0, <3>1, GotoWent DEF Normal
    <3> QED BY <3>2, ReconcileOrder DEF WentOn
  <2>2. CASE port[k] = 0
    <3>1. /\ seen' = [seen EXCEPT ![k] = UsedPorts]
          /\ pc' = [pc EXCEPT ![k] = "putRule"]
          /\ UNCHANGED mem
      BY <2>2 DEF ReadRules
    <3>2. UsedPorts \subseteq 1..NumPorts
      <4>1. \A m \in Machines : port[m] \in 0..NumPorts
        BY <1>0 DEF Types
      <4>2. \A n \in 0..NumPorts : n # 0 => n \in 1..NumPorts
        BY NumPortsAssumption
      <4> QED BY <4>1, <4>2 DEF UsedPorts
    <3>3. Went(k) /\ mem'[k] = mem[k] /\ pc'[k] = "putRule"
      BY <1>0, <3>1, <3>2 DEF Went, Types, Normal
    <3>4. "putRule" \in ToSet(ReconcileSteps(cfg[k]))
      BY <1>0, Kept, Placed DEF Normal
    <3> QED BY <3>3, <3>4 DEF WentOn
  <2> QED BY <2>1, <2>2
<1> QED BY <1>0, <1>1, WalkOnly DEF Types, azure

LEMMA PutRuleWalk ==
    ASSUME IndInv, NEW k \in Known, PutRule(k)
    PROVE  WalkStep(k)
<1>0. /\ k \in Machines /\ Types /\ mem[k] \in Objects
      /\ pc[k] = "putRule" /\ pc[k] \in Normal \ {"register", "ready"}
      /\ UNCHANGED <<objects, az, vm, ext, sets, skus, faults>>
      /\ cfg[k].controlPlane
  BY Kept, Placed DEF PutRule, Normal, IndInv
<1>1. CASE GetAvailablePort(seen[k]) \in SUBSET UsedPorts
  <2>1. Fail(k, "error", mem[k]) /\ UNCHANGED port
    BY <1>1 DEF PutRule
  <2>2. WentOn(k)
    BY <2>1, FailWent
  <2> QED BY <1>0, <2>1, <2>2, WalkOnly DEF Types
<1>2. CASE GetAvailablePort(seen[k]) \notin SUBSET UsedPorts
  <2>1. PICK p \in Added(C!inboundnatrules.CreateOrUpdate, GetAvailablePort(seen[k])) :
            port' = [port EXCEPT ![k] = p]
    BY <1>2 DEF PutRule
  <2>2. p \in 1..NumPorts
    BY <2>1, AddedParts DEF GetAvailablePort
  <2>3. WentOn(k)
    BY <1>0, <1>2, AdvanceWent DEF PutRule
  <2>4. "Creating" \in VMStates \ {"absent"}
    BY DEF VMStates
  <2> QED BY <1>0, <2>1, <2>2, <2>3, <2>4, WalkByParts DEF Types
<1> QED BY <1>1, <1>2

LEMMA NetworkInterfacesWalk ==
    ASSUME IndInv, NEW k \in Known, ReconcileNetworkInterfaces(k)
    PROVE  WalkStep(k)
<1> DEFINE missing == NICSpecs(cfg[k]) \ az[k]
           profile == IF missing = {} THEN "ok" ELSE NICProfile(cfg[k])
<1>0. /\ k \in Machines /\ Types /\ mem[k] \in Objects
      /\ pc[k] \in Normal \ {"register", "ready"}
      /\ UNCHANGED <<objects, vm, ext, port, sets, faults>>
      /\ skus' \in BOOLEAN /\ faults' \in 0..MaxFaults
  BY Kept DEF ReconcileNetworkInterfaces, Normal, IndInv, Types
<1>1. ASSUME NEW kind \in {"terminal", "error"}, Fail(k, kind, mem[k]), UNCHANGED az
      PROVE  WalkStep(k)
  <2>1. WentOn(k)
    BY <1>1, FailWent
  <2> QED BY <1>0, <1>1, <2>1, WalkOnly
<1>2. CASE profile # "ok"
  BY <1>1, <1>2, Profiles DEF ReconcileNetworkInterfaces
<1>3. ASSUME az' = [az EXCEPT ![k] = @ \cup Added(C!networkinterfaces.CreateOrUpdate, missing)],
             Advance(k, mem[k])
      PROVE  WalkStep(k)
  <2>1. WentOn(k)
    BY <1>0, <1>3, AdvanceWent
  <2> DEFINE P == Added(C!networkinterfaces.CreateOrUpdate, missing)
  <2>2. P \subseteq {"nic", "publicNic"} /\ P \subseteq Specs(cfg[k])
    BY AddedParts DEF NICSpecs, Specs
  <2>3. az' = [az EXCEPT ![k] = @ \cup P]
    BY <1>3
  <2> HIDE DEF P
  <2>4. /\ az' \in [Machines -> SUBSET Parts]
        /\ \A m \in Machines \ {k} : az'[m] = az[m]
        /\ az'[k] = az[k] \cup P
    BY <1>0, <2>2, <2>3 DEF Types, Parts
  <2>5. "Creating" \in VMStates \ {"absent"}
    BY DEF VMStates
  <2> QED BY <1>0, <2>1, <2>2, <2>4, <2>5, WalkByParts DEF Types
<1> QED BY <1>1, <1>2, <1>3 DEF ReconcileNetworkInterfaces

LEMMA AvailabilitySetsWalk ==
    ASSUME IndInv, NEW k \in Known, ReconcileAvailabilitySets(k)
    PROVE  WalkStep(k)
<1>0. /\ k \in Machines /\ Types /\ mem[k] \in Objects
      /\ pc[k] \in Normal \ {"register", "ready"}
      /\ UNCHANGED <<objects, az, vm, ext, port, faults>>
      /\ skus' \in BOOLEAN /\ faults' \in 0..MaxFaults
      /\ AvailabilitySet(cfg[k]) # "none"
  BY Kept, Placed DEF ReconcileAvailabilitySets, Normal, IndInv, Types
<1>1. CASE SetProfile(cfg[k]) = "ok"
  <2>1. WentOn(k)
    BY <1>0, <1>1, AdvanceWent DEF ReconcileAvailabilitySets
  <2>2. sets \subseteq sets' /\ sets' \subseteq sets \cup ({AvailabilitySet(cfg[k])} \ {"none"})
    BY <1>0, <1>1, AddedParts DEF ReconcileAvailabilitySets
  <2>3. "Creating" \in VMStates \ {"absent"}
    BY DEF VMStates
  <2> QED BY <1>0, <2>1, <2>2, <2>3, WalkByParts DEF Types
<1>2. CASE SetProfile(cfg[k]) # "ok"
  <2>1. WentOn(k)
    BY <1>2, FailWent, Profiles DEF ReconcileAvailabilitySets
  <2> QED BY <1>0, <1>2, <2>1, WalkOnly DEF ReconcileAvailabilitySets
<1> QED BY <1>1, <1>2

\* A virtual machine comes with its disks.
LEMMA CreatedWalk ==
    ASSUME IndInv, NEW k \in Known, WentOn(k), pc[k] \in Normal \ {"register"},
           vm[k] = "absent", ~mem[k].id, NEW v \in {"Succeeded", "Creating"},
           vm' = [vm EXCEPT ![k] = v],
           az' = [az EXCEPT ![k] = @ \cup DiskSpecs(cfg[k])],
           UNCHANGED <<objects, ext, port, sets>>, skus' \in BOOLEAN, faults' \in 0..MaxFaults
    PROVE  WalkStep(k)
<1>1. k \in Machines /\ Types
  BY Kept DEF IndInv
<1>2. DiskSpecs(cfg[k]) \subseteq {"osDisk", "dataDisk"} /\ DiskSpecs(cfg[k]) \subseteq Specs(cfg[k])
  BY DEF DiskSpecs, Specs
<1>3. /\ az' \in [Machines -> SUBSET Parts]
      /\ \A m \in Machines \ {k} : az'[m] = az[m]
      /\ az'[k] = az[k] \cup DiskSpecs(cfg[k])
  BY <1>1, <1>2 DEF Types, Parts
<1>4. v \in VMStates \ {"absent"}
  BY DEF VMStates
<1> QED BY <1>1, <1>2, <1>3, <1>4, WalkByParts DEF Types

LEMMA VirtualMachinesWalk ==
    ASSUME IndInv, NEW k \in Known, ReconcileVirtualMachines(k)
    PROVE  WalkStep(k)
<1>0. /\ k \in Machines /\ Types /\ mem[k] \in Objects
      /\ pc[k] \in Normal \ {"register", "ready"}
      /\ UNCHANGED <<objects, ext, port, sets, faults>> /\ faults' \in 0..MaxFaults
  BY Kept DEF ReconcileVirtualMachines, Normal, IndInv, Types
<1>1. CASE vm[k] # "absent"
  <2> DEFINE new == UpdateStatus(k, mem[k])
  <2>1. new \in Objects /\ new.finalizer = mem[k].finalizer /\ new.id
    BY <1>0 DEF UpdateStatus, Objects
  <2>2. Advance(k, new) /\ UNCHANGED <<az, vm, skus>>
    BY <1>1 DEF ReconcileVirtualMachines
  <2> HIDE DEF new
  <2>3. WentOn(k)
    BY <1>0, <2>1, <2>2, AdvanceWent
  <2> QED BY <1>0, <2>2, <2>3, WalkOnly DEF Types
<1>2. CASE vm[k] = "absent" /\ mem[k].id
  <2>1. Fail(k, "deleted", mem[k]) /\ UNCHANGED <<az, vm, skus>>
    BY <1>2 DEF ReconcileVirtualMachines
  <2>2. WentOn(k)
    BY <2>1, FailWent
  <2> QED BY <1>0, <2>1, <2>2, WalkOnly DEF Types
<1>3. CASE vm[k] = "absent" /\ ~mem[k].id
  <2>0. skus' \in BOOLEAN
    BY <1>3 DEF ReconcileVirtualMachines
  <2>1. ASSUME NEW kind \in {"terminal", "error"}, Fail(k, kind, mem[k]), UNCHANGED <<az, vm>>
        PROVE  WalkStep(k)
    <3>1. WentOn(k)
      BY <2>1, FailWent
    <3> QED BY <1>0, <2>0, <2>1, <3>1, WalkOnly
  <2>2. CASE VMProfile(cfg[k]) # "ok"
    BY <1>3, <2>1, <2>2, Profiles DEF ReconcileVirtualMachines
  <2>3. CASE VMProfile(cfg[k]) = "ok" /\ CanCreateVM(k)
    <3>1. /\ vm' = [vm EXCEPT ![k] = Begun(C!virtualmachines.CreateOrUpdate)]
          /\ az' = [az EXCEPT ![k] = @ \cup DiskSpecs(cfg[k])]
          /\ Advance(k, mem[k])
      BY <1>3, <2>3 DEF ReconcileVirtualMachines
    <3>2. WentOn(k)
      BY <1>0, <3>1, AdvanceWent
    <3> QED BY <1>0, <1>3, <2>0, <3>1, <3>2, AddedParts, CreatedWalk
  <2>4. CASE VMProfile(cfg[k]) = "ok" /\ ~CanCreateVM(k)
    BY <1>3, <2>1, <2>4 DEF ReconcileVirtualMachines
  <2> QED BY <2>2, <2>3, <2>4
<1> QED BY <1>1, <1>2, <1>3 DEF ReconcileVirtualMachines

LEMMA RoleAssignmentsWalk ==
    ASSUME IndInv, NEW k \in Known, ReconcileRoleAssignments(k)
    PROVE  WalkStep(k)
<1>0. /\ k \in Machines /\ Types /\ mem[k] \in Objects
      /\ pc[k] \in Normal \ {"register", "ready"}
      /\ UNCHANGED <<objects, vm, ext, port, sets, skus, faults>>
  BY Kept DEF ReconcileRoleAssignments, Normal, IndInv
<1>1. CASE vm[k] = "absent"
  <2>1. WentOn(k) /\ UNCHANGED az
    BY <1>1, FailWent DEF ReconcileRoleAssignments
  <2> QED BY <1>0, <2>1, WalkOnly DEF Types
<1>2. CASE vm[k] # "absent"
  <2>1. WentOn(k)
    BY <1>0, <1>2, AdvanceWent DEF ReconcileRoleAssignments
  <2> DEFINE P == Added(C!roleassignments.Create, {"role"})
  <2>2. P \subseteq {"role"}
    BY AddedParts
  <2>3. az' = [az EXCEPT ![k] = @ \cup P]
    BY <1>2 DEF ReconcileRoleAssignments
  <2> HIDE DEF P
  <2>4. /\ az' \in [Machines -> SUBSET Parts]
        /\ \A m \in Machines \ {k} : az'[m] = az[m]
        /\ az'[k] = az[k] \cup P
    BY <1>0, <2>2, <2>3 DEF Types, Parts
  <2>5. "Creating" \in VMStates \ {"absent"} /\ "role" \in Specs(cfg[k])
    BY DEF VMStates, Specs
  <2> QED BY <1>0, <1>2, <2>1, <2>2, <2>4, <2>5, WalkByParts DEF Types
<1> QED BY <1>1, <1>2

LEMMA VMExtensionsWalk ==
    ASSUME IndInv, NEW k \in Known, ReconcileVMExtensions(k)
    PROVE  WalkStep(k)
<1>0. /\ k \in Machines /\ Types /\ mem[k] \in Objects
      /\ pc[k] \in Normal \ {"register", "ready"}
      /\ UNCHANGED <<objects, az, vm, port, sets, skus, faults>>
  BY Kept DEF ReconcileVMExtensions, Normal, IndInv
<1>1. ASSUME WentOn(k), ext' \in [Machines -> VMStates]
      PROVE  WalkStep(k)
  <2>1. "Creating" \in VMStates \ {"absent"}
    BY DEF VMStates
  <2> QED BY <1>0, <1>1, <2>1, WalkByParts DEF Types
<1>2. CASE ext[k] # "absent" /\ SetBootstrapConditions(ext[k]) = "ok"
  <2>1. WentOn(k) /\ UNCHANGED ext
    BY <1>0, <1>2, AdvanceWent DEF ReconcileVMExtensions
  <2> QED BY <1>0, <1>1, <2>1 DEF Types
<1>3. CASE ext[k] # "absent" /\ SetBootstrapConditions(ext[k]) # "ok"
  <2>1. SetBootstrapConditions(ext[k]) \in {"transient", "terminal"}
    BY <1>3 DEF SetBootstrapConditions
  <2>2. Fail(k, SetBootstrapConditions(ext[k]), mem[k]) /\ UNCHANGED ext
    BY <1>3 DEF ReconcileVMExtensions
  <2>3. WentOn(k)
    BY <2>1, <2>2, FailWent
  <2> QED BY <1>0, <1>1, <2>2, <2>3 DEF Types
<1>4. CASE ext[k] = "absent" /\ vm[k] # "absent"
  <2>1. /\ ext' = [ext EXCEPT ![k] = Begun(C!vmextensions.CreateOrUpdateAsync)]
        /\ Advance(k, mem[k])
    BY <1>4 DEF ReconcileVMExtensions
  <2>2. WentOn(k)
    BY <1>0, <2>1, AdvanceWent
  <2>3. Begun(C!vmextensions.CreateOrUpdateAsync) \in VMStates
    BY AddedParts DEF VMStates
  <2>4. ext' \in [Machines -> VMStates]
    BY <1>0, <2>1, <2>3 DEF Types
  <2> QED BY <1>1, <2>2, <2>4
<1>5. CASE ext[k] = "absent" /\ vm[k] = "absent"
  <2>1. Fail(k, "error", mem[k]) /\ UNCHANGED ext
    BY <1>5 DEF ReconcileVMExtensions
  <2>2. WentOn(k)
    BY <2>1, FailWent
  <2> QED BY <1>0, <1>1, <2>1, <2>2 DEF Types
<1> QED BY <1>2, <1>3, <1>4, <1>5

LEMMA SetReadyWalk ==
    ASSUME IndInv, NEW k \in Known, SetReady(k)
    PROVE  WalkStep(k)
<1>0. /\ k \in Machines /\ Types /\ mem[k] \in Objects
      /\ pc[k] \in Normal \ {"register"}
      /\ UNCHANGED <<objects, azure, faults>>
  BY Kept DEF SetReady, Normal, IndInv
<1> DEFINE new == [mem[k] EXCEPT !.ready = TRUE]
<1>1. new \in Objects /\ new.finalizer = mem[k].finalizer /\ new.id = mem[k].id
  BY <1>0 DEF Objects
<1>2. Goto(k, "close", new)
  BY DEF SetReady
<1> HIDE DEF new
<1>3. Went(k) /\ mem'[k] = new /\ pc'[k] = "close"
  BY <1>0, <1>1, <1>2, GotoWent
<1>4. WentOn(k)
  BY <1>1, <1>3 DEF WentOn
<1> QED BY <1>0, <1>4, WalkOnly DEF Types, azure

-----------------------------------------------------------------------------
(* The deletion *)

\* A service of reconcileDelete takes away from what the machine has, or fails.
DropStep(k) ==
    /\ pc[k] \in Deletion
    /\ UNCHANGED objects
    /\ Types' /\ Elsewhere(k)
    /\ pc'[k] \in {"close"} \cup ToSet(DeleteSteps(cfg[k]))
    /\ mem'[k] = mem[k]
    /\ az'[k] \subseteq az[k] /\ vm'[k] \in {"absent", vm[k]} /\ port'[k] \in {0, port[k]}
    /\ WalkInv(k)'
    /\ pc'[k] = "release" => Owned(k)' = {}
    /\ sets' \subseteq sets
    /\ pc'[k] = "release" => \A s \in sets' :
           closing \/ AvailabilitySet(cfg[k]) # s
               \/ \E m \in Known \ {k} : AvailabilitySet(cfg[m]) = s /\ Responsible(m)

LEMMA DropIsGood ==
    ASSUME IndInv, NEW k \in Known, DropStep(k)
    PROVE  Good(k)
<1>1. /\ k \in Machines /\ obj[k] \in Objects /\ mem[k] \in Objects /\ ObjectInv(k)
      /\ UNCHANGED <<cfg, closing, obj>> /\ Types /\ Types'
  BY Kept DEF DropStep, objects, IndInv
<1>2. /\ given' \subseteq Machines \cup {"infrastructure"}
      /\ Types' /\ Elsewhere(k)
      /\ pc'[k] \in Places(cfg[k])
      /\ sets' \subseteq {"controlPlane", "deployment"}
  BY DEF DropStep, objects, IndInv, TypeOK, Places
<1>3. /\ obj[k].life = "deleting" /\ obj[k].finalizer /\ mem[k].finalizer
      /\ obj[k].failure => mem[k].failure
  BY <1>1 DEF DropStep, ObjectInv
<1>4. pc'[k] \in {"close"} \cup Deletion
  BY DeletionOrder DEF DropStep, Deletion, AfterVM
<1>5. ObjectInv(k)'
  BY <1>1, <1>3, <1>4 DEF DropStep, ObjectInv, Normal, Deletion, AfterVM
<1>6. SetStep(k)
  <2>1. pc'[k] # "release" => Responsible(k)'
    BY <1>1, <1>3 DEF DropStep, Responsible
  <2> QED BY <2>1, <1>1 DEF DropStep, SetStep
<1>7. Owned(k)' \subseteq Owned(k)
  BY <1>1 DEF DropStep, Owned, Present, ShouldDeleteIndividualResources
<1>8. Promise(k)
  BY <1>1, <1>3, <1>7 DEF Promise, Protected!Next, Protected!Dispose
<1>9. FinalStep(k) /\ LossStep(k)
  BY <1>1, <1>7 DEF DropStep, FinalStep, LossStep
<1> QED BY <1>1, <1>2, <1>5, <1>6, <1>8, <1>9 DEF Good, DropStep

\* What is common to the steps of a deletion.
LEMMA DropByParts ==
    ASSUME IndInv, NEW k \in Known, pc[k] \in Deletion, UNCHANGED objects,
           NEW step \in {"close"} \cup ToSet(DeleteSteps(cfg[k])), Goto(k, step, mem[k]),
           az' \in [Machines -> SUBSET Parts], vm' \in [Machines -> VMStates],
           ext' \in [Machines -> VMStates], port' \in [Machines -> 0..NumPorts],
           \A m \in Machines \ {k} : az'[m] = az[m] /\ vm'[m] = vm[m] /\ port'[m] = port[m],
           az'[k] \subseteq az[k], vm'[k] \in {"absent", vm[k]}, port'[k] \in {0, port[k]},
           skus' \in BOOLEAN, faults' \in 0..MaxFaults, sets' \subseteq sets,
           "role" \in az'[k] => vm'[k] # "absent",
           step \in AfterVM \ {"release"} => vm'[k] = "absent",
           step \in AfterVM \ {"release", "deleteNICs"} => az'[k] \cap NICSpecs(cfg[k]) = {},
           step \in {"deleteIP", "deleteDisks", "readSet", "deleteSet"} => port'[k] = 0,
           step \in {"deleteDisks", "readSet", "deleteSet"} => "ip" \notin az'[k],
           step \in {"readSet", "deleteSet"} => az'[k] = {},
           step = "release" => vm'[k] = "absent" /\ az'[k] = {} /\ port'[k] = 0,
           step = "release" => \A s \in sets' :
               closing \/ AvailabilitySet(cfg[k]) # s
                   \/ \E m \in Known \ {k} : AvailabilitySet(cfg[m]) = s /\ Responsible(m)
    PROVE  Good(k)
<1>1. /\ k \in Machines /\ mem[k] \in Objects /\ WalkInv(k) /\ Types
      /\ UNCHANGED <<cfg, closing, obj>>
  BY Kept DEF objects, IndInv
<1>2. step \in {"idle", "close"} \cup Normal \cup Deletion
  BY DeletionOrder DEF Deletion, AfterVM
<1>3. Went(k) /\ mem'[k] = mem[k] /\ pc'[k] = step
  BY <1>1, <1>2, GotoWent
<1>4. Types' /\ Elsewhere(k)
  BY <1>1, <1>3 DEF Types, Went, Elsewhere
<1>5. WalkInv(k)'
  BY <1>1, <1>3 DEF WalkInv
<1>6. step = "release" => Owned(k)' = {}
  BY <1>1 DEF Owned, Present, ShouldDeleteIndividualResources, WalkInv
<1>7. DropStep(k)
  BY <1>3, <1>4, <1>5, <1>6 DEF DropStep
<1> QED BY <1>7, DropIsGood

LEMMA DeleteVMGood ==
    ASSUME IndInv, NEW k \in Known, DeleteVM(k)
    PROVE  Good(k)
<1>0. /\ k \in Machines /\ mem[k] \in Objects /\ Types
      /\ pc[k] \in Deletion /\ UNCHANGED <<objects, port, sets, skus, faults>>
  BY Kept DEF DeleteVM, Deletion, IndInv
<1>1. Goto(k, "deleteNICs", mem[k])
  BY DeletionNext DEF DeleteVM, Deleted
<1>2. "deleteNICs" \in {"close"} \cup ToSet(DeleteSteps(cfg[k]))
  BY DeletionOrder
<1>3. VMRemoved(k)
  BY Awaited DEF DeleteVM
<1>4. /\ az' \in [Machines -> SUBSET Parts] /\ vm' \in [Machines -> VMStates]
      /\ ext' \in [Machines -> VMStates] /\ port' \in [Machines -> 0..NumPorts]
      /\ \A m \in Machines \ {k} : az'[m] = az[m] /\ vm'[m] = vm[m] /\ port'[m] = port[m]
      /\ az'[k] = az[k] \ {"role"} /\ vm'[k] = "absent" /\ port'[k] = port[k]
  BY <1>0, <1>3 DEF VMRemoved, Types, VMStates
<1> QED BY <1>0, <1>1, <1>2, <1>4, DropByParts DEF Types, AfterVM

\* A step that ends without having done anything.
LEMMA AbortGood ==
    ASSUME IndInv, NEW k \in Known, pc[k] \in Deletion, Goto(k, "close", mem[k]),
           UNCHANGED <<objects, azure>>, faults' \in 0..MaxFaults
    PROVE  Good(k)
<1>0. k \in Machines /\ Types /\ WalkInv(k)
  BY Kept DEF IndInv
<1>1. UNCHANGED <<objects, az, vm, ext, port, sets, skus>>
  BY DEF azure
<1>2. "close" \in {"close"} \cup ToSet(DeleteSteps(cfg[k]))
  OBVIOUS
<1> QED BY <1>0, <1>1, <1>2, DropByParts DEF Types, AfterVM, WalkInv

\* DeleteParts deletes its parts.
LEMMA PartsDropped ==
    ASSUME IndInv, NEW k \in Known, NEW step, NEW call, C!Effective(call), NEW parts,
           DeleteParts(k, step, call, parts), step \in AfterVM \ {"release"}
    PROVE  /\ k \in Machines /\ mem[k] \in Objects /\ Types /\ pc[k] = step
           /\ UNCHANGED <<objects, vm, ext, port, sets, skus, faults>>
           /\ vm[k] = "absent" /\ WalkInv(k) /\ "role" \notin az[k]
           /\ Deleted(k)
           /\ az' \in [Machines -> SUBSET Parts]
           /\ \A m \in Machines \ {k} : az'[m] = az[m]
           /\ az'[k] = az[k] \ parts
<1>1. /\ k \in Machines /\ mem[k] \in Objects /\ Types /\ pc[k] = step
      /\ UNCHANGED <<objects, vm, ext, port, sets, skus, faults>>
      /\ WalkInv(k)
  BY Kept DEF DeleteParts, IndInv
<1>2. vm[k] = "absent" /\ "role" \notin az[k]
  BY <1>1 DEF WalkInv
<1>3. Deleted(k) /\ az' = [az EXCEPT ![k] = @ \ parts]
  BY <1>2 DEF DeleteParts
<1> QED BY <1>1, <1>2, <1>3 DEF Types

LEMMA DeleteNetworkInterfacesGood ==
    ASSUME IndInv, NEW k \in Known, DeleteNetworkInterfaces(k)
    PROVE  Good(k)
<1> DEFINE step == IF cfg[k].controlPlane THEN "deleteRule"
                   ELSE IF cfg[k].publicIP THEN "deleteIP" ELSE "deleteDisks"
<1>0. "deleteNICs" \in AfterVM \ {"release"} /\ "deleteNICs" \in Deletion
  BY DEF AfterVM, Deletion
<1>1. /\ k \in Machines /\ mem[k] \in Objects /\ Types /\ pc[k] = "deleteNICs"
      /\ UNCHANGED <<objects, vm, ext, port, sets, skus, faults>>
      /\ vm[k] = "absent" /\ WalkInv(k) /\ "role" \notin az[k]
      /\ Deleted(k)
      /\ az' \in [Machines -> SUBSET Parts]
      /\ \A m \in Machines \ {k} : az'[m] = az[m]
      /\ az'[k] = az[k] \ NICSpecs(cfg[k])
  BY <1>0, Awaited, PartsDropped DEF DeleteNetworkInterfaces
<1>2. Goto(k, step, mem[k])
  BY <1>1, DeletionNext DEF Deleted
<1>3. step \in {"close"} \cup ToSet(DeleteSteps(cfg[k]))
  BY DeletionOrder DEF InboundNatSpecs, PublicIPSpecs
<1>4. step \in {"deleteRule", "deleteIP", "deleteDisks"} /\ (step # "deleteRule" => port[k] = 0)
  BY <1>1 DEF WalkInv
<1>5. step = "deleteDisks" => "ip" \notin az'[k]
  BY <1>1 DEF WalkInv, Specs, PublicIPSpecs, NICSpecs, DiskSpecs
<1> HIDE DEF step
<1> QED BY <1>0, <1>1, <1>2, <1>3, <1>4, <1>5, DropByParts DEF Types

LEMMA DeletePublicIPsGood ==
    ASSUME IndInv, NEW k \in Known, DeletePublicIPs(k)
    PROVE  Good(k)
<1>0. "deleteIP" \in AfterVM \ {"release", "deleteNICs"} /\ "deleteIP" \in Deletion
  BY DEF AfterVM, Deletion
<1>1. /\ k \in Machines /\ mem[k] \in Objects /\ Types /\ pc[k] = "deleteIP"
      /\ UNCHANGED <<objects, vm, ext, port, sets, skus, faults>>
      /\ vm[k] = "absent" /\ WalkInv(k) /\ "role" \notin az[k]
      /\ Deleted(k)
      /\ az' \in [Machines -> SUBSET Parts]
      /\ \A m \in Machines \ {k} : az'[m] = az[m]
      /\ az'[k] = az[k] \ PublicIPSpecs(cfg[k])
  BY <1>0, Awaited, PartsDropped DEF DeletePublicIPs
<1>2. cfg[k].publicIP
  BY <1>0, <1>1, Kept, Placed, DeletionOrder DEF PublicIPSpecs, Deletion
<1>3. Goto(k, "deleteDisks", mem[k])
  BY <1>1, <1>2, DeletionNext DEF Deleted
<1>4. "deleteDisks" \in {"close"} \cup ToSet(DeleteSteps(cfg[k]))
  BY DeletionOrder
<1>5. "ip" \notin az'[k] /\ port[k] = 0 /\ az'[k] \cap NICSpecs(cfg[k]) = {}
  BY <1>0, <1>1, <1>2 DEF WalkInv, PublicIPSpecs
<1> QED BY <1>0, <1>1, <1>3, <1>4, <1>5, DropByParts DEF Types

LEMMA DeleteDisksGood ==
    ASSUME IndInv, NEW k \in Known, DeleteDisks(k)
    PROVE  Good(k)
<1> DEFINE step == IF AvailabilitySet(cfg[k]) # "none" THEN "readSet" ELSE "release"
<1>0. "deleteDisks" \in AfterVM \ {"release", "deleteNICs"} /\ "deleteDisks" \in Deletion
  BY DEF AfterVM, Deletion
<1>1. /\ k \in Machines /\ mem[k] \in Objects /\ Types /\ pc[k] = "deleteDisks"
      /\ UNCHANGED <<objects, vm, ext, port, sets, skus, faults>>
      /\ vm[k] = "absent" /\ WalkInv(k) /\ "role" \notin az[k]
      /\ Deleted(k)
      /\ az' \in [Machines -> SUBSET Parts]
      /\ \A m \in Machines \ {k} : az'[m] = az[m]
      /\ az'[k] = az[k] \ DiskSpecs(cfg[k])
  BY <1>0, Awaited, PartsDropped DEF DeleteDisks
<1>2. Goto(k, step, mem[k])
  BY <1>1, DeletionNext DEF Deleted
<1>3. step \in {"close"} \cup ToSet(DeleteSteps(cfg[k]))
  BY DeletionOrder
<1>4. az'[k] = {} /\ port[k] = 0
  <2>1. az[k] \cap NICSpecs(cfg[k]) = {} /\ "ip" \notin az[k] /\ port[k] = 0
    BY <1>0, <1>1 DEF WalkInv
  <2>2. az[k] \subseteq Specs(cfg[k])
    BY <1>1 DEF WalkInv
  <2> QED BY <1>1, <2>1, <2>2 DEF Specs, PublicIPSpecs
<1>5. step \in {"readSet", "release"}
  OBVIOUS
<1>6. step = "release" => \A s \in sets' : AvailabilitySet(cfg[k]) # s
  BY <1>1 DEF IndInv, TypeOK
<1> HIDE DEF step
<1> QED BY <1>0, <1>1, <1>2, <1>3, <1>4, <1>5, <1>6, DropByParts DEF Types

LEMMA DeleteRuleGood ==
    ASSUME IndInv, NEW k \in Known, DeleteRule(k)
    PROVE  Good(k)
<1> DEFINE step == IF cfg[k].publicIP THEN "deleteIP" ELSE "deleteDisks"
<1>0. /\ k \in Machines /\ mem[k] \in Objects /\ Types /\ WalkInv(k)
      /\ pc[k] = "deleteRule" /\ pc[k] \in Deletion /\ pc[k] \in AfterVM \ {"release", "deleteNICs"}
      /\ UNCHANGED <<objects, az, vm, ext, sets, skus, faults>>
  BY Kept DEF DeleteRule, Deletion, AfterVM, IndInv
<1>1. vm[k] = "absent" /\ "role" \notin az[k] /\ az[k] \cap NICSpecs(cfg[k]) = {}
  BY <1>0 DEF WalkInv
<1>2. "nic" \notin az[k]
  BY <1>1 DEF NICSpecs
<1>3. Deleted(k) /\ port' = [port EXCEPT ![k] = 0]
  BY <1>2, Awaited DEF DeleteRule
<1>4. cfg[k].controlPlane
  BY <1>0, Kept, Placed, DeletionOrder DEF InboundNatSpecs, Deletion
<1>5. Goto(k, step, mem[k])
  BY <1>0, <1>3, <1>4, DeletionNext DEF Deleted
<1>6. step \in {"close"} \cup ToSet(DeleteSteps(cfg[k]))
  BY DeletionOrder DEF PublicIPSpecs
<1>7. step \in {"deleteIP", "deleteDisks"} /\ (step = "deleteDisks" => "ip" \notin az[k])
  BY <1>0, <1>1 DEF WalkInv, Specs, PublicIPSpecs, NICSpecs, DiskSpecs
<1> HIDE DEF step
<1>8. /\ port' \in [Machines -> 0..NumPorts] /\ port'[k] = 0
      /\ \A m \in Machines \ {k} : port'[m] = port[m]
  BY <1>0, <1>3, NumPortsAssumption DEF Types
<1> QED BY <1>0, <1>1, <1>5, <1>6, <1>7, <1>8, DropByParts DEF Types

\* A machine in an availability set is responsible for it.
LEMMA MemberResponsible ==
    ASSUME IndInv, ~closing, NEW m \in Known, vm[m] # "absent"
    PROVE  Responsible(m)
<1>1. ObjectInv(m) /\ obj[m] \in Objects
  BY Kept
<1>2. Owned(m) # {}
  BY DEF Owned, ShouldDeleteIndividualResources
<1> QED BY <1>1, <1>2 DEF ObjectInv, Responsible

LEMMA ReadSetGood ==
    ASSUME IndInv, NEW k \in Known, ReadSet(k)
    PROVE  Good(k)
<1> DEFINE t == AvailabilitySet(cfg[k])
           empty == t \in sets /\ Members(t) = {}
           step == IF empty THEN "deleteSet" ELSE "release"
<1>0. /\ k \in Machines /\ mem[k] \in Objects /\ Types /\ WalkInv(k)
      /\ pc[k] = "readSet" /\ pc[k] \in Deletion /\ pc[k] \in AfterVM \ {"release", "deleteNICs"}
      /\ UNCHANGED <<objects, azure, faults>>
  BY Kept DEF ReadSet, Deletion, AfterVM, IndInv
<1>1. t # "none"
  BY <1>0, Kept, Placed
<1>2. vm[k] = "absent" /\ az[k] = {} /\ port[k] = 0
  BY <1>0 DEF WalkInv
<1>3. Goto(k, step, mem[k])
  BY <1>1, DeletionNext DEF ReadSet
<1>4. step \in {"deleteSet", "release"} /\ step \in {"close"} \cup ToSet(DeleteSteps(cfg[k]))
  BY <1>1, DeletionOrder
<1>5. ASSUME step = "release", ~closing, NEW s \in sets, t = s
      PROVE  \E m \in Known \ {k} : AvailabilitySet(cfg[m]) = s /\ Responsible(m)
  <2>1. Members(t) # {}
    BY <1>5
  <2>2. PICK m \in DOMAIN cfg : vm[m] # "absent" /\ AvailabilitySet(cfg[m]) = t
    BY <2>1 DEF Members
  <2>3. m \in Known \ {k}
    BY <1>2, <2>2 DEF Known
  <2> QED BY <1>5, <2>2, <2>3, MemberResponsible
<1>6. UNCHANGED <<az, vm, ext, port, sets, skus>>
  BY <1>0 DEF azure
<1>7. step = "release" => \A s \in sets' :
          closing \/ AvailabilitySet(cfg[k]) # s
              \/ \E m \in Known \ {k} : AvailabilitySet(cfg[m]) = s /\ Responsible(m)
  BY <1>5, <1>6
<1> HIDE DEF step, t, empty
<1> QED BY <1>0, <1>2, <1>3, <1>4, <1>6, <1>7, DropByParts DEF Types, AfterVM

LEMMA DeleteSetGood ==
    ASSUME IndInv, NEW k \in Known, DeleteSet(k)
    PROVE  Good(k)
<1> DEFINE t == AvailabilitySet(cfg[k])
<1>0. /\ k \in Machines /\ mem[k] \in Objects /\ Types /\ WalkInv(k)
      /\ pc[k] = "deleteSet" /\ pc[k] \in Deletion /\ pc[k] \in AfterVM \ {"release", "deleteNICs"}
      /\ UNCHANGED <<objects, az, vm, ext, port, skus, faults>>
  BY Kept DEF DeleteSet, Deletion, AfterVM, IndInv
<1>1. CASE Members(t) = {}
  <2>1. t # "none"
    BY <1>0, Kept, Placed
  <2>2. vm[k] = "absent" /\ az[k] = {} /\ port[k] = 0
    BY <1>0 DEF WalkInv
  <2>3. Goto(k, "release", mem[k])
    BY <1>0, <1>1, <2>1, DeletionNext DEF DeleteSet, Deleted
  <2>4. "release" \in {"close"} \cup ToSet(DeleteSteps(cfg[k]))
    BY DeletionOrder
  <2>5. sets' = sets \ {t}
    BY <1>1, Awaited DEF DeleteSet
  <2> QED BY <1>0, <2>2, <2>3, <2>4, <2>5, DropByParts DEF Types, AfterVM
<1>2. CASE Members(t) # {}
  <2>1. Goto(k, "close", mem[k]) /\ UNCHANGED sets
    BY <1>2 DEF DeleteSet
  <2> QED BY <1>0, <2>1, AbortGood DEF Types, azure
<1> QED BY <1>1, <1>2

-----------------------------------------------------------------------------
(* Steps that read or write the object *)

\* Steps that leave Azure alone: what remains to be shown.
LEMMA ObjectStep ==
    ASSUME IndInv, NEW k \in Known, UNCHANGED <<cfg, given, closing, azure>>,
           faults' \in 0..MaxFaults, Went(k),
           obj' \in [Machines -> Objects], \A m \in Machines \ {k} : obj'[m] = obj[m],
           pc'[k] \in Places(cfg[k]), ObjectInv(k)',
           \/ pc'[k] \notin AfterVM
           \/ pc'[k] = "release",
           ~closing /\ Responsible(k) => Responsible(k)',
           obj[k].failure => obj'[k].failure,
           Promise(k)
    PROVE  Good(k)
<1>1. k \in Machines /\ WalkInv(k) /\ Types
  BY Kept DEF IndInv
<1>2. UNCHANGED <<az, vm, ext, port, sets, skus>>
  BY DEF azure
<1>3. Types' /\ Elsewhere(k)
  BY <1>1, <1>2 DEF Types, Went, Elsewhere
<1>4. WalkInv(k)'
  BY <1>1, <1>2 DEF WalkInv, AfterVM
<1>5. SetStep(k)
  BY <1>2 DEF SetStep
<1>6. Owned(k)' = Owned(k)
  BY <1>2 DEF Owned, Present, ShouldDeleteIndividualResources
<1>7. FinalStep(k) /\ LossStep(k)
  BY <1>2, <1>6 DEF FinalStep, LossStep
<1>8. /\ given' \subseteq Machines \cup {"infrastructure"}
      /\ sets' \subseteq {"controlPlane", "deployment"}
  BY <1>2 DEF IndInv, TypeOK
<1> QED BY <1>3, <1>4, <1>5, <1>7, <1>8 DEF Good

LEMMA SameOwned ==
    ASSUME UNCHANGED <<cfg, closing, azure>>, NEW k
    PROVE  Owned(k)' = Owned(k)
  BY DEF azure, Owned, Present, ShouldDeleteIndividualResources

\* A patch keeps the deletion timestamp, and ends what has no finalizer any more.
LEMMA PatchedObject ==
    ASSUME NEW k, obj[k] \in Objects, NEW new \in Objects
    PROVE  /\ Patched(k, new) \in Objects
           /\ Patched(k, new).finalizer = new.finalizer
           /\ Patched(k, new).failure = new.failure
           /\ Patched(k, new).ready = new.ready
           /\ Patched(k, new).id = new.id
           /\ Patched(k, new).life = IF obj[k].life = "deleting" /\ ~new.finalizer
                                     THEN "gone" ELSE obj[k].life
  BY DEF Patched, Objects

LEMMA StartGood ==
    ASSUME IndInv, NEW k \in Known, Start(k)
    PROVE  Good(k)
<1>0. /\ k \in Machines /\ Types /\ obj[k] \in Objects /\ ObjectInv(k)
      /\ pc[k] = "idle" /\ UNCHANGED <<cfg, given, closing, obj, seen, azure, faults>>
  BY Kept DEF Start, objects, IndInv
<1> DEFINE step == IF obj[k].life = "deleting" THEN "deleting" ELSE "register"
<1>1. Went(k) /\ mem'[k] = obj[k] /\ pc'[k] = step
  BY <1>0 DEF Start, Went, Types, Normal, Deletion
<1>2. step \in Places(cfg[k])
  BY ReconcileOrder DEF Places
<1>3. obj[k].life # "gone" /\ (obj[k].life = "live" => ~obj[k].failure)
  BY DEF Start
<1>4. ObjectInv(k)'
  BY <1>0, <1>1, <1>3, SameOwned DEF ObjectInv, Normal, Deletion, AfterVM, Objects
<1>5. Promise(k)
  BY <1>0, SameOwned DEF Promise
<1>6. Responsible(k) => Responsible(k)'
  BY <1>0, <1>1 DEF Responsible
<1> QED BY <1>0, <1>1, <1>2, <1>4, <1>5, <1>6, ObjectStep DEF Types, AfterVM

LEMMA RegisterGood ==
    ASSUME IndInv, NEW k \in Known, Register(k)
    PROVE  Good(k)
<1>0. /\ k \in Machines /\ Types /\ obj[k] \in Objects /\ mem[k] \in Objects /\ ObjectInv(k)
      /\ pc[k] = "register" /\ UNCHANGED <<cfg, given, closing, azure, faults>>
      /\ Owned(k)' = Owned(k)
  BY Kept, SameOwned DEF Register, IndInv
<1>1. /\ mem[k].finalizer = obj[k].finalizer /\ ~mem[k].failure /\ ~obj[k].failure
  BY <1>0 DEF ObjectInv, Normal
<1>2. "close" \in Places(cfg[k])
  BY DEF Places
<1>3. CASE obj[k].life = "gone"
  <2>1. Goto(k, "close", mem[k]) /\ UNCHANGED obj
    BY <1>3 DEF Register
  <2>2. Went(k) /\ mem'[k] = mem[k] /\ pc'[k] = "close"
    BY <1>0, <2>1, GotoWent
  <2>3. ObjectInv(k)'
    BY <1>0, <1>1, <1>3, <2>1, <2>2 DEF ObjectInv, Normal, Deletion, AfterVM
  <2>4. Promise(k) /\ ~Responsible(k)
    BY <1>0, <1>3, <2>1 DEF Promise, Responsible
  <2> QED BY <1>0, <1>1, <1>2, <2>1, <2>2, <2>3, <2>4, ObjectStep DEF Types, AfterVM
<1>4. CASE obj[k].life # "gone"
  <2> DEFINE new == [mem[k] EXCEPT !.finalizer = TRUE]
  <2>1. new \in Objects /\ new.finalizer /\ new.finalizer = TRUE /\ ~new.failure /\ new.id = mem[k].id
    BY <1>0, <1>1 DEF Objects
  <2>2. /\ obj' = [obj EXCEPT ![k] = Patched(k, new)]
        /\ IF {"infrastructure", k} \subseteq given THEN Advance(k, new) ELSE Goto(k, "close", new)
    BY <1>4 DEF Register
  <2> HIDE DEF new
  <2>3. /\ obj' \in [Machines -> Objects] /\ (\A m \in Machines \ {k} : obj'[m] = obj[m])
        /\ obj'[k] = Patched(k, new)
    BY <1>0, <2>1, <2>2, PatchedObject DEF Types
  <2>4. /\ obj'[k].finalizer = TRUE /\ ~obj'[k].failure /\ obj'[k].id = new.id
        /\ obj'[k].life = obj[k].life
    BY <1>0, <2>1, <2>3, PatchedObject
  <2>5. Went(k) /\ mem'[k] = new /\ pc'[k] \in Normal \cup {"close"} /\ pc'[k] \in Places(cfg[k])
        /\ pc'[k] # "register"
    <3>1. CASE {"infrastructure", k} \subseteq given
      <4> DEFINE step == After(ReconcileSteps(cfg[k]), pc[k])
      <4>1. step \in ToSet(ReconcileSteps(cfg[k])) \ {"register"}
        BY <1>0, Kept, Placed, NormalNext DEF Normal
      <4>2. step \in Normal /\ step \in Places(cfg[k])
        BY <4>1, ReconcileOrder DEF Normal, Places
      <4>3. Goto(k, step, new)
        BY <2>2, <3>1 DEF Advance
      <4> HIDE DEF step
      <4> QED BY <1>0, <2>1, <4>1, <4>2, <4>3, GotoWent
    <3>2. CASE ~({"infrastructure", k} \subseteq given)
      <4>1. Goto(k, "close", new)
        BY <2>2, <3>2
      <4> QED BY <1>0, <1>2, <2>1, <4>1, GotoWent
    <3> QED BY <3>1, <3>2
  <2>6. ObjectInv(k)'
    BY <1>0, <1>4, <2>1, <2>4, <2>5 DEF ObjectInv, Normal, Deletion, AfterVM
  <2>7. Promise(k)
    <3>1. CASE obj[k].life = "live"
      BY <1>0, <2>4, <3>1 DEF Promise, Protected!Next, Protected!Protect
    <3>2. CASE obj[k].life = "deleting"
      <4>1. obj[k].finalizer /\ obj[k].finalizer \in BOOLEAN
        BY <1>0, <3>2 DEF ObjectInv, Objects
      <4>2. obj'[k].finalizer = obj[k].finalizer
        BY <2>4, <4>1
      <4> QED BY <1>0, <2>4, <3>2, <4>2 DEF Promise, Protected!Next, Protected!Dispose
    <3> QED BY <1>0, <1>4, <3>1, <3>2 DEF Objects
  <2>8. Responsible(k)'
    BY <1>4, <2>1, <2>4, <2>5 DEF Responsible, Normal
  <2> QED BY <1>0, <1>1, <2>3, <2>5, <2>6, <2>7, <2>8, ObjectStep DEF Types, AfterVM, Normal
<1> QED BY <1>3, <1>4

LEMMA StartDeleteGood ==
    ASSUME IndInv, NEW k \in Known, StartDelete(k)
    PROVE  Good(k)
<1>0. /\ k \in Machines /\ Types /\ obj[k] \in Objects /\ mem[k] \in Objects /\ ObjectInv(k)
      /\ pc[k] = "deleting" /\ UNCHANGED <<cfg, given, closing, mem, seen, azure, faults>>
      /\ obj' = [obj EXCEPT ![k] = Patched(k, mem[k])]
      /\ Owned(k)' = Owned(k)
  BY Kept, SameOwned DEF StartDelete, IndInv
<1>1. /\ obj[k].life = "deleting" /\ mem[k].finalizer /\ (obj[k].failure => mem[k].failure)
      /\ obj[k].finalizer
  BY <1>0 DEF ObjectInv, Deletion
<1>2. /\ obj' \in [Machines -> Objects] /\ (\A m \in Machines \ {k} : obj'[m] = obj[m])
      /\ obj'[k].life = "deleting" /\ obj'[k].finalizer = mem[k].finalizer
      /\ obj'[k].failure = mem[k].failure
  BY <1>0, <1>1, PatchedObject DEF Types
<1> DEFINE step == IF ShouldDeleteIndividualResources(k) THEN "deleteVM" ELSE "release"
<1>3. pc' = [pc EXCEPT ![k] = step]
  BY DeletionOrder DEF StartDelete
<1>4. step \in Places(cfg[k]) /\ step \in {"deleteVM", "release"} /\ (step = "release" => Owned(k) = {})
  BY DeletionOrder DEF Places, Owned
<1>40. ~closing => step # "release"
  BY DEF ShouldDeleteIndividualResources
<1> HIDE DEF step
<1>5. Went(k) /\ mem'[k] = mem[k] /\ pc'[k] = step
  BY <1>0, <1>3, <1>4 DEF Went, Types, Deletion, AfterVM
<1>6. ObjectInv(k)'
  BY <1>0, <1>1, <1>2, <1>4, <1>5 DEF ObjectInv, Normal, Deletion, AfterVM
<1>7. Promise(k)
  <2>1. obj[k].finalizer = obj'[k].finalizer
    BY <1>0, <1>1, <1>2 DEF Objects
  <2> QED BY <1>0, <1>1, <1>2, <2>1 DEF Promise, Protected!Next, Protected!Dispose
<1>8. ~closing => Responsible(k)'
  BY <1>1, <1>2, <1>4, <1>40, <1>5 DEF Responsible
<1> QED BY <1>0, <1>1, <1>2, <1>4, <1>5, <1>6, <1>7, <1>8, ObjectStep DEF Types, AfterVM

LEMMA RemoveFinalizerGood ==
    ASSUME IndInv, NEW k \in Known, RemoveFinalizer(k)
    PROVE  Good(k)
<1>0. /\ k \in Machines /\ Types /\ obj[k] \in Objects /\ mem[k] \in Objects /\ ObjectInv(k)
      /\ pc[k] = "release" /\ UNCHANGED <<cfg, given, closing, obj, azure, faults>>
      /\ Owned(k)' = Owned(k)
  BY Kept, SameOwned DEF RemoveFinalizer, IndInv, objects
<1>1. /\ obj[k].life = "deleting" /\ Owned(k) = {} /\ (obj[k].failure => mem[k].failure)
  BY <1>0 DEF ObjectInv, Deletion, AfterVM
<1> DEFINE new == [mem[k] EXCEPT !.finalizer = FALSE]
<1>2. new \in Objects /\ new.failure = mem[k].failure
  BY <1>0 DEF Objects
<1>3. Goto(k, "close", new)
  BY DEF RemoveFinalizer
<1> HIDE DEF new
<1>4. Went(k) /\ mem'[k] = new /\ pc'[k] = "close"
  BY <1>0, <1>2, <1>3, GotoWent
<1>5. ObjectInv(k)'
  BY <1>0, <1>1, <1>2, <1>4 DEF ObjectInv, Normal, Deletion, AfterVM
<1>6. Promise(k) /\ ~Responsible(k) /\ "close" \in Places(cfg[k])
  BY <1>0 DEF Promise, Responsible, Places
<1> QED BY <1>0, <1>4, <1>5, <1>6, ObjectStep DEF Types, AfterVM

LEMMA CloseGood ==
    ASSUME IndInv, NEW k \in Known, Close(k)
    PROVE  Good(k)
<1>0. /\ k \in Machines /\ Types /\ obj[k] \in Objects /\ mem[k] \in Objects /\ ObjectInv(k)
      /\ pc[k] = "close" /\ UNCHANGED <<cfg, given, closing, azure, faults>>
      /\ Goto(k, "idle", obj'[k])
      /\ Owned(k)' = Owned(k) /\ "idle" \in Places(cfg[k])
  BY Kept, SameOwned DEF Close, IndInv, Places
<1>1. obj[k].failure => mem[k].failure
  BY <1>0 DEF ObjectInv
<1>2. CASE obj[k].life = "gone"
  <2>1. UNCHANGED obj
    BY <1>2 DEF Close
  <2>2. Went(k) /\ mem'[k] = obj[k] /\ pc'[k] = "idle"
    BY <1>0, <2>1, GotoWent
  <2>3. ObjectInv(k)'
    BY <1>0, <2>1, <2>2 DEF ObjectInv, Normal, Deletion, AfterVM
  <2>4. Promise(k) /\ ~Responsible(k)
    BY <1>0, <1>2, <2>1 DEF Promise, Responsible
  <2> QED BY <1>0, <2>1, <2>2, <2>3, <2>4, ObjectStep DEF Types, AfterVM
<1>3. CASE obj[k].life # "gone"
  <2>1. obj' = [obj EXCEPT ![k] = Patched(k, mem[k])]
    BY <1>3 DEF Close
  <2>2. /\ obj' \in [Machines -> Objects] /\ (\A m \in Machines \ {k} : obj'[m] = obj[m])
        /\ obj'[k] \in Objects
        /\ obj'[k].finalizer = mem[k].finalizer /\ obj'[k].failure = mem[k].failure
        /\ obj'[k].life = IF obj[k].life = "deleting" /\ ~mem[k].finalizer THEN "gone" ELSE obj[k].life
    BY <1>0, <2>1, PatchedObject DEF Types
  <2>3. Went(k) /\ mem'[k] = obj'[k] /\ pc'[k] = "idle"
    BY <1>0, <2>2, GotoWent
  <2>4. \/ mem[k].finalizer = obj[k].finalizer
        \/ obj[k].life = "deleting" /\ Owned(k) = {}
    BY <1>0, <1>3 DEF ObjectInv
  <2>5. obj[k].life = "deleting" => obj[k].finalizer = TRUE
    BY <1>0 DEF ObjectInv, Objects
  <2>6. ObjectInv(k)'
    BY <1>0, <1>3, <2>2, <2>3, <2>4, <2>5 DEF ObjectInv, Normal, Deletion, AfterVM, Objects
  <2>7. Promise(k)
    <3>1. CASE mem[k].finalizer = obj[k].finalizer
      <4>1. obj'[k].life = obj[k].life /\ obj'[k].finalizer = obj[k].finalizer
        BY <2>2, <2>5, <3>1
      <4> QED BY <1>0, <1>3, <4>1 DEF Promise, Protected!Next, Protected!Dispose
    <3>2. CASE mem[k].finalizer # obj[k].finalizer
      <4>1. /\ obj[k].life = "deleting" /\ Owned(k) = {}
            /\ obj'[k].life = "gone" /\ obj'[k].finalizer = FALSE
        BY <1>0, <2>2, <2>4, <2>5, <3>2 DEF Objects
      <4> QED BY <1>0, <4>1 DEF Promise, Protected!Next, Protected!Release
    <3> QED BY <3>1, <3>2
  <2>8. Responsible(k) => Responsible(k)'
    BY <1>0, <2>2, <2>3 DEF Responsible
  <2> QED BY <1>0, <1>1, <2>2, <2>3, <2>6, <2>7, <2>8, ObjectStep DEF Types, AfterVM
<1> QED BY <1>2, <1>3

LEMMA DeleteMachineGood ==
    ASSUME IndInv, NEW k \in Known, DeleteMachine(k)
    PROVE  Good(k)
<1>0. /\ k \in Machines /\ Types /\ obj[k] \in Objects /\ ObjectInv(k)
      /\ UNCHANGED <<cfg, given, closing, mem, pc, seen, azure, faults>>
      /\ obj[k].life = "live"
      /\ obj' = [obj EXCEPT ![k].life = IF obj[k].finalizer THEN "deleting" ELSE "gone"]
      /\ Owned(k)' = Owned(k) /\ pc[k] \in Places(cfg[k])
  BY Kept, SameOwned DEF DeleteMachine, IndInv
<1>1. /\ obj' \in [Machines -> Objects] /\ (\A m \in Machines \ {k} : obj'[m] = obj[m])
      /\ obj'[k].life = (IF obj[k].finalizer THEN "deleting" ELSE "gone")
      /\ obj'[k].finalizer = obj[k].finalizer
      /\ obj'[k].failure = obj[k].failure
      /\ obj'[k].id = obj[k].id
  BY <1>0 DEF Types, Objects
<1>2. Went(k)
  BY <1>0 DEF Went, Types
<1>3. pc[k] \notin Deletion
  BY <1>0 DEF ObjectInv
<1>4. ObjectInv(k)'
  BY <1>0, <1>1, <1>3 DEF ObjectInv, Normal, Deletion, AfterVM
<1>5. Promise(k)
  BY <1>0, <1>1 DEF Promise, Protected!Next, Protected!RequestDeletion
<1>6. Responsible(k) => Responsible(k)'
  BY <1>0, <1>1 DEF Responsible
<1> QED BY <1>0, <1>1, <1>2, <1>3, <1>4, <1>5, <1>6, ObjectStep DEF Types, Deletion

-----------------------------------------------------------------------------
(* Faults, and what Azure does *)

LEMMA CallFailsGood ==
    ASSUME IndInv, NEW k \in Known, CallFails(k), faults' \in 0..MaxFaults
    PROVE  Good(k)
<1>0. /\ k \in Machines /\ Types /\ mem[k] \in Objects /\ UNCHANGED <<objects, azure>>
      /\ Goto(k, "close", mem[k])
      /\ pc[k] \in (Normal \ {"register"}) \cup Deletion
  BY Kept, Placed DEF CallFails, IndInv
<1>1. CASE pc[k] \in Deletion
  BY <1>0, <1>1, AbortGood
<1>2. CASE pc[k] \in Normal \ {"register"}
  <2>1. Went(k) /\ mem'[k] = mem[k] /\ pc'[k] = "close"
    BY <1>0, GotoWent
  <2>2. WentOn(k)
    BY <2>1 DEF WentOn
  <2>3. WalkStep(k)
    BY <1>0, <1>2, <2>2, WalkOnly DEF Types, azure
  <2> QED BY <2>3, WalkIsGood
<1> QED BY <1>0, <1>1, <1>2

LEMMA ListSKUsFailsGood ==
    ASSUME IndInv, NEW k \in Known, ListSKUsFails(k), faults' \in 0..MaxFaults
    PROVE  Good(k)
<1>0. Types /\ UNCHANGED <<objects, azure>> /\ pc[k] \in Normal \ {"register"}
  BY DEF ListSKUsFails, IndInv, Normal
<1>1. WentOn(k)
  BY FailWent DEF ListSKUsFails
<1>2. WalkStep(k)
  BY <1>0, <1>1, WalkOnly DEF Types, azure
<1> QED BY <1>2, WalkIsGood

LEMMA ResponseLostGood ==
    ASSUME IndInv, NEW k \in Known, ResponseLost(k), faults' \in 0..MaxFaults
    PROVE  Good(k)
<1>0. /\ k \in Machines /\ Types /\ mem[k] \in Objects
      /\ UNCHANGED <<objects, ext, port, sets, skus>>
      /\ Goto(k, "close", mem[k]) /\ pc[k] \in Normal \ {"register"}
      /\ vm[k] = "absent" /\ ~mem[k].id
      /\ vm' = [vm EXCEPT ![k] = "Creating"]
      /\ az' = [az EXCEPT ![k] = @ \cup DiskSpecs(cfg[k])]
  BY Kept DEF ResponseLost, IndInv, Normal
<1>1. Went(k) /\ mem'[k] = mem[k] /\ pc'[k] = "close"
  BY <1>0, GotoWent
<1>2. WentOn(k)
  BY <1>1 DEF WentOn
<1>3. WalkStep(k)
  BY <1>0, <1>2, CreatedWalk DEF Types
<1> QED BY <1>3, WalkIsGood

LEMMA PatchFailsGood ==
    ASSUME IndInv, NEW k \in Known, PatchFails(k), faults' \in 0..MaxFaults
    PROVE  Good(k)
<1>0. /\ k \in Machines /\ Types /\ mem[k] \in Objects /\ obj[k] \in Objects /\ ObjectInv(k)
      /\ UNCHANGED <<cfg, given, closing, obj, azure>> /\ Owned(k)' = Owned(k)
      /\ {"idle", "close"} \subseteq Places(cfg[k])
  BY Kept, SameOwned DEF PatchFails, IndInv, objects, Places
<1>1. CASE pc[k] = "deleting"
  <2>1. Goto(k, "close", mem[k]) /\ UNCHANGED <<objects, azure>> /\ pc[k] \in Deletion
    BY <1>1 DEF PatchFails, Deletion
  <2> QED BY <2>1, AbortGood
<1>2. CASE pc[k] = "register"
  <2>1. Goto(k, "close", mem[k])
    BY <1>2 DEF PatchFails
  <2>2. Went(k) /\ mem'[k] = mem[k] /\ pc'[k] = "close"
    BY <1>0, <2>1, GotoWent
  <2>3. ObjectInv(k)'
    BY <1>0, <1>2, <2>2 DEF ObjectInv, Normal, Deletion, AfterVM
  <2>4. Promise(k) /\ (Responsible(k) => Responsible(k)')
    BY <1>0, <1>2, <2>2 DEF Promise, Responsible, ObjectInv
  <2> QED BY <1>0, <2>2, <2>3, <2>4, ObjectStep DEF Types, AfterVM
<1>3. CASE pc[k] = "close"
  <2>1. Goto(k, "idle", obj[k])
    BY <1>3 DEF PatchFails
  <2>2. Went(k) /\ mem'[k] = obj[k] /\ pc'[k] = "idle"
    BY <1>0, <2>1, GotoWent
  <2>3. ObjectInv(k)'
    BY <1>0, <2>2 DEF ObjectInv, Normal, Deletion, AfterVM
  <2>4. Promise(k) /\ (Responsible(k) => Responsible(k)')
    BY <1>0, <2>2 DEF Promise, Responsible
  <2> QED BY <1>0, <2>2, <2>3, <2>4, ObjectStep DEF Types, AfterVM
<1> QED BY <1>1, <1>2, <1>3 DEF PatchFails

\* What Azure does to a virtual machine, whether or not the cluster has it.
AzureStep(k) ==
    /\ UNCHANGED <<cfg, given, closing, obj, mem, pc, seen, port, sets, skus>>
    /\ faults' \in 0..MaxFaults
    /\ ext' \in [Machines -> VMStates]
    /\ az' \in [Machines -> SUBSET Parts] /\ vm' \in [Machines -> VMStates]
    /\ \A m \in Machines \ {k} : az'[m] = az[m] /\ vm'[m] = vm[m]
    /\ \/ az'[k] = az[k] /\ (vm'[k] = "absent" <=> vm[k] = "absent")
       \/ az'[k] = az[k] \ {"role"} /\ vm'[k] = "absent"

LEMMA AzureStepGood ==
    ASSUME IndInv, NEW k \in Known, AzureStep(k)
    PROVE  Good(k)
<1>0. /\ k \in Machines /\ Types /\ obj[k] \in Objects /\ ObjectInv(k) /\ WalkInv(k)
      /\ pc[k] \in Places(cfg[k])
      /\ UNCHANGED <<cfg, given, closing, obj, mem, pc, seen, port, sets, skus>>
  BY Kept DEF AzureStep, IndInv
<1>1. Types' /\ Elsewhere(k)
  BY <1>0 DEF AzureStep, Types, Elsewhere
<1>2. Owned(k)' \subseteq Owned(k)
  BY <1>0 DEF AzureStep, Owned, Present, ShouldDeleteIndividualResources
<1>3. ObjectInv(k)'
  BY <1>0, <1>2 DEF ObjectInv
<1>4. WalkInv(k)'
  BY <1>0 DEF AzureStep, WalkInv
<1>5. SetStep(k)
  BY <1>0 DEF SetStep, Responsible
<1>6. Promise(k)
  <2>1. CASE obj[k].life = "gone"
    <3>1. Owned(k) = {}
      BY <1>0, <2>1 DEF ObjectInv
    <3> QED BY <1>0, <1>2, <3>1 DEF Promise
  <2>2. CASE obj[k].life # "gone"
    BY <1>0, <1>2, <2>2 DEF Promise, Protected!Next, Protected!Dispose
  <2> QED BY <2>1, <2>2
<1>7. FinalStep(k) /\ LossStep(k)
  BY <1>0, <1>2 DEF AzureStep, FinalStep, LossStep
<1>8. /\ given' \subseteq Machines \cup {"infrastructure"}
      /\ sets' \subseteq {"controlPlane", "deployment"}
  BY <1>0 DEF IndInv, TypeOK
<1> QED BY <1>0, <1>1, <1>3, <1>4, <1>5, <1>6, <1>7, <1>8 DEF Good

LEMMA AzureActs ==
    ASSUME IndInv, NEW k \in Machines,
           VMSettles(k) \/ ExtensionSettles(k) \/ (VMVanishes(k) /\ faults' \in 0..MaxFaults)
    PROVE  AzureStep(k)
<1>0. Types
  BY DEF IndInv
<1>1. CASE VMSettles(k)
  <2>1. /\ vm[k] = "Creating"
        /\ UNCHANGED <<objects, mem, pc, seen, az, ext, port, sets, skus, faults>>
    BY <1>1 DEF VMSettles
  <2>2. PICK s \in {"Succeeded", "Failed"} : vm' = [vm EXCEPT ![k] = s]
    BY <1>1 DEF VMSettles
  <2> QED BY <1>0, <2>1, <2>2 DEF AzureStep, Types, VMStates, objects
<1>2. CASE ExtensionSettles(k)
  <2>1. UNCHANGED <<objects, mem, pc, seen, az, vm, port, sets, skus, faults>>
    BY <1>2 DEF ExtensionSettles
  <2>2. PICK s \in {"Succeeded", "Failed"} : ext' = [ext EXCEPT ![k] = s]
    BY <1>2 DEF ExtensionSettles
  <2> QED BY <1>0, <2>1, <2>2 DEF AzureStep, Types, VMStates, objects
<1>3. CASE VMVanishes(k) /\ faults' \in 0..MaxFaults
  BY <1>0, <1>3 DEF VMVanishes, VMRemoved, AzureStep, Types, VMStates, objects
<1> QED BY <1>1, <1>2, <1>3

-----------------------------------------------------------------------------
(* Every step of the system *)

StepGood ==
    /\ IndInv'
    /\ \A m \in Known : Promise(m) /\ FinalStep(m)
    /\ \A m \in Machines : LossStep(m)

\* What does not change for a machine keeps its invariant and its promises.
LEMMA SameMachine ==
    ASSUME IndInv, NEW m \in Known, UNCHANGED <<cfg, closing>>,
           obj'[m] = obj[m], mem'[m] = mem[m], pc'[m] = pc[m],
           az'[m] = az[m], vm'[m] = vm[m], port'[m] = port[m]
    PROVE  /\ ObjectInv(m)' /\ WalkInv(m)' /\ Promise(m) /\ FinalStep(m) /\ LossStep(m)
           /\ Responsible(m)' = Responsible(m)
<1>1. ObjectInv(m) /\ WalkInv(m)
  BY Kept
<1>2. Owned(m)' = Owned(m)
  BY DEF Owned, Present, ShouldDeleteIndividualResources
<1>3. ObjectInv(m)'
  BY <1>1, <1>2 DEF ObjectInv
<1>4. WalkInv(m)'
  BY <1>1 DEF WalkInv
<1>5. Promise(m) /\ FinalStep(m) /\ LossStep(m)
  BY <1>2 DEF Promise, FinalStep, LossStep
<1>6. Responsible(m)' = Responsible(m)
  BY DEF Responsible
<1> QED BY <1>3, <1>4, <1>5, <1>6

LEMMA TypesKept ==
    ASSUME IndInv, UNCHANGED <<cfg, closing>>, Types',
           given' \subseteq Machines \cup {"infrastructure"},
           sets' \subseteq {"controlPlane", "deployment"},
           \A m \in Machines : pc'[m] \in Places(cfg[m])
    PROVE  TypeOK'
  BY DEF IndInv, TypeOK, Types, Places, Steps, VMStates

LEMMA PlacesNow ==
    ASSUME IndInv
    PROVE  \A m \in Machines : pc[m] \in Places(cfg[m])
  BY DEF IndInv, TypeOK, Places, Steps

LEMMA GoodStep ==
    ASSUME IndInv, NEW k \in Known, Good(k)
    PROVE  StepGood
<1>0. k \in Machines /\ UNCHANGED <<cfg, closing>> /\ Types' /\ Known' = Known
  BY Kept DEF Good, Known
<1>1. \A m \in Machines : pc'[m] \in Places(cfg[m])
  BY PlacesNow DEF Good, Elsewhere
<1>2. TypeOK'
  BY <1>0, <1>1, TypesKept DEF Good
<1>3. Absent'
  BY <1>0 DEF Absent, Good, Elsewhere, IndInv
<1>4. ASSUME NEW m \in Known, m # k
      PROVE  /\ ObjectInv(m)' /\ WalkInv(m)' /\ Promise(m) /\ FinalStep(m) /\ LossStep(m)
             /\ Responsible(m)' = Responsible(m)
  <2>1. m \in Machines
    BY Kept
  <2> QED BY <1>0, <1>4, <2>1, SameMachine DEF Good, Elsewhere
<1>5. MachinesInv'
  BY <1>0, <1>4 DEF MachinesInv, Good
<1>6. SetInv'
  <2> SUFFICES ASSUME ~closing, NEW s \in sets'
               PROVE  \E m \in Known : AvailabilitySet(cfg[m]) = s /\ Responsible(m)'
    BY <1>0 DEF SetInv
  <2>0. SetStep(k)
    BY DEF Good
  <2>1. ASSUME NEW m \in Known \ {k}, AvailabilitySet(cfg[m]) = s, Responsible(m)
        PROVE  \E n \in Known : AvailabilitySet(cfg[n]) = s /\ Responsible(n)'
    BY <1>4, <2>1
  <2>2. CASE s \in sets /\ (AvailabilitySet(cfg[k]) # s \/ ~Responsible(k))
    <3>1. PICK m \in Known : AvailabilitySet(cfg[m]) = s /\ Responsible(m)
      BY <2>2 DEF IndInv, SetInv
    <3>2. m # k
      BY <2>2, <3>1
    <3> QED BY <2>1, <3>1, <3>2
  <2>3. CASE AvailabilitySet(cfg[k]) = s /\ Responsible(k)'
    BY <2>3
  <2>4. CASE \E m \in Known \ {k} : AvailabilitySet(cfg[m]) = s /\ Responsible(m)
    BY <2>1, <2>4
  <2> QED BY <2>0, <2>2, <2>3, <2>4 DEF SetStep
<1>7. \A m \in Known : Promise(m) /\ FinalStep(m)
  BY <1>4 DEF Good
<1>8. \A m \in Machines : LossStep(m)
  BY DEF Good, Elsewhere, LossStep
<1> QED BY <1>0, <1>2, <1>3, <1>5, <1>6, <1>7, <1>8 DEF StepGood, IndInv

\* Azure acts on a machine that the cluster does not have.
LEMMA StrangerStep ==
    ASSUME IndInv, NEW k \in Machines \ Known, AzureStep(k)
    PROVE  StepGood
<1>0. /\ UNCHANGED <<cfg, given, closing, obj, mem, pc, seen, port, sets, skus>>
      /\ Known' = Known /\ Types
  BY DEF AzureStep, Known, IndInv
<1>1. Types'
  BY <1>0 DEF AzureStep, Types
<1>2. TypeOK'
  BY <1>0, <1>1, PlacesNow, TypesKept DEF IndInv, TypeOK
<1>3. Absent'
  BY <1>0 DEF Absent, IndInv
<1>4. ASSUME NEW m \in Known
      PROVE  /\ ObjectInv(m)' /\ WalkInv(m)' /\ Promise(m) /\ FinalStep(m)
             /\ Responsible(m)' = Responsible(m)
  <2>1. m \in Machines \ {k}
    BY Kept
  <2> QED BY <1>0, <2>1, SameMachine DEF AzureStep
<1>5. MachinesInv' /\ SetInv'
  BY <1>0, <1>4 DEF MachinesInv, SetInv, IndInv
<1>6. \A m \in Machines : LossStep(m)
  BY DEF AzureStep, LossStep, IndInv, Absent
<1> QED BY <1>0, <1>1, <1>2, <1>3, <1>4, <1>5, <1>6 DEF StepGood, IndInv

LEMMA ProvideStep ==
    ASSUME IndInv, NEW g \in Machines \cup {"infrastructure"}, Provide(g)
    PROVE  StepGood
<1>0. /\ UNCHANGED <<cfg, closing, obj, mem, pc, seen, az, vm, ext, port, sets, skus, faults>>
      /\ Known' = Known /\ Types /\ given' = given \cup {g}
  BY DEF Provide, azure, Known, IndInv
<1>1. Types'
  BY <1>0 DEF Types
<1>2. TypeOK'
  BY <1>0, <1>1, PlacesNow, TypesKept DEF IndInv, TypeOK
<1>3. Absent'
  BY <1>0 DEF Absent, IndInv
<1>4. ASSUME NEW m \in Known
      PROVE  /\ ObjectInv(m)' /\ WalkInv(m)' /\ Promise(m) /\ FinalStep(m)
             /\ Responsible(m)' = Responsible(m)
  BY <1>0, SameMachine
<1>5. MachinesInv' /\ SetInv'
  BY <1>0, <1>4 DEF MachinesInv, SetInv, IndInv
<1>6. \A m \in Machines : LossStep(m)
  BY <1>0 DEF LossStep
<1> QED BY <1>0, <1>1, <1>2, <1>3, <1>4, <1>5, <1>6 DEF StepGood, IndInv

\* The group of a machine may take over its resources.
LEMMA DeleteClusterStep ==
    ASSUME IndInv, DeleteCluster
    PROVE  StepGood
<1>0. /\ UNCHANGED <<cfg, given, obj, mem, pc, seen, az, vm, ext, port, sets, skus, faults>>
      /\ Known' = Known /\ Types /\ closing' = TRUE
  BY DEF DeleteCluster, azure, Known, IndInv
<1>1. Types'
  BY <1>0 DEF Types
<1>2. TypeOK'
  BY <1>0 DEF IndInv, TypeOK, Steps
<1>3. Absent' /\ SetInv'
  BY <1>0 DEF Absent, SetInv, IndInv
<1>4. ASSUME NEW m \in Known
      PROVE  ObjectInv(m)' /\ WalkInv(m)' /\ Promise(m) /\ FinalStep(m)
  <2>0. ObjectInv(m) /\ WalkInv(m)
    BY Kept
  <2>1. Owned(m)' \subseteq Owned(m)
    BY <1>0 DEF Owned, Present, ShouldDeleteIndividualResources
  <2>2. ObjectInv(m)'
    BY <1>0, <2>0, <2>1 DEF ObjectInv
  <2>3. WalkInv(m)'
    BY <1>0, <2>0 DEF WalkInv
  <2>4. Promise(m)
    <3>1. CASE obj[m].life = "gone"
      <4>1. Owned(m) = {}
        BY <2>0, <3>1 DEF ObjectInv
      <4> QED BY <1>0, <2>1, <4>1 DEF Promise
    <3>2. CASE obj[m].life # "gone"
      BY <1>0, <2>1, <3>2 DEF Promise, Protected!Next, Protected!Dispose
    <3> QED BY <3>1, <3>2
  <2>5. FinalStep(m)
    BY <1>0, <2>1 DEF FinalStep
  <2> QED BY <2>2, <2>3, <2>4, <2>5
<1>5. MachinesInv'
  BY <1>0, <1>4 DEF MachinesInv
<1>6. \A m \in Machines : LossStep(m)
  BY <1>0 DEF LossStep
<1> QED BY <1>0, <1>1, <1>2, <1>3, <1>4, <1>5, <1>6 DEF StepGood, IndInv

LEMMA RestartStep ==
    ASSUME IndInv, Restart, faults' \in 0..MaxFaults
    PROVE  StepGood
<1>0. /\ UNCHANGED <<cfg, given, closing, obj, az, vm, ext, port, sets>>
      /\ mem' = obj /\ pc' = [m \in Machines |-> "idle"]
      /\ seen' = [m \in Machines |-> {}] /\ skus' = FALSE
      /\ Known' = Known /\ Types
  BY DEF Restart, objects, Known, IndInv
<1>1. Types'
  BY <1>0 DEF Types
<1>2. TypeOK'
  <2>1. \A m \in Machines : pc'[m] \in Places(cfg[m])
    BY <1>0 DEF Places
  <2> QED BY <1>0, <1>1, <2>1, TypesKept DEF IndInv, TypeOK
<1>3. Absent'
  BY <1>0 DEF Absent, IndInv
<1>4. ASSUME NEW m \in Known
      PROVE  /\ ObjectInv(m)' /\ WalkInv(m)' /\ Promise(m) /\ FinalStep(m)
             /\ Responsible(m) => Responsible(m)'
  <2>0. m \in Machines /\ ObjectInv(m) /\ WalkInv(m)
    BY Kept
  <2>1. Owned(m)' = Owned(m)
    BY <1>0 DEF Owned, Present, ShouldDeleteIndividualResources
  <2>2. pc'[m] = "idle"
    BY <1>0, <2>0
  <2>3. ObjectInv(m)'
    BY <1>0, <2>0, <2>1, <2>2 DEF ObjectInv, Normal, Deletion, AfterVM
  <2>4. WalkInv(m)'
    BY <1>0, <2>0, <2>2 DEF WalkInv, AfterVM
  <2>5. Promise(m) /\ FinalStep(m) /\ (Responsible(m) => Responsible(m)')
    BY <1>0, <2>1, <2>2 DEF Promise, FinalStep, Responsible
  <2> QED BY <2>3, <2>4, <2>5
<1>5. MachinesInv' /\ SetInv'
  BY <1>0, <1>4 DEF MachinesInv, SetInv, IndInv
<1>6. \A m \in Machines : LossStep(m)
  BY <1>0 DEF LossStep
<1> QED BY <1>0, <1>1, <1>2, <1>3, <1>4, <1>5, <1>6 DEF StepGood, IndInv

\* Only the machines of the cluster are reconciled, deleted or meet a fault.
LEMMA OnlyKnown ==
    ASSUME IndInv, NEW m \in Machines, obj[m].life # "gone" \/ pc[m] # "idle"
    PROVE  m \in Known
  BY DEF IndInv, Absent

LEMMA ReconcileStep ==
    ASSUME IndInv, NEW m \in Machines, Reconcile(m)
    PROVE  m \in Known /\ Good(m)
<1>1. m \in Known
  <2>1. obj[m].life # "gone" \/ pc[m] # "idle"
    BY DEF Reconcile, Start, Register, ReconcilePublicIPs, ReadRules, PutRule,
           ReconcileNetworkInterfaces, ReconcileAvailabilitySets, ReconcileVirtualMachines,
           ReconcileRoleAssignments, ReconcileVMExtensions, SetReady, StartDelete, DeleteVM,
           DeleteNetworkInterfaces, DeleteRule, DeletePublicIPs, DeleteDisks, DeleteParts, ReadSet,
           DeleteSet, RemoveFinalizer, Close
  <2> QED BY <2>1, OnlyKnown
<1>2. CASE Start(m) \/ Register(m) \/ StartDelete(m) \/ RemoveFinalizer(m) \/ Close(m)
  BY <1>1, <1>2, StartGood, RegisterGood, StartDeleteGood, RemoveFinalizerGood, CloseGood
<1>3. CASE \/ ReconcilePublicIPs(m) \/ ReadRules(m) \/ PutRule(m)
           \/ ReconcileNetworkInterfaces(m) \/ ReconcileAvailabilitySets(m)
           \/ ReconcileVirtualMachines(m) \/ ReconcileRoleAssignments(m)
           \/ ReconcileVMExtensions(m) \/ SetReady(m)
  <2>1. WalkStep(m)
    BY <1>1, <1>3, PublicIPsWalk, ReadRulesWalk, PutRuleWalk, NetworkInterfacesWalk,
       AvailabilitySetsWalk, VirtualMachinesWalk, RoleAssignmentsWalk, VMExtensionsWalk, SetReadyWalk
  <2> QED BY <1>1, <2>1, WalkIsGood
<1>4. CASE \/ DeleteVM(m) \/ DeleteNetworkInterfaces(m) \/ DeleteRule(m) \/ DeletePublicIPs(m)
           \/ DeleteDisks(m) \/ ReadSet(m) \/ DeleteSet(m)
  BY <1>1, <1>4, DeleteVMGood, DeleteNetworkInterfacesGood, DeleteRuleGood, DeletePublicIPsGood,
     DeleteDisksGood, ReadSetGood, DeleteSetGood
<1> QED BY <1>1, <1>2, <1>3, <1>4 DEF Reconcile

LEMMA FaultStep ==
    ASSUME IndInv, Fault
    PROVE  StepGood
<1>1. faults' \in 0..MaxFaults
  BY MaxFaultsAssumption DEF Fault, IndInv, Types
<1>2. CASE Restart
  BY <1>1, <1>2, RestartStep
<1>3. ASSUME NEW m \in Machines,
             CallFails(m) \/ ListSKUsFails(m) \/ ResponseLost(m) \/ PatchFails(m)
      PROVE  StepGood
  <2>1. m \in Known
    <3>1. pc[m] # "idle"
      BY <1>3 DEF CallFails, ListSKUsFails, ResponseLost, PatchFails
    <3> QED BY <3>1, OnlyKnown
  <2>2. Good(m)
    BY <1>1, <1>3, <2>1, CallFailsGood, ListSKUsFailsGood, ResponseLostGood, PatchFailsGood
  <2> QED BY <2>1, <2>2, GoodStep
<1>4. ASSUME NEW m \in Machines, VMVanishes(m)
      PROVE  StepGood
  <2>1. AzureStep(m)
    BY <1>1, <1>4, AzureActs
  <2> QED BY <2>1, AzureStepGood, GoodStep, StrangerStep
<1> QED BY <1>2, <1>3, <1>4 DEF Fault

LEMMA NextStep ==
    ASSUME IndInv, Next
    PROVE  StepGood
<1>1. ASSUME NEW m \in Machines, Reconcile(m)
      PROVE  StepGood
  BY <1>1, ReconcileStep, GoodStep
<1>2. ASSUME NEW m \in Machines, DeleteMachine(m)
      PROVE  StepGood
  <2>1. m \in Known
    BY <1>2, OnlyKnown DEF DeleteMachine
  <2> QED BY <1>2, <2>1, DeleteMachineGood, GoodStep
<1>3. ASSUME NEW m \in Machines, VMSettles(m) \/ ExtensionSettles(m)
      PROVE  StepGood
  <2>1. AzureStep(m)
    BY <1>3, AzureActs
  <2> QED BY <2>1, AzureStepGood, GoodStep, StrangerStep
<1>4. CASE Settle
  BY <1>3, <1>4, ProvideStep DEF Settle
<1> QED BY <1>1, <1>2, <1>4, DeleteClusterStep, FaultStep DEF Next

LEMMA StutterStep ==
    ASSUME IndInv, UNCHANGED vars
    PROVE  IndInv'
<1>1. UNCHANGED <<cfg, given, closing, obj, mem, pc, seen, az, vm, ext, port, sets, skus, faults>>
  BY DEF vars
<1> QED BY <1>1 DEF IndInv, TypeOK, Steps, Types, Absent, MachinesInv, ObjectInv, WalkInv, SetInv,
               Known, Responsible, Owned, Present, ShouldDeleteIndividualResources

LEMMA Initial == Init => IndInv
<1> SUFFICES ASSUME Init PROVE IndInv
  OBVIOUS
<1>0. obj \in [Machines -> Objects] /\ mem \in [Machines -> Objects]
  <2>1. ASSUME NEW l \in {"live", "gone"}
        PROVE  [life |-> l, finalizer |-> FALSE, failure |-> FALSE, ready |-> FALSE, id |-> FALSE]
                   \in Objects
    BY DEF Objects
  <2> QED BY <2>1 DEF Init
<1>00. 0 \in 0..NumPorts /\ 0 \in 0..MaxFaults
  BY NumPortsAssumption, MaxFaultsAssumption
<1>1. Types
  BY <1>0, <1>00 DEF Init, Types, VMStates
<1>2. TypeOK
  BY <1>1 DEF Init, TypeOK, Types, VMStates
<1>3. Absent
  BY DEF Init, Absent, Known
<1>4. ASSUME NEW m \in Known PROVE ObjectInv(m) /\ WalkInv(m)
  <2>1. m \in Machines
    BY <1>2, Configs
  <2>2. /\ pc[m] = "idle" /\ az[m] = {} /\ vm[m] = "absent" /\ port[m] = 0
        /\ obj[m].life = "live" /\ ~obj[m].finalizer
    BY <2>1 DEF Init, Known
  <2>3. Owned(m) = {}
    BY <2>2 DEF Owned, Present
  <2> QED BY <2>2, <2>3 DEF ObjectInv, WalkInv, Normal, Deletion, AfterVM
<1>5. SetInv
  BY DEF Init, SetInv
<1> QED BY <1>1, <1>2, <1>3, <1>4, <1>5 DEF IndInv, MachinesInv

-----------------------------------------------------------------------------
(* The theorems *)

\* The invariant of a cluster's machines is inductive: whatever reconciliations
\* of other machines, faults of calls, patches or the manager, and deletions
\* come between two steps of a machine.
THEOREM Inductive == Spec => []IndInv
<1>1. IndInv /\ [Next]_vars => IndInv'
  BY NextStep, StutterStep DEF StepGood
<1> QED BY <1>1, Initial, PTL DEF Spec

\* availabilitysets.Delete: no availability set is left when the last of its
\* machines has gone, for any number of machines that are deleted at once.
THEOREM SetsAreRemoved == Spec => []MachineInv
<1>1. IndInv => MachineInv
  <2> SUFFICES ASSUME IndInv, ~closing, \A m \in Machines : obj[m].life = "gone" /\ pc[m] = "idle"
               PROVE  sets = {}
    BY DEF MachineInv, SetsRemoved, IndInv
  <2>1. \A m \in Known : ~Responsible(m)
    BY Kept DEF Responsible
  <2> QED BY <2>1 DEF IndInv, SetInv
<1> QED BY <1>1, Inductive, PTL

\* reconcileDelete: each machine implements ProtectedResources, so that nothing
\* it owns is left when its AzureMachine has gone.
THEOREM MachineProtected == Spec => FinalizerProtects
<1>1. Init => \A m \in DOMAIN cfg : Protected(m)!Init
  <2> SUFFICES ASSUME Init, NEW m \in Known PROVE Protected(m)!Init
    BY DEF Known
  <2>1. m \in Machines
    BY Initial, Configs DEF IndInv
  <2>2. /\ obj[m].life = "live" /\ obj[m].finalizer = FALSE
        /\ az[m] = {} /\ vm[m] = "absent" /\ port[m] = 0
    BY <2>1 DEF Init, Known
  <2>3. Owned(m) = {}
    BY <2>2 DEF Owned, Present
  <2> QED BY <2>2, <2>3 DEF Protected!Init
<1>2. IndInv /\ [Next]_vars
      => [\A m \in DOMAIN cfg : [Protected(m)!Next]_<<obj[m], Owned(m)>>]_vars
  BY NextStep DEF StepGood, Promise, Known
<1> QED BY <1>1, <1>2, Inductive, PTL DEF Spec, FinalizerProtects

\* SetFailureReason: a machine with a failure keeps it, and gets no resources
\* any more.
THEOREM FailuresAreFinal == Spec => FailureIsFinal
<1>1. IndInv /\ [Next]_vars
      => [\A m \in DOMAIN cfg : obj[m].failure =>
              obj'[m].failure /\ Owned(m)' \subseteq Owned(m)]_vars
  BY NextStep DEF StepGood, FinalStep, Known
<1> QED BY <1>1, Inductive, PTL DEF Spec, FailureIsFinal

\* VMDeletedError: a virtual machine that was recorded is never created again.
THEOREM LostForGood == Spec => NeverRecreated
<1>1. IndInv /\ [Next]_vars
      => [\A m \in Machines : obj[m].id /\ vm[m] = "absent" => vm'[m] = "absent"]_vars
  BY NextStep DEF StepGood, LossStep
<1> QED BY <1>1, Inductive, PTL DEF Spec, NeverRecreated
====
