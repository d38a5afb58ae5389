-------------------------- MODULE AzureClusterProofs --------------------------
(***************************************************************************)
(* Safety of the AzureCluster controller for every configuration and any   *)
(* number of faults and foreign writes: the finalizer protects what the    *)
(* cluster owns, others keep what is theirs, and a cluster is reported     *)
(* ready only when it is complete.                                         *)
(***************************************************************************)
EXTENDS AzureCluster, TLAPS

-----------------------------------------------------------------------------
(* The inductive invariant *)

Network  == SecurityGroups \cup Subnets \cup {"routeTableNode", "vnet"}
Normal   == {"register", "prepare", "reconcile", "put", "ready"}
Deletion == {"deleting", "deleteGroup", "await", "delete", "release"}
Walked   == {ReconcileOrder[i] : i \in 1..Len(ReconcileOrder)}
Owned    == {r \in InGroup(cfg) : az[r] = "ours"}

\* A resource the walk has passed is there, or belongs to the user's network.
Passed(a, r) ==
    \/ a[r] # "absent"
    \/ cfg.userVnet /\ r \in SecurityGroups \cup {"routeTableNode"}

Complete == \A i \in 1..Len(ReconcileOrder) : Passed(az, ReconcileOrder[i])

\* Where the walks are, what they have left behind them, and what they know.
WalkInv ==
    /\ pc \in {"reconcile", "put"} =>
           /\ pos \in 1..Len(ReconcileOrder)
           /\ cfg.userVnet /\ pos > 2 => mem.vnet = "users"
           /\ \A i \in 1..(pos - 1) : Passed(az, ReconcileOrder[i])
    /\ pc = "put" => /\ Current \in Merged /\ seen \in SUBSET Entries
                     /\ az[Current] = "absent" \/ ~(Wanted(cfg, Current) \subseteq seen)
    /\ pc = "put" /\ Current \in SecurityGroups => IsVnetManaged
    /\ pc = "ready" => Complete
    /\ pc = "delete" =>
           /\ pos \in 1..Len(DeleteOrder)
           /\ az["group"] = "users"
           /\ \A i \in 1..(pos - 1) : az[DeleteOrder[i]] # "ours"
    /\ pc = "release" => Owned = {}

\* How the object, the cache and the copies of the reconciliation are related.
ObjectInv ==
    /\ obj.life = "deleting" => obj.finalizer
    /\ obj.life = "gone" => ~obj.finalizer
    /\ cached.life = "live" /\ cached.finalizer => obj.finalizer
    /\ cached.life # "live" => obj.life # "live"
    /\ cached.life = "deleting" => cached.finalizer
    /\ \A v \in {mem.vnet, base.vnet, cached.vnet, obj.vnet} :
           v # IF cfg.userVnet THEN "ours" ELSE "users"

\* What the reconciliation knows of them: a copy that was read is not younger
\* than the cache, and the finalizer goes only after everything else.
CopyInv ==
    /\ pc = "register" => mem = base /\ (base.finalizer => obj.finalizer)
    /\ pc \in Normal \ {"register"} => mem.finalizer /\ obj.finalizer
    /\ pc \in Deletion => mem = base /\ base.finalizer /\ cached.life # "live"
    /\ pc = "close" /\ mem.finalizer /\ ~base.finalizer => obj.finalizer
    /\ pc = "close" /\ ~mem.finalizer /\ base.finalizer => cached.life # "live" /\ Owned = {}
    /\ mem.ready = base.ready \/ (pc = "close" /\ ~going /\ Complete)

\* Who owns what in Azure.
AzureInv ==
    /\ \A r \in Resources : az[r] = "users" => r \in UserResources(cfg)
    /\ \A r \in Resources : az[r] = "ours" =>
           r \in Walked \ UserResources(cfg) /\ (cfg.userVnet => r \notin Network)
    /\ az["group"] = "absent" \/ ~obj.finalizer => Owned = {}
    /\ cfg.userGroup => az["group"] = "users"
    /\ az["record"] = "ours" => az["zone"] = "ours"
    /\ obj.life = "live" \/ cached.life = "live" \/ pc \in Normal =>
           \A r \in UserResources(cfg) : az[r] = "users"
    /\ \A r \in Merged : az[r] = "absent" => entries[r] = {}
    /\ going => az["group"] = "ours" /\ cached.life # "live" /\ pc \notin Normal

IndInv == TypeOK /\ WalkInv /\ ObjectInv /\ CopyInv /\ AzureInv

-----------------------------------------------------------------------------
(* The orders *)

Rng(s) == {s[i] : i \in 1..Len(s)}

LEMMA Concatenation ==
    ASSUME NEW S, NEW s \in Seq(S), NEW t \in Seq(S)
    PROVE  /\ s \o t \in Seq(S)
           /\ Len(s \o t) = Len(s) + Len(t)
           /\ Rng(s \o t) = Rng(s) \cup Rng(t)
           /\ \A i \in 1..Len(s) : (s \o t)[i] = s[i]
<1>1. s \o t \in Seq(S) /\ Len(s \o t) = Len(s) + Len(t) /\ Len(s) \in Nat /\ Len(t) \in Nat
  OBVIOUS
<1>2. \A i \in 1..Len(s) : (s \o t)[i] = s[i]
  OBVIOUS
<1>3. \A i \in 1..Len(t) : Len(s) + i \in 1..Len(s \o t) /\ (s \o t)[Len(s) + i] = t[i]
  BY <1>1
<1>4. \A i \in 1..Len(s \o t) : i \in 1..Len(s) \/ (i - Len(s) \in 1..Len(t) /\ (s \o t)[i] = t[i - Len(s)])
  BY <1>1
<1>5. Rng(s \o t) \subseteq Rng(s) \cup Rng(t)
  BY <1>2, <1>4 DEF Rng
<1>6. Rng(s) \subseteq Rng(s \o t)
  BY <1>1, <1>2 DEF Rng
<1>7. Rng(t) \subseteq Rng(s \o t)
  BY <1>3 DEF Rng
<1> QED BY <1>1, <1>2, <1>5, <1>6, <1>7

\* What the services delete.
Deletable == Resources \ {"group", "record"}

\* The sequence s holds between lo and hi resources that a service deletes.
Visits(s, lo, hi) == s \in Seq(Deletable) /\ lo <= Len(s) /\ Len(s) <= hi

LEMMA VisitsNone == Visits(<< >>, 0, 0)
  BY DEF Visits

LEMMA VisitsOne == ASSUME NEW a \in Deletable PROVE Visits(<<a>>, 1, 1)
  BY DEF Visits

LEMMA VisitsTwo ==
    ASSUME NEW a \in Deletable, NEW b \in Deletable PROVE Visits(<<a, b>>, 2, 2)
  BY DEF Visits

LEMMA VisitsBoth ==
    ASSUME NEW s, NEW t, NEW i \in Nat, NEW j \in Nat, NEW k \in Nat, NEW l \in Nat,
           Visits(s, i, j), Visits(t, k, l)
    PROVE  Visits(s \o t, i + k, j + l)
<1>1. s \o t \in Seq(Deletable) /\ Len(s \o t) = Len(s) + Len(t) /\ Len(s) \in Nat /\ Len(t) \in Nat
  BY Concatenation DEF Visits
<1> QED BY <1>1 DEF Visits

LEMMA VisitsWithin ==
    ASSUME NEW s, NEW i \in Nat, NEW j \in Nat, NEW k \in Nat, NEW l \in Nat,
           Visits(s, i, j), k <= i, j <= l
    PROVE  Visits(s, k, l)
<1>1. Len(s) \in Nat
  BY DEF Visits
<1> QED BY <1>1 DEF Visits

\* What each service is responsible for.
LEMMA ServiceSpecs ==
    ASSUME NEW c \in Configs
    PROVE  /\ Visits(NSGSpecs(c), 2, 2)
           /\ Visits(RouteTableSpecs(c), 1, 1)
           /\ Visits(SubnetSpecs(c), 2, 3)
           /\ Visits(PublicIPSpecs(c), 1, 4)
           /\ Visits(LBSpecs(c), 1, 3)
           /\ Visits(BastionSpec(c), 0, 1)
<1>a. SecurityGroups \cup Subnets \cup PublicIPs \cup LoadBalancers
          \cup {"routeTableNode", "bastion"} \subseteq Deletable
  BY DEF Deletable, Resources, SecurityGroups, Subnets, PublicIPs, LoadBalancers
<1>b. \A a \in Deletable, b \in BOOLEAN : Visits(IF b THEN <<a>> ELSE << >>, 0, 1)
  <2> SUFFICES ASSUME NEW a \in Deletable, NEW b \in BOOLEAN
               PROVE  Visits(IF b THEN <<a>> ELSE << >>, 0, 1)
    OBVIOUS
  <2>1. Visits(<<a>>, 0, 1) /\ Visits(<< >>, 0, 1)
    BY VisitsNone, VisitsOne, VisitsWithin
  <2> QED BY <2>1
<1>c. c.bastion \in BOOLEAN /\ c.private \in BOOLEAN /\ (c.outbound >= 0) \in BOOLEAN
  BY DEF Configs
<1>1. Visits(NSGSpecs(c), 2, 2)
  BY <1>a, VisitsTwo DEF NSGSpecs, SecurityGroups
<1>2. Visits(RouteTableSpecs(c), 1, 1)
  BY <1>a, VisitsOne DEF RouteTableSpecs
<1>3. Visits(SubnetSpecs(c), 2, 3)
  <2>1. Visits(<<"subnetControlPlane", "subnetNode">>, 2, 2)
    BY <1>a, VisitsTwo DEF Subnets
  <2>2. Visits(IF c.bastion THEN <<"subnetBastion">> ELSE << >>, 0, 1)
    BY <1>a, <1>b, <1>c DEF Subnets
  <2>3. Visits(SubnetSpecs(c), 2 + 0, 2 + 1)
    BY <2>1, <2>2, VisitsBoth DEF SubnetSpecs
  <2> QED BY <2>3
<1>4. Visits(PublicIPSpecs(c), 1, 4)
  <2> DEFINE middle == CASE c.outbound = 1 -> <<"ipNode">>
                         [] c.outbound = 2 -> <<"ipNode1", "ipNode2">>
                         [] OTHER -> << >>
             last == IF c.bastion THEN <<"ipBastion">> ELSE << >>
  <2>1. Visits(<<"ipControlPlane">>, 1, 1)
    BY <1>a, VisitsOne DEF PublicIPs
  <2>2. Visits(middle, 0, 2)
    <3>1. Visits(<<"ipNode">>, 1, 1) /\ Visits(<<"ipNode1", "ipNode2">>, 2, 2)
      BY <1>a, VisitsOne, VisitsTwo DEF PublicIPs
    <3>2. Visits(<<"ipNode">>, 0, 2) /\ Visits(<<"ipNode1", "ipNode2">>, 0, 2) /\ Visits(<< >>, 0, 2)
      BY <3>1, VisitsNone, VisitsWithin
    <3> QED BY <3>2
  <2>3. Visits(last, 0, 1)
    BY <1>a, <1>b, <1>c DEF PublicIPs
  <2>4. PublicIPSpecs(c) = (<<"ipControlPlane">> \o middle) \o last
    BY DEF PublicIPSpecs
  <2> HIDE DEF middle, last
  <2>5. Visits(<<"ipControlPlane">> \o middle, 1 + 0, 1 + 2)
    BY <2>1, <2>2, VisitsBoth
  <2>6. Visits(<<"ipControlPlane">> \o middle, 1, 3)
    BY <2>5
  <2>7. Visits(PublicIPSpecs(c), 1 + 0, 3 + 1)
    BY <2>3, <2>4, <2>6, VisitsBoth
  <2> QED BY <2>7
<1>5. Visits(LBSpecs(c), 1, 3)
  <2> DEFINE middle == IF c.outbound >= 0 THEN <<"lbNode">> ELSE << >>
             last == IF c.private THEN <<"lbControlPlaneOutbound">> ELSE << >>
  <2>1. Visits(<<"lbAPIServer">>, 1, 1)
    BY <1>a, VisitsOne DEF LoadBalancers
  <2>2. Visits(middle, 0, 1)
    BY <1>a, <1>b, <1>c DEF LoadBalancers
  <2>3. Visits(last, 0, 1)
    BY <1>a, <1>b, <1>c DEF LoadBalancers
  <2>4. LBSpecs(c) = (<<"lbAPIServer">> \o middle) \o last
    BY DEF LBSpecs
  <2> HIDE DEF middle, last
  <2>5. Visits(<<"lbAPIServer">> \o middle, 1 + 0, 1 + 1)
    BY <2>1, <2>2, VisitsBoth
  <2>6. Visits(<<"lbAPIServer">> \o middle, 1, 2)
    BY <2>5
  <2>7. Visits(LBSpecs(c), 1 + 0, 2 + 1)
    BY <2>3, <2>4, <2>6, VisitsBoth
  <2> QED BY <2>7
<1>6. Visits(BastionSpec(c), 0, 1)
  BY <1>a, <1>b, <1>c DEF BastionSpec
<1> QED BY <1>1, <1>2, <1>3, <1>4, <1>5, <1>6

\* The walk s passes the resources T, the group and the virtual network first.
Starts(s, T) ==
    /\ s \in Seq(Resources) /\ 2 <= Len(s) /\ Rng(s) = T
    /\ s[1] = "group" /\ s[2] = "vnet"

LEMMA StartsBoth ==
    ASSUME NEW s, NEW T, Starts(s, T), NEW t \in Seq(Resources)
    PROVE  Starts(s \o t, T \cup Rng(t))
<1>1. s \in Seq(Resources) /\ Len(s) \in Nat /\ Len(t) \in Nat
  BY DEF Starts
<1>2. /\ s \o t \in Seq(Resources) /\ Len(s \o t) = Len(s) + Len(t)
      /\ Rng(s \o t) = Rng(s) \cup Rng(t)
      /\ \A n \in 1..Len(s) : (s \o t)[n] = s[n]
  BY <1>1, Concatenation
<1>3. 1 \in 1..Len(s) /\ 2 \in 1..Len(s)
  BY <1>1 DEF Starts
<1> QED BY <1>1, <1>2, <1>3 DEF Starts

\* The sequence t holds between lo and hi resources.
Continues(t, lo, hi) == t \in Seq(Resources) /\ lo <= Len(t) /\ Len(t) <= hi

LEMMA ContinuesBoth ==
    ASSUME NEW s, NEW t, NEW i \in Nat, NEW j \in Nat, NEW k \in Nat, NEW l \in Nat,
           Continues(s, i, j), Continues(t, k, l)
    PROVE  Continues(s \o t, i + k, j + l)
<1>1. s \o t \in Seq(Resources) /\ Len(s \o t) = Len(s) + Len(t) /\ Len(s) \in Nat /\ Len(t) \in Nat
  BY Concatenation DEF Continues
<1> QED BY <1>1 DEF Continues

LEMMA VisitsRange ==
    ASSUME NEW s, NEW i \in Nat, NEW j \in Nat, Visits(s, i, j)
    PROVE  Continues(s, i, j) /\ Rng(s) \subseteq Deletable
<1>1. s \in Seq(Deletable) /\ Len(s) \in Nat
  BY DEF Visits
<1>2. \A n \in 1..Len(s) : s[n] \in Deletable
  BY <1>1
<1>3. Deletable \subseteq Resources
  BY DEF Deletable
<1>4. s \in Seq(Resources)
  BY <1>1, <1>3
<1> QED BY <1>1, <1>2, <1>4 DEF Visits, Continues, Rng

\* The walk s passes the resources T and deletes them.
Deletes(s, T) == s \in Seq(Deletable) /\ Rng(s) = T

LEMMA DeletesBoth ==
    ASSUME NEW s, NEW T, Deletes(s, T), NEW t \in Seq(Deletable)
    PROVE  Deletes(s \o t, T \cup Rng(t))
  BY Concatenation DEF Deletes

\* What the services of a configuration are responsible for; both walks pass it.
Common(c) ==
    Rng(NSGSpecs(c)) \cup Rng(RouteTableSpecs(c)) \cup Rng(SubnetSpecs(c))
        \cup Rng(PublicIPSpecs(c)) \cup Rng(LBSpecs(c)) \cup Rng(BastionSpec(c))

LEMMA ReconcileWalk ==
    ASSUME cfg \in Configs
    PROVE  /\ Continues(ReconcileOrder, 9, 19)
           /\ Starts(ReconcileOrder, Common(cfg) \cup {"group", "vnet"}
                        \cup (IF cfg.private THEN {"zone", "link", "record"} ELSE {}))
<1> DEFINE s1 == <<"group", "vnet">>
           s2 == s1 \o NSGSpecs(cfg)
           s3 == s2 \o RouteTableSpecs(cfg)
           s4 == s3 \o SubnetSpecs(cfg)
           s5 == s4 \o PublicIPSpecs(cfg)
           s6 == s5 \o LBSpecs(cfg)
           s7 == s6 \o PrivateDNSSpec(cfg)
           s8 == s7 \o BastionSpec(cfg)
           G == {"group", "vnet"}
           D == IF cfg.private THEN {"zone", "link", "record"} ELSE {}
<1>1. ReconcileOrder = s8
  BY DEF ReconcileOrder
<1>2. Starts(s1, G) /\ Continues(s1, 2, 2)
  <2>1. s1 \in Seq(Resources) /\ Len(s1) = 2 /\ s1[1] = "group" /\ s1[2] = "vnet"
    BY DEF Resources
  <2>2. 1..2 = {1, 2}
    OBVIOUS
  <2>3. Rng(s1) = {s1[1], s1[2]}
    BY <2>1, <2>2 DEF Rng
  <2> QED BY <2>1, <2>3 DEF Starts, Continues
<1>3. Continues(PrivateDNSSpec(cfg), 0, 3) /\ Rng(PrivateDNSSpec(cfg)) = D
  <2>1. CASE cfg.private
    <3> DEFINE d == <<"zone", "link", "record">>
    <3>1. PrivateDNSSpec(cfg) = d
      BY <2>1 DEF PrivateDNSSpec
    <3>2. d \in Seq(Resources) /\ Len(d) = 3 /\ d[1] = "zone" /\ d[2] = "link" /\ d[3] = "record"
      BY DEF Resources
    <3>3. 1..3 = {1, 2, 3}
      OBVIOUS
    <3>4. Rng(d) = {d[1], d[2], d[3]}
      BY <3>2, <3>3 DEF Rng
    <3> QED BY <2>1, <3>1, <3>2, <3>4 DEF Continues
  <2>2. CASE ~cfg.private
    <3>1. PrivateDNSSpec(cfg) = << >>
      BY <2>2 DEF PrivateDNSSpec
    <3> QED BY <2>2, <3>1 DEF Rng, Continues
  <2> QED BY <2>1, <2>2
<1>4. /\ Continues(NSGSpecs(cfg), 2, 2) /\ Continues(RouteTableSpecs(cfg), 1, 1)
      /\ Continues(SubnetSpecs(cfg), 2, 3) /\ Continues(PublicIPSpecs(cfg), 1, 4)
      /\ Continues(LBSpecs(cfg), 1, 3) /\ Continues(BastionSpec(cfg), 0, 1)
  BY ServiceSpecs, VisitsRange
<1> DEFINE u2 == G \cup Rng(NSGSpecs(cfg))
           u3 == u2 \cup Rng(RouteTableSpecs(cfg))
           u4 == u3 \cup Rng(SubnetSpecs(cfg))
           u5 == u4 \cup Rng(PublicIPSpecs(cfg))
           u6 == u5 \cup Rng(LBSpecs(cfg))
           u7 == u6 \cup Rng(PrivateDNSSpec(cfg))
           u8 == u7 \cup Rng(BastionSpec(cfg))
<1> HIDE DEF s1, s2, s3, s4, s5, s6, s7, s8, G, D, u2, u3, u4, u5, u6, u7, u8
<1>5. Starts(s2, u2) /\ Continues(s2, 4, 4)
  <2>1. NSGSpecs(cfg) \in Seq(Resources) /\ Starts(s1, G)
    BY <1>2, <1>4 DEF Continues
  <2>2. Starts(s2, u2)
    BY <2>1, StartsBoth DEF s2, u2
  <2>3. Continues(s2, 2 + 2, 2 + 2)
    BY <1>2, <1>4, ContinuesBoth DEF s2
  <2> QED BY <2>2, <2>3
<1>6. Starts(s3, u3) /\ Continues(s3, 5, 5)
  <2>1. RouteTableSpecs(cfg) \in Seq(Resources) /\ Starts(s2, u2)
    BY <1>5, <1>4 DEF Continues
  <2>2. Starts(s3, u3)
    BY <2>1, StartsBoth DEF s3, u3
  <2>3. Continues(s3, 4 + 1, 4 + 1)
    BY <1>5, <1>4, ContinuesBoth DEF s3
  <2> QED BY <2>2, <2>3
<1>7. Starts(s4, u4) /\ Continues(s4, 7, 8)
  <2>1. SubnetSpecs(cfg) \in Seq(Resources) /\ Starts(s3, u3)
    BY <1>6, <1>4 DEF Continues
  <2>2. Starts(s4, u4)
    BY <2>1, StartsBoth DEF s4, u4
  <2>3. Continues(s4, 5 + 2, 5 + 3)
    BY <1>6, <1>4, ContinuesBoth DEF s4
  <2> QED BY <2>2, <2>3
<1>8. Starts(s5, u5) /\ Continues(s5, 8, 12)
  <2>1. PublicIPSpecs(cfg) \in Seq(Resources) /\ Starts(s4, u4)
    BY <1>7, <1>4 DEF Continues
  <2>2. Starts(s5, u5)
    BY <2>1, StartsBoth DEF s5, u5
  <2>3. Continues(s5, 7 + 1, 8 + 4)
    BY <1>7, <1>4, ContinuesBoth DEF s5
  <2> QED BY <2>2, <2>3
<1>9. Starts(s6, u6) /\ Continues(s6, 9, 15)
  <2>1. LBSpecs(cfg) \in Seq(Resources) /\ Starts(s5, u5)
    BY <1>8, <1>4 DEF Continues
  <2>2. Starts(s6, u6)
    BY <2>1, StartsBoth DEF s6, u6
  <2>3. Continues(s6, 8 + 1, 12 + 3)
    BY <1>8, <1>4, ContinuesBoth DEF s6
  <2> QED BY <2>2, <2>3
<1>10. Starts(s7, u7) /\ Continues(s7, 9, 18)
  <2>1. PrivateDNSSpec(cfg) \in Seq(Resources) /\ Starts(s6, u6)
    BY <1>9, <1>3 DEF Continues
  <2>2. Starts(s7, u7)
    BY <2>1, StartsBoth DEF s7, u7
  <2>3. Continues(s7, 9 + 0, 15 + 3)
    BY <1>9, <1>3, ContinuesBoth DEF s7
  <2> QED BY <2>2, <2>3
<1>11. Starts(s8, u8) /\ Continues(s8, 9, 19)
  <2>1. BastionSpec(cfg) \in Seq(Resources) /\ Starts(s7, u7)
    BY <1>10, <1>4 DEF Continues
  <2>2. Starts(s8, u8)
    BY <2>1, StartsBoth DEF s8, u8
  <2>3. Continues(s8, 9 + 0, 18 + 1)
    BY <1>10, <1>4, ContinuesBoth DEF s8
  <2> QED BY <2>2, <2>3
<1>12. u8 = Common(cfg) \cup G \cup D
  BY <1>3 DEF u2, u3, u4, u5, u6, u7, u8, Common
<1> QED BY <1>1, <1>11, <1>12 DEF G, D

LEMMA DeletionWalk ==
    ASSUME cfg \in Configs
    PROVE  /\ Visits(DeleteOrder, 8, 17)
           /\ Deletes(DeleteOrder, Common(cfg) \cup {"vnet"}
                                     \cup (IF cfg.private THEN {"zone", "link"} ELSE {}))
<1> DEFINE s1 == IF cfg.private THEN <<"link", "zone">> ELSE << >>
           s2 == s1 \o LBSpecs(cfg)
           s3 == s2 \o PublicIPSpecs(cfg)
           s4 == s3 \o SubnetSpecs(cfg)
           s5 == s4 \o RouteTableSpecs(cfg)
           s6 == s5 \o NSGSpecs(cfg)
           s7 == s6 \o <<"vnet">>
           s8 == s7 \o BastionSpec(cfg)
           D == IF cfg.private THEN {"zone", "link"} ELSE {}
<1>1. DeleteOrder = s8
  BY DEF DeleteOrder
<1>2. Deletes(s1, D) /\ Visits(s1, 0, 2)
  <2>1. CASE cfg.private
    <3> DEFINE d == <<"link", "zone">>
    <3>1. s1 = d
      BY <2>1
    <3>2. d \in Seq(Deletable) /\ Len(d) = 2 /\ d[1] = "link" /\ d[2] = "zone"
      BY DEF Deletable, Resources
    <3>3. 1..2 = {1, 2}
      OBVIOUS
    <3>4. Rng(d) = {d[1], d[2]}
      BY <3>2, <3>3 DEF Rng
    <3> HIDE DEF s1
    <3> QED BY <2>1, <3>1, <3>2, <3>4 DEF Deletes, Visits
  <2>2. CASE ~cfg.private
    <3>1. s1 = << >>
      BY <2>2
    <3> HIDE DEF s1
    <3> QED BY <2>2, <3>1 DEF Rng, Deletes, Visits
  <2> QED BY <2>1, <2>2
<1>3. Visits(<<"vnet">>, 1, 1) /\ Rng(<<"vnet">>) = {"vnet"}
  BY VisitsOne DEF Deletable, Resources, Rng
<1>4. /\ Visits(NSGSpecs(cfg), 2, 2) /\ Visits(RouteTableSpecs(cfg), 1, 1)
      /\ Visits(SubnetSpecs(cfg), 2, 3) /\ Visits(PublicIPSpecs(cfg), 1, 4)
      /\ Visits(LBSpecs(cfg), 1, 3) /\ Visits(BastionSpec(cfg), 0, 1)
  BY ServiceSpecs
<1> DEFINE u2 == D \cup Rng(LBSpecs(cfg))
           u3 == u2 \cup Rng(PublicIPSpecs(cfg))
           u4 == u3 \cup Rng(SubnetSpecs(cfg))
           u5 == u4 \cup Rng(RouteTableSpecs(cfg))
           u6 == u5 \cup Rng(NSGSpecs(cfg))
           u7 == u6 \cup Rng(<<"vnet">>)
           u8 == u7 \cup Rng(BastionSpec(cfg))
<1> HIDE DEF s1, s2, s3, s4, s5, s6, s7, s8, D, u2, u3, u4, u5, u6, u7, u8
<1>5. Deletes(s2, u2) /\ Visits(s2, 1, 5)
  <2>1. LBSpecs(cfg) \in Seq(Deletable) /\ Deletes(s1, D)
    BY <1>2, <1>4 DEF Visits
  <2>2. Deletes(s2, u2)
    BY <2>1, DeletesBoth DEF s2, u2
  <2>3. Visits(s2, 0 + 1, 2 + 3)
    BY <1>2, <1>4, VisitsBoth DEF s2
  <2> QED BY <2>2, <2>3
<1>6. Deletes(s3, u3) /\ Visits(s3, 2, 9)
  <2>1. PublicIPSpecs(cfg) \in Seq(Deletable) /\ Deletes(s2, u2)
    BY <1>5, <1>4 DEF Visits
  <2>2. Deletes(s3, u3)
    BY <2>1, DeletesBoth DEF s3, u3
  <2>3. Visits(s3, 1 + 1, 5 + 4)
    BY <1>5, <1>4, VisitsBoth DEF s3
  <2> QED BY <2>2, <2>3
<1>7. Deletes(s4, u4) /\ Visits(s4, 4, 12)
  <2>1. SubnetSpecs(cfg) \in Seq(Deletable) /\ Deletes(s3, u3)
    BY <1>6, <1>4 DEF Visits
  <2>2. Deletes(s4, u4)
    BY <2>1, DeletesBoth DEF s4, u4
  <2>3. Visits(s4, 2 + 2, 9 + 3)
    BY <1>6, <1>4, VisitsBoth DEF s4
  <2> QED BY <2>2, <2>3
<1>8. Deletes(s5, u5) /\ Visits(s5, 5, 13)
  <2>1. RouteTableSpecs(cfg) \in Seq(Deletable) /\ Deletes(s4, u4)
    BY <1>7, <1>4 DEF Visits
  <2>2. Deletes(s5, u5)
    BY <2>1, DeletesBoth DEF s5, u5
  <2>3. Visits(s5, 4 + 1, 12 + 1)
    BY <1>7, <1>4, VisitsBoth DEF s5
  <2> QED BY <2>2, <2>3
<1>9. Deletes(s6, u6) /\ Visits(s6, 7, 15)
  <2>1. NSGSpecs(cfg) \in Seq(Deletable) /\ Deletes(s5, u5)
    BY <1>8, <1>4 DEF Visits
  <2>2. Deletes(s6, u6)
    BY <2>1, DeletesBoth DEF s6, u6
  <2>3. Visits(s6, 5 + 2, 13 + 2)
    BY <1>8, <1>4, VisitsBoth DEF s6
  <2> QED BY <2>2, <2>3
<1>10. Deletes(s7, u7) /\ Visits(s7, 8, 16)
  <2>1. <<"vnet">> \in Seq(Deletable) /\ Deletes(s6, u6)
    BY <1>9, <1>3 DEF Visits
  <2>2. Deletes(s7, u7)
    BY <2>1, DeletesBoth DEF s7, u7
  <2>3. Visits(s7, 7 + 1, 15 + 1)
    BY <1>9, <1>3, VisitsBoth DEF s7
  <2> QED BY <2>2, <2>3
<1>11. Deletes(s8, u8) /\ Visits(s8, 8, 17)
  <2>1. BastionSpec(cfg) \in Seq(Deletable) /\ Deletes(s7, u7)
    BY <1>10, <1>4 DEF Visits
  <2>2. Deletes(s8, u8)
    BY <2>1, DeletesBoth DEF s8, u8
  <2>3. Visits(s8, 8 + 0, 16 + 1)
    BY <1>10, <1>4, VisitsBoth DEF s8
  <2> QED BY <2>2, <2>3
<1>12. u8 = Common(cfg) \cup {"vnet"} \cup D
  BY <1>3 DEF u2, u3, u4, u5, u6, u7, u8, Common
<1> QED BY <1>1, <1>11, <1>12 DEF D

\* What the proofs below use of the two orders.
LEMMA Orders ==
    ASSUME cfg \in Configs
    PROVE  /\ Len(ReconcileOrder) \in 9..19
           /\ \A i \in 1..Len(ReconcileOrder) : ReconcileOrder[i] \in Resources
           /\ ReconcileOrder[1] = "group" /\ ReconcileOrder[2] = "vnet"
           /\ Len(DeleteOrder) \in 8..17
           /\ \A i \in 1..Len(DeleteOrder) : DeleteOrder[i] \in Deletable
           /\ \A r \in Walked \ {"group", "record"} :
                  \E i \in 1..Len(DeleteOrder) : DeleteOrder[i] = r
           /\ "record" \in Walked => \E i \in 1..Len(DeleteOrder) : DeleteOrder[i] = "zone"
<1> DEFINE DR == IF cfg.private THEN {"zone", "link", "record"} ELSE {}
           DD == IF cfg.private THEN {"zone", "link"} ELSE {}
<1>1. /\ Continues(ReconcileOrder, 9, 19)
      /\ Starts(ReconcileOrder, Common(cfg) \cup {"group", "vnet"} \cup DR)
  BY ReconcileWalk
<1>2. /\ Visits(DeleteOrder, 8, 17)
      /\ Deletes(DeleteOrder, Common(cfg) \cup {"vnet"} \cup DD)
  BY DeletionWalk
<1>3. Common(cfg) \subseteq Deletable
  BY ServiceSpecs, VisitsRange DEF Common
<1>4. Rng(ReconcileOrder) = Walked
  BY DEF Rng, Walked
<1>5. ReconcileOrder \in Seq(Resources) /\ Len(ReconcileOrder) \in 9..19
      /\ ReconcileOrder[1] = "group" /\ ReconcileOrder[2] = "vnet"
  <2>1. ReconcileOrder \in Seq(Resources) /\ 9 <= Len(ReconcileOrder) /\ Len(ReconcileOrder) <= 19
        /\ ReconcileOrder[1] = "group" /\ ReconcileOrder[2] = "vnet"
    BY <1>1 DEF Continues, Starts
  <2>2. Len(ReconcileOrder) \in Nat
    BY <2>1
  <2>3. \A n \in Nat : 9 <= n /\ n <= 19 => n \in 9..19
    OBVIOUS
  <2> QED BY <2>1, <2>2, <2>3
<1>6. DeleteOrder \in Seq(Deletable) /\ Len(DeleteOrder) \in 8..17
  <2>1. DeleteOrder \in Seq(Deletable) /\ 8 <= Len(DeleteOrder) /\ Len(DeleteOrder) <= 17
    BY <1>2 DEF Visits
  <2>2. Len(DeleteOrder) \in Nat
    BY <2>1
  <2>3. \A n \in Nat : 8 <= n /\ n <= 17 => n \in 8..17
    OBVIOUS
  <2> QED BY <2>1, <2>2, <2>3
<1>7. Walked \ {"group", "record"} \subseteq Rng(DeleteOrder)
  BY <1>1, <1>2, <1>4 DEF Starts, Deletes
<1>8. "record" \in Walked => "zone" \in Rng(DeleteOrder)
  <2>1. "record" \notin Common(cfg)
    BY <1>3 DEF Deletable
  <2> QED BY <2>1, <1>1, <1>2, <1>4 DEF Starts, Deletes
<1>9. \A i \in 1..Len(ReconcileOrder) : ReconcileOrder[i] \in Resources
  BY <1>5
<1>10. \A i \in 1..Len(DeleteOrder) : DeleteOrder[i] \in Deletable
  BY <1>6
<1> QED BY <1>5, <1>6, <1>7, <1>8, <1>9, <1>10 DEF Rng

LEMMA SameOrders ==
    ASSUME cfg' = cfg
    PROVE  ReconcileOrder' = ReconcileOrder /\ DeleteOrder' = DeleteOrder /\ Walked' = Walked
<1>1. ReconcileOrder' = ReconcileOrder
  BY DEF ReconcileOrder
<1>2. DeleteOrder' = DeleteOrder
  BY DEF DeleteOrder
<1> QED BY <1>1, <1>2 DEF Walked

-----------------------------------------------------------------------------
(* The calls of Azure *)

\* Every write is effective when it returns, and the merged resources have etags.
LEMMA ClientsWait ==
    /\ \A r \in Resources : C!Effective(Client(r).CreateOrUpdate) /\ C!Effective(Client(r).Delete)
    /\ \A r \in Merged : Client(r).etag
    /\ C!Effective(C!groups.Delete)
<1>1. \A r \in Resources : Client(r) \in {C!groups, C!virtualnetworks, C!securitygroups,
           C!routetables, C!subnets, C!publicips, C!loadbalancers, C!privatezones,
           C!vnetlinks, C!recordsets, C!bastionhosts}
  BY DEF Client, Resources, SecurityGroups, Subnets, PublicIPs, LoadBalancers
<1>2. \A r \in Merged : Client(r) \in {C!securitygroups, C!loadbalancers}
  BY DEF Client, Merged, SecurityGroups, LoadBalancers, Subnets, PublicIPs
<1> QED BY <1>1, <1>2 DEF C!Effective, C!groups, C!virtualnetworks, C!securitygroups,
           C!routetables, C!subnets, C!publicips, C!loadbalancers, C!privatezones,
           C!vnetlinks, C!recordsets, C!bastionhosts

LEMMA Writes ==
    /\ \A r \in Resources : Put(r) = [az EXCEPT ![r] = IF @ = "absent" THEN "ours" ELSE @]
    /\ \A r \in Resources : Remove(r) = Without({r} \cup Parts(r))
  BY ClientsWait DEF Put, Remove

-----------------------------------------------------------------------------
(* The shapes of the steps of the two walks *)

\* A resource is written, which a network that is not managed does not allow.
Claims(r) ==
    /\ az' = [az EXCEPT ![r] = IF @ = "absent" THEN "ours" ELSE @]
    /\ CanPut(r)
    /\ r \in Network \ {"vnet"} => IsVnetManaged

\* The copy with what has been found.
Records(m) ==
    /\ m \in Objects /\ m.finalizer = mem.finalizer /\ m.ready = mem.ready
    /\ m.vnet = IF Current = "vnet" /\ az["vnet"] # "absent" THEN az["vnet"] ELSE mem.vnet

Reads ==
    /\ pc' = "put" /\ UNCHANGED <<mem, pos>>
    /\ Current \in Merged /\ seen' \in SUBSET Entries
    /\ az[Current] = "absent" \/ ~(Wanted(cfg, Current) \subseteq seen')
    /\ Current \in SecurityGroups => IsVnetManaged

WalkStep ==
    /\ pc \in {"reconcile", "put"}
    /\ UNCHANGED <<cfg, obj, cached, base, going, edits>> /\ faults' \in 0..MaxFaults
    /\ \/ az' = az /\ entries' = entries
       \/ Claims(Current) /\ entries' = entries
       \/ /\ pc = "put" /\ Claims(Current) /\ EtagMatches(Current)
          /\ entries' = [entries EXCEPT ![Current] = Merge(Current)]
    /\ \/ \E m : Records(m) /\ Advance(m) /\ Passed(az', Current)
       \/ End(mem)
       \/ Reads /\ az' = az

DeletionStep ==
    /\ pc = "delete"
    /\ UNCHANGED <<cfg, obj, cached, base, mem, going, edits>> /\ faults' \in 0..MaxFaults
    /\ \/ az' = az /\ entries' = entries
       \/ /\ ~Skipped(DeleteOrder[pos])
          /\ az' = Without({DeleteOrder[pos]} \cup Parts(DeleteOrder[pos]))
          /\ entries' = EntriesWithout({DeleteOrder[pos]})
    /\ \/ pc' = "close" /\ pos' = 0 /\ seen' \in {seen, Unread}
       \/ /\ az'[DeleteOrder[pos]] # "ours" /\ seen' = seen
          /\ IF pos = Len(DeleteOrder)
             THEN pc' = "release" /\ pos' = 0
             ELSE pc' = "delete" /\ pos' = pos + 1

\* Azure goes on deleting the group, and ends with the group itself or fails.
ShrinkStep ==
    /\ going
    /\ UNCHANGED <<cfg, obj, cached, base, mem, pc, pos, seen, faults, edits>>
    /\ \/ /\ going' = going
          /\ \E rs \in SUBSET Removable : az' = Without(rs) /\ entries' = EntriesWithout(rs)
       \/ /\ going' = FALSE /\ entries' = entries
          /\ az' = az \/ (az' = Without({"group"}) /\ Existing \cap InGroup(cfg) = {"group"})

\* The deletion of the group is asked for, and waited for.
GroupStep ==
    /\ pc \in {"deleteGroup", "await"}
    /\ UNCHANGED <<cfg, obj, cached, base, mem, az, entries, edits>> /\ faults' \in 0..MaxFaults
    /\ going' = going \/ (going' = TRUE /\ az["group"] = "ours" /\ pc' = "await")
    /\ \/ pc' = "close" /\ pos' \in {pos, 0} /\ seen' \in {seen, Unread}
       \/ pc' = "await" /\ UNCHANGED <<pos, seen>>
       \/ pc' = "release" /\ az["group"] = "absent" /\ UNCHANGED <<pos, seen>>
       \/ pc' = "delete" /\ pos' = 1 /\ az["group"] \notin {"absent", "ours"}
          /\ seen' = seen

\* A network that is recorded as not managed is the user's.
LEMMA UsersVnet ==
    ASSUME IndInv, ~IsVnetManaged
    PROVE  cfg.userVnet
<1>1. mem.vnet \in {"none", "ours", "users"}
  BY DEF IndInv, TypeOK, Objects
<1>2. mem.vnet # IF cfg.userVnet THEN "ours" ELSE "users"
  BY DEF IndInv, ObjectInv
<1> QED BY <1>1, <1>2 DEF IsVnetManaged

\* Facts of a state in which the walk of the services is at a resource.
LEMMA AtResource ==
    ASSUME IndInv, pc \in {"reconcile", "put"}
    PROVE  /\ cfg \in Configs /\ Current \in Resources /\ Current \in Walked
           /\ pos \in 1..Len(ReconcileOrder) /\ Len(ReconcileOrder) \in 9..19
           /\ Current \notin {"group", "vnet"} /\ cfg.userVnet => ~IsVnetManaged
           /\ mem.finalizer /\ obj.finalizer /\ obj.life # "gone"
           /\ \A r \in UserResources(cfg) : az[r] = "users"
<1>1. cfg \in Configs
  BY ClustersAssumption DEF IndInv, TypeOK
<1>2. pos \in 1..Len(ReconcileOrder) /\ (cfg.userVnet /\ pos > 2 => mem.vnet = "users")
  BY DEF IndInv, WalkInv
<1>3. Current \in Resources /\ Current \in Walked /\ Len(ReconcileOrder) \in 9..19
  BY <1>1, <1>2, Orders DEF Current, Walked
<1>4. Current \notin {"group", "vnet"} => pos > 2
  BY <1>1, <1>2, <1>3, Orders DEF Current
<1> QED BY <1>1, <1>2, <1>3, <1>4 DEF IndInv, ObjectInv, CopyInv, AzureInv, Normal, IsVnetManaged

LEMMA RecordsMem ==
    ASSUME IndInv, Current = "vnet" => az["vnet"] = "absent"
    PROVE  Records(mem)
  BY DEF Records, IndInv, TypeOK

LEMMA LostResponse ==
    ASSUME IndInv, faults' = faults \/ (faults < MaxFaults /\ faults' = faults + 1)
    PROVE  faults' \in 0..MaxFaults
  BY MaxFaultsAssumption DEF IndInv, TypeOK

LEMMA PutShape ==
    ASSUME IndInv, pc = "reconcile", PutOrFail(Current),
           Current = "vnet" => az["vnet"] = "absent",
           Current \in Network \ {"vnet"} => IsVnetManaged,
           UNCHANGED <<cfg, obj, cached, base, going, entries, edits>>
    PROVE  WalkStep
<1>1. Current \in Resources /\ az \in [Resources -> Owners]
  BY AtResource DEF IndInv, TypeOK
<1>0. faults' \in 0..MaxFaults
  BY LostResponse DEF PutOrFail, Answered, Stop
<1>2. CASE CanPut(Current)
  <2>1. az' = Put(Current) /\ (Advance(mem) \/ End(mem))
    BY <1>2 DEF PutOrFail, Answered
  <2>2. Claims(Current)
    BY <1>1, <1>2, <2>1, Writes DEF Claims
  <2>3. az'[Current] # "absent"
    BY <1>1, <2>2 DEF Claims, Owners
  <2> QED BY <1>0, <2>1, <2>2, <2>3, RecordsMem DEF WalkStep, Passed
<1>3. CASE ~CanPut(Current)
  BY <1>0, <1>3 DEF PutOrFail, Stop, WalkStep
<1> QED BY <1>2, <1>3

LEMMA KeepShape ==
    ASSUME IndInv, pc = "reconcile",
           End(mem) \/ (Passed(az, Current) /\ \E m : Records(m) /\ Advance(m)),
           UNCHANGED <<cfg, obj, cached, base, az, going, entries, faults, edits>>
    PROVE  WalkStep
  BY DEF WalkStep, IndInv, TypeOK, Passed

LEMMA ReadShape ==
    ASSUME IndInv, pc = "reconcile", Current \in Merged, ReadMerged(Current),
           Current \in SecurityGroups => IsVnetManaged,
           UNCHANGED <<cfg, obj, cached, base, az, going, entries, faults, edits>>
    PROVE  WalkStep
<1>1. Current # "vnet"
  BY DEF Merged, SecurityGroups, LoadBalancers
<1>2. CASE az[Current] # "absent" /\ Wanted(cfg, Current) \subseteq entries[Current]
  <2>1. Advance(mem)
    BY <1>2 DEF ReadMerged
  <2> QED BY <1>1, <1>2, <2>1, RecordsMem, KeepShape DEF Passed
<1>3. CASE ~(az[Current] # "absent" /\ Wanted(cfg, Current) \subseteq entries[Current])
  <2>1. Reads
    BY <1>3 DEF ReadMerged, Reads, IndInv, TypeOK
  <2> QED BY <2>1 DEF WalkStep, IndInv, TypeOK
<1> QED BY <1>2, <1>3

LEMMA WalkShape ==
    ASSUME IndInv,
           \/ ReconcileGroup \/ ReconcileVnet \/ ReconcileSecurityGroups \/ ReconcileRouteTables
           \/ ReconcileSubnets \/ ReconcilePublicIPs \/ ReconcileLoadBalancers
           \/ CreateOrUpdateMerged \/ ReconcilePrivateDNS \/ ReconcileBastion
    PROVE  WalkStep
<1>t. mem \in Objects /\ az \in [Resources -> Owners] /\ faults \in 0..MaxFaults
  BY DEF IndInv, TypeOK
<1>1. CASE ReconcileGroup
  <2>1. pc = "reconcile" /\ Current = "group" /\ Current \notin Network
    BY <1>1 DEF ReconcileGroup, At, Network, SecurityGroups, Subnets
  <2>2. CASE az["group"] = "absent"
    BY <1>1, <2>1, <2>2, PutShape DEF ReconcileGroup
  <2>3. CASE az["group"] # "absent"
    <3>1. Advance(mem) /\ UNCHANGED <<cfg, obj, cached, base, az, going, entries, faults, edits>>
      BY <1>1, <2>3 DEF ReconcileGroup, Pass
    <3> QED BY <2>1, <2>3, <3>1, RecordsMem, KeepShape DEF Passed
  <2> QED BY <2>2, <2>3
<1>2. CASE ReconcileVnet
  <2>1. pc = "reconcile" /\ Current = "vnet"
    BY <1>2 DEF ReconcileVnet, At
  <2>2. CASE az["vnet"] = "absent"
    BY <1>2, <2>1, <2>2, PutShape DEF ReconcileVnet
  <2>3. CASE az["vnet"] # "absent"
    <3>1. Advance(ExistingVnet) /\ UNCHANGED <<cfg, obj, cached, base, az, going, entries, faults, edits>>
      BY <1>2, <2>3 DEF ReconcileVnet, Pass
    <3>2. az["vnet"] \in {"ours", "users"}
      BY <1>t, <2>3 DEF Resources, Owners
    <3>3. Records(ExistingVnet)
      BY <1>t, <2>1, <2>3, <3>2 DEF ExistingVnet, Records, Objects
    <3> QED BY <2>1, <2>3, <3>1, <3>3, KeepShape DEF Passed
  <2> QED BY <2>2, <2>3
<1>3. CASE ReconcileSecurityGroups
  <2>1. pc = "reconcile" /\ Current \in SecurityGroups /\ Current \in Merged /\ Current # "vnet"
    BY <1>3 DEF ReconcileSecurityGroups, At, Merged, SecurityGroups
  <2>2. UNCHANGED <<cfg, obj, cached, base, az, going, entries, faults, edits>>
    BY <1>3 DEF ReconcileSecurityGroups
  <2>3. CASE IsVnetManaged
    BY <1>3, <2>1, <2>2, <2>3, ReadShape DEF ReconcileSecurityGroups
  <2>4. CASE ~IsVnetManaged
    <3>1. Advance(mem)
      BY <1>3, <2>4 DEF ReconcileSecurityGroups
    <3>2. cfg.userVnet
      BY <2>4, UsersVnet
    <3> QED BY <2>1, <2>2, <3>1, <3>2, RecordsMem, KeepShape DEF Passed
  <2> QED BY <2>3, <2>4
<1>4. CASE ReconcileRouteTables
  <2>1. pc = "reconcile" /\ Current = "routeTableNode"
    BY <1>4 DEF ReconcileRouteTables, At
  <2>2. CASE ~IsVnetManaged
    <3>1. Advance(mem) /\ UNCHANGED <<cfg, obj, cached, base, az, going, entries, faults, edits>>
      BY <1>4, <2>2 DEF ReconcileRouteTables, Pass
    <3>2. cfg.userVnet
      BY <2>2, UsersVnet
    <3> QED BY <2>1, <3>1, <3>2, RecordsMem, KeepShape DEF Passed
  <2>3. CASE IsVnetManaged /\ az[Current] = "absent"
    BY <1>4, <2>1, <2>3, PutShape DEF ReconcileRouteTables
  <2>4. CASE IsVnetManaged /\ az[Current] # "absent"
    <3>1. Advance(mem) /\ UNCHANGED <<cfg, obj, cached, base, az, going, entries, faults, edits>>
      BY <1>4, <2>4 DEF ReconcileRouteTables, Pass
    <3> QED BY <2>1, <2>4, <3>1, RecordsMem, KeepShape DEF Passed
  <2> QED BY <2>2, <2>3, <2>4
<1>5. CASE ReconcileSubnets
  <2>1. pc = "reconcile" /\ Current \in Subnets /\ Current # "vnet"
    BY <1>5 DEF ReconcileSubnets, At, Subnets
  <2>2. CASE az[Current] # "absent"
    <3>1. Advance(mem) /\ UNCHANGED <<cfg, obj, cached, base, az, going, entries, faults, edits>>
      BY <1>5, <2>2 DEF ReconcileSubnets, Pass
    <3> QED BY <2>1, <2>2, <3>1, RecordsMem, KeepShape DEF Passed
  <2>3. CASE az[Current] = "absent" /\ IsVnetManaged
    BY <1>5, <2>1, <2>3, PutShape DEF ReconcileSubnets
  <2>4. CASE az[Current] = "absent" /\ ~IsVnetManaged
    BY <1>5, <2>1, <2>4, KeepShape DEF ReconcileSubnets, Stop
  <2> QED BY <2>2, <2>3, <2>4
<1>6. CASE ReconcilePublicIPs
  <2>1. pc = "reconcile" /\ Current \notin Network
    BY <1>6 DEF ReconcilePublicIPs, At, Network, SecurityGroups, Subnets, PublicIPs
  <2> QED BY <1>6, <2>1, PutShape DEF ReconcilePublicIPs, Network
<1>7. CASE ReconcileLoadBalancers
  <2>1. pc = "reconcile" /\ Current \in Merged /\ Current \notin SecurityGroups
    BY <1>7 DEF ReconcileLoadBalancers, At, Merged, SecurityGroups, LoadBalancers
  <2> QED BY <1>7, <2>1, ReadShape DEF ReconcileLoadBalancers
<1>8. CASE CreateOrUpdateMerged
  <2>1. pc = "put" /\ Current \in Merged /\ (Current \in SecurityGroups => IsVnetManaged)
    BY <1>8 DEF CreateOrUpdateMerged, IndInv, WalkInv
  <2>0. faults' \in 0..MaxFaults
    BY <1>8, LostResponse DEF CreateOrUpdateMerged, Answered, Stop
  <2>2. Current \in Resources /\ UNCHANGED <<cfg, obj, cached, base, going, edits>>
        /\ faults' \in 0..MaxFaults
    BY <1>t, <1>8, <2>0, <2>1, AtResource DEF CreateOrUpdateMerged
  <2>3. Current # "vnet" /\ (Current \in Network => Current \in SecurityGroups)
    BY <2>1 DEF Network, Merged, SecurityGroups, LoadBalancers, Subnets
  <2>4. CASE EtagMatches(Current) /\ CanPut(Current)
    <3>1. /\ az' = Put(Current) /\ (Advance(mem) \/ End(mem))
          /\ entries' = [entries EXCEPT ![Current] = Merge(Current)]
      BY <1>8, <2>4 DEF CreateOrUpdateMerged, Answered
    <3>2. Claims(Current)
      BY <2>1, <2>2, <2>3, <2>4, <3>1, Writes DEF Claims
    <3>3. az'[Current] # "absent"
      BY <1>t, <2>2, <3>2 DEF Claims
    <3> QED BY <2>1, <2>2, <2>3, <2>4, <3>1, <3>2, <3>3, RecordsMem DEF WalkStep, Passed
  <2>5. CASE ~(EtagMatches(Current) /\ CanPut(Current))
    <3>1. End(mem) /\ az' = az /\ entries' = entries
      BY <1>8, <2>5 DEF CreateOrUpdateMerged, Stop
    <3> QED BY <2>1, <2>2, <3>1 DEF WalkStep
  <2> QED BY <2>4, <2>5
<1>9. CASE ReconcilePrivateDNS
  <2>1. pc = "reconcile" /\ Current \notin Network
    BY <1>9 DEF ReconcilePrivateDNS, At, Network, SecurityGroups, Subnets
  <2> QED BY <1>9, <2>1, PutShape DEF ReconcilePrivateDNS, Network
<1>10. CASE ReconcileBastion
  <2>1. pc = "reconcile" /\ Current = "bastion" /\ Current \notin Network
    BY <1>10 DEF ReconcileBastion, At, Network, SecurityGroups, Subnets
  <2>2. CASE {"ipBastion", "subnetBastion"} \subseteq Existing \cap InGroup(cfg)
    BY <1>10, <2>1, <2>2, PutShape DEF ReconcileBastion
  <2>3. CASE ~({"ipBastion", "subnetBastion"} \subseteq Existing \cap InGroup(cfg))
    BY <1>10, <2>1, <2>3, KeepShape DEF ReconcileBastion, Stop
  <2> QED BY <2>2, <2>3
<1> QED BY <1>1, <1>2, <1>3, <1>4, <1>5, <1>6, <1>7, <1>8, <1>9, <1>10

\* Facts of a state in which the deletion walk is at a resource.
LEMMA AtDeleted ==
    ASSUME IndInv, pc = "delete"
    PROVE  /\ cfg \in Configs /\ DeleteOrder[pos] \in Deletable /\ DeleteOrder[pos] \in Resources
           /\ pos \in 1..Len(DeleteOrder) /\ Len(DeleteOrder) \in 8..17
           /\ Skipped(DeleteOrder[pos]) => az[DeleteOrder[pos]] # "ours"
<1>1. cfg \in Configs
  BY ClustersAssumption DEF IndInv, TypeOK
<1>2. pos \in 1..Len(DeleteOrder) /\ Len(DeleteOrder) \in 8..17
  BY <1>1, Orders DEF IndInv, WalkInv
<1>3. DeleteOrder[pos] \in Deletable /\ DeleteOrder[pos] \in Resources
  BY <1>1, <1>2, Orders DEF Deletable
<1>4. ~IsVnetManaged => cfg.userVnet
  BY UsersVnet
<1>5. Skipped(DeleteOrder[pos]) => az[DeleteOrder[pos]] # "ours"
  BY <1>3, <1>4 DEF Skipped, IndInv, AzureInv, Network
<1> QED BY <1>1, <1>2, <1>3, <1>5

LEMMA DeletionShape ==
    ASSUME IndInv, NEW rs, DeleteEach(rs)
    PROVE  DeletionStep
<1> DEFINE r == DeleteOrder[pos]
           next == /\ IF pos = Len(DeleteOrder)
                      THEN pc' = "release" /\ pos' = 0
                      ELSE pc' = "delete" /\ pos' = pos + 1
                   /\ UNCHANGED <<mem, seen>>
<1>1. pc = "delete" /\ UNCHANGED <<cfg, obj, cached, base, going, edits>>
  BY DEF DeleteEach
<1>2. r \in Resources /\ (Skipped(r) => az[r] # "ours") /\ az \in [Resources -> Owners]
  BY <1>1, AtDeleted DEF IndInv, TypeOK
<1>3. CASE Skipped(r)
  <2>1. az' = az /\ entries' = entries /\ faults' = faults /\ next
    BY <1>3 DEF DeleteEach
  <2>2. faults' \in 0..MaxFaults
    BY <2>1, LostResponse
  <2> QED BY <1>1, <1>2, <1>3, <2>1, <2>2 DEF DeletionStep
<1>4. CASE ~Skipped(r) /\ CanRemove(r)
  <2>1. az' = Remove(r) /\ entries' = EntriesWithout({r}) /\ Answered(next)
    BY <1>4 DEF DeleteEach
  <2>2. az' = Without({r} \cup Parts(r))
    BY <1>2, <2>1, Writes
  <2>3. az'[r] # "ours"
    BY <1>2, <2>2 DEF Without
  <2>4. faults' \in 0..MaxFaults
    BY <2>1, LostResponse DEF Answered
  <2>5. mem' = mem /\ \/ next
                      \/ pc' = "close" /\ pos' = 0 /\ seen' = Unread
    BY <2>1 DEF Answered, End
  <2> QED BY <1>1, <1>2, <1>4, <2>1, <2>2, <2>3, <2>4, <2>5 DEF DeletionStep
<1>5. CASE ~Skipped(r) /\ ~CanRemove(r)
  <2>1. Stop /\ entries' = entries
    BY <1>5 DEF DeleteEach
  <2>2. az' = az /\ faults' = faults /\ mem' = mem /\ pc' = "close" /\ pos' = 0 /\ seen' = Unread
    BY <2>1 DEF Stop, End
  <2>3. faults' \in 0..MaxFaults
    BY <2>2, LostResponse
  <2> QED BY <1>1, <1>2, <2>1, <2>2, <2>3 DEF DeletionStep
<1> QED BY <1>3, <1>4, <1>5

LEMMA GroupShape ==
    ASSUME IndInv, DeleteGroup \/ AwaitGroup
    PROVE  GroupStep
<1>1. faults \in 0..MaxFaults
  BY DEF IndInv, TypeOK
<1>2. CASE AwaitGroup
  BY <1>1, <1>2 DEF AwaitGroup, GroupStep
<1>3. CASE DeleteGroup /\ az["group"] = "absent"
  BY <1>1, <1>3 DEF DeleteGroup, GroupStep
<1>4. CASE DeleteGroup /\ az["group"] = "ours"
  BY <1>1, <1>4, ClientsWait DEF DeleteGroup, GroupStep
<1>5. CASE DeleteGroup /\ az["group"] \notin {"absent", "ours"}
  BY <1>1, <1>5 DEF DeleteGroup, GroupStep
<1> QED BY <1>2, <1>3, <1>4, <1>5

LEMMA AzureShape ==
    ASSUME IndInv, Azure
    PROVE  ShrinkStep
  BY DEF Azure, GroupEnds, GroupShrinks, ShrinkStep

\* The faults inside a walk.
LEMMA FaultShape ==
    ASSUME IndInv, faults' \in 0..MaxFaults, CallFails
    PROVE  \/ WalkStep \/ DeletionStep \/ GroupStep
           \/ pc = "prepare" /\ End(mem) /\ UNCHANGED <<cfg, obj, cached, base, az, going, entries, edits>>
<1>1. End(mem) /\ UNCHANGED <<cfg, obj, cached, base, az, going, entries, edits>>
      /\ pc \in {"prepare", "reconcile", "put", "deleteGroup", "await", "delete"}
  BY DEF CallFails
<1> QED BY <1>1 DEF WalkStep, DeletionStep, GroupStep, End

-----------------------------------------------------------------------------
(* The walk of the services *)

\* A step of the walk takes nothing away and adds at most the current resource,
\* which is not the user's.
LEMMA WalkAdds ==
    ASSUME IndInv, WalkStep
    PROVE  /\ az' \in [Resources -> Owners]
           /\ \A r \in Resources : az'[r] # az[r] =>
                  /\ az[r] = "absent" /\ az'[r] = "ours" /\ r = Current
                  /\ CanPut(r) /\ r \notin UserResources(cfg) /\ (cfg.userVnet => r \notin Network)
<1>1. pc \in {"reconcile", "put"} /\ az \in [Resources -> Owners]
  BY DEF WalkStep, IndInv, TypeOK
<1>2. az' = az \/ Claims(Current)
  BY DEF WalkStep
<1>3. ASSUME Claims(Current), NEW r \in Resources, az'[r] # az[r]
      PROVE  az[r] = "absent" /\ az'[r] = "ours" /\ r = Current /\ CanPut(r)
  BY <1>1, <1>3, AtResource DEF Claims
<1>4. ASSUME Claims(Current), NEW r \in Resources, az'[r] # az[r]
      PROVE  r \notin UserResources(cfg) /\ (cfg.userVnet => r \notin Network)
  <2>1. r \notin UserResources(cfg)
    BY <1>1, <1>3, <1>4, AtResource
  <2>2. cfg.userVnet => "vnet" \in UserResources(cfg)
    BY DEF UserResources
  <2>3. cfg.userVnet /\ r \in Network => r \in Network \ {"vnet"} /\ r # "group"
    BY <2>1, <2>2 DEF Network, SecurityGroups, Subnets
  <2>4. r \in Network \ {"vnet"} => IsVnetManaged
    BY <1>3, <1>4 DEF Claims
  <2> QED BY <1>1, <1>3, <1>4, <2>1, <2>3, <2>4, AtResource
<1>5. az' \in [Resources -> Owners]
  BY <1>1, <1>2, AtResource DEF Claims, Owners
<1> QED BY <1>2, <1>3, <1>4, <1>5

LEMMA WantedType == ASSUME NEW c, NEW r PROVE Wanted(c, r) \subseteq Entries
  BY DEF Wanted, LBEntries, SecurityRules, getFrontendIPConfigs, getLoadBalancingRules,
         getBackendAddressPools, getOutboundRules, getProbes, Entries

LEMMA WalkType ==
    ASSUME IndInv, WalkStep
    PROVE  TypeOK'
<1> USE DEF IndInv, TypeOK
<1>1. az' \in [Resources -> Owners]
  BY WalkAdds
<1>2. pc \in {"reconcile", "put"} /\ faults' \in 0..MaxFaults
      /\ UNCHANGED <<cfg, obj, cached, base, going, edits>>
  BY DEF WalkStep
<1>3. entries' \in [Merged -> SUBSET Entries]
  <2>1. CASE entries' = entries
    BY <2>1
  <2>2. CASE entries' # entries
    <3>1. pc = "put" /\ entries' = [entries EXCEPT ![Current] = Merge(Current)]
      BY <2>2 DEF WalkStep
    <3>2. Merge(Current) \subseteq Entries
      BY <3>1, WantedType DEF WalkInv, Merge
    <3> QED BY <3>1, <3>2
  <2> QED BY <2>1, <2>2
<1>4. pos \in 1..Len(ReconcileOrder) /\ Len(ReconcileOrder) \in 9..19
  BY <1>2, AtResource
<1>5. mem' \in Objects /\ pc' \in PCs /\ pos' \in 0..20 /\ seen' \in (SUBSET Entries) \cup {Unread}
  <2>1. ASSUME NEW m, Records(m), Advance(m)
        PROVE  mem' \in Objects /\ pc' \in PCs /\ pos' \in 0..20 /\ seen' = Unread
    <3>1. \A n \in 9..19 : \A i \in 1..n : i + 1 \in 0..20
      OBVIOUS
    <3>2. pos + 1 \in 0..20
      BY <1>4, <3>1
    <3>3. pos' \in {0, pos + 1}
      BY <2>1 DEF Advance
    <3>4. pos' \in 0..20
      BY <3>2, <3>3
    <3> QED BY <2>1, <3>4 DEF Records, Advance, PCs
  <2>2. CASE End(mem)
    BY <2>2 DEF End, PCs
  <2>3. CASE Reads
    BY <2>3 DEF Reads, PCs
  <2> QED BY <2>1, <2>2, <2>3 DEF WalkStep
<1> QED BY <1>1, <1>2, <1>3, <1>5

LEMMA WalkAzure ==
    ASSUME IndInv, WalkStep
    PROVE  AzureInv'
<1> USE DEF IndInv
<1>1. pc \in {"reconcile", "put"} /\ Walked' = Walked /\ UNCHANGED <<cfg, obj, cached, going>>
  BY SameOrders DEF WalkStep
<1>2. Current \in Walked /\ Current \in Resources /\ obj.finalizer
      /\ \A r \in UserResources(cfg) : az[r] = "users"
  BY <1>1, AtResource
<1>3. UserResources(cfg) \subseteq Resources /\ "group" \in Resources /\ "zone" \in Resources
      /\ "record" \in Resources /\ "zone" \notin UserResources(cfg) /\ Merged \subseteq Resources
  BY DEF UserResources, Resources, Merged, SecurityGroups, LoadBalancers
<1>4. \A r \in Resources : az'[r] = "users" => r \in UserResources(cfg)
  BY WalkAdds DEF AzureInv
<1>5. \A r \in Resources : az'[r] = "ours" =>
          r \in Walked \ UserResources(cfg) /\ (cfg.userVnet => r \notin Network)
  BY <1>2, WalkAdds DEF AzureInv
<1>6. az'["group"] = "absent" \/ ~obj.finalizer => Owned' = {}
  <2> SUFFICES ASSUME az'["group"] = "absent" PROVE Owned' = {}
    BY <1>2
  <2>1. az["group"] = "absent"
    BY <1>3, WalkAdds
  <2>2. ASSUME NEW r \in Resources, az'[r] # az[r] PROVE FALSE
    BY <1>3, <2>1, <2>2, WalkAdds DEF CanPut, Existing
  <2> QED BY <1>1, <2>1, <2>2 DEF Owned, AzureInv, InGroup
<1>7. cfg.userGroup => az'["group"] = "users"
  BY <1>3, WalkAdds DEF AzureInv
<1>8. az'["record"] = "ours" => az'["zone"] = "ours"
  <2>1. CASE az'["record"] = az["record"]
    BY <1>3, <2>1, WalkAdds DEF AzureInv
  <2>2. CASE az'["record"] # az["record"]
    <3>1. CanPut("record") /\ Current = "record"
      BY <1>3, <2>2, WalkAdds
    <3>2. Refers(cfg, "record") = {"zone"}
      BY DEF Refers, Subnets
    <3>3. az["zone"] # "absent" /\ az["zone"] # "users" /\ az["zone"] \in Owners
      BY <1>3, <3>1, <3>2 DEF CanPut, Existing, AzureInv, TypeOK
    <3>4. az'["zone"] = az["zone"]
      BY <1>3, <3>1, WalkAdds
    <3> QED BY <3>3, <3>4 DEF Owners
  <2> QED BY <2>1, <2>2
<1>9. \A r \in UserResources(cfg) : az'[r] = "users"
  BY <1>2, <1>3, WalkAdds
<1>10. ASSUME NEW r \in Merged, az'[r] = "absent" PROVE entries'[r] = {}
  <2>1. az[r] = "absent" /\ entries[r] = {}
    BY <1>3, <1>10, WalkAdds DEF AzureInv
  <2>2. CASE entries' = entries
    BY <2>1, <2>2
  <2>3. CASE entries' # entries
    <3>1. /\ Claims(Current)
          /\ entries' = [entries EXCEPT ![Current] = Merge(Current)]
      BY <2>3 DEF WalkStep
    <3>2. r # Current
      BY <1>2, <1>10, <2>1, <3>1 DEF Claims, TypeOK
    <3> QED BY <2>1, <3>1, <3>2 DEF TypeOK
  <2> QED BY <2>2, <2>3
<1>11. UserResources(cfg)' = UserResources(cfg)
  BY <1>1
<1>12. ~going'
  BY <1>1 DEF AzureInv, Normal
<1> QED BY <1>1, <1>4, <1>5, <1>6, <1>7, <1>8, <1>9, <1>10, <1>11, <1>12 DEF AzureInv

LEMMA WalkWalk ==
    ASSUME IndInv, WalkStep
    PROVE  WalkInv'
<1> USE DEF IndInv
<1>1. /\ pc \in {"reconcile", "put"} /\ cfg' = cfg
      /\ ReconcileOrder' = ReconcileOrder /\ DeleteOrder' = DeleteOrder
  BY SameOrders DEF WalkStep
<1>2. pos \in 1..Len(ReconcileOrder) /\ Len(ReconcileOrder) \in 9..19 /\ Current \in Resources
      /\ cfg \in Configs
  BY <1>1, AtResource
<1>3. \A i \in 1..(pos - 1) : Passed(az, ReconcileOrder[i])
  BY <1>1 DEF WalkInv
<1>4. ASSUME NEW r \in Resources, Passed(az, r) PROVE Passed(az', r)
  BY <1>4, WalkAdds DEF Passed
<1>5. \A i \in 1..Len(ReconcileOrder) : ReconcileOrder[i] \in Resources
  BY <1>2, Orders
<1>6. \A i \in 1..(pos - 1) : Passed(az', ReconcileOrder[i])
  BY <1>2, <1>3, <1>4, <1>5
<1>7. ASSUME NEW m, Records(m), Advance(m), Passed(az', Current)
      PROVE  WalkInv'
  <2>1. mem' = m /\ pc' = (IF pos = Len(ReconcileOrder) THEN "ready" ELSE "reconcile")
        /\ pos' = (IF pos = Len(ReconcileOrder) THEN 0 ELSE pos + 1)
    BY <1>7 DEF Advance
  <2>2. \A i \in 1..pos : Passed(az', ReconcileOrder[i])
    BY <1>2, <1>6, <1>7 DEF Current
  <2>3. CASE pos = Len(ReconcileOrder)
    <3>1. pc' = "ready" /\ Complete'
      BY <1>1, <2>1, <2>2, <2>3 DEF Complete, Passed
    <3> QED BY <3>1 DEF WalkInv
  <2>4. CASE pos # Len(ReconcileOrder)
    <3>1. pc' = "reconcile" /\ pos' = pos + 1 /\ pos' \in 1..Len(ReconcileOrder)
          /\ pos' - 1 = pos
      BY <1>2, <2>1, <2>4
    <3>2. cfg.userVnet /\ pos' > 2 => m.vnet = "users"
      <4> SUFFICES ASSUME cfg.userVnet, pos' > 2 PROVE m.vnet = "users"
        OBVIOUS
      <4>1. CASE pos = 2
        <5>1. Current = "vnet"
          BY <1>2, <4>1, Orders DEF Current
        <5>2. az["vnet"] = "users"
          BY <1>1, AtResource DEF UserResources
        <5> QED BY <1>7, <5>1, <5>2 DEF Records
      <4>2. CASE pos > 2
        <5>1. mem.vnet = "users"
          BY <1>1, <4>2 DEF WalkInv
        <5>2. az["vnet"] = "users"
          BY <1>1, AtResource DEF UserResources
        <5> QED BY <1>7, <5>1, <5>2 DEF Records
      <4> QED BY <1>2, <3>1, <4>1, <4>2
    <3>3. \A i \in 1..(pos' - 1) : Passed(az, ReconcileOrder[i])'
      BY <1>1, <2>2, <3>1 DEF Passed
    <3> QED BY <1>1, <2>1, <3>1, <3>2, <3>3 DEF WalkInv
  <2> QED BY <2>3, <2>4
<1>8. CASE End(mem)
  BY <1>8 DEF End, WalkInv
<1>9. CASE Reads /\ az' = az
  <2>1. pc' = "put" /\ mem' = mem /\ pos' = pos /\ Current' = Current
    BY <1>1, <1>9 DEF Reads, Current
  <2>2. \A i \in 1..(pos' - 1) : Passed(az, ReconcileOrder[i])'
    BY <1>1, <1>6, <2>1 DEF Passed
  <2>3. IsVnetManaged' = IsVnetManaged
    BY <2>1 DEF IsVnetManaged
  <2>4. cfg.userVnet /\ pos' > 2 => mem'.vnet = "users"
    BY <1>1, <2>1 DEF WalkInv
  <2> QED BY <1>1, <1>2, <1>9, <2>1, <2>2, <2>3, <2>4 DEF WalkInv, Reads
<1> QED BY <1>7, <1>8, <1>9 DEF WalkStep

LEMMA WalkObject ==
    ASSUME IndInv, WalkStep
    PROVE  ObjectInv' /\ CopyInv'
<1> USE DEF IndInv
<1>1. pc \in {"reconcile", "put"} /\ UNCHANGED <<cfg, obj, cached, base, going>>
  BY DEF WalkStep
<1>2. mem.finalizer /\ obj.finalizer /\ mem.ready = base.ready
  BY <1>1 DEF CopyInv, Normal
<1>3. mem'.finalizer = mem.finalizer /\ mem'.ready = mem.ready
      /\ pc' \in {"ready", "reconcile", "put", "close"}
  BY DEF WalkStep, Records, Advance, End, Reads
<1>4. mem'.vnet # IF cfg.userVnet THEN "ours" ELSE "users"
  <2>1. mem'.vnet \in {mem.vnet, az["vnet"]}
    BY DEF WalkStep, Records, Advance, End, Reads
  <2>2. az["vnet"] # IF cfg.userVnet THEN "ours" ELSE "users"
    BY DEF AzureInv, Network, UserResources, Resources
  <2> QED BY <2>1, <2>2 DEF ObjectInv
<1>5. ObjectInv'
  BY <1>1, <1>4 DEF ObjectInv
<1>6. CopyInv'
  BY <1>1, <1>2, <1>3 DEF CopyInv, Normal, Deletion
<1> QED BY <1>5, <1>6

LEMMA WalkKeeps ==
    ASSUME IndInv, WalkStep
    PROVE  IndInv'
  BY WalkType, WalkAzure, WalkWalk, WalkObject DEF IndInv

-----------------------------------------------------------------------------
(* The deletion *)

\* Neither the services nor Azure, which deletes the group, take more along than
\* what they are at.
LEMMA DeletionTakes ==
    ASSUME IndInv, DeletionStep \/ ShrinkStep
    PROVE  /\ az' \in [Resources -> Owners]
           /\ entries' \in [Merged -> SUBSET Entries]
           /\ \A r \in Resources : az'[r] # az[r] => az'[r] = "absent"
           /\ \A r \in Merged : az'[r] = "absent" => entries'[r] = {}
           /\ \A r \in Merged : az'[r] # "absent" => entries'[r] = entries[r]
           /\ az'["record"] = "ours" => az'["zone"] = "ours"
<1> USE DEF IndInv
<1>t. az \in [Resources -> Owners] /\ entries \in [Merged -> SUBSET Entries]
      /\ (\A r \in Merged : az[r] = "absent" => entries[r] = {})
      /\ (az["record"] = "ours" => az["zone"] = "ours")
  BY DEF TypeOK, AzureInv
<1>m. Merged \subseteq Resources /\ "zone" \in Resources /\ "record" \in Resources
      /\ "group" \notin Merged
  BY DEF Merged, Resources, SecurityGroups, LoadBalancers
<1>1. CASE az' = az /\ entries' = entries
  BY <1>1, <1>t
<1>2. ASSUME NEW R, az' = Without(R), entries' \in [Merged -> SUBSET Entries],
             \A r \in Merged : entries'[r] = IF r \in R THEN {} ELSE entries[r],
             "zone" \in R => "record" \in R \/ az["record"] = "absent"
      PROVE  /\ az' \in [Resources -> Owners]
             /\ \A r \in Resources : az'[r] # az[r] => az'[r] = "absent"
             /\ \A r \in Merged : az'[r] = "absent" => entries'[r] = {}
             /\ \A r \in Merged : az'[r] # "absent" => entries'[r] = entries[r]
             /\ az'["record"] = "ours" => az'["zone"] = "ours"
  <2>1. \A r \in Resources : az'[r] = IF r \in R THEN "absent" ELSE az[r]
    BY <1>2 DEF Without
  <2>2. az' \in [Resources -> Owners]
    BY <1>t, <1>2 DEF Without, Owners
  <2> QED BY <1>t, <1>m, <1>2, <2>1, <2>2
<1>e. ASSUME NEW E PROVE /\ EntriesWithout(E) \in [Merged -> SUBSET Entries]
                         /\ \A r \in Merged : EntriesWithout(E)[r] = IF r \in E THEN {} ELSE entries[r]
  BY <1>t DEF EntriesWithout
<1>3. CASE DeletionStep
  <2> DEFINE d == DeleteOrder[pos]
  <2>1. CASE az' = Without({d} \cup Parts(d)) /\ entries' = EntriesWithout({d})
    <3>1. \A r \in Merged : r \notin Parts(d)
      BY DEF Merged, SecurityGroups, LoadBalancers, Parts, Subnets
    <3>2. "zone" \in {d} \cup Parts(d) => "record" \in {d} \cup Parts(d)
      BY DEF Parts, Subnets
    <3> HIDE DEF d
    <3>3. \A r \in Merged : r \in {d} \cup Parts(d) <=> r \in {d}
      BY <3>1
    <3>4. /\ entries' \in [Merged -> SUBSET Entries]
          /\ \A r \in Merged : entries'[r] = IF r \in {d} \cup Parts(d) THEN {} ELSE entries[r]
      BY <1>e, <2>1, <3>3
    <3> QED BY <1>2, <2>1, <3>2, <3>4
  <2> QED BY <1>1, <1>3, <2>1 DEF DeletionStep
<1>4. CASE ShrinkStep
  <2>1. ASSUME NEW rs \in SUBSET Removable, az' = Without(rs), entries' = EntriesWithout(rs)
        PROVE  "zone" \in rs => az["record"] = "absent"
    <3>1. Refers(cfg, "record") = {"zone"}
      BY DEF Refers, Subnets
    <3> QED BY <1>m, <2>1, <3>1 DEF Removable, Existing
  <2>2. CASE \E rs \in SUBSET Removable : az' = Without(rs) /\ entries' = EntriesWithout(rs)
    <3>1. PICK rs \in SUBSET Removable : az' = Without(rs) /\ entries' = EntriesWithout(rs)
      BY <2>2
    <3>2. /\ entries' \in [Merged -> SUBSET Entries]
          /\ \A r \in Merged : entries'[r] = IF r \in rs THEN {} ELSE entries[r]
      BY <1>e, <3>1
    <3> QED BY <1>2, <2>1, <3>1, <3>2
  <2>3. CASE az' = Without({"group"}) /\ entries' = entries
    <3>1. \A r \in Merged : entries'[r] = IF r \in {"group"} THEN {} ELSE entries[r]
      BY <1>m, <2>3
    <3> QED BY <1>2, <1>t, <2>3, <3>1
  <2> QED BY <1>1, <1>4, <2>2, <2>3 DEF ShrinkStep
<1> QED BY <1>3, <1>4

\* Azure takes along only what is in the group, and the group last.
LEMMA GroupShrinksTo ==
    ASSUME IndInv, ShrinkStep
    PROVE  /\ az["group"] = "ours" /\ cached.life # "live" /\ pc \notin Normal /\ going
           /\ \A r \in Resources : az'[r] # az[r] => r \in InGroup(cfg)
           /\ az'["group"] # az["group"] => ~going' /\ Existing \cap InGroup(cfg) = {"group"}
<1>1. going /\ az["group"] = "ours" /\ cached.life # "live" /\ pc \notin Normal /\ az \in [Resources -> Owners]
  BY DEF IndInv, AzureInv, TypeOK, ShrinkStep
<1>2. "group" \in InGroup(cfg) /\ "group" \in Resources
  BY DEF InGroup, Resources, Subnets
<1>3. CASE \E rs \in SUBSET Removable : az' = Without(rs)
  <2>1. PICK rs \in SUBSET Removable : az' = Without(rs)
    BY <1>3
  <2>2. \A r \in Resources : az'[r] # az[r] => r \in rs
    BY <2>1 DEF Without
  <2>3. \A r \in rs : r \in InGroup(cfg) /\ r # "group"
    BY DEF Removable
  <2> QED BY <1>1, <1>2, <2>2, <2>3
<1>4. CASE az' = az
  BY <1>1, <1>4
<1>5. CASE going' = FALSE /\ az' = Without({"group"}) /\ Existing \cap InGroup(cfg) = {"group"}
  BY <1>1, <1>2, <1>5 DEF Without
<1> QED BY <1>3, <1>4, <1>5 DEF ShrinkStep

\* What the user has is taken along only if the copy does not record it.
LEMMA DeletionSpares ==
    ASSUME IndInv, DeletionStep \/ ShrinkStep,
           NEW r \in Resources, az[r] = "users", az'[r] # "users"
    PROVE  r # "group" /\ base.vnet = "none"
<1> USE DEF IndInv
<1>1. r \in UserResources(cfg)
  BY DEF AzureInv
<1>2. CASE DeletionStep
  <2> DEFINE d == DeleteOrder[pos]
  <2>1. d \in Deletable /\ pc = "delete"
    BY <1>2, AtDeleted DEF DeletionStep
  <2>2. ~Skipped(d) /\ az' = Without({d} \cup Parts(d))
    BY <1>2 DEF DeletionStep
  <2>3. r \in {d} \cup Parts(d)
    BY <2>2 DEF Without
  <2>4. r # "group" /\ r # "record"
    BY <2>1, <2>3, <1>1 DEF Deletable, Parts, Subnets, UserResources
  <2>5. cfg.userVnet /\ r \in Subnets \cup {"vnet"}
    BY <1>1, <2>4 DEF UserResources, Subnets
  <2>6. d \in Subnets \cup {"vnet"}
    BY <2>3, <2>4, <2>5 DEF Parts, Subnets
  <2>7. IsVnetManaged /\ mem = base
    BY <2>1, <2>2, <2>6 DEF Skipped, CopyInv, Deletion
  <2>8. mem.vnet # IF cfg.userVnet THEN "ours" ELSE "users"
    BY DEF ObjectInv
  <2> QED BY <2>4, <2>5, <2>7, <2>8 DEF IsVnetManaged
<1>3. CASE ShrinkStep
  <2>1. az["group"] = "ours" /\ r \in InGroup(cfg)
    BY <1>3, GroupShrinksTo
  <2>2. ~cfg.userGroup
    BY <2>1 DEF AzureInv
  <2>3. cfg.userVnet /\ r \in Subnets \cup {"vnet"}
    BY <1>1, <2>2 DEF UserResources, Subnets
  <2>4. cfg.vnetApart
    BY <2>2, <2>3, ClustersAssumption DEF TypeOK, Configs
  <2> QED BY <2>1, <2>3, <2>4 DEF InGroup
<1> QED BY <1>2, <1>3

LEMMA DeletionAzure ==
    ASSUME IndInv, DeletionStep \/ ShrinkStep
    PROVE  AzureInv'
<1> USE DEF IndInv
<1>1. Walked' = Walked /\ UserResources(cfg)' = UserResources(cfg) /\ UNCHANGED <<cfg, obj, cached>>
  BY SameOrders DEF DeletionStep, ShrinkStep
<1>2. cached.life # "live" /\ pc' \notin Normal
  <2>1. CASE DeletionStep
    BY <2>1 DEF DeletionStep, Deletion, CopyInv, Normal
  <2>2. CASE ShrinkStep
    BY <2>2, GroupShrinksTo DEF ShrinkStep
  <2> QED BY <2>1, <2>2
<1>3. obj.life # "live"
  BY <1>2 DEF ObjectInv
<1>4. \A r \in Resources : az'[r] = "users" => az[r] = "users"
  BY DeletionTakes
<1>5. \A r \in Resources : az'[r] = "ours" => az[r] = "ours"
  BY DeletionTakes
<1>6. "group" \in Resources /\ InGroup(cfg) \subseteq Resources
  BY DEF Resources, InGroup
<1>7. Owned' \subseteq Owned
  BY <1>1, <1>5, <1>6 DEF Owned
<1>8. az'["group"] = "absent" => Owned' = {}
  <2> SUFFICES ASSUME az'["group"] = "absent", az["group"] # "absent" PROVE Owned' = {}
    BY <1>7 DEF AzureInv
  <2>1. CASE DeletionStep
    <3>1. DeleteOrder[pos] # "group"
      BY <2>1, AtDeleted DEF DeletionStep, Deletable
    <3>2. az' = Without({DeleteOrder[pos]} \cup Parts(DeleteOrder[pos]))
      BY <2>1 DEF DeletionStep
    <3>3. "group" \notin Parts(DeleteOrder[pos])
      BY DEF Parts, Subnets
    <3> QED BY <1>6, <3>1, <3>2, <3>3 DEF Without
  <2>2. CASE ShrinkStep
    <3>1. Existing \cap InGroup(cfg) = {"group"}
      BY <2>2, GroupShrinksTo
    <3>2. ASSUME NEW r \in Owned' PROVE FALSE
      <4>1. r \in InGroup(cfg) /\ r \in Resources /\ az'[r] = "ours" /\ az[r] = "ours"
        BY <1>1, <1>5, <1>6, <3>2 DEF Owned
      <4> QED BY <3>1, <4>1 DEF Existing
    <3> QED BY <3>2
  <2> QED BY <2>1, <2>2
<1>9. cfg.userGroup => az'["group"] = "users"
  BY <1>6, DeletionSpares DEF AzureInv
<1>10. ~obj.finalizer => Owned' = {}
  BY <1>7 DEF AzureInv
<1>11. going' => az'["group"] = "ours"
  <2>1. CASE DeletionStep
    BY <2>1 DEF DeletionStep, WalkInv, AzureInv
  <2>2. CASE ShrinkStep
    BY <2>2, GroupShrinksTo
  <2> QED BY <2>1, <2>2
<1> QED BY <1>1, <1>2, <1>3, <1>4, <1>5, <1>8, <1>9, <1>10, <1>11, DeletionTakes DEF AzureInv

LEMMA DeletionKeeps ==
    ASSUME IndInv, DeletionStep
    PROVE  IndInv'
<1> USE DEF IndInv
<1>1. /\ pc = "delete" /\ UNCHANGED <<cfg, obj, cached, base, mem, going, edits>>
      /\ faults' \in 0..MaxFaults /\ DeleteOrder' = DeleteOrder
  BY SameOrders DEF DeletionStep
<1>2. /\ cfg \in Configs /\ pos \in 1..Len(DeleteOrder) /\ Len(DeleteOrder) \in 8..17
      /\ DeleteOrder[pos] \in Resources
  BY <1>1, AtDeleted
<1>3. TypeOK'
  <2>1. \A n \in 8..17 : \A i \in 1..n : i + 1 \in 0..20
    OBVIOUS
  <2>2. pos + 1 \in 0..20
    BY <1>2, <2>1
  <2>3. pos' \in 0..20
    BY <2>2 DEF DeletionStep
  <2>4. pc' \in PCs /\ seen' \in (SUBSET Entries) \cup {Unread}
    BY DEF DeletionStep, PCs, TypeOK
  <2> QED BY <1>1, <2>3, <2>4, DeletionTakes DEF TypeOK
<1>4. AzureInv'
  BY DeletionAzure
<1>5. mem = base /\ base.finalizer /\ cached.life # "live"
  BY <1>1 DEF CopyInv, Deletion
<1>6. pc' \in {"close", "delete", "release"}
  BY DEF DeletionStep
<1>7. ObjectInv' /\ CopyInv'
  BY <1>1, <1>5, <1>6 DEF ObjectInv, CopyInv, Normal
<1>8. WalkInv'
  <2>1. az["group"] = "users" /\ \A i \in 1..(pos - 1) : az[DeleteOrder[i]] # "ours"
    BY <1>1 DEF WalkInv
  <2>2. az'["group"] = "users"
    BY <2>1, DeletionSpares DEF Resources
  <2>3. \A i \in 1..Len(DeleteOrder) : DeleteOrder[i] \in Resources
    BY <1>2, Orders DEF Deletable
  <2>4. \A i \in 1..(pos - 1) : az'[DeleteOrder[i]] # "ours"
    <3>1. \A i \in 1..(pos - 1) : DeleteOrder[i] \in Resources
      BY <1>2, <2>3
    <3> QED BY <2>1, <3>1, DeletionTakes
  <2>5. CASE pc' = "close"
    BY <2>5 DEF WalkInv
  <2>6. CASE pc' # "close"
    <3>1. az'[DeleteOrder[pos]] # "ours" /\ IF pos = Len(DeleteOrder)
             THEN pc' = "release" /\ pos' = 0
             ELSE pc' = "delete" /\ pos' = pos + 1
      BY <2>6 DEF DeletionStep
    <3>2. \A i \in 1..pos : az'[DeleteOrder[i]] # "ours"
      BY <1>2, <2>4, <3>1
    <3>3. CASE pos = Len(DeleteOrder)
      <4>1. pc' = "release"
        BY <3>1, <3>3
      <4>2. ASSUME NEW r \in Owned' PROVE FALSE
        <5>1. r \in Resources /\ az'[r] = "ours" /\ r \in Walked
          BY <1>1, <1>4, <4>2, SameOrders DEF Owned, AzureInv, InGroup
        <5>2. r # "group"
          BY <2>2, <5>1
        <5>3. CASE r = "record"
          <6>1. az'["zone"] = "ours"
            BY <5>1, <5>3, DeletionTakes
          <6> QED BY <1>2, <3>2, <3>3, <5>1, <5>3, <6>1, Orders
        <5>4. CASE r # "record"
          BY <1>2, <3>2, <3>3, <5>1, <5>2, <5>4, Orders
        <5> QED BY <5>3, <5>4
      <4> QED BY <4>1, <4>2 DEF WalkInv
    <3>4. CASE pos # Len(DeleteOrder)
      <4>1. pc' = "delete" /\ pos' = pos + 1 /\ pos' \in 1..Len(DeleteOrder) /\ pos' - 1 = pos
        BY <1>2, <3>1, <3>4
      <4> QED BY <1>1, <2>2, <3>2, <4>1 DEF WalkInv
    <3> QED BY <3>3, <3>4
  <2> QED BY <2>5, <2>6
<1> QED BY <1>3, <1>4, <1>7, <1>8

LEMMA GroupKeeps ==
    ASSUME IndInv, GroupStep
    PROVE  IndInv'
<1> USE DEF IndInv
<1>1. /\ pc \in {"deleteGroup", "await"} /\ UNCHANGED <<cfg, obj, cached, base, mem, az, entries, edits>>
      /\ faults' \in 0..MaxFaults /\ DeleteOrder' = DeleteOrder /\ Walked' = Walked /\ Owned' = Owned
  BY SameOrders DEF GroupStep, Owned
<1>2. cfg \in Configs
  BY ClustersAssumption DEF TypeOK
<1>3. pc' \in {"close", "await", "delete", "release"} /\ pos' \in {pos, 0, 1} /\ seen' \in {seen, Unread}
      /\ going' \in BOOLEAN
  BY DEF GroupStep, TypeOK
<1>4. TypeOK'
  BY <1>1, <1>3 DEF TypeOK, PCs
<1>5. mem = base /\ base.finalizer /\ cached.life # "live"
  BY <1>1 DEF CopyInv, Deletion
<1>6. AzureInv'
  <2>1. going' => az'["group"] = "ours" /\ cached'.life # "live" /\ pc' \notin Normal
    BY <1>1, <1>3, <1>5 DEF GroupStep, AzureInv, Normal
  <2>2. obj.life # "live" /\ pc' \notin Normal
    BY <1>3, <1>5 DEF ObjectInv, Normal
  <2>3. UserResources(cfg)' = UserResources(cfg)
    BY <1>1
  <2> QED BY <1>1, <1>5, <2>1, <2>2, <2>3 DEF AzureInv
<1>7. ObjectInv' /\ CopyInv'
  BY <1>1, <1>3, <1>5 DEF ObjectInv, CopyInv, Normal
<1>8. WalkInv'
  <2>1. CASE pc' \in {"close", "await"}
    BY <2>1 DEF WalkInv
  <2>2. CASE pc' = "release"
    <3>1. az["group"] = "absent"
      BY <2>2 DEF GroupStep
    <3>2. Owned = {}
      BY <3>1 DEF AzureInv
    <3> QED BY <1>1, <2>2, <3>2 DEF WalkInv
  <2>3. CASE pc' = "delete"
    <3>1. pos' = 1 /\ az["group"] \notin {"absent", "ours"}
      BY <2>3 DEF GroupStep
    <3>2. az["group"] = "users"
      BY <3>1 DEF TypeOK, Owners, Resources
    <3>3. 1 \in 1..Len(DeleteOrder)
      <4>1. Len(DeleteOrder) \in 8..17
        BY <1>2, Orders
      <4>2. \A n \in 8..17 : 1 \in 1..n
        OBVIOUS
      <4> QED BY <4>1, <4>2
    <3> QED BY <1>1, <2>3, <3>1, <3>2, <3>3 DEF WalkInv
  <2> QED BY <1>3, <2>1, <2>2, <2>3
<1> QED BY <1>4, <1>6, <1>7, <1>8

LEMMA ShrinkKeeps ==
    ASSUME IndInv, ShrinkStep
    PROVE  IndInv'
<1> USE DEF IndInv
<1>1. UNCHANGED <<cfg, obj, cached, base, mem, pc, pos, seen, faults, edits>>
      /\ going' \in BOOLEAN
  BY DEF ShrinkStep, TypeOK
<1>2. pc \notin Normal /\ going /\ az["group"] = "ours"
  BY GroupShrinksTo
<1>3. TypeOK'
  BY <1>1, DeletionTakes DEF TypeOK
<1>4. AzureInv'
  BY DeletionAzure
<1>5. Owned' \subseteq Owned
  BY <1>1, DeletionTakes DEF Owned, InGroup
<1>6. WalkInv'
  <2>1. pc \notin {"reconcile", "put", "ready", "delete"}
    BY <1>2 DEF Normal, WalkInv
  <2> QED BY <1>1, <1>5, <2>1 DEF WalkInv
<1>7. ObjectInv'
  BY <1>1 DEF ObjectInv
<1>8. CopyInv'
  BY <1>1, <1>2, <1>5 DEF CopyInv
<1> QED BY <1>3, <1>4, <1>6, <1>7, <1>8

-----------------------------------------------------------------------------
(* The other steps *)

\* A step that changes nothing in Azure.
LEMMA AzureKept ==
    ASSUME IndInv, UNCHANGED <<cfg, az, going, entries>>,
           obj'.life = "live" => obj.life = "live",
           cached'.life = "live" => cached.life = "live" \/ obj.life = "live",
           pc' \in Normal => pc \in Normal \/ cached.life = "live",
           ~obj'.finalizer => Owned = {}
    PROVE  AzureInv'
<1>1. Walked' = Walked /\ UserResources(cfg)' = UserResources(cfg) /\ Owned' = Owned
  BY SameOrders DEF Owned
<1>2. going => cached.life # "live" /\ obj.life # "live" /\ pc \notin Normal
  BY DEF AzureInv, ObjectInv, IndInv
<1> QED BY <1>1, <1>2 DEF AzureInv, IndInv

LEMMA FreshType == Fresh \in Objects /\ Fresh.vnet = "none" /\ Fresh.finalizer = FALSE
                   /\ Fresh.ready = FALSE /\ Fresh.life = "live"
  BY DEF Fresh, Objects, Lives

LEMMA PatchedFacts ==
    ASSUME IndInv, NEW m \in Objects
    PROVE  /\ Patched(m) \in Objects
           /\ Patched(m).finalizer = Field(obj.finalizer, base.finalizer, m.finalizer)
           /\ Patched(m).vnet = Field(obj.vnet, base.vnet, m.vnet)
           /\ Patched(m).ready = Field(obj.ready, base.ready, m.ready)
           /\ Patched(m).life = IF obj.life = "deleting" /\ ~Patched(m).finalizer
                                THEN "gone" ELSE obj.life
<1> DEFINE f == Field(obj.finalizer, base.finalizer, m.finalizer)
           v == Field(obj.vnet, base.vnet, m.vnet)
           r == Field(obj.ready, base.ready, m.ready)
           l == IF obj.life = "deleting" /\ ~f THEN "gone" ELSE obj.life
<1>1. obj \in Objects
  BY DEF IndInv, TypeOK
<1>2. f \in BOOLEAN /\ v \in {"none", "ours", "users"} /\ r \in BOOLEAN
  BY <1>1 DEF Field, Objects
<1>3. Patched(m) = [obj EXCEPT !.finalizer = f, !.vnet = v, !.ready = r, !.life = l]
  BY <1>1 DEF Patched, Objects
<1>4. obj.life \in Lives
  BY <1>1 DEF Objects
<1> HIDE DEF f, v, r
<1>5. l \in Lives
  BY <1>4 DEF Lives
<1> HIDE DEF l
<1>6. Patched(m) \in Objects /\ Patched(m).finalizer = f /\ Patched(m).vnet = v
      /\ Patched(m).ready = r /\ Patched(m).life = l
  BY <1>1, <1>2, <1>3, <1>5 DEF Objects
<1> QED BY <1>6 DEF f, v, r, l

\* Register sets the finalizer and nothing else.
LEMMA Registers ==
    ASSUME IndInv, Register, ~(obj.life = "gone" /\ ~base.finalizer)
    PROVE  /\ pc = "register" /\ pc' = "prepare"
           /\ UNCHANGED <<cfg, cached, base, pos, seen, az, going, entries, faults, edits>>
           /\ mem' \in Objects /\ mem'.finalizer /\ mem'.vnet = base.vnet /\ mem'.ready = base.ready
           /\ obj' \in Objects /\ obj'.finalizer = TRUE /\ obj'.vnet = obj.vnet
           /\ obj'.ready = obj.ready /\ obj'.life = obj.life /\ obj.life # "gone"
<1>t. mem \in Objects /\ obj \in Objects /\ base \in Objects
  BY DEF IndInv, TypeOK
<1>1. /\ pc = "register" /\ pc' = "prepare" /\ mem' = [mem EXCEPT !.finalizer = TRUE]
      /\ Patch(mem')
      /\ UNCHANGED <<cfg, cached, base, pos, seen, az, going, entries, faults, edits>>
  BY DEF Register
<1>2. mem = base /\ (base.finalizer => obj.finalizer) /\ (obj.life = "gone" => ~obj.finalizer)
  BY <1>1 DEF IndInv, CopyInv, ObjectInv
<1>3. obj.life # "gone" /\ obj' = Patched(mem')
  BY <1>1, <1>2 DEF Patch
<1>4. mem' \in Objects /\ mem'.finalizer = TRUE /\ mem'.vnet = base.vnet /\ mem'.ready = base.ready
  BY <1>t, <1>1, <1>2 DEF Objects
<1>5. /\ obj' \in Objects
      /\ obj'.finalizer = Field(obj.finalizer, base.finalizer, mem'.finalizer)
      /\ obj'.vnet = Field(obj.vnet, base.vnet, mem'.vnet)
      /\ obj'.ready = Field(obj.ready, base.ready, mem'.ready)
      /\ obj'.life = IF obj.life = "deleting" /\ ~obj'.finalizer THEN "gone" ELSE obj.life
  BY <1>3, <1>4, PatchedFacts
<1>6. base.finalizer \in BOOLEAN /\ obj.finalizer \in BOOLEAN
  BY <1>t DEF Objects
<1>7. obj'.finalizer = TRUE
  BY <1>2, <1>4, <1>5, <1>6 DEF Field
<1> QED BY <1>1, <1>3, <1>4, <1>5, <1>7 DEF Field

\* Close keeps the object's life and finalizer, unless nothing is owned any more.
LEMMA Closes ==
    ASSUME IndInv, Close
    PROVE  /\ pc = "close" /\ Rest /\ UNCHANGED <<cfg, cached, az, going, entries, faults, edits>>
           /\ obj' \in Objects /\ obj'.vnet \in {obj.vnet, mem.vnet}
           /\ obj'.ready # obj.ready => Complete
           /\ \/ obj'.life = obj.life /\ obj'.finalizer = obj.finalizer
              \/ /\ obj.life = "deleting" /\ obj'.life = "gone" /\ obj'.finalizer = FALSE
                 /\ Owned = {} /\ cached.life # "live"
<1>t. mem \in Objects /\ obj \in Objects /\ base \in Objects
  BY DEF IndInv, TypeOK
<1>1. /\ pc = "close" /\ Rest /\ UNCHANGED <<cfg, cached, az, going, entries, faults, edits>>
      /\ Patch(mem)
  BY DEF Close
<1>2. CASE obj.life = "gone"
  <2>1. obj' = obj
    BY <1>1, <1>2 DEF Patch
  <2> QED BY <1>t, <1>1, <2>1
<1>3. CASE obj.life # "gone"
  <2>1. obj' = Patched(mem)
    BY <1>1, <1>3 DEF Patch
  <2>2. /\ obj' \in Objects
        /\ obj'.finalizer = Field(obj.finalizer, base.finalizer, mem.finalizer)
        /\ obj'.vnet = Field(obj.vnet, base.vnet, mem.vnet)
        /\ obj'.ready = Field(obj.ready, base.ready, mem.ready)
        /\ obj'.life = IF obj.life = "deleting" /\ ~obj'.finalizer THEN "gone" ELSE obj.life
    BY <1>t, <2>1, PatchedFacts
  <2>3. obj'.ready # obj.ready => Complete
    BY <1>1, <2>2 DEF Field, IndInv, CopyInv
  <2>4. mem.finalizer \in BOOLEAN /\ base.finalizer \in BOOLEAN /\ obj.finalizer \in BOOLEAN
        /\ obj.life \in Lives
    BY <1>t DEF Objects
  <2>5. /\ obj.life = "deleting" => obj.finalizer
        /\ mem.finalizer /\ ~base.finalizer => obj.finalizer
        /\ ~mem.finalizer /\ base.finalizer => obj.life # "live" /\ Owned = {} /\ cached.life # "live"
    BY <1>1 DEF IndInv, ObjectInv, CopyInv
  <2>6. CASE mem.finalizer = base.finalizer \/ mem.finalizer
    <3>1. obj'.finalizer = obj.finalizer
      BY <2>2, <2>4, <2>5, <2>6 DEF Field
    <3> QED BY <1>1, <2>2, <2>3, <2>5, <3>1 DEF Field
  <2>7. CASE ~mem.finalizer /\ base.finalizer
    <3>1. obj.life = "deleting" /\ Owned = {} /\ cached.life # "live"
      BY <1>3, <2>4, <2>5, <2>7 DEF Lives
    <3>2. obj'.finalizer = FALSE
      BY <2>2, <2>4, <2>7 DEF Field
    <3> QED BY <1>1, <2>2, <2>3, <3>1, <3>2 DEF Field
  <2> QED BY <2>4, <2>6, <2>7
<1> QED BY <1>2, <1>3

LEMMA WalkRests ==
    ASSUME pc' \in {"idle", "register", "prepare", "deleting", "deleteGroup", "close"}
    PROVE  WalkInv'
  BY DEF WalkInv

LEMMA SameAzure ==
    ASSUME cfg' = cfg, az' = az
    PROVE  Complete' = Complete /\ Owned' = Owned
  BY SameOrders DEF Complete, Passed, Owned

\* The walks do not mind what happens to the object and its cached copy.
LEMMA WalkStays ==
    ASSUME IndInv, UNCHANGED <<cfg, mem, pc, pos, seen, az>>
    PROVE  WalkInv'
  BY SameOrders, SameAzure DEF IndInv, WalkInv, Current, IsVnetManaged, Passed

\* An early or regular end of the reconciliation.
LEMMA EndKeeps ==
    ASSUME IndInv, NEW m \in Objects, End(m), UNCHANGED <<cfg, obj, cached, base, az, going, entries, edits>>,
           faults' \in 0..MaxFaults, m.vnet = mem.vnet,
           m.finalizer /\ ~base.finalizer => obj.finalizer,
           ~m.finalizer /\ base.finalizer => cached.life # "live" /\ Owned = {},
           m.ready = base.ready \/ (~going /\ Complete)
    PROVE  IndInv'
<1> USE DEF IndInv
<1>1. mem' = m /\ pc' = "close" /\ pos' = 0 /\ seen' = Unread
  BY DEF End
<1>2. TypeOK'
  BY <1>1 DEF TypeOK, PCs
<1>3. WalkInv'
  BY <1>1, WalkRests
<1>4. ObjectInv'
  BY <1>1 DEF ObjectInv
<1>5. CopyInv'
  BY <1>1, SameAzure DEF CopyInv, Normal, Deletion
<1>6. AzureInv'
  BY <1>1, AzureKept DEF AzureInv, Normal
<1> QED BY <1>2, <1>3, <1>4, <1>5, <1>6

\* The reconciliation rests.
LEMMA RestKeeps ==
    ASSUME IndInv, Rest, UNCHANGED <<cfg, az, going, entries, edits>>, faults' \in 0..MaxFaults,
           obj' \in Objects, obj'.vnet \in {obj.vnet, mem.vnet}, cached' = cached \/ (cached' = obj /\ obj' = obj),
           \/ obj'.life = obj.life /\ obj'.finalizer = obj.finalizer
           \/ obj.life = "deleting" /\ obj'.life = "gone" /\ obj'.finalizer = FALSE
              /\ Owned = {} /\ cached.life # "live"
    PROVE  IndInv'
<1> USE DEF IndInv
<1>1. mem' = Fresh /\ base' = Fresh /\ pc' = "idle" /\ pos' = 0 /\ seen' = Unread
  BY DEF Rest
<1>2. TypeOK'
  <2>1. cached' \in Objects
    BY DEF TypeOK
  <2> QED BY <1>1, <2>1, FreshType DEF TypeOK, PCs
<1>3. WalkInv'
  BY <1>1, WalkRests
<1>4. ObjectInv'
  BY <1>1, FreshType DEF ObjectInv
<1>5. CopyInv'
  BY <1>1 DEF CopyInv, Normal, Deletion
<1>6. AzureInv'
  BY <1>1, AzureKept DEF AzureInv, Normal
<1> QED BY <1>2, <1>3, <1>4, <1>5, <1>6

LEMMA OthersKeep ==
    ASSUME IndInv, faults' \in 0..MaxFaults,
           \/ Start \/ Register \/ Prepare \/ MarkReady \/ StartDelete \/ RemoveFinalizer \/ Close
           \/ DeleteCluster \/ CacheSync \/ (\E r \in Contended : ForeignEdit(r))
           \/ Restart \/ PatchFails
           \/ pc = "prepare" /\ End(mem) /\ UNCHANGED <<cfg, obj, cached, base, az, going, entries, edits>>
    PROVE  IndInv'
<1> USE DEF IndInv
<1>t. obj \in Objects /\ mem \in Objects /\ cached \in Objects /\ base \in Objects /\ cfg \in Configs
  BY ClustersAssumption DEF TypeOK
<1>1. CASE Start
  <2>1. /\ pc = "idle" /\ cached.life # "gone" /\ base' = cached /\ mem' = cached
        /\ pc' = (IF cached.life = "deleting" THEN "deleting" ELSE "register")
        /\ UNCHANGED <<cfg, obj, cached, pos, seen, az, going, entries, edits>>
    BY <1>1 DEF Start
  <2>2. TypeOK'
    BY <2>1 DEF TypeOK, PCs
  <2>3. WalkInv'
    BY <2>1, WalkRests
  <2>4. ObjectInv'
    BY <2>1 DEF ObjectInv
  <2>5. cached.life \in Lives
    BY <1>t DEF Objects
  <2>6. CopyInv'
    <3>1. CASE cached.life = "deleting"
      BY <2>1, <3>1 DEF CopyInv, ObjectInv, Normal, Deletion
    <3>2. CASE cached.life = "live"
      BY <2>1, <3>2 DEF CopyInv, ObjectInv, Normal, Deletion
    <3> QED BY <2>1, <2>5, <3>1, <3>2 DEF Lives
  <2>7. AzureInv'
    BY <2>1, <2>5, AzureKept DEF AzureInv, Normal, Lives
  <2> QED BY <2>2, <2>3, <2>4, <2>6, <2>7
<1>2. CASE Register
  <2>1. CASE obj.life = "gone" /\ ~base.finalizer
    <3>1. /\ pc = "register" /\ End(mem)
          /\ UNCHANGED <<cfg, obj, cached, base, az, going, entries, edits>>
      BY <1>2, <2>1 DEF Register
    <3>2. mem = base
      BY <3>1 DEF CopyInv
    <3> QED BY <1>t, <3>1, <3>2, EndKeeps
  <2>2. CASE ~(obj.life = "gone" /\ ~base.finalizer)
    <3>1. /\ pc = "register" /\ pc' = "prepare"
          /\ UNCHANGED <<cfg, cached, base, pos, seen, az, going, entries, faults, edits>>
          /\ mem' \in Objects /\ mem'.finalizer /\ mem'.vnet = base.vnet /\ mem'.ready = base.ready
          /\ obj' \in Objects /\ obj'.finalizer = TRUE /\ obj'.vnet = obj.vnet
          /\ obj'.ready = obj.ready /\ obj'.life = obj.life /\ obj.life # "gone"
      BY <1>2, <2>2, Registers
    <3>2. TypeOK'
      BY <3>1 DEF TypeOK, PCs
    <3>3. WalkInv'
      BY <3>1, WalkRests
    <3>4. ObjectInv'
      BY <3>1 DEF ObjectInv
    <3>5. CopyInv'
      BY <3>1 DEF CopyInv, Normal, Deletion
    <3>6. AzureInv'
      BY <3>1, AzureKept DEF Normal
    <3> QED BY <3>2, <3>3, <3>4, <3>5, <3>6
  <2> QED BY <2>1, <2>2
<1>3. CASE Prepare
  <2>1. /\ pc = "prepare" /\ pc' = "reconcile" /\ pos' = 1
        /\ UNCHANGED <<cfg, obj, cached, base, mem, seen, az, going, entries, edits>>
    BY <1>3 DEF Prepare
  <2>2. TypeOK'
    BY <2>1 DEF TypeOK, PCs
  <2>3. WalkInv'
    <3>1. Len(ReconcileOrder') \in 9..19
      BY <1>t, <2>1, Orders, SameOrders
    <3>2. \A n \in 9..19 : 1 \in 1..n
      OBVIOUS
    <3>3. ~(1 > 2) /\ 1..(1 - 1) = {}
      OBVIOUS
    <3>4. 1 \in 1..Len(ReconcileOrder')
      BY <3>1, <3>2
    <3> QED BY <2>1, <3>3, <3>4 DEF WalkInv
  <2>4. ObjectInv' /\ CopyInv'
    BY <2>1 DEF ObjectInv, CopyInv, Normal, Deletion
  <2>5. AzureInv'
    BY <2>1, AzureKept DEF AzureInv, Normal
  <2> QED BY <2>2, <2>3, <2>4, <2>5
<1>4. CASE MarkReady
  <2> DEFINE m == [mem EXCEPT !.ready = TRUE]
  <2>1. pc = "ready" /\ End(m) /\ UNCHANGED <<cfg, obj, cached, base, az, going, entries, edits>>
    BY <1>4 DEF MarkReady
  <2>2. m \in Objects /\ m.finalizer = mem.finalizer /\ m.vnet = mem.vnet
    BY <1>t DEF Objects
  <2> HIDE DEF m
  <2>3. Complete /\ ~going /\ mem.finalizer /\ obj.finalizer
    BY <2>1 DEF WalkInv, AzureInv, CopyInv, Normal
  <2> QED BY <2>1, <2>2, <2>3, EndKeeps
<1>5. CASE StartDelete
  <2>1. pc = "deleting" /\ UNCHANGED <<cfg, obj, cached, base, az, going, entries, edits>>
    BY <1>5 DEF StartDelete
  <2>2. mem = base /\ base.finalizer /\ cached.life # "live"
    BY <2>1 DEF CopyInv, Deletion
  <2>3. CASE End(mem)
    BY <1>t, <2>1, <2>2, <2>3, EndKeeps
  <2>4. CASE pc' = "deleteGroup" /\ UNCHANGED <<mem, pos, seen>>
    <3>1. TypeOK'
      BY <2>1, <2>4 DEF TypeOK, PCs
    <3>2. WalkInv'
      BY <2>4, WalkRests
    <3>3. ObjectInv' /\ CopyInv'
      BY <2>1, <2>2, <2>4 DEF ObjectInv, CopyInv, Normal, Deletion
    <3>4. AzureInv'
      BY <2>1, <2>4, AzureKept DEF AzureInv, Normal
    <3> QED BY <3>1, <3>2, <3>3, <3>4
  <2> QED BY <1>5, <2>3, <2>4 DEF StartDelete
<1>6. CASE RemoveFinalizer
  <2> DEFINE m == [mem EXCEPT !.finalizer = FALSE]
  <2>1. pc = "release" /\ End(m) /\ UNCHANGED <<cfg, obj, cached, base, az, going, entries, edits>>
    BY <1>6 DEF RemoveFinalizer
  <2>2. m \in Objects /\ m.finalizer = FALSE /\ m.vnet = mem.vnet /\ m.ready = mem.ready
    BY <1>t DEF Objects
  <2> HIDE DEF m
  <2>3. Owned = {} /\ mem = base /\ cached.life # "live"
    BY <2>1 DEF WalkInv, CopyInv, Deletion
  <2> QED BY <2>1, <2>2, <2>3, EndKeeps
<1>7. CASE Close
  <2>1. /\ Rest /\ UNCHANGED <<cfg, cached, az, going, entries, edits>>
        /\ obj' \in Objects /\ obj'.vnet \in {obj.vnet, mem.vnet}
        /\ \/ obj'.life = obj.life /\ obj'.finalizer = obj.finalizer
           \/ /\ obj.life = "deleting" /\ obj'.life = "gone" /\ obj'.finalizer = FALSE
              /\ Owned = {} /\ cached.life # "live"
    BY <1>7, Closes
  <2> QED BY <2>1, RestKeeps
<1>8. CASE DeleteCluster
  <2>1. /\ obj.life = "live" /\ UNCHANGED <<cfg, cached, base, mem, pc, pos, seen, az, going, entries, edits>>
        /\ obj' = [obj EXCEPT !.life = IF obj.finalizer THEN "deleting" ELSE "gone"]
    BY <1>8 DEF DeleteCluster
  <2>2. obj' \in Objects /\ obj'.finalizer = obj.finalizer /\ obj'.vnet = obj.vnet
        /\ obj'.life = IF obj.finalizer THEN "deleting" ELSE "gone"
    BY <1>t, <2>1 DEF Objects, Lives
  <2>3. TypeOK'
    BY <2>1, <2>2 DEF TypeOK
  <2>4. WalkInv'
    BY <2>1, WalkStays
  <2>5. ObjectInv'
    BY <2>1, <2>2 DEF ObjectInv
  <2>6. CopyInv'
    BY <2>1, <2>2, SameAzure DEF CopyInv
  <2>7. AzureInv'
    BY <2>1, <2>2, AzureKept DEF AzureInv
  <2> QED BY <2>3, <2>4, <2>5, <2>6, <2>7
<1>9. CASE CacheSync
  <2>1. cached' = obj /\ UNCHANGED <<cfg, obj, base, mem, pc, pos, seen, az, going, entries, edits>>
    BY <1>9 DEF CacheSync
  <2>2. TypeOK'
    BY <2>1 DEF TypeOK
  <2>3. WalkInv'
    BY <2>1, WalkStays
  <2>4. ObjectInv'
    BY <2>1 DEF ObjectInv
  <2>5. CopyInv'
    BY <2>1, SameAzure DEF CopyInv, ObjectInv
  <2>6. AzureInv'
    BY <2>1, AzureKept DEF AzureInv
  <2> QED BY <2>2, <2>3, <2>4, <2>5, <2>6
<1>10. ASSUME NEW r \in Contended, ForeignEdit(r) PROVE IndInv'
  <2>1. /\ edits < MaxEdits /\ edits' = edits + 1 /\ az[r] # "absent"
        /\ UNCHANGED <<cfg, obj, cached, base, mem, pc, pos, seen, az, going>>
    BY <1>10 DEF ForeignEdit
  <2>2. PICK new \in SUBSET Entries : entries' = [entries EXCEPT ![r] = new]
    <3>1. Foreign(r) \subseteq Entries
      BY DEF Foreign, Entries
    <3>2. entries[r] \subseteq Entries
      BY ContendedAssumption DEF TypeOK
    <3> QED BY <1>10, <3>1, <3>2 DEF ForeignEdit
  <2>3. edits' \in 0..MaxEdits
    BY <2>1, MaxEditsAssumption DEF TypeOK
  <2>4. TypeOK'
    BY <2>1, <2>2, <2>3 DEF TypeOK
  <2>5. WalkInv'
    BY <2>1, WalkStays
  <2>6. ObjectInv' /\ CopyInv'
    BY <2>1, SameAzure DEF ObjectInv, CopyInv
  <2>7. \A x \in Merged : az'[x] = "absent" => entries'[x] = {}
    BY <2>1, <2>2 DEF AzureInv, TypeOK
  <2>8. AzureInv'
    BY <2>1, <2>7, SameAzure, SameOrders DEF AzureInv
  <2> QED BY <2>4, <2>5, <2>6, <2>8
<1>11. CASE Restart
  <2>1. Rest /\ cached' = obj /\ UNCHANGED <<cfg, obj, az, going, entries, edits>>
    BY <1>11 DEF Restart
  <2> QED BY <1>t, <2>1, RestKeeps
<1>12. CASE PatchFails
  <2>1. UNCHANGED <<cfg, obj, cached, az, going, entries, edits>>
    BY <1>12 DEF PatchFails
  <2>2. CASE Rest
    BY <1>t, <2>1, <2>2, RestKeeps
  <2>3. CASE pc \in {"register", "deleting"} /\ End(mem) /\ UNCHANGED base
    <3>1. mem = base
      BY <2>3 DEF CopyInv, Deletion
    <3> QED BY <1>t, <2>1, <2>3, <3>1, EndKeeps
  <2> QED BY <1>12, <2>2, <2>3 DEF PatchFails
<1>13. CASE pc = "prepare" /\ End(mem) /\ UNCHANGED <<cfg, obj, cached, base, az, going, entries, edits>>
  <2>1. mem.finalizer /\ obj.finalizer /\ mem.ready = base.ready
    BY <1>13 DEF CopyInv, Normal
  <2> QED BY <1>t, <1>13, <2>1, EndKeeps
<1> QED BY <1>1, <1>2, <1>3, <1>4, <1>5, <1>6, <1>7, <1>8, <1>9, <1>10, <1>11, <1>12, <1>13

\* Every step is one of a walk, or one that leaves Azure alone.
LEMMA Steps ==
    ASSUME IndInv, [Next]_vars
    PROVE  \/ WalkStep \/ DeletionStep \/ GroupStep \/ ShrinkStep
           \/ UNCHANGED vars
           \/ /\ faults' \in 0..MaxFaults
              /\ \/ Start \/ Register \/ Prepare \/ MarkReady \/ StartDelete \/ RemoveFinalizer
                 \/ Close \/ DeleteCluster \/ CacheSync \/ (\E r \in Contended : ForeignEdit(r))
                 \/ Restart \/ PatchFails
                 \/ /\ pc = "prepare" /\ End(mem)
                    /\ UNCHANGED <<cfg, obj, cached, base, az, going, entries, edits>>
<1>t. faults \in 0..MaxFaults
  BY DEF IndInv, TypeOK
<1>1. CASE \/ ReconcileGroup \/ ReconcileVnet \/ ReconcileSecurityGroups \/ ReconcileRouteTables
           \/ ReconcileSubnets \/ ReconcilePublicIPs \/ ReconcileLoadBalancers
           \/ CreateOrUpdateMerged \/ ReconcilePrivateDNS \/ ReconcileBastion
  BY <1>1, WalkShape
<1>2. CASE \/ DeletePrivateDNS \/ DeleteLoadBalancers \/ DeletePublicIPs \/ DeleteSubnets
           \/ DeleteRouteTables \/ DeleteSecurityGroups \/ DeleteVnet \/ DeleteBastion
  BY <1>2, DeletionShape DEF DeletePrivateDNS, DeleteLoadBalancers, DeletePublicIPs,
     DeleteSubnets, DeleteRouteTables, DeleteSecurityGroups, DeleteVnet, DeleteBastion
<1>3. CASE DeleteGroup \/ AwaitGroup \/ Azure
  BY <1>3, GroupShape, AzureShape
<1>4. CASE \/ Start \/ Register \/ Prepare \/ MarkReady \/ StartDelete \/ RemoveFinalizer \/ Close
           \/ DeleteCluster \/ CacheSync \/ (\E r \in Contended : ForeignEdit(r))
  <2>1. faults' = faults
    BY <1>4 DEF Start, Register, Prepare, MarkReady, StartDelete, RemoveFinalizer, Close,
       DeleteCluster, CacheSync, ForeignEdit
  <2> QED BY <1>t, <1>4, <2>1
<1>5. CASE Fault
  <2>1. faults' \in 0..MaxFaults
    BY <1>t, <1>5, MaxFaultsAssumption DEF Fault
  <2> QED BY <1>5, <2>1, FaultShape DEF Fault
<1> QED BY <1>1, <1>2, <1>3, <1>4, <1>5 DEF Next, Reconcile

-----------------------------------------------------------------------------
(* The theorems *)

LEMMA InvInit == Init => IndInv
<1> SUFFICES ASSUME Init PROVE IndInv
  OBVIOUS
<1>1. cfg \in Clusters /\ cfg \in Configs
  BY ClustersAssumption DEF Init
<1>2. TypeOK
  <2>1. obj \in Objects /\ cached \in Objects /\ base \in Objects /\ mem \in Objects
        /\ going \in BOOLEAN
    BY FreshType DEF Init
  <2>2. az \in [Resources -> Owners] /\ entries \in [Merged -> SUBSET Entries]
    BY DEF Init, Owners
  <2>3. pc = "idle" /\ pos = 0 /\ seen = Unread /\ faults = 0 /\ edits = 0
    BY DEF Init
  <2>4. pc \in PCs /\ pos \in 0..20 /\ faults \in 0..MaxFaults /\ edits \in 0..MaxEdits
    BY <2>3, MaxFaultsAssumption, MaxEditsAssumption DEF PCs
  <2> QED BY <1>1, <2>1, <2>2, <2>3, <2>4 DEF TypeOK
<1>3. WalkInv
  BY DEF Init, WalkInv
<1>4. ObjectInv /\ CopyInv
  BY FreshType DEF Init, ObjectInv, CopyInv, Normal, Deletion
<1>5. AzureInv
  <2>1. \A r \in Resources : az[r] = IF r \in UserResources(cfg) THEN "users" ELSE "absent"
    BY DEF Init
  <2>2. UserResources(cfg) \subseteq Resources /\ "group" \in Resources /\ "record" \in Resources
    BY DEF UserResources, Resources
  <2>3. Owned = {}
    BY <2>1 DEF Owned, InGroup
  <2>4. cfg.userGroup => "group" \in UserResources(cfg)
    BY DEF UserResources
  <2>5. ~going /\ \A r \in Merged : entries[r] = {}
    BY DEF Init
  <2> QED BY <2>1, <2>2, <2>3, <2>4, <2>5 DEF AzureInv
<1> QED BY <1>2, <1>3, <1>4, <1>5 DEF IndInv

LEMMA InvStep == IndInv /\ [Next]_vars => IndInv'
<1> SUFFICES ASSUME IndInv, [Next]_vars PROVE IndInv'
  OBVIOUS
<1>1. CASE UNCHANGED vars
  <2>1. UNCHANGED <<cfg, obj, cached, base, mem, pc, pos, seen, az, going, entries, faults, edits>>
    BY <1>1 DEF vars
  <2>2. TypeOK'
    BY <2>1 DEF IndInv, TypeOK
  <2>3. WalkInv'
    BY <2>1, WalkStays
  <2>4. ObjectInv' /\ CopyInv'
    BY <2>1, SameAzure DEF IndInv, ObjectInv, CopyInv
  <2>5. AzureInv'
    BY <2>1, SameAzure, SameOrders DEF IndInv, AzureInv
  <2> QED BY <2>2, <2>3, <2>4, <2>5 DEF IndInv
<1> QED BY <1>1, Steps, WalkKeeps, DeletionKeeps, GroupKeeps, ShrinkKeeps, OthersKeep

\* The invariant the other theorems rest on.
THEOREM Inductive == Spec => []IndInv
  BY InvInit, InvStep, PTL DEF Spec

\* Every step of the controller is one of ProtectedResources, or a stutter.
LEMMA Refines ==
    ASSUME IndInv, [Next]_vars
    PROVE  [Protected!Next]_(Protected!vars)
<1> DEFINE P == [Protected!Next]_(Protected!vars)
<1> SUFFICES P
  OBVIOUS
<1> USE DEF IndInv
<1>t. /\ obj \in Objects /\ mem \in Objects /\ az \in [Resources -> Owners]
      /\ InGroup(cfg) \subseteq Resources /\ obj.life \in Lives
  BY DEF TypeOK, Objects, InGroup
<1>s. ASSUME cfg' = cfg, az' = az, obj'.life = obj.life, obj'.finalizer = obj.finalizer PROVE P
  BY <1>s DEF Protected!vars
<1>d. ASSUME cfg' = cfg, obj' = obj,
             \A r \in Resources : az'[r] # az[r] => az'[r] = "absent"
      PROVE  P
  <2>1. Owned' \subseteq Owned
    BY <1>t, <1>d DEF Owned
  <2>2. CASE obj.life # "gone"
    <3>1. Protected!Dispose
      BY <1>d, <2>1, <2>2 DEF Protected!Dispose, Owned
    <3> QED BY <3>1 DEF Protected!Next
  <2>3. CASE obj.life = "gone"
    <3>1. Owned = {} /\ Owned' = {}
      BY <2>1, <2>3 DEF ObjectInv, AzureInv
    <3> QED BY <1>d, <3>1 DEF Protected!vars, Owned
  <2> QED BY <2>2, <2>3
<1>1. CASE WalkStep
  <2>1. cfg' = cfg /\ obj' = obj /\ obj.finalizer /\ obj.life # "gone"
    BY <1>1, AtResource DEF WalkStep
  <2>2. Owned \subseteq Owned' /\ Owned' \subseteq Resources
    BY <1>t, <1>1, <2>1, WalkAdds DEF Owned
  <2>3. Protected!Claim
    BY <2>1, <2>2 DEF Protected!Claim, Owned
  <2> QED BY <2>3 DEF Protected!Next
<1>2. CASE DeletionStep \/ ShrinkStep
  <2>1. cfg' = cfg /\ obj' = obj
    BY <1>2 DEF DeletionStep, ShrinkStep
  <2> QED BY <1>2, <1>d, <2>1, DeletionTakes
<1>3. CASE UNCHANGED vars
  BY <1>3, <1>s DEF vars
<1>4. CASE Start \/ Prepare \/ MarkReady \/ StartDelete \/ GroupStep \/ RemoveFinalizer
           \/ CacheSync \/ Restart \/ PatchFails
  BY <1>4, <1>s DEF Start, Prepare, MarkReady, StartDelete, GroupStep, RemoveFinalizer,
                    CacheSync, Restart, PatchFails
<1>5. CASE \E r \in Contended : ForeignEdit(r)
  BY <1>5, <1>s DEF ForeignEdit
<1>6. CASE Register
  <2>1. CASE obj.life = "gone" /\ ~base.finalizer
    BY <1>6, <1>s, <2>1 DEF Register
  <2>2. CASE ~(obj.life = "gone" /\ ~base.finalizer)
    <3>1. /\ cfg' = cfg /\ az' = az /\ obj'.finalizer = TRUE
          /\ obj'.life = obj.life /\ obj.life # "gone"
      BY <1>6, <2>2, Registers
    <3>2. CASE obj.life = "live"
      <4>1. Protected!Protect
        BY <3>1, <3>2 DEF Protected!Protect
      <4> QED BY <4>1 DEF Protected!Next
    <3>3. CASE obj.life = "deleting"
      <4>1. obj.finalizer = TRUE
        BY <1>t, <3>3 DEF ObjectInv, Objects
      <4> QED BY <1>s, <3>1, <4>1
    <3> QED BY <1>t, <3>1, <3>2, <3>3 DEF Lives
  <2> QED BY <2>1, <2>2
<1>7. CASE Close
  <2>1. /\ cfg' = cfg /\ az' = az
        /\ \/ obj'.life = obj.life /\ obj'.finalizer = obj.finalizer
           \/ /\ obj.life = "deleting" /\ obj'.life = "gone" /\ obj'.finalizer = FALSE
              /\ Owned = {}
    BY <1>7, Closes
  <2>2. CASE obj'.life = "gone" /\ obj.life = "deleting" /\ obj'.finalizer = FALSE /\ Owned = {}
    <3>1. Protected!Release
      BY <2>1, <2>2 DEF Protected!Release, Owned
    <3> QED BY <3>1 DEF Protected!Next
  <2> QED BY <1>s, <2>1, <2>2
<1>9. CASE DeleteCluster
  <2>1. obj.life = "live" /\ cfg' = cfg /\ az' = az
        /\ obj'.life = (IF obj.finalizer THEN "deleting" ELSE "gone")
        /\ obj'.finalizer = obj.finalizer
    BY <1>t, <1>9 DEF DeleteCluster, Objects
  <2>2. Protected!RequestDeletion
    BY <2>1 DEF Protected!RequestDeletion
  <2> QED BY <2>2 DEF Protected!Next
<1>10. CASE pc = "prepare" /\ End(mem) /\ UNCHANGED <<cfg, obj, cached, base, az, going, entries, edits>>
  BY <1>10, <1>s
<1>11. \/ WalkStep \/ DeletionStep \/ GroupStep \/ ShrinkStep \/ UNCHANGED vars
       \/ Start \/ Register \/ Prepare \/ MarkReady \/ StartDelete \/ RemoveFinalizer
       \/ Close \/ DeleteCluster \/ CacheSync \/ (\E r \in Contended : ForeignEdit(r))
       \/ Restart \/ PatchFails
       \/ pc = "prepare" /\ End(mem) /\ UNCHANGED <<cfg, obj, cached, base, az, going, entries, edits>>
  BY Steps
<1> HIDE DEF P, IndInv
<1> QED BY <1>1, <1>2, <1>3, <1>4, <1>5, <1>6, <1>7, <1>9, <1>10, <1>11

\* The finalizer protects what the cluster owns in its resource group: nothing is
\* created before it is set, and the object goes only when nothing is left, with
\* crashes, failed patches and lost responses in between
\* (azurecluster_controller.go, reconcileNormal and reconcileDelete).
THEOREM ClusterProtected == Spec => FinalizerProtects
<1>1. Init => Protected!Init
  <2> SUFFICES ASSUME Init PROVE Protected!Init
    OBVIOUS
  <2>1. \A r \in InGroup(cfg) : az[r] # "ours"
    BY DEF Init, InGroup
  <2> QED BY <2>1, FreshType DEF Init, Protected!Init
<1>2. IndInv => TypeOK
  BY DEF IndInv
<1>3. IndInv /\ [Next]_vars => [Protected!Next]_(Protected!vars)
  BY Refines
<1> QED BY <1>1, <1>2, <1>3, Inductive, PTL DEF Spec, FinalizerProtects, Protected!Spec

\* Neither the user's group nor a network that the copy of the deletion records is
\* deleted, and a write of the controller keeps the entries that other programs
\* have added, except for the NAT rules of a load balancer that it repairs
\* (virtualnetworks.go Delete; loadbalancers.go and securitygroups.go, the etags).
THEOREM ClusterSparesOthers == Spec => OthersKept
<1> DEFINE Net == \A r \in Resources : az[r] = "users" /\ az'[r] # "users" =>
                      r # "group" /\ base.vnet = "none"
           Kept(r) == \/ entries[r] \subseteq entries'[r]
                      \/ /\ r \in LoadBalancers /\ ~(Wanted(cfg, r) \subseteq entries[r])
                         /\ entries[r] \ {"natRule"} \subseteq entries'[r]
           Ent == edits' = edits => \A r \in Merged : az'[r] # "absent" => Kept(r)
<1>0. ASSUME IndInv, [Next]_vars
      PROVE  WalkStep \/ DeletionStep \/ ShrinkStep
             \/ (az' = az /\ (entries' = entries \/ edits' # edits))
  <2>1. ASSUME NEW r \in Contended, ForeignEdit(r) PROVE az' = az /\ edits' # edits
    <3>1. edits' = edits + 1 /\ az' = az /\ edits \in Nat
      BY <1>0, <2>1, MaxEditsAssumption DEF ForeignEdit, IndInv, TypeOK
    <3> QED BY <3>1
  <2> QED BY <1>0, <2>1, Steps DEF vars, Start, Register, Prepare, MarkReady, StartDelete,
             RemoveFinalizer, Close, DeleteCluster, CacheSync, GroupStep, Restart, PatchFails
<1>1. IndInv /\ [Next]_vars => Net
  <2> SUFFICES ASSUME IndInv, [Next]_vars, NEW r \in Resources, az[r] = "users", az'[r] # "users"
               PROVE  r # "group" /\ base.vnet = "none"
    OBVIOUS
  <2> QED BY <1>0, WalkAdds, DeletionSpares
<1>2. IndInv /\ [Next]_vars => Ent
  <2> SUFFICES ASSUME IndInv, [Next]_vars, edits' = edits, NEW r \in Merged, az'[r] # "absent"
               PROVE  Kept(r)
    OBVIOUS
  <2>1. CASE WalkStep /\ entries' # entries
    <3>1. /\ pc = "put" /\ EtagMatches(Current)
          /\ entries' = [entries EXCEPT ![Current] = Merge(Current)]
      BY <2>1 DEF WalkStep
    <3>2. /\ Current \in Merged /\ entries \in [Merged -> SUBSET Entries]
          /\ az[Current] = "absent" \/ ~(Wanted(cfg, Current) \subseteq seen)
          /\ az[Current] = "absent" => entries[Current] = {}
      BY <3>1 DEF IndInv, WalkInv, TypeOK, AzureInv
    <3>3. entries[Current] = {}
          \/ (seen = entries[Current] /\ ~(Wanted(cfg, Current) \subseteq entries[Current]))
      BY <3>1, <3>2, ClientsWait DEF EtagMatches
    <3>4. entries'[r] = IF r = Current THEN Merge(Current) ELSE entries[r]
      BY <3>1, <3>2
    <3>5. CASE r = Current
      <4>1. seen \ (IF r \in LoadBalancers THEN {"natRule"} ELSE {}) \subseteq entries'[r]
        BY <3>4, <3>5 DEF Merge
      <4>2. entries[r] = {} \/ (seen = entries[r] /\ ~(Wanted(cfg, r) \subseteq entries[r]))
        BY <3>3, <3>5
      <4> QED BY <4>1, <4>2
    <3> QED BY <3>4, <3>5
  <2>2. entries[r] \subseteq entries'[r] => Kept(r)
    OBVIOUS
  <2> HIDE DEF Kept
  <2> QED BY <1>0, <2>1, <2>2, DeletionTakes
<1>3. [][Net]_vars /\ [][Ent]_vars => OthersKept
  BY DEF OthersKept, RecordedNetworkKept, ForeignEntriesKept
<1> QED BY <1>1, <1>2, <1>3, Inductive, PTL DEF Spec

\* A cluster is reported ready only when every resource of its services is there
\* (azurecluster_controller.go, reconcileNormal).
THEOREM ReadyIsComplete == Spec => ReadyWhenComplete
<1> DEFINE R == ~obj.ready /\ obj'.ready =>
               \A i \in 1..Len(ReconcileOrder) :
                   \/ az[ReconcileOrder[i]] # "absent"
                   \/ cfg.userVnet /\ ReconcileOrder[i] \in SecurityGroups \cup {"routeTableNode"}
<1>1. IndInv /\ [Next]_vars => R
  <2> SUFFICES ASSUME IndInv, [Next]_vars, ~obj.ready, obj'.ready PROVE Complete
    BY DEF Complete, Passed
  <2> USE DEF IndInv
  <2>1. mem \in Objects /\ obj \in Objects /\ obj' # obj
    BY DEF TypeOK
  <2>2. CASE Close
    <3>1. obj'.ready # obj.ready => Complete
      BY <2>2, Closes
    <3> QED BY <2>1, <3>1
  <2>3. CASE Register
    <3>1. CASE obj.life = "gone" /\ ~base.finalizer
      BY <2>1, <2>3, <3>1 DEF Register
    <3>2. CASE ~(obj.life = "gone" /\ ~base.finalizer)
      <4>1. obj'.ready = obj.ready
        BY <2>3, <3>2, Registers
      <4> QED BY <4>1
    <3> QED BY <3>1, <3>2
  <2>4. CASE DeleteCluster
    BY <2>1, <2>4 DEF DeleteCluster, Objects
  <2> QED BY <2>1, <2>2, <2>3, <2>4, Steps DEF vars, Start, Prepare, MarkReady, StartDelete,
             RemoveFinalizer, CacheSync, ForeignEdit, Restart, PatchFails, WalkStep, DeletionStep,
             GroupStep, ShrinkStep
<1>2. [][R]_vars => ReadyWhenComplete
  BY DEF ReadyWhenComplete
<1> QED BY <1>1, <1>2, Inductive, PTL DEF Spec

=============================================================================
