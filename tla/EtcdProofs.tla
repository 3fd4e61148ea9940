----------------------------- MODULE EtcdProofs -----------------------------
(***************************************************************************)
(* What holds of EtcdBootstrap for any number of pods, edits and kills.    *)
(***************************************************************************)
EXTENDS EtcdBootstrap, FiniteSetTheorems, TLAPS

LEMMA PodsAreFinite ==
    ASSUME NEW S \in SUBSET Pods
    PROVE  Cardinality(S) \in 0 .. MaxReplicas
  <1>1. MaxReplicas \in Nat /\ MaxReplicas > 0 BY EtcdAssumption
  <1>2. IsFiniteSet(Pods) /\ Cardinality(Pods) = MaxReplicas
    BY <1>1, FS_Interval DEF Pods
  <1>3. Cardinality(S) <= Cardinality(Pods) /\ IsFiniteSet(S) BY <1>2, FS_Subset
  <1>4. Cardinality(S) \in Nat BY <1>3, FS_CardinalityType
  <1> QED BY <1>1, <1>2, <1>3, <1>4

LEMMA FirstIsAPod == First \in Pods /\ Empty \notin Pods /\ Begun \notin Pods /\ Begun # Empty
  BY EtcdAssumption DEF First, Pods, Empty, Begun

Places == {"none", "script", "found", "loop", "listed", "join", "etcd"}

LEMMA TypeStart == Init => TypeOK
  <1> SUFFICES ASSUME Init PROVE TypeOK OBVIOUS
  <1>1. replicas \in 0 .. MaxReplicas /\ reported \in 0 .. MaxReplicas
    BY EtcdAssumption DEF Init
  <1> QED BY <1>1, FirstIsAPod DEF Init, TypeOK, Running

\* A step of the script at one pod.
LEMMA TypeKeptByScript ==
    ASSUME TypeOK, NEW p \in Pods, Script(p)
    PROVE  TypeOK'
  <1>0. Outside BY DEF Script, Found, Founded, Loop, Listed, Add, ReadInitial, Join, JoinFails,
                       Rerun
  <1>1. SUFFICES /\ pc' \in [Pods -> Places]
                 /\ data' \in [Pods -> {Empty, Begun} \cup Pods]
                 /\ members' \in [Pods -> SUBSET Pods] /\ initial' \in [Pods -> SUBSET Pods]
                 /\ \A q \in Pods : pc'[q] = "etcd" => data'[q] \in Pods
    BY <1>0 DEF Outside, TypeOK, Running, Places
  <1>2. CASE Found(p) BY <1>2 DEF Found, Go, TypeOK, Running, Places
  <1>3. CASE Founded(p) BY <1>3 DEF Founded, Go, TypeOK, Running, Places
  <1>4. CASE Loop(p) BY <1>4 DEF Loop, Go, TypeOK, Running, Places
  <1>5. CASE Listed(p) BY <1>5 DEF Listed, Go, TypeOK, Running, Places
  <1>6. CASE Add(p)
    <2>1. PICK q \in Pods : Answers(q) /\ members' = [members EXCEPT ![data[q]] = @ \cup {p}]
      BY <1>6 DEF Add
    <2>2. data[q] \in Pods BY <2>1 DEF Answers, TypeOK
    <2>3. members' \in [Pods -> SUBSET Pods] BY <2>1, <2>2 DEF TypeOK
    <2> QED BY <1>6, <2>3 DEF Add, TypeOK, Running, Places
  <1>7. CASE ReadInitial(p)
    <2>1. initial' \in [Pods -> SUBSET Pods]
      <3>1. \A q \in Pods : Answers(q) => Cluster(q) \in SUBSET Pods
        BY DEF Answers, TypeOK, Cluster
      <3> QED BY <1>7, <3>1 DEF ReadInitial, TypeOK
    <2> QED BY <1>7, <2>1 DEF ReadInitial, Go, TypeOK, Running, Places
  <1>8. CASE Join(p)
    <2>1. PICK q \in Pods : CanJoin(p, q) /\ data' = [data EXCEPT ![p] = data[q]]
      BY <1>8 DEF Join
    <2>2. data[q] \in Pods BY <2>1 DEF CanJoin, TypeOK
    <2> QED BY <1>8, <2>1, <2>2 DEF Join, Go, TypeOK, Running, Places
  <1>9. CASE JoinFails(p) BY <1>9 DEF JoinFails, Go, TypeOK, Running, Places
  <1>10. CASE Rerun(p) BY <1>10 DEF Rerun, Go, TypeOK, Running, Places
  <1> QED BY <1>2, <1>3, <1>4, <1>5, <1>6, <1>7, <1>8, <1>9, <1>10 DEF Script

LEMMA TypeKept ==
    ASSUME TypeOK, [Next]_vars
    PROVE  TypeOK'
  <1>1. ASSUME NEW p \in Pods, Script(p) PROVE TypeOK' BY <1>1, TypeKeptByScript
  <1>2. ASSUME NEW p \in Pods, Kill(p) PROVE TypeOK'
    BY <1>2 DEF Kill, Go, TypeOK, Running
  <1>3. ASSUME NEW p \in Pods, Schedule(p) PROVE TypeOK'
    BY <1>3 DEF Schedule, Outside, Go, TypeOK, Running
  <1>4. ASSUME NEW p \in Pods, Remove(p) PROVE TypeOK'
    BY <1>4 DEF Remove, Go, TypeOK, Running
  <1>5. ASSUME NEW p \in Pods, Probe(p) PROVE TypeOK'
    <2>1. Healthy(p) \in BOOLEAN BY DEF Healthy, Running, Majority
    <2> QED BY <1>5, <2>1 DEF Probe, TypeOK, Running
  <1>6. ASSUME Report PROVE TypeOK'
    <2>1. reported' \in 0 .. MaxReplicas
      BY <1>6, PodsAreFinite DEF Report
    <2> QED BY <1>6, <2>1 DEF Report, TypeOK, Running
  <1>7. ASSUME Deploy PROVE TypeOK'
    <2>1. Wanted \in 0 .. MaxReplicas BY EtcdAssumption DEF Wanted, TypeOK
    <2> QED BY <1>7, <2>1 DEF Deploy, TypeOK, Running
  <1>8. ASSUME Edit PROVE TypeOK' BY <1>8 DEF Edit, TypeOK, Running
  <1>9. ASSUME UNCHANGED vars PROVE TypeOK' BY <1>9 DEF vars, TypeOK, Running
  <1> QED BY <1>1, <1>2, <1>3, <1>4, <1>5, <1>6, <1>7, <1>8, <1>9 DEF Next

-----------------------------------------------------------------------------
(* One cluster: only the first pod founds one, from an empty volume, so     *)
(* nobody can have joined anything before; who joins takes the cluster of   *)
(* a member, and finds itself in it.                                        *)

Founders == \A p \in Pods : pc[p] = "found" => p = First /\ data[p] = Begun

Joiners ==
    \A p \in Pods : pc[p] \in {"loop", "listed", "join"} => p # First /\ data[p] \notin Pods

Joined ==
    \A p \in Pods : data[p] \in Pods =>
        data[p] = First /\ data[First] = First /\ p \in members[First]

ClusterInv == TypeOK /\ Founders /\ Joiners /\ Joined

LEMMA ClusterInvStart == Init => ClusterInv
  BY TypeStart, FirstIsAPod DEF Init, ClusterInv, Founders, Joiners, Joined

\* Steps that change neither volumes nor members, and start nothing.
LEMMA Bystander ==
    ASSUME ClusterInv, UNCHANGED << data, members >>, TypeOK',
           \A q \in Pods : pc'[q] = pc[q] \/ pc'[q] \in {"none", "script", "etcd"}
    PROVE  ClusterInv'
  BY DEF ClusterInv, Founders, Joiners, Joined

LEMMA ClusterInvKeptByScript ==
    ASSUME ClusterInv, NEW p \in Pods, Script(p), TypeOK'
    PROVE  ClusterInv'
  <1>t. TypeOK /\ Founders /\ Joiners /\ Joined BY DEF ClusterInv
  <1> SUFFICES Founders' /\ Joiners' /\ Joined' BY DEF ClusterInv
  <1>a. \A q \in Pods \ {p} : pc'[q] = pc[q]
    BY <1>t DEF Script, Found, Founded, Loop, Listed, Add, ReadInitial, Join, JoinFails, Rerun,
                Go, TypeOK
  <1>1. CASE Found(p)
    <2>1. p = First /\ data[First] = Empty BY <1>1 DEF Found
    <2>2. \A q \in Pods : data[q] \notin Pods BY <2>1, <1>t, FirstIsAPod DEF Joined
    <2>3. pc'[First] = "found" /\ data'[First] = Begun
          /\ \A q \in Pods \ {First} : data'[q] = data[q]
      BY <1>1, <2>1, <1>t, FirstIsAPod DEF Found, Go, TypeOK
    <2>4. \A q \in Pods : data'[q] \notin Pods BY <2>2, <2>3, FirstIsAPod
    <2> QED BY <1>a, <1>t, <2>1, <2>3, <2>4 DEF Founders, Joiners, Joined
  <1>2. CASE Founded(p)
    <2>1. p = First /\ data[First] = Begun BY <1>2, <1>t DEF Founded, Founders
    <2>2. \A q \in Pods : data[q] \notin Pods BY <2>1, <1>t, FirstIsAPod DEF Joined
    <2>3. /\ pc'[First] = "etcd" /\ data'[First] = First /\ First \in members'[First]
          /\ \A q \in Pods \ {First} : data'[q] = data[q]
      BY <1>2, <2>1, <1>t, FirstIsAPod DEF Founded, Go, TypeOK
    <2> QED BY <1>a, <1>t, <2>1, <2>2, <2>3 DEF Founders, Joiners, Joined
  <1>3. CASE Loop(p)
    <2>1. UNCHANGED << data, members >> /\ p # First /\ data[p] = Empty BY <1>3 DEF Loop
    <2>2. pc'[p] = "loop" BY <1>3, <1>t DEF Loop, Go, TypeOK
    <2> QED BY <1>a, <1>t, <2>1, <2>2, FirstIsAPod DEF Founders, Joiners, Joined
  <1>4. CASE Listed(p)
    <2>1. UNCHANGED << data, members >> /\ pc[p] = "loop" BY <1>4 DEF Listed
    <2>2. pc'[p] = "listed" BY <1>4, <1>t DEF Listed, Go, TypeOK
    <2> QED BY <1>a, <1>t, <2>1, <2>2 DEF Founders, Joiners, Joined
  <1>5. CASE Add(p)
    <2>1. PICK q \in Pods : Answers(q) /\ members' = [members EXCEPT ![data[q]] = @ \cup {p}]
      BY <1>5 DEF Add
    <2>2. \A c \in Pods : members[c] \subseteq members'[c] BY <2>1, <1>t DEF TypeOK
    <2>3. UNCHANGED << pc, data >> BY <1>5 DEF Add
    <2> QED BY <1>t, <2>2, <2>3, FirstIsAPod DEF Founders, Joiners, Joined
  <1>6. CASE ReadInitial(p)
    <2>1. p # First /\ members' = members BY <1>6, <1>t DEF ReadInitial, Joiners
    <2>2. /\ pc'[p] = "join" /\ data'[p] = Begun
          /\ \A q \in Pods \ {p} : data'[q] = data[q]
      BY <1>6, <1>t DEF ReadInitial, Go, TypeOK
    <2> QED BY <1>a, <1>t, <2>1, <2>2, FirstIsAPod DEF Founders, Joiners, Joined
  <1>7. CASE Join(p)
    <2>1. PICK q \in Pods : CanJoin(p, q) /\ data' = [data EXCEPT ![p] = data[q]]
      BY <1>7 DEF Join
    <2>2. data[q] \in Pods BY <2>1, <1>t DEF CanJoin, TypeOK
    <2>3. data[q] = First /\ data[First] = First BY <2>2, <1>t DEF Joined
    <2>4. p \in members[First] /\ members' = members
      BY <1>7, <2>1, <2>3 DEF CanJoin, Cluster, Join
    <2>5. /\ pc'[p] = "etcd" /\ data'[p] = First
          /\ \A r \in Pods \ {p} : data'[r] = data[r]
      BY <1>7, <2>1, <2>3, <1>t DEF Join, Go, TypeOK
    <2> QED BY <1>a, <1>t, <2>3, <2>4, <2>5 DEF Founders, Joiners, Joined
  <1>8. CASE JoinFails(p) \/ Rerun(p)
    <2>1. UNCHANGED << data, members >> BY <1>8 DEF JoinFails, Rerun
    <2>2. pc'[p] \in {"script", "etcd"} BY <1>8, <1>t DEF JoinFails, Rerun, Go, TypeOK
    <2> QED BY <1>a, <1>t, <2>1, <2>2 DEF Founders, Joiners, Joined
  <1> QED BY <1>1, <1>2, <1>3, <1>4, <1>5, <1>6, <1>7, <1>8 DEF Script

LEMMA ClusterInvKept ==
    ASSUME ClusterInv, [Next]_vars
    PROVE  ClusterInv'
  <1>t. TypeOK BY DEF ClusterInv
  <1>u. TypeOK' BY <1>t, TypeKept
  <1>1. ASSUME NEW p \in Pods, Script(p) PROVE ClusterInv'
    BY <1>1, <1>u, ClusterInvKeptByScript
  <1>2. ASSUME NEW p \in Pods, Kill(p) \/ Remove(p) PROVE ClusterInv'
    <2>1. UNCHANGED << data, members >> BY <1>2 DEF Kill, Remove
    <2>2. \A q \in Pods : pc'[q] = pc[q] \/ pc'[q] \in {"none", "script", "etcd"}
      BY <1>2, <1>t DEF Kill, Remove, Go, TypeOK
    <2> QED BY <1>u, <2>1, <2>2, Bystander
  <1>3. ASSUME NEW p \in Pods, Schedule(p) PROVE ClusterInv'
    <2>1. UNCHANGED << data, members >> BY <1>3 DEF Schedule
    <2>2. \A q \in Pods : pc'[q] = pc[q] \/ pc'[q] \in {"none", "script", "etcd"}
      BY <1>3, <1>t DEF Schedule, Go, TypeOK
    <2> QED BY <1>u, <2>1, <2>2, Bystander
  <1>4. ASSUME \/ \E p \in Pods : Probe(p)
               \/ Report \/ Deploy \/ Edit \/ UNCHANGED vars
        PROVE  ClusterInv'
    <2>1. UNCHANGED << pc, data, members >> BY <1>4 DEF Probe, Report, Deploy, Edit, vars
    <2> QED BY <1>u, <2>1, Bystander
  <1> QED BY <1>1, <1>2, <1>3, <1>4 DEF Next

\* The types of EtcdBootstrap's variables, and that an etcd runs only on a volume
\* that tells its cluster (component.go:895-901).
THEOREM EtcdTypeCorrect == Spec => []TypeOK
  <1>1. TypeOK /\ [Next]_vars => TypeOK' BY TypeKept
  <1> QED BY <1>1, TypeStart, PTL DEF Spec

\* For any number of pods that start, die, are scaled away and come back in any
\* order, the script (component.go:868-902) never makes two clusters, and no pod
\* joins a cluster it is no member of.
THEOREM OneClusterOnly == Spec => []OneCluster
  <1>1. ClusterInv /\ [Next]_vars => ClusterInv' BY ClusterInvKept
  <1>2. ClusterInv => OneCluster BY DEF ClusterInv, Joined, OneCluster, Cluster
  <1> QED BY <1>1, <1>2, ClusterInvStart, PTL DEF Spec
=============================================================================
