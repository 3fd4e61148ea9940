--------------------------- MODULE EtcdBootstrap ---------------------------
(***************************************************************************)
(* Mayastor's etcd: the bootstrap script in each pod of the StatefulSet,   *)
(* and the gate the deployer puts before a change of that StatefulSet.     *)
(*                                                                         *)
(* Pods are their ordinals. They start in parallel, keep their volumes     *)
(* when they are deleted, and are found through the headless Services only *)
(* while they are ready. Of etcd itself as much is modelled as the script  *)
(* and the probes rely on: who is a member, who has started, and that most *)
(* of the members must be running for a member to be healthy.              *)
(***************************************************************************)
EXTENDS Integers, FiniteSets

CONSTANTS
    MaxReplicas,    \* bound: the largest etcdReplicaCount asked for
    Counts,         \* what etcdReplicaCount may be set to; 0 is unset
    Images,         \* what the image may be: "obliging" or "etcd"
    MaxEdits,       \* bound: edits of the spec
    MaxKills        \* bound: containers killed

ASSUME EtcdAssumption ==
    /\ MaxReplicas \in Nat \ {0}
    /\ Counts \subseteq 0 .. MaxReplicas
    /\ Images \subseteq {"obliging", "etcd"}

Pods == 0 .. MaxReplicas - 1

VARIABLES
    image,      \* how member list answers
    asked,      \* spec.mayastor.etcdReplicaCount
    replicas,   \* spec.replicas of the StatefulSet; 0 before it exists
    reported,   \* its status.readyReplicas, as the operator last read it
    pc,         \* where the script of each pod is
    data,       \* the volume of each pod: empty, begun, or the cluster it is a member of
    ready,      \* the readiness of each pod
    members,    \* the members of each cluster, a cluster being named for its founder
    initial,    \* INITIAL_CLUSTER of each pod
    used        \* how much of each bound has been used

vars == << image, asked, replicas, reported, pc, data, ready, members, initial, used >>

\* A volume that holds nothing; one on which etcd has begun to write, but has not
\* recorded the cluster yet. Else it holds the pod's membership in a cluster.
Empty == -2
Begun == -1

First == 0      \* mayastor-etcd-0

Init ==
    /\ image \in Images
    /\ asked \in Counts
    /\ replicas = 0 /\ reported = 0
    /\ pc = [p \in Pods |-> "none"]
    /\ data = [p \in Pods |-> Empty]
    /\ ready = [p \in Pods |-> FALSE]
    /\ members = [c \in Pods |-> {}]
    /\ initial = [p \in Pods |-> {}]
    /\ used = [edits |-> 0, kills |-> 0]

-----------------------------------------------------------------------------
(* etcd, as the script and the probes see it.                               *)

Running(p) == pc[p] = "etcd"
Cluster(p) == members[data[p]]
Started(c) == {q \in members[c] : data[q] = c}

Majority(some, all) == 2 * Cardinality(some) > Cardinality(all)

Healthy(p) ==
    Running(p) /\ Majority({q \in Cluster(p) : Running(q) /\ data[q] = data[p]}, Cluster(p))

\* Who member list names: a member has no name before it has started.
Named(p) == IF image = "obliging" THEN Cluster(p) ELSE Started(data[p])

\* The pod that answers a request to the Service mayastor-etcd.
Answers(q) == ready[q] /\ Running(q) /\ (image = "obliging" \/ Healthy(q))

\* etcd adds a member if most of the members have agreed, and most of the new
\* ones have started; it lets a single member have a second one.
MayAdd(q) ==
    /\ Healthy(q)
    /\ \/ Cardinality(Cluster(q)) = 1
       \/ 2 * Cardinality(Started(data[q])) > Cardinality(Cluster(q)) + 1

-----------------------------------------------------------------------------
(* The script.                                                              *)

Go(p, to) == pc' = [pc EXCEPT ![p] = to]

Outside == UNCHANGED << image, asked, replicas, reported, ready, used >>

\* Mutant: any pod with an empty volume founds a cluster.
FoundAnywhere(p) ==
    /\ pc[p] = "script" /\ data[p] = Empty
    /\ Go(p, "found")
    /\ data' = [data EXCEPT ![p] = Begun]
    /\ UNCHANGED << members, initial >> /\ Outside

\* An empty volume, and the first pod: it founds the cluster.
Found(p) ==
    /\ pc[p] = "script" /\ data[p] = Empty
    /\ p = First
    /\ Go(p, "found")
    /\ data' = [data EXCEPT ![p] = Begun]
    /\ UNCHANGED << members, initial >> /\ Outside

Founded(p) ==
    /\ pc[p] = "found"
    /\ Go(p, "etcd")
    /\ data' = [data EXCEPT ![p] = p]
    /\ members' = [members EXCEPT ![p] = {p}]
    /\ UNCHANGED initial /\ Outside

\* An empty volume: the other pods enter the until loop.
Loop(p) ==
    /\ pc[p] = "script" /\ data[p] = Empty
    /\ p # First
    /\ Go(p, "loop")
    /\ UNCHANGED << data, members, initial >> /\ Outside

\* member list names the pod: the loop is left.
Listed(p) ==
    /\ pc[p] = "loop"
    /\ \E q \in Pods : Answers(q) /\ p \in Named(q)
    /\ Go(p, "listed")
    /\ UNCHANGED << data, members, initial >> /\ Outside

\* Else member add; a member it has already is refused, which is ignored.
Add(p) ==
    /\ pc[p] = "loop"
    /\ \E q \in Pods :
        /\ Answers(q) /\ p \notin Cluster(q) /\ MayAdd(q)
        /\ members' = [members EXCEPT ![data[q]] = @ \cup {p}]
    /\ UNCHANGED << pc, data, initial >> /\ Outside

\* INITIAL_CLUSTER is read by a second member list; nothing checks that one.
ReadInitial(p) ==
    /\ pc[p] = "listed"
    /\ \/ \E q \in Pods : Answers(q) /\ initial' = [initial EXCEPT ![p] = Cluster(q)]
       \/ (\A q \in Pods : ~ Answers(q)) /\ initial' = [initial EXCEPT ![p] = {}]
    /\ Go(p, "join")
    /\ data' = [data EXCEPT ![p] = Begun]
    /\ UNCHANGED members /\ Outside

\* etcd joins if INITIAL_CLUSTER is what a member it can find says.
CanJoin(p, q) == ready[q] /\ Running(q) /\ p \in initial[p] /\ initial[p] = Cluster(q)

Join(p) ==
    /\ pc[p] = "join"
    /\ \E q \in Pods : CanJoin(p, q) /\ data' = [data EXCEPT ![p] = data[q]]
    /\ Go(p, "etcd")
    /\ UNCHANGED << members, initial >> /\ Outside

\* Else it exits, and leaves a volume that is not empty any more.
JoinFails(p) ==
    /\ pc[p] = "join"
    /\ \A q \in Pods : ~ CanJoin(p, q)
    /\ Go(p, "script")
    /\ UNCHANGED << data, members, initial >> /\ Outside

\* Mutant: etcd is taken to run on any volume that is not empty.
RerunAnything(p) ==
    /\ pc[p] = "script" /\ data[p] # Empty
    /\ Go(p, "etcd")
    /\ UNCHANGED << data, members, initial >> /\ Outside

\* A volume with data: etcd finds its cluster there. With one that was only begun
\* it exits, and the container is started again, with the same outcome.
Rerun(p) ==
    /\ pc[p] = "script" /\ data[p] \notin {Empty, Begun}
    /\ Go(p, "etcd")
    /\ UNCHANGED << data, members, initial >> /\ Outside

Script(p) ==
    \/ Found(p) \/ Founded(p) \/ Loop(p) \/ Listed(p) \/ Add(p)
    \/ ReadInitial(p) \/ Join(p) \/ JoinFails(p) \/ Rerun(p)

-----------------------------------------------------------------------------
(* Kubernetes.                                                              *)

\* A container dies, and is started again.
Kill(p) ==
    /\ used.kills < MaxKills /\ used' = [used EXCEPT !.kills = @ + 1]
    /\ pc[p] \notin {"none", "script"}
    /\ Go(p, "script")
    /\ ready' = [ready EXCEPT ![p] = FALSE]
    /\ UNCHANGED << image, asked, replicas, reported, data, members, initial >>

\* ParallelPodManagement: pods come and go in any order. Their volumes stay.
Schedule(p) ==
    /\ p < replicas /\ pc[p] = "none"
    /\ Go(p, "script")
    /\ UNCHANGED << data, members, initial >> /\ Outside

Remove(p) ==
    /\ p >= replicas /\ pc[p] # "none"
    /\ Go(p, "none")
    /\ ready' = [ready EXCEPT ![p] = FALSE]
    /\ UNCHANGED << image, asked, replicas, reported, data, members, initial, used >>

\* The readiness probe: etcdctl endpoint health.
Probe(p) ==
    /\ ready[p] # Healthy(p)
    /\ ready' = [ready EXCEPT ![p] = Healthy(p)]
    /\ UNCHANGED << image, asked, replicas, reported, pc, data, members, initial, used >>

\* The StatefulSet's status, in the operator's cache.
Report ==
    /\ reported # Cardinality({p \in Pods : ready[p]})
    /\ reported' = Cardinality({p \in Pods : ready[p]})
    /\ UNCHANGED << image, asked, replicas, pc, data, ready, members, initial, used >>

-----------------------------------------------------------------------------
(* The operator.                                                            *)

\* What mayastorEtcdStatefulSet asks for.
Wanted == IF asked > 0 THEN asked ELSE 1

\* etcdHealthCheck: no StatefulSet, none of it ready, or /health of the pod behind
\* the Service is good.
GateOpen ==
    \/ replicas = 0
    \/ reported = 0
    \/ \E p \in Pods : ready[p] /\ Healthy(p)

\* Mutant: an etcd that has no ready pod is not healthy either.
DeployHealthy ==
    /\ replicas # Wanted
    /\ replicas = 0 \/ \E p \in Pods : ready[p] /\ Healthy(p)
    /\ replicas' = Wanted
    /\ UNCHANGED << image, asked, reported, pc, data, ready, members, initial, used >>

\* Deploying Mayastor applies the StatefulSet if the gate is open.
Deploy ==
    /\ replicas # Wanted
    /\ GateOpen
    /\ replicas' = Wanted
    /\ UNCHANGED << image, asked, reported, pc, data, ready, members, initial, used >>

Edit ==
    /\ used.edits < MaxEdits /\ used' = [used EXCEPT !.edits = @ + 1]
    /\ asked' \in Counts \ {asked}
    /\ UNCHANGED << image, replicas, reported, pc, data, ready, members, initial >>

Next ==
    \/ \E p \in Pods : Script(p) \/ Kill(p) \/ Schedule(p) \/ Remove(p) \/ Probe(p)
    \/ Report \/ Deploy \/ Edit

Spec == Init /\ [][Next]_vars

(***************************************************************************)
(* Scripts, the kubelet and the StatefulSet controller go on, and the      *)
(* operator comes back to a Mayastor that failed (the requeue).            *)
(***************************************************************************)
FairSpec ==
    /\ Spec
    /\ \A p \in Pods : WF_vars(Script(p)) /\ WF_vars(Schedule(p) \/ Remove(p)) /\ WF_vars(Probe(p))
    /\ WF_vars(Report) /\ WF_vars(Deploy)

-----------------------------------------------------------------------------
\* Type correctness; an etcd runs only on a volume that tells its cluster.
TypeOK ==
    /\ image \in Images /\ asked \in Counts
    /\ replicas \in 0 .. MaxReplicas /\ reported \in 0 .. MaxReplicas
    /\ pc \in [Pods -> {"none", "script", "found", "loop", "listed", "join", "etcd"}]
    /\ data \in [Pods -> {Empty, Begun} \cup Pods]
    /\ ready \in [Pods -> BOOLEAN]
    /\ members \in [Pods -> SUBSET Pods] /\ initial \in [Pods -> SUBSET Pods]
    /\ \A p \in Pods : Running(p) => data[p] \in Pods

\* All pods that have joined anything are members of the one cluster of the first
\* pod (component.go:863-902), however pods start in parallel, die while they join,
\* and are scaled away and back with their volumes.
OneCluster ==
    \A p \in Pods : data[p] \in Pods => data[p] = First /\ p \in Cluster(p)

\* A count that is asked for reaches the StatefulSet, also when etcd has lost its
\* quorum to an earlier one: its pods stop being ready, and then the health check
\* (deployer.go:274, 486-511) lets the repair through.
SpecReachesEtcd == \A n \in Counts : <>[](asked = n) => <>[](replicas = Wanted)

\* "every other pod joins it via `etcdctl member add` (idempotent), so scale-up works
\* on a running cluster" (component.go:864-866); e2e/etcd_test.go:98 waits for it:
\* once a cluster of one pod has run, every pod that is asked for to the end starts.
ScaleUpWorks ==
    <>(replicas = 1 /\ ready[First]) => \A p \in Pods : <>[](p < replicas) => <>ready[p]
=============================================================================
