----------------------------- MODULE Reconciler -----------------------------
(***************************************************************************)
(* The reconcile loop of the OpenEBS operator, one API call at a time.     *)
(*                                                                         *)
(* One manager with one worker (replicas: 1) serves one OpenEBS resource.  *)
(* Every call the loop makes - reading the resource from the informer's    *)
(* cache, persisting the finalizer, each apply of a deploy function, each  *)
(* list and delete of the orphan sweep, the status update, each delete of  *)
(* the cleanup, dropping the finalizer - is an action of its own, so users,*)
(* other controllers, the garbage collector and a crash of the manager may *)
(* come between any two of them. A call can fail without effect, or take   *)
(* effect and still report an error (a lost reply).                        *)
(*                                                                         *)
(* The get, create or update, and retry inside one apply are one step.     *)
(***************************************************************************)
EXTENDS Catalogue, Status

CONSTANTS
    Specs,              \* the specs a user may write
    ForeignObjects,     \* objects somebody else may create under our names
    Tampered,           \* objects somebody else may delete or edit
    VeleroInstalled,    \* whether the velero.io Schedule kind exists
    None,               \* no resource
    MaxUid,             \* bound: how often the resource is created
    MaxDeletes,         \* bound: how often it is deleted
    MaxEdits,           \* bound: edits of its spec
    MaxTrouble          \* bound: failing API calls, crashes of the manager, status
                        \* writes that change only the time of the conditions, and
                        \* what others do to the objects, taken together

VARIABLES
    cr,         \* the resource in the API server, or None
    lastRV,     \* the last resourceVersion the API server gave it
    lastUid,    \* the last uid the API server gave it
    objs,       \* the other objects: a function from those that exist
    cache,      \* the informer's copy of cr
    queue,      \* the work queue holds a request for it
    timer,      \* a delayed request is pending (RequeueAfter or rate limit)
    pc,         \* where the worker is
    inst,       \* the worker's copy of the resource ("instance")
    eng,        \* deployEngines: index of the engine
    step,       \* index of the next call in the list the worker walks
    results,    \* phases of the engines deployed so far in this round
    todo,       \* orphans found by the last list and not yet deleted
    latest,     \* the re-fetched copy whose status is written
    touched,    \* objects somebody else changed since they were last applied
    used        \* how much of each bound has been used

api     == << cr, lastRV, lastUid >>
round   == << inst, eng, step, results, todo, latest >>
vars    == << cr, lastRV, lastUid, objs, cache, queue, timer, pc, inst, eng,
              step, results, todo, latest, touched, used >>

NoOwner == 0

With(f, x, v)  == [y \in DOMAIN f \cup {x} |-> IF y = x THEN v ELSE f[y]]
Without(f, S)  == [y \in DOMAIN f \ S |-> f[y]]
Nothing        == [x \in {} |-> x]

Exists(o) == o \in DOMAIN objs

NoStatus == [phase |-> "", engines |-> Nothing, conditions |-> {}]

\* The resource: identity and version, spec, finalizer, deletion timestamp, status.
ResultsType == UNION {[E -> {"Running", "Failed"}] : E \in SUBSET Engines}

CRType ==
    [uid : Nat \ {0}, rv : Nat \ {0}, spec : Specs, fin : BOOLEAN, del : BOOLEAN,
     status : [phase : Phases \cup {""}, engines : ResultsType,
               conditions : SUBSET ConditionTypes]]

ASSUME NoneAssumption  == None \notin CRType
ASSUME SpecsAssumption == \A s \in Specs : s.on \subseteq Engines

Init ==
    /\ cr = None /\ cache = None
    /\ lastRV = 0 /\ lastUid = 0
    /\ objs = Nothing
    /\ queue = FALSE /\ timer = FALSE
    /\ pc = "idle" /\ inst = None /\ latest = None
    /\ eng = 1 /\ step = 1
    /\ results = Nothing /\ todo = {} /\ touched = {}
    /\ used = [deletes |-> 0, edits |-> 0, trouble |-> 0]

-----------------------------------------------------------------------------
\* What goes wrong in the cluster, within its bound: here, an API call fails.
Trouble == used.trouble < MaxTrouble /\ used' = [used EXCEPT !.trouble = @ + 1]
Fault   == Trouble
NoFault == UNCHANGED used

\* The worker ends a round; again says whether a delayed request follows.
Finish(again) ==
    /\ pc' = "idle" /\ inst' = None /\ latest' = None
    /\ eng' = 1 /\ step' = 1 /\ results' = Nothing /\ todo' = {}
    /\ timer' = (timer \/ again)

\* An error returned from Reconcile: the request comes back rate limited.
GiveUp == Finish(TRUE)

\* An Update of the resource succeeds only at the version the worker read.
Current(copy) == cr # None /\ copy.rv = cr.rv

(***************************************************************************)
(* Reconcile                                                               *)
(***************************************************************************)
\* The request is for a resource the cache does not hold: nothing to do.
ReconcileNothing ==
    /\ pc = "idle" /\ queue /\ cache = None
    /\ queue' = FALSE
    /\ UNCHANGED << api, objs, cache, timer, pc, round, touched, used >>

\* The resource cannot be read: the request comes back rate limited.
GetFails ==
    /\ pc = "idle" /\ queue
    /\ Fault
    /\ queue' = FALSE /\ timer' = TRUE
    /\ UNCHANGED << api, objs, cache, pc, round, touched >>

\* Mutant: installs before the finalizer is written.
ReconcileUnguarded ==
    /\ pc = "idle" /\ queue /\ cache # None
    /\ queue' = FALSE
    /\ inst' = cache
    /\ pc' = IF cache.del THEN "cleanup" ELSE "deploy"
    /\ UNCHANGED << api, objs, cache, timer, eng, step, results, todo, latest, touched, used >>

Reconcile ==
    /\ pc = "idle" /\ queue /\ cache # None
    /\ queue' = FALSE
    /\ inst' = cache
    /\ pc' = IF cache.del THEN "cleanup" ELSE IF cache.fin THEN "deploy" ELSE "finalize"
    /\ UNCHANGED << api, objs, cache, timer, eng, step, results, todo, latest, touched, used >>

\* Mutant: a rejected write of the finalizer is ignored.
AddFinalizerUnchecked ==
    /\ pc = "finalize"
    /\ IF Current(inst)
       THEN /\ cr' = [cr EXCEPT !.fin = TRUE, !.rv = lastRV + 1]
            /\ lastRV' = lastRV + 1 /\ inst' = cr'
       ELSE UNCHANGED << cr, lastRV, inst >>
    /\ pc' = "deploy" /\ NoFault
    /\ UNCHANGED << timer, eng, step, results, todo, latest, lastUid, objs, cache, queue, touched >>

\* The finalizer is written before anything is installed.
AddFinalizer ==
    /\ pc = "finalize"
    /\ Current(inst)
    /\ cr' = [cr EXCEPT !.fin = TRUE, !.rv = lastRV + 1]
    /\ lastRV' = lastRV + 1
    /\ \/ /\ NoFault
          /\ pc' = "deploy" /\ inst' = cr'
          /\ UNCHANGED << timer, eng, step, results, todo, latest >>
       \/ Fault /\ GiveUp
    /\ UNCHANGED << lastUid, objs, cache, queue, touched >>

\* Conflict, NotFound or an API error while writing the finalizer.
AddFinalizerRejected ==
    /\ pc = "finalize"
    /\ GiveUp
    /\ (~ Current(inst) /\ NoFault) \/ Fault
    /\ UNCHANGED << api, objs, cache, queue, touched >>

(***************************************************************************)
(* deployEngines and the deploy functions                                  *)
(***************************************************************************)
\* The tables of Catalogue, evaluated once for each spec.
CallsOf     == [s \in Specs |-> [e \in Engines |-> Steps(s, e)]]
PlanOf      == [s \in Specs |-> [e \in Engines |-> PlanSteps(s, e)]]
CleanupOf   == [s \in Specs |-> CleanupList(s)]
ExpectedIn  == [s \in Specs |-> Expected(s)]

Engine      == EngineOrder[eng]
EngineSteps == CallsOf[inst.spec][Engine]
Call        == EngineSteps[step]

AtEngine == pc = "deploy" /\ eng <= Len(EngineOrder)

\* Mutant: no owner reference.
RenderedUnowned(st) ==
    [owner |-> NoOwner, labelled |-> st.labelled, imm |-> st.imm, mut |-> st.mut]

Rendered(st) ==
    [owner |-> IF st.how = "namespace" THEN NoOwner ELSE inst.uid,
     labelled |-> st.labelled, imm |-> st.imm, mut |-> st.mut]

\* The API server takes an Update that leaves the immutable fields alone.
Accepts(st) == Exists(st.obj) => st.imm \in {objs[st.obj].imm, Flexible}

\* IsControlledBy(instance), or the managed-by label.
OperatorOwned(o) == objs[o].owner = inst.uid \/ objs[o].labelled

\* Mutant: one call too many.
AdvancePastEnd ==
    IF step <= Len(EngineSteps)
    THEN /\ step' = step + 1
         /\ UNCHANGED << eng, results >>
    ELSE /\ step' = 1 /\ eng' = eng + 1
         /\ results' = With(results, Engine, "Running")

\* The call returned nil: go on; after the last call the engine is Running.
Advance ==
    IF step < Len(EngineSteps)
    THEN /\ step' = step + 1
         /\ UNCHANGED << eng, results >>
    ELSE /\ step' = 1 /\ eng' = eng + 1
         /\ results' = With(results, Engine, "Running")

\* The call returned an error: engineFailed, and the next engine's turn.
Abandon ==
    /\ step' = 1 /\ eng' = eng + 1
    /\ results' = With(results, Engine, "Failed")

InDeploy == UNCHANGED << api, cache, queue, timer, pc, inst, todo, latest >>

SkipEngine ==
    /\ AtEngine
    /\ Engine \notin inst.spec.on
    /\ eng' = eng + 1
    /\ InDeploy /\ UNCHANGED << objs, step, results, touched, used >>

AtCall(how) == AtEngine /\ Engine \in inst.spec.on /\ Call.how \in how

WriteCalls == {"namespace", "apply", "unstructured", "storageclass", "service",
               "statefulset", "schedule"}

\* apply, applyUnstructured, applyStatefulSet...: create, or update in place.
WriteObject ==
    /\ AtCall(WriteCalls)
    /\ Call.how = "schedule" => VeleroInstalled
    /\ Accepts(Call)
    /\ objs' = With(objs, Call.obj, Rendered(Call))
    /\ touched' = touched \ {Call.obj}
    /\ (NoFault /\ Advance) \/ (Fault /\ Abandon)
    /\ InDeploy

\* The existing object cannot be updated to the desired one, and is left.
WriteRefused ==
    /\ AtCall(WriteCalls)
    /\ ~ Accepts(Call)
    /\ \/ Call.how \in {"namespace", "apply", "unstructured", "schedule"}
       \/ Call.how \in {"service", "statefulset"} /\ ~ OperatorOwned(Call.obj)
    /\ NoFault /\ Abandon
    /\ InDeploy /\ UNCHANGED << objs, touched >>

\* applyStorageClass after Invalid, applyService on another clusterIP: delete,
\* then create; when the create fails the object is gone for this round.
ReplaceObject ==
    /\ AtCall({"storageclass", "service"})
    /\ ~ Accepts(Call)
    /\ Call.how = "service" => OperatorOwned(Call.obj)
    /\ \/ /\ objs' = With(objs, Call.obj, Rendered(Call))
          /\ (NoFault /\ Advance) \/ (Fault /\ Abandon)
       \/ /\ objs' = Without(objs, {Call.obj})
          /\ Fault /\ Abandon
    /\ touched' = touched \ {Call.obj}
    /\ InDeploy

\* Mutant: a deleted StatefulSet counts as applied.
DeleteDriftedSilently ==
    /\ AtCall({"statefulset"})
    /\ ~ Accepts(Call) /\ OperatorOwned(Call.obj)
    /\ objs' = Without(objs, {Call.obj})
    /\ touched' = touched \ {Call.obj}
    /\ NoFault /\ Advance
    /\ InDeploy

\* Mutant: drift is reported, and nothing done about it.
DeleteDriftedNever ==
    /\ AtCall({"statefulset"})
    /\ ~ Accepts(Call) /\ OperatorOwned(Call.obj)
    /\ NoFault /\ Abandon
    /\ InDeploy /\ UNCHANGED << objs, touched >>

\* applyStatefulSet on immutable drift: delete now, create in a later round.
DeleteDrifted ==
    /\ AtCall({"statefulset"})
    /\ ~ Accepts(Call) /\ OperatorOwned(Call.obj)
    /\ objs' = Without(objs, {Call.obj})
    /\ touched' = touched \ {Call.obj}
    /\ NoFault /\ Abandon
    /\ InDeploy

\* etcdHealthCheck: an error only if the StatefulSet is there to be asked.
CheckEtcd ==
    /\ AtCall({"etcdhealth"})
    /\ (NoFault /\ Advance) \/ (Exists(Call.obj) /\ Fault /\ Abandon)
    /\ InDeploy /\ UNCHANGED << objs, touched >>

\* reconcileEtcdVeleroSchedule: no Schedule kind, or no schedule wanted.
SkipSchedule ==
    /\ AtCall({"schedule"}) /\ ~ VeleroInstalled
    /\ NoFault /\ Advance
    /\ InDeploy /\ UNCHANGED << objs, touched >>

RemoveSchedule ==
    /\ AtCall({"unschedule"})
    /\ objs' = Without(objs, {Call.obj})
    /\ touched' = touched \ {Call.obj}
    /\ (NoFault /\ Advance) \/ (Fault /\ Abandon)
    /\ InDeploy

\* Mutant: the error is logged and the next call made.
CallFailsUnnoticed ==
    /\ AtCall(WriteCalls \cup {"etcdhealth", "unschedule"})
    /\ Fault /\ Advance
    /\ InDeploy /\ UNCHANGED << objs, touched >>

\* Any of these calls fails before it has an effect.
CallFails ==
    /\ AtCall(WriteCalls \cup {"etcdhealth", "unschedule"})
    /\ Fault /\ Abandon
    /\ InDeploy /\ UNCHANGED << objs, touched >>

DeployDone ==
    /\ pc = "deploy" /\ eng > Len(EngineOrder)
    /\ pc' = "list" /\ step' = 1
    /\ UNCHANGED << api, objs, cache, queue, timer, inst, eng, results, todo, latest,
                    touched, used >>

Deploy ==
    \/ SkipEngine \/ WriteObject \/ WriteRefused \/ ReplaceObject \/ DeleteDrifted
    \/ CheckEtcd \/ SkipSchedule \/ RemoveSchedule \/ CallFails \/ DeployDone

(***************************************************************************)
(* cleanupOrphans. Its error is logged and the round goes on.              *)
(***************************************************************************)
InSweep == UNCHANGED << api, cache, queue, timer, inst, eng, results, latest >>

Orphans(k) ==
    {o \in DOMAIN objs : /\ o.kind = SweepKinds[k][1] /\ o.ns = SweepKinds[k][2]
                         /\ objs[o].labelled
                         /\ o.name \notin ExpectedIn[inst.spec]}

\* List one kind; with no orphan of that kind left, the next one is listed.
ListKind ==
    /\ pc = "list" /\ step <= Len(SweepKinds)
    /\ todo' = Orphans(step)
    /\ IF Orphans(step) = {} THEN pc' = "list" /\ step' = step + 1
                             ELSE pc' = "sweep" /\ step' = step
    /\ InSweep /\ UNCHANGED << objs, touched, used >>

\* Delete one of the listed orphans, in no particular order.
DeleteOrphan ==
    /\ pc = "sweep"
    /\ \E o \in todo :
        /\ Exists(o)
        /\ objs' = Without(objs, {o})
        /\ touched' = touched \ {o}
        /\ todo' = todo \ {o}
    /\ IF todo' = {} THEN pc' = "list" /\ step' = step + 1
                     ELSE pc' = "sweep" /\ step' = step
    /\ NoFault
    /\ InSweep

LeaveSweep == pc' = "refetch" /\ step' = 1 /\ todo' = {} /\ InSweep

\* A list or delete fails without effect.
SweepFails ==
    /\ pc \in {"list", "sweep"}
    /\ Fault /\ LeaveSweep
    /\ UNCHANGED << objs, touched >>

\* A delete takes effect, but its reply is lost.
DeleteOrphanUnanswered ==
    /\ pc = "sweep"
    /\ \E o \in todo : objs' = Without(objs, {o}) /\ touched' = touched \ {o}
    /\ Fault /\ LeaveSweep

\* NotFound is an error to the sweep: a listed orphan is gone already.
OrphanVanished ==
    /\ pc = "sweep"
    /\ \E o \in todo : ~ Exists(o)
    /\ NoFault /\ LeaveSweep
    /\ UNCHANGED << objs, touched >>

\* Last, the Velero Schedule, in the namespace the spec names now.
SweepSchedule ==
    /\ pc = "list" /\ step = Len(SweepKinds) + 1
    /\ IF ScheduleWanted(inst.spec)
       THEN UNCHANGED << objs, touched >>
       ELSE /\ objs' = Without(objs, {mayastorEtcdVeleroSchedule(inst.spec).obj})
            /\ touched' = touched \ {mayastorEtcdVeleroSchedule(inst.spec).obj}
    /\ NoFault /\ LeaveSweep

Sweep ==
    \/ ListKind \/ DeleteOrphan \/ SweepSchedule
    \/ SweepFails \/ DeleteOrphanUnanswered \/ OrphanVanished

(***************************************************************************)
(* The status: computed from the instance this round started with, written *)
(* on a copy fetched again, from the cache.                                *)
(***************************************************************************)
Refetch ==
    /\ pc = "refetch"
    /\ cache # None
    /\ latest' = cache
    /\ pc' = "status"
    /\ UNCHANGED << api, objs, cache, queue, timer, inst, eng, step, results, todo,
                    touched, used >>

RefetchFails ==
    /\ pc = "refetch"
    /\ GiveUp
    /\ IF cache = None THEN NoFault ELSE Fault
    /\ UNCHANGED << api, objs, cache, queue, touched >>

\* Mutant: the whole copy is written, whatever the version it was read at.
UpdateStatusBlindly ==
    /\ pc = "status" /\ cr # None
    /\ cr' = [latest EXCEPT !.status = StatusOf(results), !.rv = lastRV + 1]
    /\ lastRV' = lastRV + 1
    /\ NoFault /\ Finish(TRUE)
    /\ UNCHANGED << lastUid, objs, cache, queue, touched >>

\* Mutant: no RequeueAfter once the status is written.
UpdateStatusOnce ==
    /\ pc = "status"
    /\ Current(latest)
    /\ LET new == StatusOf(results)
       IN  IF cr.status = new
           THEN UNCHANGED << cr, lastRV >>
           ELSE /\ cr' = [cr EXCEPT !.status = new, !.rv = lastRV + 1]
                /\ lastRV' = lastRV + 1
    /\ NoFault /\ Finish(FALSE)
    /\ UNCHANGED << lastUid, objs, cache, queue, touched >>

\* The API server bumps the version only if the write changes something. Every
\* condition carries the second of the write as its lastTransitionTime, so a
\* write of the same phases is a change too, unless it falls in the same second.
\* A lost reply ends the round like a good one: a delayed request follows.
UpdateStatus ==
    /\ pc = "status"
    /\ Current(latest)
    /\ LET new == StatusOf(results)
       IN  \/ /\ cr.status = new /\ NoFault
              /\ UNCHANGED << cr, lastRV >>
           \/ /\ IF cr.status = new THEN Trouble ELSE NoFault
              /\ cr' = [cr EXCEPT !.status = new, !.rv = lastRV + 1]
              /\ lastRV' = lastRV + 1
    /\ Finish(TRUE)
    /\ UNCHANGED << lastUid, objs, cache, queue, touched >>

UpdateStatusRejected ==
    /\ pc = "status"
    /\ GiveUp
    /\ (~ Current(latest) /\ NoFault) \/ Fault
    /\ UNCHANGED << api, objs, cache, queue, touched >>

(***************************************************************************)
(* reconcileDelete                                                         *)
(***************************************************************************)
CleanupCall == CleanupOf[inst.spec][step]

DeleteInstalled ==
    /\ pc = "cleanup"
    /\ objs' = Without(objs, {CleanupCall})
    /\ touched' = touched \ {CleanupCall}
    /\ \/ /\ NoFault
          /\ IF step < Len(CleanupOf[inst.spec])
             THEN step' = step + 1 /\ pc' = "cleanup"
             ELSE step' = 1 /\ pc' = "unfinalize"
          /\ UNCHANGED << timer, inst, eng, results, todo, latest >>
       \/ Fault /\ GiveUp
    /\ UNCHANGED << api, cache, queue >>

\* Mutant: a failed delete is passed over.
CleanupFailsUnnoticed ==
    /\ pc = "cleanup" /\ step < Len(CleanupOf[inst.spec])
    /\ Fault /\ step' = step + 1
    /\ UNCHANGED << api, objs, cache, queue, timer, pc, inst, eng, results, todo, latest, touched >>

\* Mutant: a failed cleanup is not retried.
CleanupFailsFinally ==
    /\ pc = "cleanup"
    /\ Fault /\ Finish(FALSE)
    /\ UNCHANGED << api, objs, cache, queue, touched >>

CleanupFails ==
    /\ pc = "cleanup"
    /\ Fault /\ GiveUp
    /\ UNCHANGED << api, objs, cache, queue, touched >>

\* The last finalizer is gone: the API server removes the resource.
RemoveFinalizer ==
    /\ pc = "unfinalize"
    /\ Current(inst)
    /\ cr' = None /\ lastRV' = lastRV + 1
    /\ (NoFault /\ Finish(FALSE)) \/ (Fault /\ GiveUp)
    /\ UNCHANGED << lastUid, objs, cache, queue, touched >>

RemoveFinalizerRejected ==
    /\ pc = "unfinalize"
    /\ GiveUp
    /\ (~ Current(inst) /\ NoFault) \/ Fault
    /\ UNCHANGED << api, objs, cache, queue, touched >>

Delete == DeleteInstalled \/ CleanupFails \/ RemoveFinalizer \/ RemoveFinalizerRejected

Worker ==
    \/ ReconcileNothing \/ GetFails \/ Reconcile \/ AddFinalizer \/ AddFinalizerRejected
    \/ Deploy \/ Sweep
    \/ Refetch \/ RefetchFails \/ UpdateStatus \/ UpdateStatusRejected
    \/ Delete

(***************************************************************************)
(* The manager's runtime: informer, delayed requests, crash and restart.   *)
(***************************************************************************)
\* A watch event: the cache moves on, perhaps over several versions.
Observe ==
    /\ cache # cr
    /\ cache' = cr
    /\ queue' = TRUE
    /\ UNCHANGED << api, objs, timer, pc, round, touched, used >>

TimerFires ==
    /\ timer
    /\ timer' = FALSE /\ queue' = TRUE
    /\ UNCHANGED << api, objs, cache, pc, round, touched, used >>

\* A crash loses everything in memory; the new informer lists the resource.
Restart ==
    /\ Trouble
    /\ cache' = cr /\ queue' = (cr # None) /\ timer' = FALSE
    /\ pc' = "idle" /\ inst' = None /\ latest' = None
    /\ eng' = 1 /\ step' = 1 /\ results' = Nothing /\ todo' = {}
    /\ UNCHANGED << api, objs, touched >>

(***************************************************************************)
(* Users, other clients and the garbage collector.                         *)
(***************************************************************************)
Outside == UNCHANGED << cache, queue, timer, pc, round >>

CreateCR ==
    /\ cr = None /\ lastUid < MaxUid
    /\ \E s \in Specs :
        cr' = [uid |-> lastUid + 1, rv |-> lastRV + 1, spec |-> s,
               fin |-> FALSE, del |-> FALSE, status |-> NoStatus]
    /\ lastUid' = lastUid + 1 /\ lastRV' = lastRV + 1
    /\ Outside /\ UNCHANGED << objs, touched, used >>

EditCR ==
    /\ cr # None /\ used.edits < MaxEdits
    /\ \E s \in Specs \ {cr.spec} : cr' = [cr EXCEPT !.spec = s, !.rv = lastRV + 1]
    /\ lastRV' = lastRV + 1
    /\ used' = [used EXCEPT !.edits = @ + 1]
    /\ Outside /\ UNCHANGED << lastUid, objs, touched >>

\* Without a finalizer the resource goes at once.
DeleteCR ==
    /\ cr # None /\ ~ cr.del /\ used.deletes < MaxDeletes
    /\ cr' = IF cr.fin THEN [cr EXCEPT !.del = TRUE, !.rv = lastRV + 1] ELSE None
    /\ lastRV' = lastRV + 1
    /\ used' = [used EXCEPT !.deletes = @ + 1]
    /\ Outside /\ UNCHANGED << lastUid, objs, touched >>

\* Labelled ones are what an earlier release of the operator left behind.
ForeignCreate ==
    /\ Trouble
    /\ \E o \in ForeignObjects \ DOMAIN objs, labelled \in BOOLEAN :
        /\ objs' = With(objs, o, [owner |-> NoOwner, labelled |-> labelled,
                                  imm |-> Foreign(o), mut |-> Altered])
        /\ touched' = touched \cup {o}
    /\ Outside /\ UNCHANGED api

ForeignDelete ==
    /\ Trouble
    /\ \E o \in Tampered \cap DOMAIN objs :
        /\ objs' = Without(objs, {o})
        /\ touched' = touched \cup {o}
    /\ Outside /\ UNCHANGED api

\* An Update by another client changes what an Update may change.
ForeignEdit ==
    /\ Trouble
    /\ \E o \in Tampered \cap DOMAIN objs :
        /\ objs' = With(objs, o, [owner |-> objs[o].owner, labelled |-> objs[o].labelled,
                                  imm |-> objs[o].imm, mut |-> Altered])
        /\ touched' = touched \cup {o}
    /\ Outside /\ UNCHANGED api

\* An object whose owner is gone is collected.
CollectGarbage ==
    /\ \E o \in DOMAIN objs :
        /\ objs[o].owner # NoOwner
        /\ ~ (cr # None /\ cr.uid = objs[o].owner)
        /\ objs' = Without(objs, {o})
    /\ Outside /\ UNCHANGED << api, touched, used >>

Next ==
    \/ Worker
    \/ Observe \/ TimerFires \/ Restart
    \/ CreateCR \/ EditCR \/ DeleteCR
    \/ ForeignCreate \/ ForeignDelete \/ ForeignEdit
    \/ CollectGarbage

Spec == Init /\ [][Next]_vars

(***************************************************************************)
(* The worker goroutine keeps running, watch events arrive, delayed        *)
(* requests are delivered, and the cluster's garbage collector works.      *)
(***************************************************************************)
LiveSpec ==
    /\ Spec
    /\ WF_vars(Worker) /\ WF_vars(Observe) /\ WF_vars(TimerFires)
    /\ WF_vars(CollectGarbage)
-----------------------------------------------------------------------------
\* Type correctness; the indices eng and step never leave the lists they walk
\* (deployEngines, the sweep's kinds, cleanup's objects).
TypeOK ==
    /\ {cr, cache, inst, latest} \subseteq CRType \cup {None}
    /\ lastRV \in Nat /\ lastUid \in Nat
    /\ \A o \in DOMAIN objs : objs[o].owner \in Nat
    /\ queue \in BOOLEAN /\ timer \in BOOLEAN
    /\ pc \in {"idle", "finalize", "deploy", "list", "sweep", "refetch", "status",
               "cleanup", "unfinalize"}
    /\ inst # None <=> pc # "idle"
    /\ latest # None <=> pc = "status"
    /\ eng \in 1 .. Len(EngineOrder) + 1
    /\ step \in Nat \ {0}
    /\ AtEngine => step <= IF Engine \in inst.spec.on THEN Len(EngineSteps) ELSE 1
    /\ pc \in {"idle", "finalize"} => eng = 1 /\ step = 1
    /\ pc = "list" => step <= Len(SweepKinds) + 1
    /\ pc = "sweep" => step <= Len(SweepKinds)
    /\ pc = "cleanup" => step <= Len(CleanupOf[inst.spec])
    /\ results \in ResultsType
    /\ todo # {} => pc = "sweep"
    /\ used \in [deletes : Nat, edits : Nat, trouble : Nat]

\* The finalizer comes first (Reconcile, lines 60-65): no cluster object belongs
\* to a resource that could disappear without cleanup. It must hold however stale
\* the cache is, whatever conflicts, and across crashes.
OwnedObjectsHoldFinalizer ==
    \A o \in DOMAIN objs :
        objs[o].owner # NoOwner /\ cr # None /\ cr.uid = objs[o].owner => cr.fin

\* While a round installs or sweeps, the resource it works for is still there,
\* under its finalizer, however old the copy it works from.
WorksForLiveResource ==
    pc \in {"deploy", "list", "sweep", "refetch", "status"} =>
        cr # None /\ cr.uid = inst.uid /\ cr.fin

\* No two enabled engines write a StorageClass of the same name.
DistinctClasses(s) ==
    \A e, f \in s.on : e # f => ClassName(s, e) # ClassName(s, f)

\* Expected and Plan agree: what the sweep deletes, this round did not deploy.
SweepSparesPlan == pc = "sweep" => todo \cap Plan(inst.spec) = {}

\* An engine reported Running has every object of its plan in place, as rendered
\* from the spec of this round, when the status is computed: no later engine, no
\* sweep and no schedule removal of the same round has taken it back. Objects
\* somebody else changed meanwhile are excepted.
RunningEnginesStand ==
    \A e \in DOMAIN results :
        results[e] = "Running" /\ DistinctClasses(inst.spec) =>
            \A st \in PlanOf[inst.spec][e] :
                \/ st.obj \in touched
                \/ st.how = "schedule" /\ ~ VeleroInstalled
                \/ Exists(st.obj) /\ objs[st.obj] = Rendered(st)

\* A status is written on the resource it was computed for, although it is
\* written on a copy fetched later under the same name.
StatusGoesToItsCR == pc = "status" => latest.uid = inst.uid

\* No resource is forgotten: while one exists, a round is under way or another one
\* will begin - a watch event, a queued request or a delayed one is on its way -
\* whatever conflicts, lost replies and crashes came before. Nothing but the
\* resource is watched (SetupWithManager), so a loop that rested would leave what
\* others delete unrepaired for ever.
NeverForgotten ==
    cr # None => pc # "idle" \/ queue \/ timer \/ cache # cr

\* The finalizer goes last: when it is dropped, nothing of cleanup's list is left
\* but what others created meanwhile. A cleanup that failed half way keeps it.
FinalizerGoesLast ==
    [][cr # None /\ cr.fin /\ cr' = None =>
         \A i \in DOMAIN CleanupOf[cr.spec] :
             Exists(CleanupOf[cr.spec][i]) => CleanupOf[cr.spec][i] \in touched]_vars

-----------------------------------------------------------------------------
(***************************************************************************)
(* Why the finalizer protects what is installed although every decision is *)
(* taken on a copy: the parts of the inductive invariant.                  *)
(***************************************************************************)
\* A copy never runs ahead of the API server, and versions do not repeat.
Known(c)  == c # None => c.uid <= lastUid /\ c.rv <= lastRV
Behind(c) == c # None /\ cr # None =>
                 c.uid <= cr.uid /\ c.rv <= cr.rv /\ (c.rv = cr.rv => c = cr)

CopiesBehind ==
    /\ Known(cr) /\ Known(cache) /\ Known(inst)
    /\ Behind(cache) /\ Behind(inst)

\* The cache is not behind the round's copy by a whole resource, nor, in a
\* cleanup, by a version: the finalizer is dropped only when the cache has seen
\* the deletion.
CacheAhead ==
    /\ inst # None /\ cache # None => inst.uid <= cache.uid
    /\ pc \in {"cleanup", "unfinalize"} =>
           inst.del /\ (cache # None => inst.rv <= cache.rv)

\* A finalizer seen on a resource not yet deleted is still there.
CachedFinalizerHolds ==
    cache # None /\ cache.fin /\ ~ cache.del =>
        cr # None /\ cr.uid = cache.uid /\ cr.fin

OwnersKnown == \A o \in DOMAIN objs : objs[o].owner <= lastUid

FinalizerInv ==
    /\ CopiesBehind /\ CacheAhead /\ CachedFinalizerHolds /\ OwnersKnown
    /\ WorksForLiveResource /\ OwnedObjectsHoldFinalizer /\ StatusGoesToItsCR

-----------------------------------------------------------------------------
(***************************************************************************)
(* The life of the resource, as the module Lifecycle has it: of all there  *)
(* is, the uid and the two marks of the resource, what the worker is at,   *)
(* and who owns objects.                                                   *)
(***************************************************************************)
Stage ==
    CASE pc = "deploy"     -> "install"
      [] pc = "cleanup"    -> "clean"
      [] pc = "unfinalize" -> "cleaned"
      [] OTHER             -> "rest"

LifeResource == IF cr = None THEN [uid |-> 0, fin |-> FALSE, del |-> FALSE]
                             ELSE [uid |-> cr.uid, fin |-> cr.fin, del |-> cr.del]
LifeWorker   == [stage |-> Stage, uid |-> IF Stage = "rest" THEN 0 ELSE inst.uid]
LifeOwners   == {objs[o].owner : o \in DOMAIN objs} \ {NoOwner}

Life == INSTANCE Lifecycle WITH
    resource <- LifeResource, worker <- LifeWorker, owners <- LifeOwners

\* Every step of every round, and all that happens between two calls of it, is a
\* step of that life: whatever the age of its copies, the worker installs only for
\* the resource that is there under the finalizer, begins no cleanup for one that is
\* to stay, and lets a protected one go only after a whole cleanup of its own.
ImplementsLifecycle == Life!LSpec

-----------------------------------------------------------------------------
\* The cluster is what the spec asks for, and the status says so.
Converged ==
    /\ cr # None /\ cr.fin
    /\ cr.status.engines = [e \in cr.spec.on |-> "Running"]
    /\ cr.status.phase = IF cr.spec.on = {} THEN "Pending" ELSE "Running"
    /\ cr.status.conditions = IF cr.spec.on = {} THEN {"Progressing"} ELSE {"Available"}
    /\ \A st \in UNION {PlanOf[cr.spec][e] : e \in cr.spec.on} :
           \/ st.how = "schedule" /\ ~ VeleroInstalled
           \/ /\ Exists(st.obj)
              /\ objs[st.obj].imm = st.imm /\ objs[st.obj].mut = st.mut
              /\ objs[st.obj].owner = IF st.how = "namespace" THEN NoOwner ELSE cr.uid
    /\ \A k \in DOMAIN SweepKinds : \A o \in DOMAIN objs :
           /\ o.kind = SweepKinds[k][1] /\ o.ns = SweepKinds[k][2] /\ objs[o].labelled
           => o.name \in ExpectedIn[cr.spec]

\* In the end the resource exists and nobody deletes it.
Settled == <>[](cr # None /\ ~ cr.del)

\* Self-healing: once users, faults and tampering stop, the cluster converges and
\* stays so. The 30 s requeue (openebs_controller.go:107) is what finds objects
\* somebody deleted: nothing but the resource itself is watched.
Converges == Settled => <>[]Converged

\* Deletion completes: cleanup is retried until it succeeds and the finalizer goes.
DeletionCompletes == cr # None /\ cr.del ~> cr = None

\* Once the resource is gone for good, so is everything the operator installed but
\* the namespaces: cleanup deletes what it lists, and the owner references lead the
\* garbage collector to the rest. No later round brings anything back.
NothingInstalledStays ==
    <>[](cr = None) =>
        <>[](\A o \in DOMAIN objs : o.kind = "Namespace" \/ o \in ForeignObjects)
-----------------------------------------------------------------------------
(***************************************************************************)
(* What comments, messages and tests of the repository say of the program, *)
(* and the program does not do: each is the property of a violation run.   *)
(***************************************************************************)
\* types.go:94 "StorageClassName overrides the name of the StorageClass": once
\* the class is renamed, the one with the default name is not kept beside it.
OverriddenClassGoes ==
    Settled => <>[](cr # None /\ \A e \in cr.spec.on :
        ClassName(cr.spec, e) # DefaultClass(e) =>
            \A o \in DOMAIN objs :
                o.kind = "StorageClass" /\ o.name = DefaultClass(e) => ~ objs[o].labelled)

\* deployer.go:458 "creates or removes the Velero Schedule for the Mayastor etcd
\* StatefulSet based on the CR spec": a spec without one leaves none.
ScheduleFollowsSpec ==
    Settled => <>[](cr # None /\ \A o \in DOMAIN objs :
                        o.kind = "Schedule" => ScheduleWanted(cr.spec))

\* deployer.go:622 "is not managed by this operator; delete it manually": the
\* operator does not delete an etcd StatefulSet that is not its own.
ForeignEtcdStays ==
    [][LET EtcdSet == Obj("StatefulSet", "mayastor", "mayastor-etcd") IN
       Exists(EtcdSet) /\ objs[EtcdSet].owner = NoOwner /\ ~ objs[EtcdSet].labelled
         => Exists(EtcdSet)']_vars

=============================================================================
