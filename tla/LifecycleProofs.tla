--------------------------- MODULE LifecycleProofs ---------------------------
(***************************************************************************)
(* The reconcile loop implements Lifecycle: every step of Reconciler is a  *)
(* step of the life of one resource or leaves that life alone, for every   *)
(* set of specs and every bound.                                           *)
(***************************************************************************)
EXTENDS ReconcilerProofs

-----------------------------------------------------------------------------
(***************************************************************************)
(* What the steps rest on besides FinalizerInv: a deletion the worker may  *)
(* read of is a deletion that happened.                                    *)
(***************************************************************************)
\* A deletion the cache shows of the present resource is there, and stays.
Marked ==
    cache # None /\ cr # None /\ cache.uid = cr.uid /\ cache.del => cr.del

\* The finalizer is written for a copy not marked deleted.
Unmarked == pc = "finalize" => ~ inst.del

LifeInv == Marked /\ Unmarked

\* What a step may do to the marks of the resource.
MarkStays ==
    \/ cr' = None
    \/ cr # None /\ cr' # None /\ cr'.uid = cr.uid /\ (cr.del => cr'.del)
    \/ cr' # None /\ cr'.uid = lastUid + 1

\* A kept cache tells the truth about the deletion of the resource.
LEMMA MarkedStep ==
    ASSUME TypeOK, FinalizerInv, Marked, MarkStays, cache' = cache
    PROVE  Marked'
  BY CopyTypes DEF MarkStays, Marked, FinalizerInv, CopiesBehind, Known

\* Reconcile and AddFinalizer: a round takes the finalizer's branch only with an
\* unmarked copy.
LEMMA StartMarks ==
    ASSUME TypeOK, FinalizerInv, LifeInv,
           ReconcileNothing \/ GetFails \/ Reconcile \/ AddFinalizer \/ AddFinalizerRejected
    PROVE  LifeInv'
  <1>1. CASE ReconcileNothing \/ GetFails \/ Reconcile
    <2>1. UNCHANGED << cr, cache >> BY <1>1 DEF ReconcileNothing, GetFails, Reconcile, api
    <2>2. Marked' BY <2>1 DEF LifeInv, Marked
    <2>3. Unmarked'
      BY <1>1 DEF ReconcileNothing, GetFails, Reconcile, round, LifeInv, Unmarked
    <2> QED BY <2>2, <2>3 DEF LifeInv
  <1>2. CASE AddFinalizer
    <2>1. cr \in CRType /\ cr # None /\ cache' = cache
      BY <1>2 DEF AddFinalizer, Current, TypeOK
    <2>2. cr' = [cr EXCEPT !.fin = TRUE, !.rv = lastRV + 1] BY <1>2 DEF AddFinalizer
    <2>3. cr' \in CRType BY <2>1, <2>2, FinalizerTyped, NextVersion
    <2>4. cr'.uid = cr.uid /\ cr'.del = cr.del BY <2>1, <2>2 DEF CRType
    <2>5. Marked' BY <2>1, <2>3, <2>4, MarkedStep, NoneAssumption DEF LifeInv, MarkStays
    <2>6. pc' # "finalize" BY <1>2 DEF AddFinalizer, GiveUp, Finish
    <2> QED BY <2>5, <2>6 DEF LifeInv, Unmarked
  <1>3. CASE AddFinalizerRejected
    <2>1. UNCHANGED << cr, cache >> /\ pc' = "idle"
      BY <1>3 DEF AddFinalizerRejected, GiveUp, Finish, api
    <2> QED BY <2>1 DEF LifeInv, Marked, Unmarked
  <1> QED BY <1>1, <1>2, <1>3

\* deployEngines and the sweep leave the resource and the cache alone.
LEMMA WorkMarks ==
    ASSUME LifeInv, Deploy \/ Sweep
    PROVE  LifeInv'
  <1>1. UNCHANGED << cr, cache >>
    BY DEF Deploy, SkipEngine, WriteObject, WriteRefused, ReplaceObject, DeleteDrifted,
       CheckEtcd, SkipSchedule, RemoveSchedule, CallFails, DeployDone, InDeploy,
       Sweep, ListKind, DeleteOrphan, SweepFails, DeleteOrphanUnanswered,
       OrphanVanished, SweepSchedule, LeaveSweep, InSweep, api
  <1>2. pc' # "finalize"
    BY DEF Deploy, SkipEngine, WriteObject, WriteRefused, ReplaceObject, DeleteDrifted,
       CheckEtcd, SkipSchedule, RemoveSchedule, CallFails, DeployDone, InDeploy, AtCall,
       AtEngine, Sweep, ListKind, DeleteOrphan, SweepFails, DeleteOrphanUnanswered,
       OrphanVanished, SweepSchedule, LeaveSweep
  <1> QED BY <1>1, <1>2 DEF LifeInv, Marked, Unmarked

\* A status update changes no mark; reconcileDelete only removes the resource.
LEMMA EndMarks ==
    ASSUME TypeOK, FinalizerInv, LifeInv,
           Refetch \/ RefetchFails \/ UpdateStatus \/ UpdateStatusRejected \/ Delete
    PROVE  LifeInv'
  <1>1. cache' = cache /\ pc' # "finalize"
    BY DEF Refetch, RefetchFails, UpdateStatus, UpdateStatusRejected, Delete,
       DeleteInstalled, CleanupFails, RemoveFinalizer, RemoveFinalizerRejected, GiveUp, Finish
  <1>2. MarkStays
    <2>1. cr' = cr \/ UpdateStatus \/ RemoveFinalizer
      BY DEF Refetch, RefetchFails, UpdateStatusRejected, Delete,
         DeleteInstalled, CleanupFails, RemoveFinalizerRejected, api
    <2>2. CASE cr' = cr BY <2>2 DEF MarkStays
    <2>3. CASE RemoveFinalizer BY <2>3 DEF RemoveFinalizer, MarkStays
    <2>4. CASE UpdateStatus /\ cr' # cr
      <3>1. cr \in CRType /\ cr # None BY <2>4 DEF UpdateStatus, Current, TypeOK
      <3>2. cr' = [cr EXCEPT !.status = StatusOf(results), !.rv = lastRV + 1]
        BY <2>4 DEF UpdateStatus
      <3>3. cr' \in CRType BY <3>1, <3>2, ReportedTyped, NextVersion DEF TypeOK
      <3>4. cr'.uid = cr.uid /\ cr'.del = cr.del BY <3>1, <3>2 DEF CRType
      <3> QED BY <3>1, <3>3, <3>4, NoneAssumption DEF MarkStays
    <2> QED BY <2>1, <2>2, <2>3, <2>4
  <1> QED BY <1>1, <1>2, MarkedStep DEF LifeInv, Unmarked

\* The cache moves to the resource as it is, which is the truth.
LEMMA RuntimeMarks ==
    ASSUME LifeInv, Observe \/ TimerFires \/ Restart
    PROVE  LifeInv'
  <1>1. cr' = cr /\ cache' \in {cache, cr}
    BY DEF Observe, TimerFires, Restart, api
  <1>2. Marked' BY <1>1 DEF LifeInv, Marked
  <1>3. Unmarked' BY DEF Observe, TimerFires, Restart, round, LifeInv, Unmarked
  <1> QED BY <1>2, <1>3 DEF LifeInv

\* Users mark a resource, and never unmark it; a new one has a new uid.
LEMMA OutsideMarks ==
    ASSUME TypeOK, FinalizerInv, LifeInv,
           CreateCR \/ EditCR \/ DeleteCR \/ ForeignCreate \/ ForeignDelete \/ ForeignEdit \/ CollectGarbage
    PROVE  LifeInv'
  <1>1. UNCHANGED << cache, pc, inst >>
    BY DEF CreateCR, EditCR, DeleteCR, ForeignCreate, ForeignDelete, ForeignEdit, CollectGarbage,
       Outside, round
  <1>2. MarkStays
    <2>1. CASE CreateCR
      <3>1. PICK s \in Specs :
              cr' = [uid |-> lastUid + 1, rv |-> lastRV + 1, spec |-> s,
                     fin |-> FALSE, del |-> FALSE, status |-> NoStatus]
        BY <2>1 DEF CreateCR
      <3>2. cr'.uid = lastUid + 1 BY <3>1
      <3>3. cr' # None BY <3>1, CreatedTyped, NextVersion, NoneAssumption
      <3> QED BY <3>2, <3>3 DEF MarkStays
    <2>2. CASE EditCR
      <3>1. cr \in CRType /\ cr # None BY <2>2 DEF EditCR, TypeOK
      <3>2. PICK s \in Specs : cr' = [cr EXCEPT !.spec = s, !.rv = lastRV + 1]
        BY <2>2 DEF EditCR
      <3>3. cr' # None BY <3>1, <3>2, EditedTyped, NextVersion, NoneAssumption
      <3>4. cr'.uid = cr.uid /\ cr'.del = cr.del BY <3>1, <3>2 DEF CRType
      <3> QED BY <3>1, <3>3, <3>4 DEF MarkStays
    <2>3. CASE DeleteCR
      <3>1. cr \in CRType /\ cr # None BY <2>3 DEF DeleteCR, TypeOK
      <3>2. CASE cr' = None BY <3>2 DEF MarkStays
      <3>3. CASE cr' = [cr EXCEPT !.del = TRUE, !.rv = lastRV + 1]
        <4>1. cr' # None BY <3>1, <3>3, DeletedTyped, NextVersion, NoneAssumption
        <4>2. cr'.uid = cr.uid /\ cr'.del BY <3>1, <3>3 DEF CRType
        <4> QED BY <3>1, <4>1, <4>2 DEF MarkStays
      <3> QED BY <2>3, <3>2, <3>3 DEF DeleteCR
    <2>4. CASE ForeignCreate \/ ForeignDelete \/ ForeignEdit \/ CollectGarbage
      <3>1. cr' = cr BY <2>4 DEF ForeignCreate, ForeignDelete, ForeignEdit, CollectGarbage, api
      <3> QED BY <3>1 DEF MarkStays
    <2> QED BY <2>1, <2>2, <2>3, <2>4
  <1> QED BY <1>1, <1>2, MarkedStep DEF LifeInv, Unmarked

\* The inductive invariant behind the refinement: a deletion mark the operator has
\* read of the present resource is there, and the finalizer is written for
\* unmarked ones only.
THEOREM DeletionSticks == Spec => []LifeInv
  <1>1. Init => LifeInv BY DEF Init, LifeInv, Marked, Unmarked
  <1>2. TypeOK /\ FinalizerInv /\ LifeInv /\ [Next]_vars => LifeInv'
    <2> SUFFICES ASSUME TypeOK, FinalizerInv, LifeInv, [Next]_vars PROVE LifeInv'
      OBVIOUS
    <2>1. CASE Worker
      BY <2>1, StartMarks, WorkMarks, EndMarks DEF Worker
    <2>2. CASE Observe \/ TimerFires \/ Restart
      BY <2>2, RuntimeMarks
    <2>3. CASE CreateCR \/ EditCR \/ DeleteCR \/ ForeignCreate \/ ForeignDelete \/ ForeignEdit \/ CollectGarbage
      BY <2>3, OutsideMarks
    <2>4. CASE UNCHANGED vars
      BY <2>4 DEF vars, LifeInv, Marked, Unmarked
    <2> QED BY <2>1, <2>2, <2>3, <2>4 DEF Next
  <1> QED BY <1>1, <1>2, TypeCorrect, FinalizerInductive, PTL DEF Spec

-----------------------------------------------------------------------------
(* What a step is in the life of the resource.                              *)

LEMMA Workers ==
    /\ pc = "deploy" => LifeWorker = Life!Installing(inst.uid)
    /\ pc = "cleanup" => LifeWorker = Life!Cleaning(inst.uid)
    /\ pc = "unfinalize" => LifeWorker = Life!Cleaned(inst.uid)
    /\ pc \notin {"deploy", "cleanup", "unfinalize"} => LifeWorker = Life!Rest
  BY DEF LifeWorker, Stage, Life!Installing, Life!Cleaning, Life!Cleaned, Life!Rest

LEMMA WorkersNext ==
    /\ pc' = "deploy" => LifeWorker' = Life!Installing(inst'.uid)
    /\ pc' = "cleanup" => LifeWorker' = Life!Cleaning(inst'.uid)
    /\ pc' = "unfinalize" => LifeWorker' = Life!Cleaned(inst'.uid)
    /\ pc' \notin {"deploy", "cleanup", "unfinalize"} => LifeWorker' = Life!Rest
  BY DEF LifeWorker, Stage, Life!Installing, Life!Cleaning, Life!Cleaned, Life!Rest

\* The resource that is there, and none.
LEMMA Resources ==
    /\ cr # None => LifeResource = [uid |-> cr.uid, fin |-> cr.fin, del |-> cr.del]
    /\ cr = None => LifeResource = Life!Absent
    /\ cr' # None => LifeResource' = [uid |-> cr'.uid, fin |-> cr'.fin, del |-> cr'.del]
    /\ cr' = None => LifeResource' = Life!Absent
  BY DEF LifeResource, Life!Absent

\* A resource has a uid.
LEMMA Present ==
    ASSUME TypeOK, cr # None
    PROVE  /\ LifeResource # Life!Absent
           /\ LifeResource.uid = cr.uid /\ LifeResource.fin = cr.fin /\ LifeResource.del = cr.del
  <1>1. LifeResource = [uid |-> cr.uid, fin |-> cr.fin, del |-> cr.del] BY Resources
  <1>2. cr.uid # 0 BY CopyTypes
  <1> QED BY <1>1, <1>2 DEF Life!Absent

\* Setting one of the two marks.
LEMMA Marks ==
    ASSUME NEW u, NEW f, NEW d, NEW r, NEW mark, r = [uid |-> u, fin |-> f, del |-> d]
    PROVE  /\ [r EXCEPT !.fin = mark] = [uid |-> u, fin |-> mark, del |-> d]
           /\ [r EXCEPT !.del = mark] = [uid |-> u, fin |-> f, del |-> mark]
  OBVIOUS

\* The owners a step leaves.
LEMMA OwnersLost ==
    ASSUME \/ objs' = objs
           \/ \E S : objs' = Without(objs, S)
           \/ \E o, labelled, imm, mut :
                  objs' = With(objs, o, [owner |-> NoOwner, labelled |-> labelled,
                                         imm |-> imm, mut |-> mut])
           \/ \E o \in DOMAIN objs : \E labelled, imm, mut :
                  objs' = With(objs, o, [owner |-> objs[o].owner, labelled |-> labelled,
                                         imm |-> imm, mut |-> mut])
    PROVE  LifeOwners' \subseteq LifeOwners
  <1>1. CASE objs' = objs BY <1>1 DEF LifeOwners
  <1>2. CASE \E S : objs' = Without(objs, S) BY <1>2 DEF LifeOwners, Without
  <1>3. ASSUME NEW o, NEW labelled, NEW imm, NEW mut,
               objs' = With(objs, o, [owner |-> NoOwner, labelled |-> labelled,
                                      imm |-> imm, mut |-> mut])
        PROVE  LifeOwners' \subseteq LifeOwners
    <2>1. DOMAIN objs' = DOMAIN objs \cup {o} BY <1>3 DEF With
    <2>2. \A x \in DOMAIN objs' : objs'[x].owner = NoOwner \/ (x \in DOMAIN objs /\ objs'[x] = objs[x])
      BY <1>3 DEF With
    <2> QED BY <2>1, <2>2 DEF LifeOwners
  <1>4. ASSUME NEW o \in DOMAIN objs, NEW labelled, NEW imm, NEW mut,
               objs' = With(objs, o, [owner |-> objs[o].owner, labelled |-> labelled,
                                      imm |-> imm, mut |-> mut])
        PROVE  LifeOwners' \subseteq LifeOwners
    <2>1. DOMAIN objs' = DOMAIN objs BY <1>4 DEF With
    <2>2. \A x \in DOMAIN objs' : objs'[x].owner = objs[x].owner BY <1>4 DEF With
    <2> QED BY <2>1, <2>2 DEF LifeOwners
  <1> QED BY <1>1, <1>2, <1>3, <1>4

LEMMA OwnersInstalled ==
    ASSUME OwnersFrom
    PROVE  LifeOwners' \subseteq LifeOwners \cup {inst.uid}
  BY DEF OwnersFrom, LifeOwners

\* Steps that only lose: objects, or the worker's place in a round.
LEMMA LosingStep ==
    ASSUME LifeOwners' \subseteq LifeOwners, LifeResource' = LifeResource, lastUid' = lastUid,
           \/ UNCHANGED << pc, inst >>
           \/ pc' \notin {"deploy", "cleanup", "unfinalize"}
    PROVE  Life!Lose
  <1>1. LifeWorker' \in {LifeWorker, Life!Rest}
    BY WorkersNext DEF LifeWorker, Stage
  <1> QED BY <1>1 DEF Life!Lose

\* The same, for the steps that leave the resource itself alone.
LEMMA QuietLoss ==
    ASSUME LifeOwners' \subseteq LifeOwners, UNCHANGED << cr, lastUid >>,
           \/ UNCHANGED << pc, inst >>
           \/ pc' \notin {"deploy", "cleanup", "unfinalize"}
    PROVE  Life!Lose
  <1>1. LifeResource' = LifeResource BY DEF LifeResource
  <1> QED BY <1>1, LosingStep

-----------------------------------------------------------------------------
\* A round begins as an installation of a protected resource or as a cleanup of one
\* that was marked, and the finalizer is written before the first.
LEMMA StartLives ==
    ASSUME TypeOK, FinalizerInv, LifeInv,
           ReconcileNothing \/ GetFails \/ Reconcile \/ AddFinalizer \/ AddFinalizerRejected
    PROVE  Life!LNext
  <1>1. CASE ReconcileNothing \/ GetFails \/ AddFinalizerRejected
    <2>1. UNCHANGED << cr, lastUid, objs >> /\ pc' = "idle"
      BY <1>1 DEF ReconcileNothing, GetFails, AddFinalizerRejected, GiveUp, Finish, api
    <2> QED BY <2>1, OwnersLost, QuietLoss DEF Life!LNext
  <1>2. CASE Reconcile
    <2>1. /\ UNCHANGED << cr, lastUid, objs >> /\ inst' = cache /\ cache # None
          /\ pc = "idle"
          /\ pc' = IF cache.del THEN "cleanup" ELSE IF cache.fin THEN "deploy" ELSE "finalize"
      BY <1>2 DEF Reconcile, api
    <2>2. UNCHANGED << LifeResource, LifeOwners, lastUid >> /\ LifeWorker = Life!Rest
      BY <2>1, Workers DEF LifeResource, LifeOwners
    <2>3. CASE cache.del
      <3>1. LifeWorker' = Life!Cleaning(cache.uid) BY <2>1, <2>3, WorkersNext
      <3>2. cache.uid \in 1 .. lastUid
        BY <2>1, CopyTypes DEF FinalizerInv, CopiesBehind, Known
      <3>3. cache.uid = LifeResource.uid => LifeResource.del
        <4>1. CASE cr = None
          BY <3>2, <4>1, Resources, CopyTypes DEF Life!Absent
        <4>2. CASE cr # None
          BY <2>1, <2>3, <4>2, Present DEF LifeInv, Marked
        <4> QED BY <4>1, <4>2
      <3>4. Life!BeginCleanup BY <2>2, <3>1, <3>2, <3>3 DEF Life!BeginCleanup
      <3> QED BY <3>4 DEF Life!LNext
    <2>4. CASE ~ cache.del /\ cache.fin
      <3>1. cr # None /\ cr.uid = cache.uid /\ cr.fin
        BY <2>1, <2>4 DEF FinalizerInv, CachedFinalizerHolds
      <3>2. LifeWorker' = Life!Installing(cr.uid) BY <2>1, <2>4, <3>1, WorkersNext
      <3>3. LifeResource.uid = cr.uid /\ LifeResource.fin BY <3>1, Present
      <3>4. Life!BeginInstall BY <2>2, <3>2, <3>3 DEF Life!BeginInstall
      <3> QED BY <3>4 DEF Life!LNext
    <2>5. CASE ~ cache.del /\ ~ cache.fin
      BY <2>1, <2>5, OwnersLost, QuietLoss DEF Life!LNext
    <2> QED BY <2>3, <2>4, <2>5
  <1>3. CASE AddFinalizer
    <2>1. pc = "finalize" /\ inst # None /\ cr \in CRType /\ cr # None /\ inst.rv = cr.rv
      BY <1>3, CopyTypes DEF AddFinalizer, Current, TypeOK
    <2>2. inst = cr /\ ~ cr.del
      BY <2>1 DEF FinalizerInv, CopiesBehind, Behind, LifeInv, Unmarked
    <2>3. cr' = [cr EXCEPT !.fin = TRUE, !.rv = lastRV + 1] /\ UNCHANGED << lastUid, objs >>
      BY <1>3 DEF AddFinalizer
    <2>4. cr' \in CRType /\ cr' # None
      BY <2>1, <2>3, FinalizerTyped, NextVersion, NoneAssumption
    <2>5. cr'.uid = cr.uid /\ cr'.del = cr.del /\ cr'.fin BY <2>1, <2>3 DEF CRType
    <2>6. LifeResource' = [LifeResource EXCEPT !.fin = TRUE]
      <3>1. LifeResource = [uid |-> cr.uid, fin |-> cr.fin, del |-> cr.del]
        BY <2>1, Resources
      <3>2. LifeResource' = [uid |-> cr.uid, fin |-> cr'.fin, del |-> cr.del]
        BY <2>4, <2>5, Resources
      <3>3. LifeResource' = [LifeResource EXCEPT !.fin = cr'.fin] BY <3>1, <3>2, Marks
      <3>4. cr'.fin = TRUE BY <2>1, <2>3 DEF CRType
      <3> QED BY <3>3, <3>4, Zenon
    <2>7. LifeWorker' \in {Life!Rest, Life!Installing(cr.uid)}
      <3>1. pc' = "idle" \/ (pc' = "deploy" /\ inst' = cr')
        BY <1>3 DEF AddFinalizer, GiveUp, Finish
      <3> QED BY <2>5, <3>1, WorkersNext
    <2>8. LifeResource # Life!Absent /\ LifeResource.uid = cr.uid /\ ~ LifeResource.del
      BY <2>1, <2>2, Present
    <2>9. LifeWorker = Life!Rest BY <2>1, Workers
    <2>10. Life!Protect
      BY <2>3, <2>6, <2>7, <2>8, <2>9 DEF Life!Protect, LifeOwners
    <2> QED BY <2>10 DEF Life!LNext
  <1> QED BY <1>1, <1>2, <1>3

\* A call of a deploy function installs for the resource that is there.
LEMMA DeployLives ==
    ASSUME TypeOK, FinalizerInv, Deploy
    PROVE  Life!LNext
  <1>1. pc = "deploy" /\ UNCHANGED << cr, lastUid, inst >>
    BY DEF Deploy, SkipEngine, WriteObject, WriteRefused, ReplaceObject, DeleteDrifted,
       CheckEtcd, SkipSchedule, RemoveSchedule, CallFails, DeployDone, InDeploy, AtCall,
       AtEngine, api
  <1>2. CASE DeployDone
    <2>1. pc' = "list" /\ objs' = objs BY <1>2 DEF DeployDone
    <2> QED BY <1>1, <2>1, OwnersLost, QuietLoss DEF Life!LNext
  <1>3. CASE ~ DeployDone
    <2>1. OwnersFrom /\ pc' = pc
      BY <1>1, <1>3, OwnersOfWrite, OwnersOfRemoval, OwnersUnchanged
         DEF Deploy, SkipEngine, WriteObject, WriteRefused, ReplaceObject, DeleteDrifted,
         CheckEtcd, SkipSchedule, RemoveSchedule, CallFails, InDeploy
    <2>2. cr # None /\ cr.uid = inst.uid /\ cr.fin
      BY <1>1 DEF FinalizerInv, WorksForLiveResource
    <2>3. LifeResource.fin /\ LifeResource.uid = inst.uid BY <2>2, Present
    <2>4. LifeWorker = Life!Installing(LifeResource.uid) BY <1>1, <2>3, Workers
    <2>5. LifeWorker.uid = inst.uid BY <2>3, <2>4 DEF Life!Installing
    <2>6. UNCHANGED << LifeResource, LifeWorker, lastUid >>
      BY <1>1, <2>1 DEF LifeResource, LifeWorker, Stage
    <2>7. Life!Install BY <2>1, <2>3, <2>4, <2>5, <2>6, OwnersInstalled DEF Life!Install
    <2> QED BY <2>7 DEF Life!LNext
  <1> QED BY <1>2, <1>3

\* The sweep and the status only lose objects and end the round.
LEMMA SweepLives ==
    ASSUME Sweep
    PROVE  Life!LNext
  <1>1. UNCHANGED << cr, lastUid >> /\ pc' \in {"list", "sweep", "refetch"}
    BY DEF Sweep, ListKind, DeleteOrphan, SweepFails, DeleteOrphanUnanswered,
       OrphanVanished, SweepSchedule, LeaveSweep, InSweep, api
  <1>2. objs' = objs \/ \E S : objs' = Without(objs, S)
    BY DEF Sweep, ListKind, DeleteOrphan, SweepFails, DeleteOrphanUnanswered,
       OrphanVanished, SweepSchedule
  <1> QED BY <1>1, <1>2, OwnersLost, QuietLoss DEF Life!LNext

LEMMA StatusLives ==
    ASSUME TypeOK, Refetch \/ RefetchFails \/ UpdateStatus \/ UpdateStatusRejected
    PROVE  Life!LNext
  <1>1. UNCHANGED << lastUid, objs >> /\ pc' \in {"status", "idle"}
    BY DEF Refetch, RefetchFails, UpdateStatus, UpdateStatusRejected, GiveUp, Finish, api
  <1>2. LifeResource' = LifeResource
    <2>1. cr' = cr \/ UpdateStatus
      BY DEF Refetch, RefetchFails, UpdateStatusRejected, api
    <2>2. CASE cr' = cr BY <2>2 DEF LifeResource
    <2>3. CASE UpdateStatus /\ cr' # cr
      <3>1. cr \in CRType /\ cr # None BY <2>3 DEF UpdateStatus, Current, TypeOK
      <3>2. cr' = [cr EXCEPT !.status = StatusOf(results), !.rv = lastRV + 1]
        BY <2>3 DEF UpdateStatus
      <3>3. cr' \in CRType BY <3>1, <3>2, ReportedTyped, NextVersion DEF TypeOK
      <3>4. cr'.uid = cr.uid /\ cr'.fin = cr.fin /\ cr'.del = cr.del
        BY <3>1, <3>2 DEF CRType
      <3> QED BY <3>1, <3>3, <3>4, Resources, NoneAssumption
    <2> QED BY <2>1, <2>2, <2>3
  <1> QED BY <1>1, <1>2, OwnersLost, LosingStep DEF Life!LNext

\* The resource goes at the end of its own cleanup.
LEMMA DeleteLives ==
    ASSUME TypeOK, FinalizerInv, Delete
    PROVE  Life!LNext
  <1>1. CASE DeleteInstalled
    <2>1. UNCHANGED << cr, lastUid >> /\ pc = "cleanup" BY <1>1 DEF DeleteInstalled, api
    <2>2. LifeOwners' \subseteq LifeOwners BY <1>1, OwnersLost DEF DeleteInstalled
    <2>3. CASE pc' = "unfinalize" /\ inst' = inst
      <3>1. LifeWorker = Life!Cleaning(inst.uid) /\ LifeWorker' = Life!Cleaned(inst.uid)
        BY <2>1, <2>3, Workers, WorkersNext
      <3>2. LifeWorker.uid = inst.uid BY <3>1 DEF Life!Cleaning
      <3>3. LifeResource' = LifeResource BY <2>1 DEF LifeResource
      <3>4. Life!EndCleanup BY <2>1, <2>2, <3>1, <3>2, <3>3 DEF Life!EndCleanup
      <3> QED BY <3>4 DEF Life!LNext
    <2>4. CASE pc' = "idle" \/ UNCHANGED << pc, inst >>
      BY <2>1, <2>2, <2>4, QuietLoss DEF Life!LNext
    <2> QED BY <1>1, <2>1, <2>3, <2>4 DEF DeleteInstalled, GiveUp, Finish
  <1>2. CASE CleanupFails \/ RemoveFinalizerRejected
    <2>1. UNCHANGED << cr, lastUid, objs >> /\ pc' = "idle"
      BY <1>2 DEF CleanupFails, RemoveFinalizerRejected, GiveUp, Finish, api
    <2> QED BY <2>1, OwnersLost, QuietLoss DEF Life!LNext
  <1>3. CASE RemoveFinalizer
    <2>1. /\ pc = "unfinalize" /\ pc' = "idle" /\ cr # None /\ inst.rv = cr.rv /\ cr' = None
          /\ UNCHANGED << lastUid, objs >>
      BY <1>3 DEF RemoveFinalizer, Current, GiveUp, Finish
    <2>2. inst = cr /\ cr.del
      BY <2>1, CopyTypes DEF FinalizerInv, CopiesBehind, Behind, CacheAhead
    <2>3. LifeResource.uid = cr.uid /\ LifeResource.del BY <2>1, <2>2, Present
    <2>4. LifeWorker = Life!Cleaned(LifeResource.uid) BY <2>1, <2>2, <2>3, Workers
    <2>5. LifeResource' = Life!Absent /\ LifeWorker' = Life!Rest
      BY <2>1, Resources, WorkersNext
    <2>6. Life!Forget BY <2>1, <2>3, <2>4, <2>5 DEF Life!Forget, LifeOwners
    <2> QED BY <2>6 DEF Life!LNext
  <1> QED BY <1>1, <1>2, <1>3 DEF Delete

\* The runtime only ends a round.
LEMMA RuntimeLives ==
    ASSUME Observe \/ TimerFires \/ Restart
    PROVE  Life!LNext
  <1>1. UNCHANGED << cr, lastUid, objs >>
    BY DEF Observe, TimerFires, Restart, api
  <1>2. UNCHANGED << pc, inst >> \/ pc' = "idle"
    BY DEF Observe, TimerFires, Restart, round
  <1> QED BY <1>1, <1>2, OwnersLost, QuietLoss DEF Life!LNext

\* Users create the resource, edit it, and delete it; others only take objects or
\* add some that nobody owns.
LEMMA OutsideLives ==
    ASSUME TypeOK, FinalizerInv,
           CreateCR \/ EditCR \/ DeleteCR \/ ForeignCreate \/ ForeignDelete \/ ForeignEdit \/ CollectGarbage
    PROVE  Life!LNext
  <1>1. UNCHANGED << pc, inst >>
    BY DEF CreateCR, EditCR, DeleteCR, ForeignCreate, ForeignDelete, ForeignEdit, CollectGarbage,
       Outside, round
  <1>2. LifeWorker' = LifeWorker BY <1>1 DEF LifeWorker, Stage
  <1>3. CASE CreateCR
    <2>1. cr = None /\ lastUid' = lastUid + 1 /\ objs' = objs BY <1>3 DEF CreateCR
    <2>2. PICK s \in Specs :
            cr' = [uid |-> lastUid + 1, rv |-> lastRV + 1, spec |-> s,
                   fin |-> FALSE, del |-> FALSE, status |-> NoStatus]
      BY <1>3 DEF CreateCR
    <2>3. cr' # None BY <2>2, CreatedTyped, NextVersion, NoneAssumption
    <2>4. cr'.uid = lastUid + 1 /\ cr'.fin = FALSE /\ cr'.del = FALSE BY <2>2
    <2>5. LifeResource = Life!Absent
          /\ LifeResource' = [uid |-> lastUid', fin |-> FALSE, del |-> FALSE]
      BY <2>1, <2>3, <2>4, Resources
    <2>6. Life!Create BY <1>2, <2>1, <2>5 DEF Life!Create, LifeOwners
    <2> QED BY <2>6 DEF Life!LNext
  <1>4. CASE EditCR
    <2>1. cr \in CRType /\ cr # None /\ UNCHANGED << lastUid, objs >>
      BY <1>4 DEF EditCR, TypeOK
    <2>2. PICK s \in Specs : cr' = [cr EXCEPT !.spec = s, !.rv = lastRV + 1]
      BY <1>4 DEF EditCR
    <2>3. cr' # None BY <2>1, <2>2, EditedTyped, NextVersion, NoneAssumption
    <2>4. cr'.uid = cr.uid /\ cr'.fin = cr.fin /\ cr'.del = cr.del BY <2>1, <2>2 DEF CRType
    <2>5. LifeResource' = LifeResource BY <2>1, <2>3, <2>4, Resources
    <2> QED BY <1>1, <2>1, <2>5, OwnersLost, LosingStep DEF Life!LNext
  <1>5. CASE DeleteCR
    <2>1. /\ cr \in CRType /\ cr # None /\ ~ cr.del /\ UNCHANGED << lastUid, objs >>
          /\ cr' = IF cr.fin THEN [cr EXCEPT !.del = TRUE, !.rv = lastRV + 1] ELSE None
      BY <1>5 DEF DeleteCR, TypeOK
    <2>2. CASE cr.fin
      <3>1. cr' = [cr EXCEPT !.del = TRUE, !.rv = lastRV + 1] BY <2>1, <2>2
      <3>2. cr' # None BY <2>1, <3>1, DeletedTyped, NextVersion, NoneAssumption
      <3>3. cr'.uid = cr.uid /\ cr'.fin = cr.fin /\ cr'.del = TRUE BY <2>1, <3>1 DEF CRType
      <3>4. LifeResource' = [LifeResource EXCEPT !.del = TRUE]
        <4>1. LifeResource = [uid |-> cr.uid, fin |-> cr.fin, del |-> cr.del]
          BY <2>1, Resources
        <4>2. LifeResource' = [uid |-> cr.uid, fin |-> cr.fin, del |-> cr'.del]
          BY <3>2, <3>3, Resources
        <4>3. LifeResource' = [LifeResource EXCEPT !.del = cr'.del] BY <4>1, <4>2, Marks
        <4> QED BY <3>3, <4>3, Zenon
      <3>5. LifeResource.fin /\ ~ LifeResource.del BY <2>1, <2>2, Present
      <3>6. Life!MarkDeleted BY <1>2, <2>1, <3>4, <3>5 DEF Life!MarkDeleted, LifeOwners
      <3> QED BY <3>6 DEF Life!LNext
    <2>3. CASE ~ cr.fin
      <3>1. LifeResource' = Life!Absent BY <2>1, <2>3, Resources
      <3>2. LifeResource # Life!Absent /\ ~ LifeResource.fin BY <2>1, <2>3, Present
      <3>3. Life!Vanish BY <1>2, <2>1, <3>1, <3>2 DEF Life!Vanish, LifeOwners
      <3> QED BY <3>3 DEF Life!LNext
    <2> QED BY <2>2, <2>3
  <1>6. CASE ForeignCreate
    <2>1. UNCHANGED << cr, lastUid >> BY <1>6 DEF ForeignCreate, api
    <2>2. LifeOwners' \subseteq LifeOwners BY <1>6, OwnersLost DEF ForeignCreate
    <2> QED BY <1>1, <2>1, <2>2, QuietLoss DEF Life!LNext
  <1>7. CASE ForeignDelete \/ CollectGarbage
    <2>1. UNCHANGED << cr, lastUid >> BY <1>7 DEF ForeignDelete, CollectGarbage, api
    <2>2. LifeOwners' \subseteq LifeOwners
      BY <1>7, OwnersLost DEF ForeignDelete, CollectGarbage
    <2> QED BY <1>1, <2>1, <2>2, QuietLoss DEF Life!LNext
  <1>8. CASE ForeignEdit
    <2>1. UNCHANGED << cr, lastUid >> BY <1>8 DEF ForeignEdit, api
    <2>2. LifeOwners' \subseteq LifeOwners BY <1>8, OwnersLost DEF ForeignEdit
    <2> QED BY <1>1, <2>1, <2>2, QuietLoss DEF Life!LNext
  <1> QED BY <1>3, <1>4, <1>5, <1>6, <1>7, <1>8

\* Reconciler implements Lifecycle: every decision of a round, taken on copies of
\* whatever age (openebs_controller.go:44-107, 246-271), is one the present resource
\* allows.
THEOREM LifecycleImplemented == Spec => ImplementsLifecycle
  <1>1. Init => Life!LInit
    BY Resources, Workers DEF Init, Life!LInit, LifeOwners, Nothing
  <1>2. TypeOK /\ FinalizerInv /\ LifeInv /\ [Next]_vars => [Life!LNext]_Life!lvars
    <2> SUFFICES ASSUME TypeOK, FinalizerInv, LifeInv, [Next]_vars
                 PROVE  Life!LNext \/ UNCHANGED Life!lvars
      BY DEF Life!lvars
    <2>1. CASE Worker
      BY <2>1, StartLives, DeployLives, SweepLives, StatusLives, DeleteLives DEF Worker
    <2>2. CASE Observe \/ TimerFires \/ Restart
      BY <2>2, RuntimeLives
    <2>3. CASE CreateCR \/ EditCR \/ DeleteCR \/ ForeignCreate \/ ForeignDelete \/ ForeignEdit \/ CollectGarbage
      BY <2>3, OutsideLives
    <2>4. CASE UNCHANGED vars
      BY <2>4 DEF vars, Life!lvars, LifeResource, LifeWorker, Stage, LifeOwners
    <2> QED BY <2>1, <2>2, <2>3, <2>4 DEF Next
  <1> QED BY <1>1, <1>2, TypeCorrect, FinalizerInductive, DeletionSticks, PTL
      DEF Spec, ImplementsLifecycle, Life!LSpec
=============================================================================
