--------------------------- MODULE ReconcilerProofs ---------------------------
(***************************************************************************)
(* What holds of Reconciler for every set of specs and every bound.        *)
(***************************************************************************)
EXTENDS Reconciler, CatalogueProofs, TLAPS

\* Every engine makes at least one call.
LEMMA CallListLengths ==
    ASSUME NEW s \in Specs, NEW e \in Engines
    PROVE  Len(CallsOf[s][e]) \in Nat /\ 1 <= Len(CallsOf[s][e])
  <1>1. Len(LVMSteps(s)) = 11 BY DEF LVMSteps
  <1>2. Len(ZFSSteps(s)) = 12 BY DEF ZFSSteps
  <1>3. Len(HostpathSteps(s)) = 6 BY DEF HostpathSteps
  <1>4. Len(RawfileSteps(s)) = 6 BY DEF RawfileSteps
  <1>5. Len(MayastorSteps(s)) = 24 BY DEF MayastorSteps
  <1>6. CallsOf[s][e] = Steps(s, e) BY DEF CallsOf
  <1>7. e \in {"lvm", "zfs", "hostpath", "rawfile", "mayastor"} BY DEF Engines
  <1>8. CASE e = "lvm"
    <2>1. Steps(s, e) = LVMSteps(s) BY <1>8 DEF Steps
    <2>2. Len(CallsOf[s][e]) = 11 BY <2>1, <1>1, <1>6
    <2> QED BY <2>2
  <1>9. CASE e = "zfs"
    <2>1. Steps(s, e) = ZFSSteps(s) BY <1>9 DEF Steps
    <2>2. Len(CallsOf[s][e]) = 12 BY <2>1, <1>2, <1>6
    <2> QED BY <2>2
  <1>10. CASE e = "hostpath"
    <2>1. Steps(s, e) = HostpathSteps(s) BY <1>10 DEF Steps
    <2>2. Len(CallsOf[s][e]) = 6 BY <2>1, <1>3, <1>6
    <2> QED BY <2>2
  <1>11. CASE e = "rawfile"
    <2>1. Steps(s, e) = RawfileSteps(s) BY <1>11 DEF Steps
    <2>2. Len(CallsOf[s][e]) = 6 BY <2>1, <1>4, <1>6
    <2> QED BY <2>2
  <1>12. CASE e = "mayastor"
    <2>1. Steps(s, e) = MayastorSteps(s) BY <1>12 DEF Steps
    <2>2. Len(CallsOf[s][e]) = 24 BY <2>1, <1>5, <1>6
    <2> QED BY <2>2
  <1> QED BY <1>7, <1>8, <1>9, <1>10, <1>11, <1>12

\* cleanup walks 36 objects, whatever the spec.
LEMMA CleanupLength ==
    ASSUME NEW s \in Specs
    PROVE  Len(CleanupOf[s]) = 36
  <1>1. Len(CleanupList(s)) = 36 BY DEF CleanupList
  <1> QED BY <1>1 DEF CleanupOf

\* The lists deployEngines and the sweep walk.
LEMMA ListLengths ==
    /\ Len(EngineOrder) = 5
    /\ Len(SweepKinds) = 11
    /\ \A i \in 1 .. 5 : EngineOrder[i] \in Engines
  <1>1. Len(EngineOrder) = 5 BY DEF EngineOrder
  <1>2. Len(SweepKinds) = 11 BY DEF SweepKinds
  <1>3. \A i \in 1 .. 5 : EngineOrder[i] \in Engines BY DEF EngineOrder, Engines
  <1> QED BY <1>1, <1>2, <1>3

\* No result is a result.
LEMMA NothingTyped == Nothing \in ResultsType
  <1>1. Nothing \in [{} -> {"Running", "Failed"}] BY DEF Nothing
  <1>2. {} \in SUBSET Engines OBVIOUS
  <1> QED BY <1>1, <1>2 DEF ResultsType

\* The result of one more engine is a result.
LEMMA WithTyped ==
    ASSUME NEW f \in ResultsType, NEW e \in Engines, NEW v \in {"Running", "Failed"}
    PROVE  With(f, e, v) \in ResultsType
  <1>1. PICK E \in SUBSET Engines : f \in [E -> {"Running", "Failed"}]
    BY DEF ResultsType
  <1>2. With(f, e, v) \in [E \cup {e} -> {"Running", "Failed"}]
    BY <1>1 DEF With
  <1>3. E \cup {e} \in SUBSET Engines
    OBVIOUS
  <1> QED BY <1>2, <1>3 DEF ResultsType

-----------------------------------------------------------------------------
\* The worker's copy is a resource while it works.
LEMMA InstTyped ==
    ASSUME TypeOK, pc # "idle"
    PROVE  inst \in CRType /\ inst # None /\ inst.spec \in Specs /\ inst.uid \in Nat \ {0}
  BY NoneAssumption DEF TypeOK, CRType

\* deployEngines visits engines, and each of them makes a call.
LEMMA EngineTyped ==
    ASSUME TypeOK, AtEngine
    PROVE  /\ eng \in 1 .. 5 /\ Engine \in Engines
           /\ Len(EngineSteps) \in Nat /\ 1 <= Len(EngineSteps)
  <1>1. eng \in 1 .. 5
    BY ListLengths DEF TypeOK, AtEngine
  <1>2. Engine \in Engines
    BY <1>1, ListLengths DEF Engine
  <1>3. inst.spec \in Specs
    BY InstTyped DEF AtEngine
  <1> QED BY <1>1, <1>2, <1>3, CallListLengths DEF EngineSteps

\* What Advance and Abandon leave: indices within the next engine's list.
DeployIndices ==
    /\ eng \in 1 .. Len(EngineOrder) + 1
    /\ step \in Nat \ {0}
    /\ AtEngine => step <= IF Engine \in inst.spec.on THEN Len(EngineSteps) ELSE 1
    /\ results \in ResultsType

\* The first call of an engine is in its list.
LEMMA FirstStepFits ==
    ASSUME TypeOK, pc = "deploy", eng' \in 1 .. Len(EngineOrder) + 1, step' = 1,
           results' \in ResultsType, UNCHANGED << pc, inst >>
    PROVE  DeployIndices'
  <1>1. inst.spec \in Specs
    BY InstTyped
  <1>2. ASSUME AtEngine'
        PROVE  Engine' \in Engines /\ 1 <= Len(EngineSteps)'
    <2>1. eng' \in 1 .. 5
      BY <1>2, ListLengths DEF AtEngine
    <2>2. Engine' \in Engines
      BY <2>1, ListLengths DEF Engine
    <2>3. EngineSteps' = CallsOf[inst.spec][Engine']
      BY DEF EngineSteps, CallsOf
    <2> QED BY <2>2, <2>3, <1>1, CallListLengths
  <1> QED BY <1>2 DEF DeployIndices

\* After a failed call the indices point at the next engine, or past the last.
LEMMA AbandonKeepsIndices ==
    ASSUME TypeOK, AtEngine, Abandon, UNCHANGED << pc, inst >>
    PROVE  DeployIndices'
  <1>1. eng \in 1 .. 5 /\ Engine \in Engines
    BY EngineTyped
  <1>2. eng' \in 1 .. Len(EngineOrder) + 1 /\ step' = 1
    BY <1>1, ListLengths DEF Abandon
  <1>3. results' \in ResultsType
    BY <1>1, WithTyped DEF Abandon, TypeOK
  <1> QED BY <1>2, <1>3, FirstStepFits DEF AtEngine

\* After a good call the indices point at the next call or the next engine.
LEMMA AdvanceKeepsIndices ==
    ASSUME TypeOK, AtEngine, Engine \in inst.spec.on, Advance, UNCHANGED << pc, inst >>
    PROVE  DeployIndices'
  <1>1. eng \in 1 .. 5 /\ Engine \in Engines /\ Len(EngineSteps) \in Nat
    BY EngineTyped
  <1>2. CASE step < Len(EngineSteps)
    <2>1. step' = step + 1 /\ eng' = eng /\ results' = results
      BY <1>2 DEF Advance
    <2>2. EngineSteps' = EngineSteps /\ Engine' = Engine
      BY <2>1 DEF EngineSteps, Engine, CallsOf
    <2> QED BY <1>1, <1>2, <2>1, <2>2 DEF DeployIndices, TypeOK
  <1>3. CASE ~ (step < Len(EngineSteps))
    <2>1. eng' \in 1 .. Len(EngineOrder) + 1 /\ step' = 1
      BY <1>1, <1>3, ListLengths DEF Advance
    <2>2. results' \in ResultsType
      BY <1>1, <1>3, WithTyped DEF Advance, TypeOK
    <2> QED BY <2>1, <2>2, FirstStepFits DEF AtEngine
  <1> QED BY <1>2, <1>3

\* A call of a deploy function moves eng, step, results and objs, nothing else.
LEMMA DeployKeepsTypes ==
    ASSUME TypeOK, AtEngine, InDeploy, DeployIndices',
           \A o \in DOMAIN objs' : objs'[o].owner \in Nat,
           used' \in [deletes : Nat, edits : Nat, trouble : Nat]
    PROVE  TypeOK'
  BY DEF TypeOK, AtEngine, InDeploy, DeployIndices, api

\* The bounds are counted in naturals.
LEMMA TroubleTyped ==
    ASSUME TypeOK, Fault \/ NoFault \/ Trouble
    PROVE  used' \in [deletes : Nat, edits : Nat, trouble : Nat]
  BY DEF TypeOK, Fault, NoFault, Trouble

\* Objects keep natural owners when one is written or some are removed.
LEMMA WriteTyped ==
    ASSUME TypeOK, pc # "idle", NEW st, NEW o, objs' = With(objs, o, Rendered(st))
    PROVE  \A x \in DOMAIN objs' : objs'[x].owner \in Nat
  <1>1. Rendered(st).owner \in Nat
    BY InstTyped DEF Rendered, NoOwner
  <1>2. \A x \in DOMAIN objs : objs[x].owner \in Nat
    BY DEF TypeOK
  <1> QED BY <1>1, <1>2 DEF With

\* Removing objects leaves the owners of the others alone.
LEMMA RemoveTyped ==
    ASSUME TypeOK, NEW S, objs' = Without(objs, S)
    PROVE  \A x \in DOMAIN objs' : objs'[x].owner \in Nat
  <1>1. \A x \in DOMAIN objs : objs[x].owner \in Nat
    BY DEF TypeOK
  <1> QED BY <1>1 DEF Without

\* An edit of the other fields leaves every object its owner.
LEMMA AlteredTyped ==
    ASSUME TypeOK, NEW o \in DOMAIN objs, NEW labelled, NEW imm, NEW mut,
           objs' = With(objs, o, [owner |-> objs[o].owner, labelled |-> labelled,
                                  imm |-> imm, mut |-> mut])
    PROVE  \A x \in DOMAIN objs' : objs'[x].owner \in Nat
  <1>1. \A x \in DOMAIN objs : objs[x].owner \in Nat
    BY DEF TypeOK
  <1> QED BY <1>1 DEF With

\* Every action of deployEngines keeps the types.
LEMMA DeployTypes ==
    ASSUME TypeOK, Deploy
    PROVE  TypeOK'
  <1>1. CASE SkipEngine
    <2>1. AtEngine /\ UNCHANGED << pc, inst, results >> /\ InDeploy
      BY <1>1 DEF SkipEngine, InDeploy
    <2>2. eng \in 1 .. 5 /\ eng' = eng + 1
      BY <1>1, EngineTyped DEF SkipEngine
    <2>3. step' = 1
      BY <1>1, EngineTyped DEF SkipEngine, TypeOK
    <2>4. DeployIndices'
      BY <2>1, <2>2, <2>3, ListLengths, FirstStepFits DEF TypeOK, AtEngine
    <2> QED BY <1>1, <2>1, <2>4, DeployKeepsTypes DEF SkipEngine, TypeOK
  <1>2. CASE WriteObject
    <2>1. AtEngine /\ Engine \in inst.spec.on /\ InDeploy /\ UNCHANGED << pc, inst >>
      BY <1>2 DEF WriteObject, AtCall, InDeploy
    <2>2. DeployIndices'
      BY <1>2, <2>1, AdvanceKeepsIndices, AbandonKeepsIndices DEF WriteObject
    <2>3. \A x \in DOMAIN objs' : objs'[x].owner \in Nat
      BY <1>2, <2>1, WriteTyped DEF WriteObject, AtEngine
    <2> QED BY <1>2, <2>1, <2>2, <2>3, TroubleTyped, DeployKeepsTypes DEF WriteObject
  <1>3. CASE WriteRefused
    <2>1. AtEngine /\ Engine \in inst.spec.on /\ InDeploy /\ UNCHANGED << pc, inst, objs >>
      BY <1>3 DEF WriteRefused, AtCall, InDeploy
    <2>2. DeployIndices'
      BY <1>3, <2>1, AbandonKeepsIndices DEF WriteRefused
    <2> QED BY <1>3, <2>1, <2>2, TroubleTyped, DeployKeepsTypes DEF WriteRefused, TypeOK
  <1>4. CASE ReplaceObject
    <2>1. AtEngine /\ Engine \in inst.spec.on /\ InDeploy /\ UNCHANGED << pc, inst >>
      BY <1>4 DEF ReplaceObject, AtCall, InDeploy
    <2>2. DeployIndices'
      BY <1>4, <2>1, AdvanceKeepsIndices, AbandonKeepsIndices DEF ReplaceObject
    <2>3. \A x \in DOMAIN objs' : objs'[x].owner \in Nat
      BY <1>4, <2>1, WriteTyped, RemoveTyped DEF ReplaceObject, AtEngine
    <2> QED BY <1>4, <2>1, <2>2, <2>3, TroubleTyped, DeployKeepsTypes DEF ReplaceObject
  <1>5. CASE DeleteDrifted
    <2>1. AtEngine /\ Engine \in inst.spec.on /\ InDeploy /\ UNCHANGED << pc, inst >>
      BY <1>5 DEF DeleteDrifted, AtCall, InDeploy
    <2>2. DeployIndices'
      BY <1>5, <2>1, AbandonKeepsIndices DEF DeleteDrifted
    <2>3. \A x \in DOMAIN objs' : objs'[x].owner \in Nat
      BY <1>5, RemoveTyped DEF DeleteDrifted
    <2> QED BY <1>5, <2>1, <2>2, <2>3, TroubleTyped, DeployKeepsTypes DEF DeleteDrifted
  <1>6. CASE CheckEtcd
    <2>1. AtEngine /\ Engine \in inst.spec.on /\ InDeploy /\ UNCHANGED << pc, inst, objs >>
      BY <1>6 DEF CheckEtcd, AtCall, InDeploy
    <2>2. DeployIndices'
      BY <1>6, <2>1, AdvanceKeepsIndices, AbandonKeepsIndices DEF CheckEtcd
    <2> QED BY <1>6, <2>1, <2>2, TroubleTyped, DeployKeepsTypes DEF CheckEtcd, TypeOK
  <1>7. CASE SkipSchedule
    <2>1. AtEngine /\ Engine \in inst.spec.on /\ InDeploy /\ UNCHANGED << pc, inst, objs >>
      BY <1>7 DEF SkipSchedule, AtCall, InDeploy
    <2>2. DeployIndices'
      BY <1>7, <2>1, AdvanceKeepsIndices DEF SkipSchedule
    <2> QED BY <1>7, <2>1, <2>2, TroubleTyped, DeployKeepsTypes DEF SkipSchedule, TypeOK
  <1>8. CASE RemoveSchedule
    <2>1. AtEngine /\ Engine \in inst.spec.on /\ InDeploy /\ UNCHANGED << pc, inst >>
      BY <1>8 DEF RemoveSchedule, AtCall, InDeploy
    <2>2. DeployIndices'
      BY <1>8, <2>1, AdvanceKeepsIndices, AbandonKeepsIndices DEF RemoveSchedule
    <2>3. \A x \in DOMAIN objs' : objs'[x].owner \in Nat
      BY <1>8, RemoveTyped DEF RemoveSchedule
    <2> QED BY <1>8, <2>1, <2>2, <2>3, TroubleTyped, DeployKeepsTypes DEF RemoveSchedule
  <1>9. CASE CallFails
    <2>1. AtEngine /\ Engine \in inst.spec.on /\ InDeploy /\ UNCHANGED << pc, inst, objs >>
      BY <1>9 DEF CallFails, AtCall, InDeploy
    <2>2. DeployIndices'
      BY <1>9, <2>1, AbandonKeepsIndices DEF CallFails
    <2> QED BY <1>9, <2>1, <2>2, TroubleTyped, DeployKeepsTypes DEF CallFails, TypeOK
  <1>10. CASE DeployDone
    <2>1. ~ AtEngine'
      BY <1>10 DEF DeployDone, AtEngine
    <2> QED BY <1>10, <2>1, ListLengths DEF DeployDone, TypeOK, api
  <1> QED
    BY <1>1, <1>2, <1>3, <1>4, <1>5, <1>6, <1>7, <1>8, <1>9, <1>10 DEF Deploy

-----------------------------------------------------------------------------
\* The next version of the resource is again a resource.
LEMMA FinalizerTyped ==
    ASSUME NEW c \in CRType, NEW n \in Nat \ {0}
    PROVE  [c EXCEPT !.fin = TRUE, !.rv = n] \in CRType
  BY DEF CRType

\* A resource marked deleted is a resource.
LEMMA DeletedTyped ==
    ASSUME NEW c \in CRType, NEW n \in Nat \ {0}
    PROVE  [c EXCEPT !.del = TRUE, !.rv = n] \in CRType
  BY DEF CRType

\* An edited resource is a resource.
LEMMA EditedTyped ==
    ASSUME NEW c \in CRType, NEW n \in Nat \ {0}, NEW s \in Specs
    PROVE  [c EXCEPT !.spec = s, !.rv = n] \in CRType
  BY DEF CRType

\* derivePhase yields a phase.
LEMMA PhaseTyped ==
    ASSUME NEW r
    PROVE  DerivePhase(r) \in Phases
  BY DEF DerivePhase, Phases

\* A resource whose status was written is a resource.
LEMMA ReportedTyped ==
    ASSUME NEW c \in CRType, NEW n \in Nat \ {0}, NEW r \in ResultsType
    PROVE  [c EXCEPT !.status = StatusOf(r), !.rv = n] \in CRType
  <1>1. DerivePhase(r) \in Phases \cup {""}
    BY PhaseTyped
  <1>2. Conditions(DerivePhase(r)) \in SUBSET ConditionTypes
    BY DEF Conditions, ConditionTypes
  <1>3. StatusOf(r) \in [phase : Phases \cup {""}, engines : ResultsType,
                         conditions : SUBSET ConditionTypes]
    BY <1>1, <1>2 DEF StatusOf
  <1> QED BY <1>3 DEF CRType

\* A new resource is a resource.
LEMMA CreatedTyped ==
    ASSUME NEW s \in Specs, NEW u \in Nat \ {0}, NEW n \in Nat \ {0}
    PROVE  [uid |-> u, rv |-> n, spec |-> s,
            fin |-> FALSE, del |-> FALSE, status |-> NoStatus] \in CRType
  <1>1. NoStatus \in [phase : Phases \cup {""}, engines : ResultsType,
                       conditions : SUBSET ConditionTypes]
    BY NothingTyped DEF NoStatus
  <1> QED BY <1>1 DEF CRType

\* Versions and uids are handed out upwards.
LEMMA NextVersion ==
    ASSUME TypeOK
    PROVE  lastRV + 1 \in Nat \ {0} /\ lastUid + 1 \in Nat \ {0}
  BY DEF TypeOK

\* A round that ends leaves the worker as it was at the start.
LEMMA FinishKeepsTypes ==
    ASSUME TypeOK, NEW again \in BOOLEAN, Finish(again),
           cr' \in CRType \cup {None}, lastRV' \in Nat, UNCHANGED << lastUid, cache, queue >>,
           \A o \in DOMAIN objs' : objs'[o].owner \in Nat,
           used' \in [deletes : Nat, edits : Nat, trouble : Nat]
    PROVE  TypeOK'
  BY NothingTyped, ListLengths DEF TypeOK, Finish, AtEngine

\* What the worker keeps to itself.
LEMMA WorkerUntouched ==
    ASSUME TypeOK, UNCHANGED << pc, round >>,
           {cr', cache'} \subseteq CRType \cup {None}, lastRV' \in Nat, lastUid' \in Nat,
           queue' \in BOOLEAN, timer' \in BOOLEAN,
           \A o \in DOMAIN objs' : objs'[o].owner \in Nat,
           used' \in [deletes : Nat, edits : Nat, trouble : Nat]
    PROVE  TypeOK'
  BY DEF TypeOK, round, AtEngine, Engine, EngineSteps, CallsOf, CleanupOf

\* Starting a round and persisting the finalizer keep the types.
LEMMA ReconcileTypes ==
    ASSUME TypeOK, ReconcileNothing \/ GetFails \/ Reconcile \/ AddFinalizer \/ AddFinalizerRejected
    PROVE  TypeOK'
  <1>1. CASE ReconcileNothing
    BY <1>1 DEF ReconcileNothing, TypeOK, api, round, AtEngine, Engine, EngineSteps, CallsOf
  <1>2. CASE Reconcile
    <2>1. eng' = 1 /\ step' = 1 /\ inst' = cache /\ inst'.spec \in Specs /\ inst' # None
      BY <1>2 DEF Reconcile, TypeOK, CRType
    <2>2. Engine' \in Engines
      BY <2>1, ListLengths DEF Engine
    <2>3. EngineSteps' = CallsOf[inst'.spec][Engine']
      BY DEF EngineSteps, CallsOf
    <2>4. 1 <= Len(EngineSteps)'
      BY <2>1, <2>2, <2>3, CallListLengths
    <2>5. Len(CleanupOf[inst'.spec]) = 36
      BY <2>1, CleanupLength
    <2>6. CleanupOf' = CleanupOf
      BY DEF CleanupOf
    <2>7. pc' \in {"cleanup", "deploy", "finalize"} /\ pc = "idle" /\ cache # None
      BY <1>2 DEF Reconcile
    <2>8. UNCHANGED << cr, lastRV, lastUid, objs, cache, timer, results, todo, latest, used >>
      BY <1>2 DEF Reconcile, api
    <2>9. (AtEngine => step <= IF Engine \in inst.spec.on THEN Len(EngineSteps) ELSE 1)'
      BY <2>1, <2>4
    <2>10. (pc = "cleanup" => step <= Len(CleanupOf[inst.spec]))'
      BY <2>1, <2>5, <2>6
    <2>11. queue' \in BOOLEAN
      BY <1>2 DEF Reconcile
    <2> QED BY <2>1, <2>7, <2>8, <2>9, <2>10, <2>11, ListLengths DEF TypeOK
  <1>3. CASE AddFinalizer
    <2>1. cr' \in CRType /\ lastRV' \in Nat
      BY <1>3, FinalizerTyped, NextVersion DEF AddFinalizer, Current, TypeOK
    <2>2. ASSUME Fault /\ GiveUp PROVE TypeOK'
      BY <1>3, <2>1, <2>2, FinishKeepsTypes, TroubleTyped DEF GiveUp, AddFinalizer, TypeOK
    <2>3. ASSUME NoFault, pc' = "deploy", inst' = cr',
                 UNCHANGED << timer, eng, step, results, todo, latest >>
          PROVE  TypeOK'
      <3>1. eng' = 1 /\ step' = 1 /\ inst'.spec \in Specs /\ inst' # None
        BY <1>3, <2>1, <2>3, NoneAssumption DEF AddFinalizer, TypeOK, CRType
      <3>2. Engine' \in Engines
        BY <3>1, ListLengths DEF Engine
      <3>3. EngineSteps' = CallsOf[inst'.spec][Engine']
        BY DEF EngineSteps, CallsOf
      <3>4. 1 <= Len(EngineSteps)'
        BY <3>1, <3>2, <3>3, CallListLengths
      <3> QED BY <1>3, <2>1, <2>3, <3>1, <3>4 DEF AddFinalizer, TypeOK, NoFault
    <2> QED BY <1>3, <2>2, <2>3 DEF AddFinalizer
  <1>4. CASE AddFinalizerRejected
    BY <1>4, FinishKeepsTypes, TroubleTyped DEF AddFinalizerRejected, GiveUp, TypeOK, api
  <1>5. CASE GetFails
    <2>1. UNCHANGED << api, objs, cache, pc, round >> /\ queue' \in BOOLEAN /\ timer' \in BOOLEAN
      BY <1>5 DEF GetFails
    <2>2. used' \in [deletes : Nat, edits : Nat, trouble : Nat]
      BY <1>5, TroubleTyped DEF GetFails
    <2> QED BY <2>1, <2>2, WorkerUntouched DEF TypeOK, api
  <1> QED BY <1>1, <1>2, <1>3, <1>4, <1>5

\* The orphan sweep keeps the types.
LEMMA SweepTypes ==
    ASSUME TypeOK, Sweep
    PROVE  TypeOK'
  <1>1. CASE ListKind
    BY <1>1, ListLengths DEF ListKind, InSweep, TypeOK, api, AtEngine
  <1>2. CASE DeleteOrphan
    <2>1. \A x \in DOMAIN objs' : objs'[x].owner \in Nat
      BY <1>2, RemoveTyped DEF DeleteOrphan
    <2>2. step <= Len(SweepKinds)
      BY <1>2 DEF DeleteOrphan, TypeOK
    <2>3. \/ todo' = {} /\ pc' = "list" /\ step' = step + 1
          \/ pc' = "sweep" /\ step' = step
      BY <1>2 DEF DeleteOrphan
    <2>4. UNCHANGED << cr, lastRV, lastUid, cache, queue, timer, inst, eng, results, latest, used >>
      BY <1>2 DEF DeleteOrphan, InSweep, api, NoFault
    <2>5. pc = "sweep"
      BY <1>2 DEF DeleteOrphan
    <2> QED BY <2>1, <2>2, <2>3, <2>4, <2>5, ListLengths DEF TypeOK, AtEngine
  <1>3. ASSUME LeaveSweep, Fault \/ NoFault, \A x \in DOMAIN objs' : objs'[x].owner \in Nat,
               pc \in {"list", "sweep"}
        PROVE  TypeOK'
    BY <1>3, TroubleTyped DEF LeaveSweep, InSweep, TypeOK, api, AtEngine
  <1>4. CASE SweepFails
    BY <1>4, <1>3 DEF SweepFails, TypeOK
  <1>5. CASE DeleteOrphanUnanswered
    BY <1>5, <1>3, RemoveTyped DEF DeleteOrphanUnanswered
  <1>6. CASE OrphanVanished
    BY <1>6, <1>3 DEF OrphanVanished, TypeOK
  <1>7. CASE SweepSchedule
    <2>1. \A x \in DOMAIN objs' : objs'[x].owner \in Nat
      BY <1>7, RemoveTyped DEF SweepSchedule, TypeOK
    <2> QED BY <1>7, <1>3, <2>1 DEF SweepSchedule
  <1> QED BY <1>1, <1>2, <1>4, <1>5, <1>6, <1>7 DEF Sweep

\* Refetch and status update keep the types.
LEMMA StatusTypes ==
    ASSUME TypeOK, Refetch \/ RefetchFails \/ UpdateStatus \/ UpdateStatusRejected
    PROVE  TypeOK'
  <1>1. CASE Refetch
    BY <1>1 DEF Refetch, TypeOK, api, AtEngine
  <1>2. CASE RefetchFails
    BY <1>2, FinishKeepsTypes, TroubleTyped DEF RefetchFails, GiveUp, TypeOK, api
  <1>3. CASE UpdateStatus
    <2>1. cr' \in CRType \cup {None} /\ lastRV' \in Nat
      <3>1. cr \in CRType /\ results \in ResultsType /\ lastRV \in Nat
        BY <1>3 DEF UpdateStatus, Current, TypeOK
      <3>2. [cr EXCEPT !.status = StatusOf(results), !.rv = lastRV + 1] \in CRType
        BY <3>1, ReportedTyped, NextVersion
      <3> QED BY <1>3, <3>1, <3>2 DEF UpdateStatus
    <2>2. used' \in [deletes : Nat, edits : Nat, trouble : Nat]
      BY <1>3, TroubleTyped DEF UpdateStatus
    <2> QED BY <1>3, <2>1, <2>2, FinishKeepsTypes DEF UpdateStatus, TypeOK
  <1>4. CASE UpdateStatusRejected
    BY <1>4, FinishKeepsTypes, TroubleTyped DEF UpdateStatusRejected, GiveUp, TypeOK, api
  <1> QED BY <1>1, <1>2, <1>3, <1>4

\* reconcileDelete keeps the types.
LEMMA DeleteTypes ==
    ASSUME TypeOK, Delete
    PROVE  TypeOK'
  <1>1. CASE DeleteInstalled
    <2>1. \A x \in DOMAIN objs' : objs'[x].owner \in Nat
      BY <1>1, RemoveTyped DEF DeleteInstalled
    <2>2. used' \in [deletes : Nat, edits : Nat, trouble : Nat]
      BY <1>1, TroubleTyped DEF DeleteInstalled
    <2>3. CASE Fault /\ GiveUp
      BY <1>1, <2>1, <2>2, <2>3, FinishKeepsTypes DEF DeleteInstalled, GiveUp, TypeOK, api
    <2>4. CASE ~ (Fault /\ GiveUp)
      <3>1. inst.spec \in Specs /\ inst # None
        BY <1>1, InstTyped DEF DeleteInstalled
      <3>2. Len(CleanupOf[inst.spec]) = 36 /\ CleanupOf' = CleanupOf
        BY <3>1, CleanupLength DEF CleanupOf
      <3>3. UNCHANGED << cr, lastRV, lastUid, cache, queue, timer, inst, eng, results, todo, latest >>
        BY <1>1, <2>4 DEF DeleteInstalled, api
      <3>4. \/ step < 36 /\ step' = step + 1 /\ pc' = "cleanup"
            \/ step' = 1 /\ pc' = "unfinalize"
        BY <1>1, <2>4, <3>2 DEF DeleteInstalled
      <3>5. pc = "cleanup"
        BY <1>1 DEF DeleteInstalled
      <3>6. CASE step < 36 /\ step' = step + 1 /\ pc' = "cleanup"
        <4>1. (pc = "cleanup" => step <= Len(CleanupOf[inst.spec]))'
          <5>1. step \in Nat
            BY DEF TypeOK
          <5>2. Len(CleanupOf'[inst'.spec]) = 36 /\ step' <= 36
            BY <3>2, <3>3, <3>6, <5>1
          <5> QED BY <5>2
        <4> QED BY <2>1, <2>2, <3>1, <3>3, <3>5, <3>6, <4>1 DEF TypeOK, AtEngine
      <3>7. CASE step' = 1 /\ pc' = "unfinalize"
        BY <2>1, <2>2, <3>1, <3>3, <3>5, <3>7 DEF TypeOK, AtEngine
      <3> QED BY <3>4, <3>6, <3>7
    <2> QED BY <2>3, <2>4
  <1>2. CASE CleanupFails
    BY <1>2, FinishKeepsTypes, TroubleTyped DEF CleanupFails, GiveUp, TypeOK, api
  <1>3. CASE RemoveFinalizer
    BY <1>3, FinishKeepsTypes, TroubleTyped, NextVersion DEF RemoveFinalizer, GiveUp, TypeOK
  <1>4. CASE RemoveFinalizerRejected
    BY <1>4, FinishKeepsTypes, TroubleTyped DEF RemoveFinalizerRejected, GiveUp, TypeOK, api
  <1> QED BY <1>1, <1>2, <1>3, <1>4 DEF Delete

-----------------------------------------------------------------------------
\* Watch events, delayed requests and a crash keep the types.
LEMMA RuntimeTypes ==
    ASSUME TypeOK, Observe \/ TimerFires \/ Restart
    PROVE  TypeOK'
  <1>1. CASE Observe
    BY <1>1, WorkerUntouched DEF Observe, TypeOK, api
  <1>2. CASE TimerFires
    BY <1>2, WorkerUntouched DEF TimerFires, TypeOK, api
  <1>3. CASE Restart
    <2>1. queue' \in BOOLEAN /\ timer' \in BOOLEAN /\ cache' = cr
      BY <1>3 DEF Restart
    <2>2. used' \in [deletes : Nat, edits : Nat, trouble : Nat]
      BY <1>3, TroubleTyped DEF Restart
    <2>3. /\ pc' = "idle" /\ inst' = None /\ latest' = None
          /\ eng' = 1 /\ step' = 1 /\ results' = Nothing /\ todo' = {}
          /\ UNCHANGED << cr, lastRV, lastUid, objs >>
      BY <1>3 DEF Restart, api
    <2> QED BY <2>1, <2>2, <2>3, NothingTyped, ListLengths DEF TypeOK, AtEngine
  <1> QED BY <1>1, <1>2, <1>3

\* Users, other clients and the garbage collector keep the types.
LEMMA OutsideTypes ==
    ASSUME TypeOK,
           CreateCR \/ EditCR \/ DeleteCR \/ ForeignCreate \/ ForeignDelete \/ ForeignEdit \/ CollectGarbage
    PROVE  TypeOK'
  <1>1. CASE CreateCR
    <2>1. cr' \in CRType
      BY <1>1, CreatedTyped, NextVersion DEF CreateCR
    <2> QED BY <1>1, <2>1, NextVersion, WorkerUntouched DEF CreateCR, Outside, TypeOK
  <1>2. CASE EditCR
    <2>1. cr \in CRType
      BY <1>2 DEF EditCR, TypeOK
    <2>2. PICK s \in Specs : cr' = [cr EXCEPT !.spec = s, !.rv = lastRV + 1]
      BY <1>2 DEF EditCR
    <2>3. cr' \in CRType
      BY <2>1, <2>2, EditedTyped, NextVersion
    <2>4. used' \in [deletes : Nat, edits : Nat, trouble : Nat]
      <3>1. used' = [used EXCEPT !.edits = @ + 1] /\ used \in [deletes : Nat, edits : Nat, trouble : Nat]
        BY <1>2 DEF EditCR, TypeOK
      <3> QED BY <3>1
    <2>5. UNCHANGED << pc, round, cache, lastUid, queue, timer, objs >> /\ lastRV' = lastRV + 1
      BY <1>2 DEF EditCR, Outside
    <2>6. /\ {cr', cache'} \subseteq CRType \cup {None}
          /\ lastRV' \in Nat /\ lastUid' \in Nat /\ queue' \in BOOLEAN /\ timer' \in BOOLEAN
      BY <2>3, <2>5, NextVersion DEF TypeOK
    <2>7. \A o \in DOMAIN objs' : objs'[o].owner \in Nat
      BY <2>5 DEF TypeOK
    <2>8. UNCHANGED << pc, round >>
      BY <2>5
    <2> QED BY <2>4, <2>6, <2>7, <2>8, WorkerUntouched
  <1>3. CASE DeleteCR
    <2>1. cr' \in CRType \cup {None}
      BY <1>3, DeletedTyped, NextVersion DEF DeleteCR, TypeOK
    <2>2. used' \in [deletes : Nat, edits : Nat, trouble : Nat]
      <3>1. used' = [used EXCEPT !.deletes = @ + 1] /\ used \in [deletes : Nat, edits : Nat, trouble : Nat]
        BY <1>3 DEF DeleteCR, TypeOK
      <3> QED BY <3>1
    <2>3. UNCHANGED << pc, round, cache, lastUid, queue, timer, objs >> /\ lastRV' = lastRV + 1
      BY <1>3 DEF DeleteCR, Outside
    <2>4. /\ {cr', cache'} \subseteq CRType \cup {None}
          /\ lastRV' \in Nat /\ lastUid' \in Nat /\ queue' \in BOOLEAN /\ timer' \in BOOLEAN
      BY <2>1, <2>3, NextVersion DEF TypeOK
    <2>5. \A o \in DOMAIN objs' : objs'[o].owner \in Nat
      BY <2>3 DEF TypeOK
    <2>6. UNCHANGED << pc, round >>
      BY <2>3
    <2> QED BY <2>2, <2>4, <2>5, <2>6, WorkerUntouched
  <1>4. CASE ForeignCreate
    <2>1. \A x \in DOMAIN objs' : objs'[x].owner \in Nat
      BY <1>4 DEF ForeignCreate, With, NoOwner, TypeOK
    <2> QED BY <1>4, <2>1, TroubleTyped, WorkerUntouched
            DEF ForeignCreate, Outside, TypeOK, api
  <1>5. CASE ForeignDelete
    <2>1. \A x \in DOMAIN objs' : objs'[x].owner \in Nat
      BY <1>5, RemoveTyped DEF ForeignDelete
    <2> QED BY <1>5, <2>1, TroubleTyped, WorkerUntouched
            DEF ForeignDelete, Outside, TypeOK, api
  <1>6. CASE CollectGarbage
    <2>1. \A x \in DOMAIN objs' : objs'[x].owner \in Nat
      BY <1>6, RemoveTyped DEF CollectGarbage
    <2> QED BY <1>6, <2>1, WorkerUntouched DEF CollectGarbage, Outside, TypeOK, api
  <1>7. CASE ForeignEdit
    <2>1. \A x \in DOMAIN objs' : objs'[x].owner \in Nat
      BY <1>7, AlteredTyped DEF ForeignEdit
    <2> QED BY <1>7, <2>1, TroubleTyped, WorkerUntouched
            DEF ForeignEdit, Outside, TypeOK, api
  <1> QED BY <1>1, <1>2, <1>3, <1>4, <1>5, <1>6, <1>7

\* A stuttering step keeps the types.
LEMMA StutterTypes ==
    ASSUME TypeOK, UNCHANGED vars
    PROVE  TypeOK'
  BY WorkerUntouched DEF vars, round, TypeOK

\* The state keeps its type, and the indices never leave the lists that
\* deployEngines, cleanupOrphans and cleanup walk.
THEOREM TypeCorrect == Spec => []TypeOK
  <1>1. Init => TypeOK
    <2> SUFFICES ASSUME Init PROVE TypeOK
      OBVIOUS
    <2>1. used \in [deletes : Nat, edits : Nat, trouble : Nat]
      BY DEF Init
    <2>2. DOMAIN objs = {}
      BY DEF Init, Nothing
    <2>3. ~ AtEngine
      BY DEF Init, AtEngine
    <2>4. {cr, cache, inst, latest} \subseteq CRType \cup {None}
      BY DEF Init
    <2>5. results \in ResultsType
      BY NothingTyped DEF Init
    <2>6. eng = 1 /\ step = 1 /\ pc = "idle" /\ inst = None /\ latest = None /\ todo = {}
      BY DEF Init
    <2>7. lastRV = 0 /\ lastUid = 0 /\ queue = FALSE /\ timer = FALSE
      BY DEF Init
    <2>8. eng \in 1 .. Len(EngineOrder) + 1
      BY <2>6, ListLengths
    <2>9. \A o \in DOMAIN objs : objs[o].owner \in Nat
      BY <2>2
    <2>10. lastRV \in Nat /\ lastUid \in Nat /\ queue \in BOOLEAN /\ timer \in BOOLEAN
      BY <2>7
    <2>11. step \in Nat \ {0}
      BY <2>6
    <2>12. pc \in {"idle", "finalize", "deploy", "list", "sweep", "refetch", "status",
                   "cleanup", "unfinalize"}
      BY <2>6
    <2> QED BY <2>1, <2>3, <2>4, <2>5, <2>6, <2>8, <2>9, <2>10, <2>11, <2>12 DEF TypeOK
  <1>2. TypeOK /\ [Next]_vars => TypeOK'
    <2> SUFFICES ASSUME TypeOK, [Next]_vars PROVE TypeOK'
      OBVIOUS
    <2>1. CASE Worker
      BY <2>1, ReconcileTypes, DeployTypes, SweepTypes, StatusTypes, DeleteTypes DEF Worker
    <2>2. CASE Observe \/ TimerFires \/ Restart
      BY <2>2, RuntimeTypes
    <2>3. CASE CreateCR \/ EditCR \/ DeleteCR \/ ForeignCreate \/ ForeignDelete \/ ForeignEdit \/ CollectGarbage
      BY <2>3, OutsideTypes
    <2>4. CASE UNCHANGED vars
      BY <2>4, StutterTypes
    <2> QED BY <2>1, <2>2, <2>3, <2>4 DEF Next
  <1> QED BY <1>1, <1>2, PTL DEF Spec

-----------------------------------------------------------------------------
(***************************************************************************)
(* FinalizerInv is inductive. A step is seen as what it does to the        *)
(* resource (ResourceStep), to the owners of the objects (OwnersFrom) and  *)
(* to the worker's copy (RoundStep); the actions come under a few shapes.  *)
(***************************************************************************)
Working == {"deploy", "list", "sweep", "refetch", "status"}

NewVersion ==
    /\ cr # None /\ cr' # None
    /\ cr'.uid = cr.uid /\ cr'.rv = lastRV + 1 /\ (cr.fin => cr'.fin)
    /\ lastRV' = lastRV + 1 /\ lastUid' = lastUid

Removed ==
    /\ cr # None /\ cr' = None
    /\ ~ cr.fin \/ (pc = "unfinalize" /\ Current(inst))
    /\ lastRV' = lastRV + 1 /\ lastUid' = lastUid

Created ==
    /\ cr = None /\ cr' # None
    /\ cr'.uid = lastUid + 1 /\ cr'.rv = lastRV + 1
    /\ lastRV' = lastRV + 1 /\ lastUid' = lastUid + 1

ResourceStep == UNCHANGED << cr, lastRV, lastUid >> \/ NewVersion \/ Removed \/ Created

\* An owner a step brings in is the resource the worker installs for.
OwnersFrom ==
    \A o \in DOMAIN objs' :
        \/ objs'[o].owner = NoOwner
        \/ o \in DOMAIN objs /\ objs'[o].owner = objs[o].owner
        \/ pc = "deploy" /\ objs'[o].owner = inst.uid

RoundStep ==
    \/ /\ UNCHANGED << inst, latest >>
       /\ \/ pc' = pc
          \/ pc \in Working /\ pc' \in Working \ {"status"}
          \/ pc = "cleanup" /\ pc' = "unfinalize"
    \/ inst' = None /\ pc' = "idle"

\* The uids and versions of the resource and of its copies are naturals.
LEMMA CopyTypes ==
    ASSUME TypeOK
    PROVE  /\ lastRV \in Nat /\ lastUid \in Nat
           /\ cr # None => cr.uid \in Nat \ {0} /\ cr.rv \in Nat
           /\ cache # None => cache.uid \in Nat \ {0} /\ cache.rv \in Nat
           /\ inst # None => inst.uid \in Nat \ {0} /\ inst.rv \in Nat
           /\ inst # None <=> pc # "idle"
  BY DEF TypeOK, CRType

\* The objects' side: an owner is a known uid, and the resource it names, if it
\* is the current one, has its finalizer.
LEMMA OwnersStep ==
    ASSUME TypeOK, FinalizerInv, ResourceStep, OwnersFrom
    PROVE  OwnersKnown' /\ OwnedObjectsHoldFinalizer'
  <1>1. pc = "deploy" => cr # None /\ cr.uid = inst.uid /\ cr.fin /\ inst.uid <= lastUid
    BY CopyTypes DEF FinalizerInv, WorksForLiveResource, CopiesBehind, Known
  <1>2. \A o \in DOMAIN objs : objs[o].owner \in Nat /\ objs[o].owner <= lastUid
    BY DEF FinalizerInv, OwnersKnown, TypeOK
  <1>3. lastUid' \in Nat /\ lastUid <= lastUid'
    BY CopyTypes DEF ResourceStep, NewVersion, Removed, Created
  <1>4. \A o \in DOMAIN objs' : objs'[o].owner \in Nat /\ objs'[o].owner <= lastUid
    BY <1>1, <1>2, CopyTypes DEF OwnersFrom, NoOwner
  <1>5. OwnersKnown'
    BY <1>3, <1>4, CopyTypes DEF OwnersKnown
  <1>6. OwnedObjectsHoldFinalizer'
    <2> SUFFICES ASSUME NEW o \in DOMAIN objs', objs'[o].owner # NoOwner, cr' # None,
                        cr'.uid = objs'[o].owner
                 PROVE  cr'.fin
      BY DEF OwnedObjectsHoldFinalizer
    <2>1. cr # None /\ cr'.uid = cr.uid /\ (cr.fin => cr'.fin)
      BY <1>4, CopyTypes DEF ResourceStep, NewVersion, Removed, Created
    <2>2. cr.fin
      BY <1>1, <2>1 DEF OwnersFrom, FinalizerInv, OwnedObjectsHoldFinalizer
    <2> QED BY <2>1, <2>2
  <1> QED BY <1>5, <1>6

\* A finalizer the cache shows on a resource not being deleted is not dropped.
LEMMA CachedFinalizerStep ==
    ASSUME TypeOK, FinalizerInv, ResourceStep, cache' = cache
    PROVE  CachedFinalizerHolds'
  <1> SUFFICES ASSUME cache # None, cache.fin, ~ cache.del
               PROVE  cr' # None /\ cr'.uid = cache.uid /\ cr'.fin
    BY DEF CachedFinalizerHolds
  <1>1. cr # None /\ cr.uid = cache.uid /\ cr.fin
    BY DEF FinalizerInv, CachedFinalizerHolds
  <1>2. ~ Removed
    <2> SUFFICES ASSUME pc = "unfinalize", Current(inst) PROVE FALSE
      BY <1>1 DEF Removed
    <2>1. inst # None /\ inst.rv = cr.rv /\ inst.del /\ inst.rv <= cache.rv
      BY CopyTypes DEF Current, FinalizerInv, CacheAhead
    <2>2. inst = cr /\ cache.rv <= cr.rv /\ (cache.rv = cr.rv => cache = cr)
      BY <1>1, <2>1 DEF FinalizerInv, CopiesBehind, Behind
    <2> QED BY <1>1, <2>1, <2>2, CopyTypes
  <1> QED BY <1>1, <1>2 DEF ResourceStep, NewVersion, Created

\* A copy that is kept stays behind the resource.
LEMMA BehindStep ==
    ASSUME TypeOK, FinalizerInv, ResourceStep
    PROVE  /\ Known(cr)'
           /\ cache' = cache => Known(cache)' /\ Behind(cache)'
           /\ inst' = inst => Known(inst)' /\ Behind(inst)'
  <1>1. Known(cr)'
    BY CopyTypes DEF ResourceStep, NewVersion, Removed, Created, FinalizerInv, CopiesBehind, Known
  <1>2. ASSUME cache' = cache PROVE Known(cache)' /\ Behind(cache)'
    BY <1>2, CopyTypes DEF ResourceStep, NewVersion, Removed, Created, FinalizerInv,
       CopiesBehind, Known, Behind
  <1>3. ASSUME inst' = inst PROVE Known(inst)' /\ Behind(inst)'
    BY <1>3, CopyTypes DEF ResourceStep, NewVersion, Removed, Created, FinalizerInv,
       CopiesBehind, Known, Behind
  <1> QED BY <1>1, <1>2, <1>3

\* While the worker installs, nothing removes the resource it works for.
LEMMA WorkingStep ==
    ASSUME TypeOK, FinalizerInv, ResourceStep, pc \in Working
    PROVE  cr' # None /\ cr'.uid = inst.uid /\ cr'.fin
  <1>1. cr # None /\ cr.uid = inst.uid /\ cr.fin
    BY DEF FinalizerInv, WorksForLiveResource, Working
  <1>2. pc # "unfinalize"
    BY DEF Working
  <1> QED BY <1>1, <1>2 DEF ResourceStep, NewVersion, Removed, Created

\* A step that leaves the resource and its copies alone keeps the invariant,
\* provided that the owners it leaves are known.
LEMMA OrdinaryStep ==
    ASSUME TypeOK, FinalizerInv, ResourceStep, OwnersFrom, RoundStep, cache' = cache
    PROVE  FinalizerInv'
  <1>1. OwnersKnown' /\ OwnedObjectsHoldFinalizer' /\ CachedFinalizerHolds'
    BY OwnersStep, CachedFinalizerStep
  <1>2. CopiesBehind'
    <2>1. Known(cr)' /\ Known(cache)' /\ Behind(cache)'
      BY BehindStep
    <2>2. Known(inst)' /\ Behind(inst)'
      BY BehindStep DEF RoundStep, Known, Behind
    <2> QED BY <2>1, <2>2 DEF CopiesBehind
  <1>3. CacheAhead'
    BY DEF RoundStep, Working, FinalizerInv, CacheAhead
  <1>4. WorksForLiveResource'
    BY WorkingStep DEF RoundStep, WorksForLiveResource, Working
  <1>5. StatusGoesToItsCR'
    BY DEF RoundStep, Working, FinalizerInv, StatusGoesToItsCR
  <1> QED BY <1>1, <1>2, <1>3, <1>4, <1>5 DEF FinalizerInv

-----------------------------------------------------------------------------
\* The owners after a write, a removal, or neither.
LEMMA OwnersOfWrite ==
    ASSUME pc = "deploy", NEW st, NEW o, objs' = With(objs, o, Rendered(st))
    PROVE  OwnersFrom
  BY DEF OwnersFrom, With, Rendered

\* Removing objects adds no owner.
LEMMA OwnersOfRemoval ==
    ASSUME NEW S, objs' = Without(objs, S)
    PROVE  OwnersFrom
  BY DEF OwnersFrom, Without

\* Leaving the objects alone adds no owner.
LEMMA OwnersUnchanged ==
    ASSUME objs' = objs
    PROVE  OwnersFrom
  BY DEF OwnersFrom

\* deployEngines keeps the invariant: it installs only for a resource that is
\* alive and has its finalizer.
LEMMA DeployFinalizer ==
    ASSUME TypeOK, FinalizerInv, Deploy
    PROVE  FinalizerInv'
  <1>1. pc = "deploy"
    BY DEF Deploy, SkipEngine, WriteObject, WriteRefused, ReplaceObject, DeleteDrifted,
       CheckEtcd, SkipSchedule, RemoveSchedule, CallFails, DeployDone, AtCall, AtEngine
  <1>2. UNCHANGED << cr, lastRV, lastUid, cache, inst, latest >> /\ pc' \in {"deploy", "list"}
    BY <1>1 DEF Deploy, SkipEngine, WriteObject, WriteRefused, ReplaceObject, DeleteDrifted,
       CheckEtcd, SkipSchedule, RemoveSchedule, CallFails, DeployDone, InDeploy, api
  <1>3. OwnersFrom
    BY <1>1, OwnersOfWrite, OwnersOfRemoval, OwnersUnchanged
       DEF Deploy, SkipEngine, WriteObject, WriteRefused, ReplaceObject, DeleteDrifted,
       CheckEtcd, SkipSchedule, RemoveSchedule, CallFails, DeployDone
  <1> QED BY <1>1, <1>2, <1>3, OrdinaryStep DEF ResourceStep, RoundStep, Working

\* The sweep keeps the invariant: it only removes objects.
LEMMA SweepFinalizer ==
    ASSUME TypeOK, FinalizerInv, Sweep
    PROVE  FinalizerInv'
  <1>1. pc \in {"list", "sweep"} /\ pc' \in {"list", "sweep", "refetch"}
    BY DEF Sweep, ListKind, DeleteOrphan, SweepFails, DeleteOrphanUnanswered,
       OrphanVanished, SweepSchedule, LeaveSweep
  <1>2. UNCHANGED << cr, lastRV, lastUid, cache, inst, latest >>
    BY DEF Sweep, ListKind, DeleteOrphan, SweepFails, DeleteOrphanUnanswered,
       OrphanVanished, SweepSchedule, LeaveSweep, InSweep, api
  <1>3. OwnersFrom
    BY OwnersOfRemoval, OwnersUnchanged
       DEF Sweep, ListKind, DeleteOrphan, SweepFails, DeleteOrphanUnanswered,
       OrphanVanished, SweepSchedule
  <1> QED BY <1>1, <1>2, <1>3, OrdinaryStep DEF ResourceStep, RoundStep, Working

\* Refetch and status update keep the invariant.
LEMMA StatusFinalizer ==
    ASSUME TypeOK, FinalizerInv, Refetch \/ RefetchFails \/ UpdateStatus \/ UpdateStatusRejected
    PROVE  FinalizerInv'
  <1>1. CASE Refetch
    <2>1. UNCHANGED << cr, lastRV, lastUid, cache, inst, objs >> /\ pc = "refetch" /\ pc' = "status"
      BY <1>1 DEF Refetch, api
    <2>2. cr # None /\ cr.uid = inst.uid /\ cr.fin /\ inst # None
      BY <2>1, CopyTypes DEF FinalizerInv, WorksForLiveResource
    <2>3. cache # None /\ latest' = cache
      BY <1>1 DEF Refetch
    <2>4. latest'.uid = inst'.uid
      BY <2>1, <2>2, <2>3, CopyTypes DEF FinalizerInv, CacheAhead, CopiesBehind, Behind
    <2>5. OwnersKnown' /\ OwnedObjectsHoldFinalizer' /\ CachedFinalizerHolds'
      BY <2>1, OwnersStep, CachedFinalizerStep, OwnersUnchanged DEF ResourceStep
    <2>6. CopiesBehind'
      BY <2>1, BehindStep DEF ResourceStep, CopiesBehind
    <2>7. CacheAhead' /\ WorksForLiveResource' /\ StatusGoesToItsCR'
      BY <2>1, <2>2, <2>4 DEF FinalizerInv, CacheAhead, WorksForLiveResource, StatusGoesToItsCR
    <2> QED BY <2>5, <2>6, <2>7 DEF FinalizerInv
  <1>2. CASE RefetchFails \/ UpdateStatusRejected
    <2>1. UNCHANGED << cr, lastRV, lastUid, cache, objs >> /\ inst' = None /\ pc' = "idle"
      BY <1>2 DEF RefetchFails, UpdateStatusRejected, GiveUp, Finish, api
    <2> QED BY <2>1, OwnersUnchanged, OrdinaryStep DEF ResourceStep, RoundStep
  <1>3. CASE UpdateStatus
    <2>1. cache' = cache /\ objs' = objs /\ inst' = None /\ pc' = "idle"
      BY <1>3 DEF UpdateStatus, Finish
    <2>2. ResourceStep
      <3>1. cr \in CRType /\ cr # None /\ lastUid' = lastUid
        BY <1>3 DEF UpdateStatus, Current, TypeOK
      <3>2. CASE UNCHANGED << cr, lastRV >>
        BY <3>1, <3>2 DEF ResourceStep
      <3>3. CASE ~ UNCHANGED << cr, lastRV >>
        <4>1. /\ cr' = [cr EXCEPT !.status = StatusOf(results), !.rv = lastRV + 1]
              /\ lastRV' = lastRV + 1
          BY <1>3, <3>3 DEF UpdateStatus
        <4>2. cr' \in CRType
          BY <3>1, <4>1, ReportedTyped, NextVersion DEF TypeOK
        <4>3. cr'.uid = cr.uid /\ cr'.rv = lastRV + 1 /\ cr'.fin = cr.fin
          BY <3>1, <4>1 DEF CRType
        <4> QED BY <3>1, <4>1, <4>2, <4>3, NoneAssumption DEF ResourceStep, NewVersion
      <3> QED BY <3>2, <3>3
    <2> QED BY <2>1, <2>2, OwnersUnchanged, OrdinaryStep DEF RoundStep
  <1>4. QED BY <1>1, <1>2, <1>3

\* reconcileDelete keeps the invariant: the finalizer is dropped only at the
\* version the cache has seen deleted.
LEMMA DeleteFinalizer ==
    ASSUME TypeOK, FinalizerInv, Delete
    PROVE  FinalizerInv'
  <1>1. CASE DeleteInstalled
    <2>1. UNCHANGED << cr, lastRV, lastUid, cache >>
      BY <1>1 DEF DeleteInstalled, api
    <2>2. OwnersFrom
      BY <1>1, OwnersOfRemoval DEF DeleteInstalled
    <2>3. RoundStep
      BY <1>1 DEF DeleteInstalled, GiveUp, Finish, RoundStep
    <2> QED BY <2>1, <2>2, <2>3, OrdinaryStep DEF ResourceStep
  <1>2. CASE CleanupFails \/ RemoveFinalizerRejected
    <2>1. UNCHANGED << cr, lastRV, lastUid, cache, objs >> /\ inst' = None /\ pc' = "idle"
      BY <1>2 DEF CleanupFails, RemoveFinalizerRejected, GiveUp, Finish, api
    <2> QED BY <2>1, OwnersUnchanged, OrdinaryStep DEF ResourceStep, RoundStep
  <1>3. CASE RemoveFinalizer
    <2>1. cache' = cache /\ objs' = objs /\ inst' = None /\ pc' = "idle"
      BY <1>3 DEF RemoveFinalizer, GiveUp, Finish
    <2>2. Removed
      BY <1>3 DEF RemoveFinalizer, Removed, Current
    <2> QED BY <2>1, <2>2, OwnersUnchanged, OrdinaryStep DEF ResourceStep, RoundStep
  <1> QED BY <1>1, <1>2, <1>3 DEF Delete

\* Starting a round keeps the invariant: deploying starts only under a finalizer.
LEMMA ReconcileFinalizer ==
    ASSUME TypeOK, FinalizerInv,
           ReconcileNothing \/ GetFails \/ Reconcile \/ AddFinalizer \/ AddFinalizerRejected
    PROVE  FinalizerInv'
  <1>1. CASE ReconcileNothing \/ GetFails
    <2>1. UNCHANGED << cr, lastRV, lastUid, cache, objs, inst, latest, pc >>
      BY <1>1 DEF ReconcileNothing, GetFails, api, round
    <2> QED BY <2>1, OwnersUnchanged, OrdinaryStep DEF ResourceStep, RoundStep
  <1>2. CASE Reconcile
    <2>1. /\ UNCHANGED << cr, lastRV, lastUid, cache, objs, latest >>
          /\ inst' = cache /\ cache # None
          /\ pc' = IF cache.del THEN "cleanup" ELSE IF cache.fin THEN "deploy" ELSE "finalize"
      BY <1>2 DEF Reconcile, api
    <2>2. OwnersKnown' /\ OwnedObjectsHoldFinalizer' /\ CachedFinalizerHolds'
      BY <2>1, OwnersStep, CachedFinalizerStep, OwnersUnchanged DEF ResourceStep
    <2>3. CopiesBehind'
      BY <2>1 DEF FinalizerInv, CopiesBehind, Known, Behind
    <2>4. CacheAhead'
      BY <2>1, CopyTypes DEF CacheAhead
    <2>5. WorksForLiveResource' /\ StatusGoesToItsCR'
      BY <2>1 DEF FinalizerInv, CachedFinalizerHolds, WorksForLiveResource, StatusGoesToItsCR
    <2> QED BY <2>2, <2>3, <2>4, <2>5 DEF FinalizerInv
  <1>3. CASE AddFinalizer
    <2>1. cr \in CRType /\ cr # None /\ inst # None /\ inst.rv = cr.rv /\ lastUid' = lastUid
      BY <1>3, CopyTypes DEF AddFinalizer, Current, TypeOK
    <2>2. inst = cr
      BY <2>1 DEF FinalizerInv, CopiesBehind, Behind
    <2>3. cr' = [cr EXCEPT !.fin = TRUE, !.rv = lastRV + 1] /\ lastRV' = lastRV + 1
      BY <1>3 DEF AddFinalizer
    <2>4. cr' \in CRType /\ cr' # None
      BY <2>1, <2>3, FinalizerTyped, NextVersion, NoneAssumption
    <2>5. cr'.uid = cr.uid /\ cr'.rv = lastRV + 1 /\ cr'.fin
      BY <2>1, <2>3 DEF CRType
    <2>6. NewVersion
      BY <2>1, <2>3, <2>4, <2>5 DEF NewVersion
    <2>7. cache' = cache /\ objs' = objs
      BY <1>3 DEF AddFinalizer
    <2>8. CASE inst' = None /\ pc' = "idle"
      BY <2>6, <2>7, <2>8, OwnersUnchanged, OrdinaryStep DEF ResourceStep, RoundStep
    <2>9. CASE inst' = cr' /\ pc' = "deploy"
      <3>1. OwnersKnown' /\ OwnedObjectsHoldFinalizer' /\ CachedFinalizerHolds'
        BY <2>6, <2>7, OwnersStep, CachedFinalizerStep, OwnersUnchanged DEF ResourceStep
      <3>2. Known(cr)' /\ Known(cache)' /\ Behind(cache)'
        BY <2>6, <2>7, BehindStep DEF ResourceStep
      <3>3. Known(inst)' /\ Behind(inst)'
        <4>1. inst'.uid <= cr'.uid /\ inst'.rv <= cr'.rv
          <5>1. cr'.uid \in Nat /\ cr'.rv \in Nat
            BY <2>1, <2>5, CopyTypes
          <5> QED BY <5>1, <2>9
        <4>2. inst'.uid <= lastUid' /\ inst'.rv <= lastRV'
          BY <3>2, <2>4, <2>9 DEF Known
        <4> QED BY <4>1, <4>2, <2>9 DEF Known, Behind
      <3>4. CacheAhead'
        <4>1. inst'.uid = inst.uid /\ inst # None
          BY <2>1, <2>2, <2>5, <2>9
        <4> QED BY <4>1, <2>7, <2>9 DEF FinalizerInv, CacheAhead
      <3>5. WorksForLiveResource' /\ StatusGoesToItsCR'
        BY <2>4, <2>5, <2>9 DEF WorksForLiveResource, StatusGoesToItsCR
      <3> QED BY <3>1, <3>2, <3>3, <3>4, <3>5 DEF FinalizerInv, CopiesBehind
    <2> QED BY <1>3, <2>8, <2>9 DEF AddFinalizer, GiveUp, Finish
  <1>4. CASE AddFinalizerRejected
    <2>1. UNCHANGED << cr, lastRV, lastUid, cache, objs >> /\ inst' = None /\ pc' = "idle"
      BY <1>4 DEF AddFinalizerRejected, GiveUp, Finish, api
    <2> QED BY <2>1, OwnersUnchanged, OrdinaryStep DEF ResourceStep, RoundStep
  <1> QED BY <1>1, <1>2, <1>3, <1>4

\* The cache moves on to the resource as it is.
LEMMA RuntimeFinalizer ==
    ASSUME TypeOK, FinalizerInv, Observe \/ TimerFires \/ Restart
    PROVE  FinalizerInv'
  <1>1. CASE TimerFires
    <2>1. UNCHANGED << cr, lastRV, lastUid, cache, objs, inst, latest, pc >>
      BY <1>1 DEF TimerFires, api, round
    <2> QED BY <2>1, OwnersUnchanged, OrdinaryStep DEF ResourceStep, RoundStep
  <1>2. CASE Observe \/ Restart
    <2>1. UNCHANGED << cr, lastRV, lastUid, objs >> /\ cache' = cr
      BY <1>2 DEF Observe, Restart, api
    <2>2. UNCHANGED << inst, latest, pc >> \/ (inst' = None /\ pc' = "idle")
      BY <1>2 DEF Observe, Restart, round
    <2>3. OwnersKnown' /\ OwnedObjectsHoldFinalizer'
      BY <2>1, OwnersStep, OwnersUnchanged DEF ResourceStep
    <2>4. CachedFinalizerHolds'
      BY <2>1 DEF CachedFinalizerHolds
    <2>5. CopiesBehind'
      <3>1. Known(cr)' /\ Known(cache)' /\ Behind(cache)'
        BY <2>1, CopyTypes DEF FinalizerInv, CopiesBehind, Known, Behind
      <3>2. Known(inst)' /\ Behind(inst)'
        BY <2>1, <2>2 DEF FinalizerInv, CopiesBehind, Known, Behind
      <3> QED BY <3>1, <3>2 DEF CopiesBehind
    <2>6. CacheAhead'
      BY <2>1, <2>2, CopyTypes DEF FinalizerInv, CacheAhead, CopiesBehind, Behind
    <2>7. WorksForLiveResource' /\ StatusGoesToItsCR'
      BY <2>1, <2>2 DEF FinalizerInv, WorksForLiveResource, StatusGoesToItsCR
    <2> QED BY <2>3, <2>4, <2>5, <2>6, <2>7 DEF FinalizerInv
  <1> QED BY <1>1, <1>2

\* Users, other clients and the garbage collector keep the invariant.
LEMMA OutsideFinalizer ==
    ASSUME TypeOK, FinalizerInv,
           CreateCR \/ EditCR \/ DeleteCR \/ ForeignCreate \/ ForeignDelete \/ ForeignEdit \/ CollectGarbage
    PROVE  FinalizerInv'
  <1>1. UNCHANGED << cache, inst, latest, pc >>
    BY DEF CreateCR, EditCR, DeleteCR, ForeignCreate, ForeignDelete, ForeignEdit, CollectGarbage, Outside, round
  <1>2. OwnersFrom
    <2>1. CASE ForeignCreate
      BY <2>1 DEF ForeignCreate, OwnersFrom, With
    <2>2. CASE ForeignDelete \/ CollectGarbage
      BY <2>2, OwnersOfRemoval DEF ForeignDelete, CollectGarbage
    <2>3. CASE ForeignEdit
      BY <2>3 DEF ForeignEdit, OwnersFrom, With
    <2>4. CASE CreateCR \/ EditCR \/ DeleteCR
      BY <2>4, OwnersUnchanged DEF CreateCR, EditCR, DeleteCR
    <2> QED BY <2>1, <2>2, <2>3, <2>4
  <1>3. ResourceStep
    <2>1. CASE ForeignCreate \/ ForeignDelete \/ ForeignEdit \/ CollectGarbage
      BY <2>1 DEF ForeignCreate, ForeignDelete, ForeignEdit, CollectGarbage, api, ResourceStep
    <2>2. CASE CreateCR
      <3>1. PICK s \in Specs :
                cr' = [uid |-> lastUid + 1, rv |-> lastRV + 1, spec |-> s,
                       fin |-> FALSE, del |-> FALSE, status |-> NoStatus]
        BY <2>2 DEF CreateCR
      <3>2. cr' \in CRType
        BY <3>1, CreatedTyped, NextVersion
      <3> QED BY <2>2, <3>1, <3>2, NoneAssumption DEF CreateCR, Created, ResourceStep
    <2>3. CASE EditCR
      <3>1. cr \in CRType /\ cr # None
        BY <2>3 DEF EditCR, TypeOK
      <3>2. PICK s \in Specs : cr' = [cr EXCEPT !.spec = s, !.rv = lastRV + 1]
        BY <2>3 DEF EditCR
      <3>3. cr' \in CRType
        BY <3>1, <3>2, EditedTyped, NextVersion
      <3>4. cr'.uid = cr.uid /\ cr'.rv = lastRV + 1 /\ cr'.fin = cr.fin
        BY <3>1, <3>2 DEF CRType
      <3> QED BY <2>3, <3>1, <3>3, <3>4, NoneAssumption DEF EditCR, NewVersion, ResourceStep
    <2>4. CASE DeleteCR
      <3>1. cr \in CRType /\ cr # None
        BY <2>4 DEF DeleteCR, TypeOK
      <3>2. CASE ~ cr.fin
        BY <2>4, <3>1, <3>2 DEF DeleteCR, Removed, ResourceStep
      <3>3. CASE cr.fin
        <4>1. cr' = [cr EXCEPT !.del = TRUE, !.rv = lastRV + 1]
          BY <2>4, <3>3 DEF DeleteCR
        <4>2. cr' \in CRType
          BY <3>1, <4>1, DeletedTyped, NextVersion
        <4>3. cr'.uid = cr.uid /\ cr'.rv = lastRV + 1 /\ cr'.fin = cr.fin
          BY <3>1, <4>1 DEF CRType
        <4> QED BY <2>4, <3>1, <4>2, <4>3, NoneAssumption DEF DeleteCR, NewVersion, ResourceStep
      <3> QED BY <3>2, <3>3
    <2> QED BY <2>1, <2>2, <2>3, <2>4
  <1> QED BY <1>1, <1>2, <1>3, OrdinaryStep DEF RoundStep

\* The inductive invariant: every copy is behind the resource, a cleanup's copy
\* is no newer than the cache, and a finalizer seen in the cache is still held.
THEOREM FinalizerInductive == Spec => []FinalizerInv
  <1>1. Init => FinalizerInv
    <2> SUFFICES ASSUME Init PROVE FinalizerInv
      OBVIOUS
    <2>1. cr = None /\ cache = None /\ inst = None /\ pc = "idle" /\ DOMAIN objs = {}
      BY DEF Init, Nothing
    <2> QED BY <2>1 DEF FinalizerInv, CopiesBehind, Known, Behind, CacheAhead,
            CachedFinalizerHolds, OwnersKnown, WorksForLiveResource,
            OwnedObjectsHoldFinalizer, StatusGoesToItsCR
  <1>2. TypeOK /\ FinalizerInv /\ [Next]_vars => FinalizerInv'
    <2> SUFFICES ASSUME TypeOK, FinalizerInv, [Next]_vars PROVE FinalizerInv'
      OBVIOUS
    <2>1. CASE Worker
      BY <2>1, ReconcileFinalizer, DeployFinalizer, SweepFinalizer, StatusFinalizer,
         DeleteFinalizer DEF Worker
    <2>2. CASE Observe \/ TimerFires \/ Restart
      BY <2>2, RuntimeFinalizer
    <2>3. CASE CreateCR \/ EditCR \/ DeleteCR \/ ForeignCreate \/ ForeignDelete \/ ForeignEdit \/ CollectGarbage
      BY <2>3, OutsideFinalizer
    <2>4. CASE UNCHANGED vars
      <3>1. UNCHANGED << cr, lastRV, lastUid, cache, objs, inst, latest, pc >>
        BY <2>4 DEF vars
      <3> QED BY <3>1, OwnersUnchanged, OrdinaryStep DEF ResourceStep, RoundStep
    <2> QED BY <2>1, <2>2, <2>3, <2>4 DEF Next
  <1> QED BY <1>1, <1>2, TypeCorrect, PTL DEF Spec

\* The finalizer is there before anything is installed and as long as anything
\* owned exists (openebs_controller.go:60), however stale the cache.
THEOREM FinalizerFirst == Spec => []OwnedObjectsHoldFinalizer
  <1>1. FinalizerInv => OwnedObjectsHoldFinalizer
    BY DEF FinalizerInv
  <1> QED BY <1>1, FinalizerInductive, PTL

\* A round that installs, sweeps or reports works for the resource that exists.
THEOREM NoWorkForTheDead == Spec => []WorksForLiveResource
  <1>1. FinalizerInv => WorksForLiveResource
    BY DEF FinalizerInv
  <1> QED BY <1>1, FinalizerInductive, PTL

\* The copy fetched again for the status update (openebs_controller.go:90) is of
\* the resource the status was computed for.
THEOREM StatusOnTheRightResource == Spec => []StatusGoesToItsCR
  <1>1. FinalizerInv => StatusGoesToItsCR
    BY DEF FinalizerInv
  <1> QED BY <1>1, FinalizerInductive, PTL

-----------------------------------------------------------------------------
\* What the sweep found is of a kind it lists, under a name not expected by the
\* spec the round works from.
OrphansUnexpected ==
    pc = "sweep" =>
        \A o \in todo : o.kind \in SweptKinds /\ o.name \notin ExpectedIn[inst.spec]

\* No step makes a listed orphan expected: the round keeps its copy of the spec.
LEMMA OrphansStep ==
    ASSUME TypeOK, OrphansUnexpected, [Next]_vars
    PROVE  OrphansUnexpected'
  <1>0. ExpectedIn' = ExpectedIn
    BY DEF ExpectedIn
  <1>1. CASE ListKind
    <2> SUFFICES ASSUME pc' = "sweep", NEW o \in todo'
                 PROVE  o.kind \in SweptKinds /\ o.name \notin ExpectedIn'[inst'.spec]
      BY DEF OrphansUnexpected
    <2>1. o \in Orphans(step) /\ inst' = inst
      BY <1>1 DEF ListKind, InSweep
    <2>2. step \in 1 .. 11
      BY <1>1, ListLengths DEF ListKind, TypeOK
    <2>3. SweepKinds[step][1] \in SweptKinds
      BY <2>2, KindsSwept
    <2> QED BY <1>0, <2>1, <2>3 DEF Orphans
  <1>2. CASE DeleteOrphan
    <2>1. pc = "sweep" /\ todo' \subseteq todo /\ inst' = inst
      BY <1>2 DEF DeleteOrphan, InSweep
    <2> QED BY <1>0, <2>1 DEF OrphansUnexpected
  <1>3. CASE UNCHANGED << pc, todo, inst >>
    BY <1>0, <1>3 DEF OrphansUnexpected
  <1>4. CASE pc' # "sweep"
    BY <1>4 DEF OrphansUnexpected
  <1>5. CASE Worker /\ ~ ListKind /\ ~ DeleteOrphan
    <2>1. CASE Deploy
      BY <2>1, <1>3, <1>4 DEF Deploy, SkipEngine, WriteObject, WriteRefused, ReplaceObject,
         DeleteDrifted, CheckEtcd, SkipSchedule, RemoveSchedule, CallFails, DeployDone, InDeploy
    <2>2. CASE Sweep
      BY <1>5, <2>2, <1>4 DEF Sweep, SweepFails, DeleteOrphanUnanswered, OrphanVanished,
         SweepSchedule, LeaveSweep
    <2>3. CASE Delete
      BY <2>3, <1>4 DEF Delete, DeleteInstalled, CleanupFails, RemoveFinalizer,
         RemoveFinalizerRejected, GiveUp, Finish
    <2>4. CASE ReconcileNothing \/ GetFails \/ Reconcile \/ AddFinalizer \/ AddFinalizerRejected
      BY <2>4, <1>3, <1>4 DEF ReconcileNothing, GetFails, Reconcile, AddFinalizer, AddFinalizerRejected,
         GiveUp, Finish, round
    <2>5. CASE Refetch \/ RefetchFails \/ UpdateStatus \/ UpdateStatusRejected
      BY <2>5, <1>4 DEF Refetch, RefetchFails, UpdateStatus, UpdateStatusRejected, GiveUp, Finish
    <2> QED BY <1>5, <2>1, <2>2, <2>3, <2>4, <2>5 DEF Worker
  <1>6. CASE Observe \/ TimerFires \/ Restart
    BY <1>6, <1>3, <1>4 DEF Observe, TimerFires, Restart, round
  <1>7. CASE CreateCR \/ EditCR \/ DeleteCR \/ ForeignCreate \/ ForeignDelete \/ ForeignEdit \/ CollectGarbage
    BY <1>7, <1>3 DEF CreateCR, EditCR, DeleteCR, ForeignCreate, ForeignDelete, ForeignEdit, CollectGarbage,
       Outside, round
  <1>8. CASE UNCHANGED vars
    BY <1>8, <1>3 DEF vars
  <1> QED BY <1>1, <1>2, <1>5, <1>6, <1>7, <1>8 DEF Next

\* The sweep of a round deletes nothing the same round deploys (deployer.go:899
\* keeps step with the constructors), for every spec.
THEOREM SweepSafe == Spec => []SweepSparesPlan
  <1>1. Init => OrphansUnexpected
    BY DEF Init, OrphansUnexpected
  <1>2. TypeOK /\ OrphansUnexpected /\ [Next]_vars => OrphansUnexpected'
    BY OrphansStep
  <1>3. TypeOK /\ OrphansUnexpected => SweepSparesPlan
    <2> SUFFICES ASSUME TypeOK, OrphansUnexpected, pc = "sweep",
                        NEW o \in todo, o \in Plan(inst.spec)
                 PROVE  FALSE
      BY DEF SweepSparesPlan
    <2>1. inst.spec \in Specs /\ inst.spec.on \subseteq Engines
      BY InstTyped, SpecsAssumption
    <2>2. o.kind \in SweptKinds /\ o.name \notin Expected(inst.spec)
      BY <2>1 DEF OrphansUnexpected, ExpectedIn
    <2>3. o.name \in Expected(inst.spec)
      BY <2>1, <2>2, PlanIsExpected
    <2> QED BY <2>2, <2>3
  <1> QED BY <1>1, <1>2, <1>3, TypeCorrect, PTL DEF Spec

-----------------------------------------------------------------------------
\* A name of cleanup's list is gone once it was deleted, unless somebody else
\* has created it since.
Gone(o) == Exists(o) => o \in touched

CleanedSoFar ==
    /\ pc = "cleanup" => \A i \in 1 .. step - 1 : Gone(CleanupOf[inst.spec][i])
    /\ pc = "unfinalize" => \A i \in 1 .. 36 : Gone(CleanupOf[inst.spec][i])

\* Between two steps of a cleanup others only create what they are then charged with.
LEMMA OthersKeepGone ==
    ASSUME CreateCR \/ EditCR \/ DeleteCR \/ ForeignCreate \/ ForeignDelete \/ ForeignEdit \/ CollectGarbage
    PROVE  \A o : (Exists(o) => o \in touched) => (o \in DOMAIN objs' => o \in touched')
  <1>1. CASE CreateCR \/ EditCR \/ DeleteCR
    BY <1>1 DEF CreateCR, EditCR, DeleteCR, Exists
  <1>2. CASE ForeignCreate
    BY <1>2 DEF ForeignCreate, Exists, With
  <1>3. CASE ForeignDelete
    BY <1>3 DEF ForeignDelete, Exists, Without
  <1>4. CASE CollectGarbage
    BY <1>4 DEF CollectGarbage, Exists, Without
  <1>5. CASE ForeignEdit
    BY <1>5 DEF ForeignEdit, Exists, With
  <1> QED BY <1>1, <1>2, <1>3, <1>4, <1>5

\* What a step of cleanup leaves behind it stays gone, unless others create it.
LEMMA CleanedStep ==
    ASSUME TypeOK, CleanedSoFar, [Next]_vars
    PROVE  CleanedSoFar'
  <1>0. CleanupOf' = CleanupOf
    BY DEF CleanupOf
  <1>1. CASE DeleteInstalled
    <2>1. pc = "cleanup" /\ inst.spec \in Specs
      BY <1>1, InstTyped DEF DeleteInstalled
    <2>2. Len(CleanupOf[inst.spec]) = 36 /\ step \in 1 .. 36
      <3>1. Len(CleanupOf[inst.spec]) = 36
        BY <2>1, CleanupLength
      <3>2. step \in Nat \ {0} /\ step <= Len(CleanupOf[inst.spec])
        BY <2>1 DEF TypeOK
      <3> QED BY <3>1, <3>2
    <2>3. \A i \in 1 .. step :
              CleanupOf[inst.spec][i] \in DOMAIN objs' => CleanupOf[inst.spec][i] \in touched'
      <3>1. /\ objs' = Without(objs, {CleanupCall}) /\ touched' = touched \ {CleanupCall}
            /\ CleanupCall = CleanupOf[inst.spec][step]
        BY <1>1 DEF DeleteInstalled, CleanupCall
      <3>2. \A i \in 1 .. step - 1 :
                CleanupOf[inst.spec][i] \in DOMAIN objs => CleanupOf[inst.spec][i] \in touched
        BY <2>1 DEF CleanedSoFar, Gone, Exists
      <3>3. DOMAIN objs' = DOMAIN objs \ {CleanupCall}
        BY <3>1 DEF Without
      <3>4. \A i \in 1 .. step : i = step \/ i \in 1 .. step - 1
        BY <2>2
      <3> QED BY <3>1, <3>2, <3>3, <3>4
    <2>4. \/ pc' = "idle"
          \/ inst' = inst /\ pc' = "cleanup" /\ step' = step + 1
          \/ inst' = inst /\ pc' = "unfinalize" /\ step = 36
      BY <1>1, <2>2 DEF DeleteInstalled, GiveUp, Finish
    <2>5. CASE pc' = "idle"
      BY <2>5 DEF CleanedSoFar
    <2>6. CASE inst' = inst /\ pc' = "cleanup" /\ step' = step + 1
      <3>1. 1 .. step' - 1 = 1 .. step
        BY <2>2, <2>6
      <3> QED BY <1>0, <2>3, <2>6, <3>1 DEF CleanedSoFar, Gone, Exists
    <2>7. CASE inst' = inst /\ pc' = "unfinalize" /\ step = 36
      BY <1>0, <2>3, <2>7 DEF CleanedSoFar, Gone, Exists
    <2> QED BY <2>4, <2>5, <2>6, <2>7
  <1>2. CASE UNCHANGED << pc, inst, step, objs, touched >>
    BY <1>0, <1>2 DEF CleanedSoFar, Gone, Exists
  <1>3. CASE pc' \notin {"cleanup", "unfinalize"}
    BY <1>3 DEF CleanedSoFar
  <1>4. CASE Worker /\ ~ DeleteInstalled
    <2>1. CASE Deploy
      <3>1. pc = "deploy" /\ pc' \in {"deploy", "list"}
        BY <2>1 DEF Deploy, SkipEngine, WriteObject, WriteRefused, ReplaceObject,
           DeleteDrifted, CheckEtcd, SkipSchedule, RemoveSchedule, CallFails, DeployDone,
           InDeploy, AtCall, AtEngine
      <3> QED BY <3>1, <1>3
    <2>2. CASE Sweep
      BY <2>2, <1>3 DEF Sweep, ListKind, DeleteOrphan, SweepFails, DeleteOrphanUnanswered,
         OrphanVanished, SweepSchedule, LeaveSweep
    <2>3. CASE Delete
      BY <1>4, <2>3, <1>3 DEF Delete, CleanupFails, RemoveFinalizer,
         RemoveFinalizerRejected, GiveUp, Finish
    <2>4. CASE ReconcileNothing \/ GetFails \/ AddFinalizer \/ AddFinalizerRejected
      BY <2>4, <1>3 DEF ReconcileNothing, GetFails, AddFinalizer, AddFinalizerRejected, GiveUp, Finish
    <2>5. CASE Reconcile
      <3>1. step' = 1 /\ pc' # "unfinalize"
        BY <2>5 DEF Reconcile, TypeOK
      <3>2. 1 .. step' - 1 = {}
        BY <3>1
      <3> QED BY <3>1, <3>2 DEF CleanedSoFar
    <2>6. CASE Refetch \/ RefetchFails \/ UpdateStatus \/ UpdateStatusRejected
      BY <2>6, <1>3 DEF Refetch, RefetchFails, UpdateStatus, UpdateStatusRejected, GiveUp, Finish
    <2> QED BY <1>4, <2>1, <2>2, <2>3, <2>4, <2>5, <2>6 DEF Worker
  <1>5. CASE Observe \/ TimerFires \/ Restart
    BY <1>5, <1>2, <1>3 DEF Observe, TimerFires, Restart, round
  <1>6. CASE CreateCR \/ EditCR \/ DeleteCR \/ ForeignCreate \/ ForeignDelete \/ ForeignEdit \/ CollectGarbage
    <2>1. UNCHANGED << pc, inst, step >>
      BY <1>6 DEF CreateCR, EditCR, DeleteCR, ForeignCreate, ForeignDelete, ForeignEdit, CollectGarbage,
         Outside, round
    <2> QED BY <1>0, <1>6, <2>1, OthersKeepGone DEF CleanedSoFar, Gone, Exists
  <1>7. CASE UNCHANGED vars
    BY <1>7, <1>2 DEF vars
  <1> QED BY <1>1, <1>4, <1>5, <1>6, <1>7 DEF Next

\* The finalizer is dropped only when all of cleanup's list is gone
\* (reconcileDelete, openebs_controller.go:253-261).
THEOREM FinalizerLast == Spec => FinalizerGoesLast
  <1>1. Init => CleanedSoFar
    BY DEF Init, CleanedSoFar
  <1>2. TypeOK /\ CleanedSoFar /\ [Next]_vars => CleanedSoFar'
    BY CleanedStep
  <1> DEFINE Goes == cr # None /\ cr.fin /\ cr' = None =>
                         \A i \in DOMAIN CleanupOf[cr.spec] :
                             Exists(CleanupOf[cr.spec][i]) => CleanupOf[cr.spec][i] \in touched
  <1>3. TypeOK /\ FinalizerInv /\ CleanedSoFar /\ [Next]_vars => [Goes]_vars
    <2> SUFFICES ASSUME TypeOK, FinalizerInv, CleanedSoFar, Next, cr # None, cr.fin, cr' = None
                 PROVE  \A i \in DOMAIN CleanupOf[cr.spec] :
                             Exists(CleanupOf[cr.spec][i]) => CleanupOf[cr.spec][i] \in touched
      OBVIOUS
    <2>1. RemoveFinalizer
      <3>1. cr \in CRType /\ lastRV + 1 \in Nat \ {0}
        BY NextVersion DEF TypeOK
      <3>2. ~ DeleteCR /\ ~ EditCR /\ ~ AddFinalizer /\ ~ UpdateStatus
        <4>1. ~ AddFinalizer
          BY <3>1, FinalizerTyped, NoneAssumption DEF AddFinalizer
        <4>2. ~ DeleteCR
          BY <3>1, DeletedTyped, NoneAssumption DEF DeleteCR
        <4>3. ~ EditCR
          <5>1. \A s \in Specs : [cr EXCEPT !.spec = s, !.rv = lastRV + 1] \in CRType
            BY <3>1, EditedTyped
          <5>2. EditCR => \E s \in Specs : cr' = [cr EXCEPT !.spec = s, !.rv = lastRV + 1]
            BY DEF EditCR
          <5> QED BY <5>1, <5>2, NoneAssumption
        <4>4. ~ UpdateStatus
          <5>1. results \in ResultsType
            BY DEF TypeOK
          <5>2. [cr EXCEPT !.status = StatusOf(results), !.rv = lastRV + 1] \in CRType
            BY <3>1, <5>1, ReportedTyped
          <5> QED BY <5>2, NoneAssumption DEF UpdateStatus
        <4> QED BY <4>1, <4>2, <4>3, <4>4
      <3>3. ~ UNCHANGED cr
        OBVIOUS
      <3>4. ~ Deploy
        BY <3>3 DEF Deploy, SkipEngine, WriteObject, WriteRefused, ReplaceObject,
           DeleteDrifted, CheckEtcd, SkipSchedule, RemoveSchedule, CallFails, DeployDone,
           InDeploy, api
      <3>5. ~ Sweep
        BY <3>3 DEF Sweep, ListKind, DeleteOrphan, SweepFails, DeleteOrphanUnanswered,
           OrphanVanished, SweepSchedule, LeaveSweep, InSweep, api
      <3>6. ~ ReconcileNothing /\ ~ GetFails /\ ~ Reconcile /\ ~ AddFinalizerRejected /\ ~ Refetch
            /\ ~ RefetchFails /\ ~ UpdateStatusRejected
        BY <3>3 DEF ReconcileNothing, GetFails, Reconcile, AddFinalizerRejected, Refetch, RefetchFails,
           UpdateStatusRejected, api
      <3>7. ~ DeleteInstalled /\ ~ CleanupFails /\ ~ RemoveFinalizerRejected
        BY <3>3 DEF DeleteInstalled, CleanupFails, RemoveFinalizerRejected, api
      <3>8. ~ Observe /\ ~ TimerFires /\ ~ Restart /\ ~ CreateCR /\ ~ ForeignCreate
            /\ ~ ForeignDelete /\ ~ ForeignEdit /\ ~ CollectGarbage
        BY <3>3 DEF Observe, TimerFires, Restart, CreateCR, ForeignCreate, ForeignDelete,
           ForeignEdit, CollectGarbage, api
      <3> QED BY <3>2, <3>4, <3>5, <3>6, <3>7, <3>8 DEF Next, Worker, Delete
    <2>2. pc = "unfinalize" /\ inst.rv = cr.rv /\ inst # None /\ inst.spec \in Specs
      BY <2>1, InstTyped DEF RemoveFinalizer, Current
    <2>3. inst = cr
      BY <2>2 DEF FinalizerInv, CopiesBehind, Behind
    <2>4. DOMAIN CleanupOf[cr.spec] = 1 .. 36
      <3>1. CleanupOf[cr.spec] = CleanupList(cr.spec)
        BY <2>2, <2>3 DEF CleanupOf
      <3>2. DOMAIN CleanupList(cr.spec) = 1 .. 36
        BY DEF CleanupList
      <3> QED BY <3>1, <3>2
    <2> QED BY <2>2, <2>3, <2>4 DEF CleanedSoFar, Gone
  <1>4. Spec => [][Goes]_vars
    BY <1>1, <1>2, <1>3, TypeCorrect, FinalizerInductive, PTL DEF Spec
  <1> QED BY <1>4 DEF FinalizerGoesLast

(***************************************************************************)
(* No resource is forgotten.                                               *)
(***************************************************************************)
\* A version the API server hands out now is not the cached one.
LEMMA NewVersionUnseen ==
    ASSUME TypeOK, FinalizerInv, cr' # None, cr'.rv = lastRV + 1, cache' = cache
    PROVE  (cache # cr)'
  BY CopyTypes DEF FinalizerInv, CopiesBehind, Known

LEMMA RememberedStep ==
    ASSUME TypeOK, FinalizerInv, NeverForgotten, [Next]_vars
    PROVE  NeverForgotten'
  <1>1. CASE ReconcileNothing \/ GetFails
    BY <1>1 DEF ReconcileNothing, GetFails, NeverForgotten, api
  <1>2. CASE Reconcile \/ AddFinalizer \/ AddFinalizerRejected
    BY <1>2 DEF Reconcile, AddFinalizer, AddFinalizerRejected, GiveUp, Finish, NeverForgotten
  <1>3. CASE Deploy
    <2>1. pc' # "idle"
      BY <1>3 DEF Deploy, SkipEngine, WriteObject, WriteRefused, ReplaceObject, DeleteDrifted,
         CheckEtcd, SkipSchedule, RemoveSchedule, CallFails, DeployDone, InDeploy, AtEngine,
         AtCall
    <2> QED BY <2>1 DEF NeverForgotten
  <1>4. CASE Sweep
    <2>1. pc' # "idle"
      BY <1>4 DEF Sweep, ListKind, DeleteOrphan, SweepFails, DeleteOrphanUnanswered,
         OrphanVanished, SweepSchedule, LeaveSweep
    <2> QED BY <2>1 DEF NeverForgotten
  <1>5. CASE Refetch \/ RefetchFails \/ UpdateStatus \/ UpdateStatusRejected
    BY <1>5 DEF Refetch, RefetchFails, UpdateStatus, UpdateStatusRejected, GiveUp, Finish,
       NeverForgotten
  <1>6. CASE Delete
    BY <1>6 DEF Delete, DeleteInstalled, CleanupFails, RemoveFinalizer,
       RemoveFinalizerRejected, GiveUp, Finish, NeverForgotten
  <1>7. CASE Observe \/ TimerFires \/ Restart
    BY <1>7 DEF Observe, TimerFires, Restart, NeverForgotten, api
  <1>8. CASE CreateCR \/ EditCR \/ DeleteCR
    <2>1. cache' = cache
      BY <1>8 DEF CreateCR, EditCR, DeleteCR, Outside
    <2>2. ASSUME cr' # None PROVE cr'.rv = lastRV + 1
      <3>1. CASE CreateCR
        BY <3>1 DEF CreateCR
      <3>2. CASE EditCR
        BY <3>2 DEF EditCR, TypeOK, CRType
      <3>3. CASE DeleteCR
        BY <2>2, <3>3 DEF DeleteCR, TypeOK, CRType
      <3> QED BY <1>8, <3>1, <3>2, <3>3
    <2> QED BY <2>1, <2>2, NewVersionUnseen DEF NeverForgotten
  <1>9. CASE ForeignCreate \/ ForeignDelete \/ ForeignEdit \/ CollectGarbage
    BY <1>9 DEF ForeignCreate, ForeignDelete, ForeignEdit, CollectGarbage, Outside, NeverForgotten, api
  <1>10. CASE UNCHANGED vars
    BY <1>10 DEF vars, NeverForgotten
  <1> QED BY <1>1, <1>2, <1>3, <1>4, <1>5, <1>6, <1>7, <1>8, <1>9, <1>10 DEF Next, Worker

\* While the resource exists a round is under way or will begin: the safety half of
\* self-healing (openebs_controller.go:107 and every early return before it).
THEOREM NothingForgotten == Spec => []NeverForgotten
  <1>1. Init => NeverForgotten
    BY DEF Init, NeverForgotten
  <1> QED BY <1>1, RememberedStep, TypeCorrect, FinalizerInductive, PTL DEF Spec
=============================================================================
