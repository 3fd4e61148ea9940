---------------------------- MODULE RunningProofs ----------------------------
(***************************************************************************)
(* An engine reported Running stands: nothing else in its round takes back *)
(* what it put in place, for every set of specs and every bound.           *)
(***************************************************************************)
EXTENDS ReconcilerProofs

-----------------------------------------------------------------------------
(***************************************************************************)
(* The inductive invariant, in parts. Reported results alone are not       *)
(* enough: the engine being deployed has put objects in place too, call by *)
(* call, and the step that reports it adds its last one.                   *)
(***************************************************************************)
\* What the call was to leave behind is there, or others have changed it since.
Stands(st) ==
    \/ st.obj \in touched
    \/ st.how = "schedule" /\ ~ VeleroInstalled
    \/ Exists(st.obj) /\ objs[st.obj] = Rendered(st)

\* The calls of this round that returned nil.
Done(e, i) ==
    \/ e \in DOMAIN results /\ results[e] = "Running"
    \/ AtEngine /\ e = Engine /\ i < step

\* The spec the round works from gives every engine a class of its own.
ClassesApart == inst # None /\ DistinctClasses(inst.spec)

DoneStands ==
    ClassesApart =>
        \A e \in inst.spec.on : \A i \in DOMAIN CallsOf[inst.spec][e] :
            Done(e, i) /\ Writes(CallsOf[inst.spec][e][i]) => Stands(CallsOf[inst.spec][e][i])

\* Results are of enabled engines, and of the round under way.
ResultsFit ==
    /\ pc \notin Working => results = Nothing
    /\ \A e \in DOMAIN results : e \in inst.spec.on

StandInv == DoneStands /\ ResultsFit

-----------------------------------------------------------------------------
(* What a step leaves alone.                                                *)

\* No step takes o away, or changes it, without o being charged to others.
Kept(o) ==
    /\ o \in touched => o \in touched'
    /\ o \in touched' \/ (Exists(o) => o \in DOMAIN objs' /\ objs'[o] = objs[o])

\* The tables of calls do not change.
LEMMA CallsFixed == CallsOf' = CallsOf
  BY DEF CallsOf

\* What stood still stands if the object is kept.
LEMMA StandsKept ==
    ASSUME inst' = inst, NEW st, Stands(st), Kept(st.obj)
    PROVE  Stands(st)'
  BY DEF Stands, Kept, Exists, Rendered

\* What was just written stands.
LEMMA WrittenStands ==
    ASSUME inst' = inst, NEW st, objs' = With(objs, st.obj, Rendered(st))
    PROVE  Stands(st)'
  BY DEF Stands, Exists, Rendered, With

\* Writing or removing one object keeps the others, and charges nobody.
LEMMA OneObject ==
    ASSUME NEW o, NEW v, touched' = touched \ {o},
           objs' = With(objs, o, v) \/ objs' = Without(objs, {o})
    PROVE  \A x : x # o => Kept(x)
  BY DEF Kept, Exists, With, Without

\* Leaving the objects alone keeps all of them.
LEMMA NoObject ==
    ASSUME UNCHANGED << objs, touched >>
    PROVE  \A x : Kept(x)
  BY DEF Kept, Exists

\* The calls of an enabled engine are counted from one.
LEMMA CallIndex ==
    ASSUME NEW s \in Specs, NEW e \in s.on, NEW i \in DOMAIN CallsOf[s][e]
    PROVE  e \in Engines /\ CallsOf[s][e] = Steps(s, e) /\ i \in Nat \ {0} /\ i <= Len(CallsOf[s][e])
  <1>1. e \in Engines BY SpecsAssumption
  <1>2. CallsOf[s][e] = Steps(s, e) BY <1>1 DEF CallsOf
  <1>3. Len(CallsOf[s][e]) \in Nat BY <1>1, CallListLengths
  <1>4. i \in 1 .. Len(CallsOf[s][e]) BY <1>1, <1>2, StepsDomain
  <1> QED BY <1>1, <1>2, <1>3, <1>4

\* A call under way is one of the spec's.
LEMMA CallTyped ==
    ASSUME TypeOK, AtEngine, Engine \in inst.spec.on
    PROVE  /\ inst # None /\ inst.spec \in Specs /\ inst.spec.on \subseteq Engines
           /\ EngineSteps = CallsOf[inst.spec][Engine] /\ EngineSteps = Steps(inst.spec, Engine)
           /\ Len(EngineSteps) \in Nat /\ step \in Nat /\ step <= Len(EngineSteps)
           /\ step \in DOMAIN EngineSteps
  <1>1. inst # None /\ inst.spec \in Specs BY InstTyped DEF AtEngine
  <1>2. inst.spec.on \subseteq Engines BY <1>1, SpecsAssumption
  <1>3. Engine \in Engines BY <1>2
  <1>4. EngineSteps = CallsOf[inst.spec][Engine] BY DEF EngineSteps
  <1>5. EngineSteps = Steps(inst.spec, Engine) BY <1>1, <1>3, <1>4 DEF CallsOf
  <1>6. DOMAIN EngineSteps = 1 .. Len(EngineSteps) BY <1>3, <1>5, StepsDomain
  <1>7. step \in Nat \ {0} /\ step <= Len(EngineSteps) BY DEF TypeOK
  <1>8. Len(EngineSteps) \in Nat BY EngineTyped
  <1> QED BY <1>1, <1>2, <1>4, <1>5, <1>6, <1>7, <1>8

-----------------------------------------------------------------------------
(* The calls that have returned nil, before a step and after it.            *)

\* Advance adds the call under way to those that returned nil.
LEMMA AdvanceDone ==
    ASSUME TypeOK, AtEngine, Engine \in inst.spec.on, Advance, UNCHANGED << pc, inst >>,
           NEW e, NEW i \in Nat \ {0}, e = Engine => i <= Len(EngineSteps), Done(e, i)'
    PROVE  Done(e, i) \/ (e = Engine /\ i = step)
  <1>1. Len(EngineSteps) \in Nat /\ step \in Nat /\ step <= Len(EngineSteps)
    BY CallTyped
  <1>2. CASE step < Len(EngineSteps)
    <2>1. step' = step + 1 /\ eng' = eng /\ results' = results
      BY <1>2 DEF Advance
    <2>2. CASE e \in DOMAIN results' /\ results'[e] = "Running"
      BY <2>1, <2>2 DEF Done
    <2>3. CASE (AtEngine /\ e = Engine /\ i < step)'
      <3>1. e = Engine /\ i < step + 1
        BY <2>1, <2>3 DEF Engine
      <3> QED BY <1>1, <3>1 DEF Done
    <2> QED BY <2>2, <2>3 DEF Done
  <1>3. CASE ~ (step < Len(EngineSteps))
    <2>1. step' = 1 /\ results' = With(results, Engine, "Running")
      BY <1>3 DEF Advance
    <2>2. e \in DOMAIN results' /\ results'[e] = "Running"
      BY <2>1 DEF Done
    <2>3. CASE e = Engine
      BY <1>1, <1>3, <2>3 DEF Done
    <2>4. CASE e # Engine
      BY <2>1, <2>2, <2>4 DEF Done, With
    <2> QED BY <2>3, <2>4
  <1> QED BY <1>2, <1>3

\* Abandon takes the calls of the engine under way out, and adds none.
LEMMA AbandonDone ==
    ASSUME Abandon, NEW e, NEW i \in Nat \ {0}, Done(e, i)'
    PROVE  Done(e, i) /\ e # Engine
  <1>1. step' = 1 /\ results' = With(results, Engine, "Failed")
    BY DEF Abandon
  <1>2. e \in DOMAIN results' /\ results'[e] = "Running"
    BY <1>1 DEF Done
  <1>3. e # Engine
    BY <1>1, <1>2 DEF With
  <1> QED BY <1>1, <1>2, <1>3 DEF Done, With

-----------------------------------------------------------------------------
(* deployEngines.                                                           *)

\* One API call of a deploy function keeps what earlier calls put in place: it
\* changes no object but its own, and no earlier call wrote that one, unless it is
\* a namespace, written alike. If it returns nil its own object stands.
LEMMA CallStep ==
    ASSUME TypeOK, StandInv, AtEngine, Engine \in inst.spec.on, UNCHANGED << pc, inst >>,
           Advance \/ Abandon,
           NEW c, c = Call,
           \A o : Kept(o) \/ (o = c.obj /\ c.how # "etcdhealth"),
           Advance /\ Writes(c) => Stands(c)',
           c.how = "namespace" => (\A o : Kept(o)) \/ Stands(c)'
    PROVE  DoneStands'
  <1> SUFFICES ASSUME ClassesApart, NEW e \in inst.spec.on, NEW i \in DOMAIN CallsOf[inst.spec][e],
                      Done(e, i)', NEW st, st = CallsOf[inst.spec][e][i], Writes(st)
               PROVE  Stands(st)'
    BY CallsFixed DEF DoneStands, ClassesApart, DistinctClasses
  <1>1. /\ inst # None /\ inst.spec \in Specs /\ inst.spec.on \subseteq Engines
        /\ EngineSteps = CallsOf[inst.spec][Engine] /\ EngineSteps = Steps(inst.spec, Engine)
        /\ step \in DOMAIN EngineSteps
    BY CallTyped
  <1>2. /\ CallsOf[inst.spec][e] = Steps(inst.spec, e)
        /\ i \in Nat \ {0} /\ i <= Len(CallsOf[inst.spec][e])
    BY <1>1, CallIndex
  <1>3. \/ Done(e, i) /\ (Abandon => e # Engine)
        \/ Advance /\ e = Engine /\ i = step
    <2>1. e = Engine => i <= Len(EngineSteps)
      BY <1>1, <1>2
    <2>2. CASE Abandon
      BY <1>2, <2>2, AbandonDone
    <2>3. CASE Advance /\ ~ Abandon
      BY <1>2, <2>1, <2>3, AdvanceDone
    <2> QED BY <2>2, <2>3
  <1>4. CASE Advance /\ e = Engine /\ i = step
    <2>1. st = c
      BY <1>1, <1>4 DEF Call
    <2> QED BY <1>4, <2>1
  <1>5. CASE Done(e, i) /\ (Abandon => e # Engine)
    <2>1. Stands(st)
      BY <1>5 DEF StandInv, DoneStands
    <2>2. CASE Kept(st.obj)
      BY <2>1, <2>2, StandsKept
    <2>3. CASE st.obj = c.obj /\ c.how # "etcdhealth" /\ ~ Kept(st.obj)
      <3>1. c = Steps(inst.spec, Engine)[step] /\ st = Steps(inst.spec, e)[i]
        BY <1>1, <1>2 DEF Call
      <3>2. st.how # "etcdhealth"
        BY DEF Writes
      <3>3. \A x, y \in inst.spec.on : x # y => ClassName(inst.spec, x) # ClassName(inst.spec, y)
        BY DEF ClassesApart, DistinctClasses
      <3>4. \/ e = Engine /\ i = step
            \/ e # Engine /\ st.how = "namespace" /\ st = c
        BY <1>1, <1>2, <2>3, <3>1, <3>2, <3>3, OneWriter
      <3>5. CASE e = Engine /\ i = step
        <4>1. st = c /\ Advance
          BY <1>5, <3>1, <3>5
        <4> QED BY <4>1
      <3>6. CASE st.how = "namespace" /\ st = c
        BY <2>3, <3>6
      <3> QED BY <3>4, <3>5, <3>6
    <2> QED BY <2>2, <2>3
  <1> QED BY <1>3, <1>4, <1>5

\* A result added to the others is of an enabled engine.
LEMMA CallResults ==
    ASSUME StandInv, AtEngine, Engine \in inst.spec.on, UNCHANGED << pc, inst >>,
           Advance \/ Abandon
    PROVE  ResultsFit'
  <1>1. pc' \in Working
    BY DEF AtEngine, Working
  <1>2. results' = results \/ \E v : results' = With(results, Engine, v)
    BY DEF Advance, Abandon
  <1> QED BY <1>1, <1>2 DEF StandInv, ResultsFit, With

\* A step of the same round after which no more calls have returned nil, and whose
\* objects stand as they did.
LEMMA StandingStep ==
    ASSUME TypeOK, StandInv, inst' = inst,
           \A e : \A i \in Nat \ {0} : Done(e, i)' => Done(e, i),
           ASSUME NEW e \in inst.spec.on, NEW i \in DOMAIN CallsOf[inst.spec][e],
                  inst # None, inst.spec \in Specs, Done(e, i), NEW st,
                  st = CallsOf[inst.spec][e][i], Writes(st), Stands(st)
           PROVE  Stands(st)'
    PROVE  DoneStands'
  <1> SUFFICES ASSUME ClassesApart, NEW e \in inst.spec.on, NEW i \in DOMAIN CallsOf[inst.spec][e],
                      Done(e, i)', NEW st, st = CallsOf[inst.spec][e][i], Writes(st)
               PROVE  Stands(st)'
    BY CallsFixed DEF DoneStands, ClassesApart, DistinctClasses
  <1>1. inst # None /\ inst.spec \in Specs
    BY InstTyped DEF TypeOK, ClassesApart
  <1>2. Done(e, i)
    BY <1>1, CallIndex
  <1>3. Stands(st)
    BY <1>2 DEF StandInv, DoneStands
  <1> QED BY <1>1, <1>2, <1>3

\* A step of the same round that changes no object.
LEMMA QuietStep ==
    ASSUME TypeOK, StandInv, inst' = inst, UNCHANGED << objs, touched >>,
           \A e : \A i \in Nat \ {0} : Done(e, i)' => Done(e, i)
    PROVE  DoneStands'
  <1>1. \A o : Kept(o) BY NoObject
  <1>2. ASSUME NEW st, Stands(st) PROVE Stands(st)'
    BY <1>1, <1>2, StandsKept
  <1> QED BY <1>2, StandingStep

\* A step of others, or none at all, that changes no object.
LEMMA StillStep ==
    ASSUME TypeOK, StandInv, UNCHANGED << pc, inst, eng, step, results, objs, touched >>
    PROVE  StandInv'
  <1>1. \A e : \A i \in Nat \ {0} : Done(e, i)' => Done(e, i)
    BY DEF Done, AtEngine, Engine
  <1>2. DoneStands' BY <1>1, QuietStep
  <1> QED BY <1>2 DEF StandInv, ResultsFit

\* A call returns nil or an error, not both.
LEMMA AdvanceOrAbandon ==
    ASSUME TypeOK, Abandon
    PROVE  ~ Advance
  <1> SUFFICES ASSUME Advance PROVE FALSE OBVIOUS
  <1>1. step \in Nat \ {0} BY DEF TypeOK
  <1>2. results' = With(results, Engine, "Failed") /\ step' = 1 BY DEF Abandon
  <1>3. results' = With(results, Engine, "Running") BY <1>1, <1>2 DEF Advance
  <1>4. results'[Engine] = "Failed" BY <1>2 DEF With
  <1>5. results'[Engine] = "Running" BY <1>3 DEF With
  <1> QED BY <1>4, <1>5

\* A call that changes no object, and fails or has nothing to write.
LEMMA IdleCall ==
    ASSUME TypeOK, StandInv, AtEngine, Engine \in inst.spec.on, UNCHANGED << pc, inst >>,
           Advance \/ Abandon, UNCHANGED << objs, touched >>,
           Advance => ~ Writes(Call) \/ (Call.how = "schedule" /\ ~ VeleroInstalled)
    PROVE  StandInv'
  <1>1. PICK c : c = Call OBVIOUS
  <1>2. \A o : Kept(o) BY NoObject
  <1>3. Advance /\ Writes(c) => Stands(c)'
    BY <1>1 DEF Stands
  <1>4. DoneStands' BY <1>1, <1>2, <1>3, CallStep
  <1> QED BY <1>4, CallResults DEF StandInv

\* A call that fails and changes no object.
LEMMA FailedCall ==
    ASSUME TypeOK, StandInv, AtEngine, Engine \in inst.spec.on, Abandon,
           UNCHANGED << pc, inst, objs, touched >>
    PROVE  StandInv'
  <1>1. ~ Advance BY AdvanceOrAbandon
  <1> QED BY <1>1, IdleCall

\* A call that writes its object, whether its reply arrives or not.
LEMMA WritingCall ==
    ASSUME TypeOK, StandInv, AtEngine, Engine \in inst.spec.on, UNCHANGED << pc, inst >>,
           Advance \/ Abandon, touched' = touched \ {Call.obj}, Call.how # "etcdhealth",
           objs' = With(objs, Call.obj, Rendered(Call))
    PROVE  StandInv'
  <1>1. PICK c : c = Call OBVIOUS
  <1>2. Stands(c)' BY <1>1, WrittenStands
  <1>3. \A o : o # c.obj => Kept(o) BY <1>1, OneObject
  <1>4. DoneStands' BY <1>1, <1>2, <1>3, CallStep
  <1> QED BY <1>4, CallResults DEF StandInv

\* A call that removes its object, and does not count as one that writes it.
LEMMA RemovingCall ==
    ASSUME TypeOK, StandInv, AtEngine, Engine \in inst.spec.on, UNCHANGED << pc, inst >>,
           Abandon \/ (Advance /\ ~ Writes(Call)), touched' = touched \ {Call.obj},
           Call.how \notin {"etcdhealth", "namespace"},
           objs' = Without(objs, {Call.obj})
    PROVE  StandInv'
  <1>1. PICK c : c = Call OBVIOUS
  <1>2. ~ (Advance /\ Abandon) BY AdvanceOrAbandon
  <1>3. \A o : o # c.obj => Kept(o) BY <1>1, OneObject
  <1>4. Advance /\ Writes(c) => Stands(c)' BY <1>1, <1>2
  <1>5. DoneStands' BY <1>1, <1>3, <1>4, CallStep
  <1> QED BY <1>5, CallResults DEF StandInv

\* Every action of deployEngines keeps the invariant.
LEMMA DeployStands ==
    ASSUME TypeOK, StandInv, Deploy
    PROVE  StandInv'
  <1>1. CASE SkipEngine
    <2>1. /\ AtEngine /\ Engine \notin inst.spec.on /\ eng' = eng + 1
          /\ UNCHANGED << pc, inst, objs, step, results, touched >>
      BY <1>1 DEF SkipEngine, InDeploy
    <2>2. step = 1 BY <2>1 DEF TypeOK
    <2>3. \A e : \A i \in Nat \ {0} : Done(e, i)' => Done(e, i)
      BY <2>1, <2>2 DEF Done
    <2>4. DoneStands' BY <2>1, <2>3, QuietStep
    <2> QED BY <2>1, <2>4 DEF StandInv, ResultsFit
  <1>2. CASE WriteObject
    <2>1. /\ AtEngine /\ Engine \in inst.spec.on /\ UNCHANGED << pc, inst >>
          /\ Advance \/ Abandon
          /\ touched' = touched \ {Call.obj} /\ objs' = With(objs, Call.obj, Rendered(Call))
          /\ Call.how \in WriteCalls
      BY <1>2 DEF WriteObject, AtCall, InDeploy
    <2> QED BY <2>1, WritingCall DEF WriteCalls
  <1>3. CASE WriteRefused
    <2>1. /\ AtEngine /\ Engine \in inst.spec.on /\ UNCHANGED << pc, inst, objs, touched >>
          /\ Abandon
      BY <1>3 DEF WriteRefused, AtCall, InDeploy
    <2> QED BY <2>1, FailedCall
  <1>4. CASE ReplaceObject
    <2>1. /\ AtEngine /\ Engine \in inst.spec.on /\ UNCHANGED << pc, inst >>
          /\ touched' = touched \ {Call.obj} /\ Call.how \in {"storageclass", "service"}
          /\ \/ objs' = With(objs, Call.obj, Rendered(Call)) /\ (Advance \/ Abandon)
             \/ objs' = Without(objs, {Call.obj}) /\ Abandon
      BY <1>4 DEF ReplaceObject, AtCall, InDeploy
    <2> QED BY <2>1, WritingCall, RemovingCall
  <1>5. CASE DeleteDrifted
    <2>1. /\ AtEngine /\ Engine \in inst.spec.on /\ UNCHANGED << pc, inst >>
          /\ touched' = touched \ {Call.obj} /\ Call.how = "statefulset"
          /\ objs' = Without(objs, {Call.obj}) /\ Abandon
      BY <1>5 DEF DeleteDrifted, AtCall, InDeploy
    <2> QED BY <2>1, RemovingCall
  <1>6. CASE CheckEtcd
    <2>1. /\ AtEngine /\ Engine \in inst.spec.on /\ UNCHANGED << pc, inst, objs, touched >>
          /\ Advance \/ Abandon
          /\ Call.how = "etcdhealth"
      BY <1>6 DEF CheckEtcd, AtCall, InDeploy
    <2> QED BY <2>1, IdleCall DEF Writes
  <1>7. CASE SkipSchedule
    <2>1. /\ AtEngine /\ Engine \in inst.spec.on /\ UNCHANGED << pc, inst, objs, touched >>
          /\ Advance /\ Call.how = "schedule" /\ ~ VeleroInstalled
      BY <1>7 DEF SkipSchedule, AtCall, InDeploy
    <2> QED BY <2>1, IdleCall
  <1>8. CASE RemoveSchedule
    <2>1. /\ AtEngine /\ Engine \in inst.spec.on /\ UNCHANGED << pc, inst >>
          /\ touched' = touched \ {Call.obj} /\ Call.how = "unschedule"
          /\ objs' = Without(objs, {Call.obj}) /\ (Advance \/ Abandon)
      BY <1>8 DEF RemoveSchedule, AtCall, InDeploy
    <2> QED BY <2>1, RemovingCall DEF Writes
  <1>9. CASE CallFails
    <2>1. /\ AtEngine /\ Engine \in inst.spec.on /\ UNCHANGED << pc, inst, objs, touched >>
          /\ Abandon
      BY <1>9 DEF CallFails, AtCall, InDeploy
    <2> QED BY <2>1, FailedCall
  <1>10. CASE DeployDone
    <2>1. /\ pc' = "list" /\ pc = "deploy"
          /\ UNCHANGED << inst, objs, results, touched >>
      BY <1>10 DEF DeployDone
    <2>2. \A e : \A i \in Nat \ {0} : Done(e, i)' => Done(e, i)
      BY <2>1 DEF Done, AtEngine
    <2>3. DoneStands' BY <2>1, <2>2, QuietStep
    <2> QED BY <2>1, <2>3 DEF StandInv, ResultsFit, Working
  <1> QED
    BY <1>1, <1>2, <1>3, <1>4, <1>5, <1>6, <1>7, <1>8, <1>9, <1>10 DEF Deploy

-----------------------------------------------------------------------------
(* cleanupOrphans.                                                          *)

\* The object of a writing call is of the plan.
LEMMA CallInPlan ==
    ASSUME NEW s \in Specs, NEW e \in s.on, NEW i \in DOMAIN CallsOf[s][e],
           Writes(CallsOf[s][e][i])
    PROVE  CallsOf[s][e][i].obj \in Plan(s)
  <1>1. CallsOf[s][e] = Steps(s, e) BY CallIndex
  <1> QED BY <1>1 DEF Plan, PlanSteps

\* Within the sweep only reported results count, and they stay.
LEMMA SweepDone ==
    ASSUME pc \in {"list", "sweep"}, results' = results, pc' # "deploy"
    PROVE  \A e : \A i \in Nat \ {0} : Done(e, i)' => Done(e, i)
  BY DEF Done, AtEngine

\* Removing an object no call of the round writes takes back nothing.
LEMMA SparingStep ==
    ASSUME TypeOK, StandInv, inst' = inst, results' = results,
           pc \in {"list", "sweep"}, pc' \in {"list", "sweep", "refetch"},
           NEW o, objs' = Without(objs, {o}), touched' = touched \ {o},
           ASSUME NEW e \in inst.spec.on, NEW i \in DOMAIN CallsOf[inst.spec][e],
                  inst.spec \in Specs, Writes(CallsOf[inst.spec][e][i])
           PROVE  CallsOf[inst.spec][e][i].obj # o
    PROVE  StandInv'
  <1>1. \A x : x # o => Kept(x) BY OneObject
  <1>2. ASSUME NEW st, Stands(st), st.obj # o PROVE Stands(st)'
    BY <1>1, <1>2, StandsKept
  <1>3. \A e : \A i \in Nat \ {0} : Done(e, i)' => Done(e, i)
    BY SweepDone
  <1>4. DoneStands'
    BY <1>2, <1>3, StandingStep
  <1>5. ResultsFit'
    BY DEF StandInv, ResultsFit, Working
  <1> QED BY <1>4, <1>5 DEF StandInv

\* A step of the sweep that removes nothing.
LEMMA IdleSweep ==
    ASSUME TypeOK, StandInv, inst' = inst, results' = results,
           pc \in {"list", "sweep"}, pc' \in {"list", "sweep", "refetch"},
           UNCHANGED << objs, touched >>
    PROVE  StandInv'
  <1>1. \A e : \A i \in Nat \ {0} : Done(e, i)' => Done(e, i)
    BY SweepDone
  <1>2. DoneStands' BY <1>1, QuietStep
  <1>3. ResultsFit' BY DEF StandInv, ResultsFit, Working
  <1> QED BY <1>2, <1>3 DEF StandInv

\* Every action of cleanupOrphans keeps the invariant: an orphan is of no call of
\* this round, and the Schedule goes only if the spec asks for none.
LEMMA SweepStands ==
    ASSUME TypeOK, StandInv, SweepSparesPlan, Sweep
    PROVE  StandInv'
  <1>1. CASE ListKind
    <2>1. /\ pc = "list" /\ pc' \in {"list", "sweep"}
          /\ UNCHANGED << inst, results, objs, touched >>
      BY <1>1 DEF ListKind, InSweep
    <2> QED BY <2>1, IdleSweep
  <1>2. CASE SweepFails \/ OrphanVanished
    <2>1. /\ pc \in {"list", "sweep"} /\ pc' = "refetch"
          /\ UNCHANGED << inst, results, objs, touched >>
      BY <1>2 DEF SweepFails, OrphanVanished, LeaveSweep, InSweep
    <2> QED BY <2>1, IdleSweep
  <1>3. CASE DeleteOrphan \/ DeleteOrphanUnanswered
    <2>1. /\ pc = "sweep" /\ pc' \in {"list", "sweep", "refetch"}
          /\ UNCHANGED << inst, results >>
      BY <1>3 DEF DeleteOrphan, DeleteOrphanUnanswered, LeaveSweep, InSweep
    <2>2. PICK o \in todo : objs' = Without(objs, {o}) /\ touched' = touched \ {o}
      BY <1>3 DEF DeleteOrphan, DeleteOrphanUnanswered
    <2>3. o \notin Plan(inst.spec)
      BY <2>1, <2>2 DEF SweepSparesPlan
    <2>4. ASSUME NEW e \in inst.spec.on, NEW i \in DOMAIN CallsOf[inst.spec][e],
                 inst.spec \in Specs, Writes(CallsOf[inst.spec][e][i])
          PROVE  CallsOf[inst.spec][e][i].obj # o
      BY <2>3, <2>4, CallInPlan
    <2> QED BY <2>1, <2>2, <2>4, SparingStep
  <1>4. CASE SweepSchedule
    <2> DEFINE o == mayastorEtcdVeleroSchedule(inst.spec).obj
    <2>1. /\ pc = "list" /\ pc' = "refetch"
          /\ UNCHANGED << inst, results >>
      BY <1>4 DEF SweepSchedule, LeaveSweep, InSweep
    <2>2. CASE ScheduleWanted(inst.spec)
      <3>1. UNCHANGED << objs, touched >>
        BY <1>4, <2>2 DEF SweepSchedule
      <3> QED BY <2>1, <3>1, IdleSweep
    <2>3. CASE ~ ScheduleWanted(inst.spec)
      <3>1. objs' = Without(objs, {o}) /\ touched' = touched \ {o}
        BY <1>4, <2>3 DEF SweepSchedule
      <3>2. o.kind = "Schedule"
        BY DEF mayastorEtcdVeleroSchedule, Labelled, Build, Obj
      <3>3. ASSUME NEW e \in inst.spec.on, NEW i \in DOMAIN CallsOf[inst.spec][e],
                   inst.spec \in Specs, Writes(CallsOf[inst.spec][e][i])
            PROVE  CallsOf[inst.spec][e][i].obj # o
        <4>1. CallsOf[inst.spec][e] = Steps(inst.spec, e) BY <3>3, CallIndex
        <4>2. inst.spec.on \subseteq Engines BY <3>3, SpecsAssumption
        <4> QED BY <2>3, <3>2, <3>3, <4>1, <4>2, ScheduleCall
      <3> QED BY <2>1, <3>1, <3>3, SparingStep
    <2> QED BY <2>2, <2>3
  <1> QED BY <1>1, <1>2, <1>3, <1>4 DEF Sweep

-----------------------------------------------------------------------------
(* The rest of the round, and the others.                                   *)

\* A round that begins, or has ended, has no call that returned nil.
LEMMA NoneDone ==
    ASSUME TypeOK', results' = Nothing, step' = 1 \/ ~ AtEngine'
    PROVE  DoneStands' /\ ResultsFit'
  <1>1. ResultsFit' BY DEF ResultsFit, Nothing
  <1>2. ASSUME ClassesApart', NEW e \in inst'.spec.on, NEW i \in DOMAIN CallsOf[inst'.spec][e]
        PROVE  ~ Done(e, i)'
    <2>1. inst'.spec \in Specs
      BY <1>2, NoneAssumption DEF ClassesApart, TypeOK, CRType
    <2>2. i \in Nat \ {0} BY <2>1, CallIndex
    <2> QED BY <2>2 DEF Done, Nothing
  <1>3. DoneStands' BY <1>2, CallsFixed DEF DoneStands, ClassesApart
  <1> QED BY <1>1, <1>3

\* Every action of the worker outside deployEngines and cleanupOrphans.
LEMMA RoundStands ==
    ASSUME TypeOK, TypeOK', StandInv, Worker, ~ Deploy, ~ Sweep
    PROVE  StandInv'
  <1>1. CASE ReconcileNothing \/ GetFails
    <2>1. UNCHANGED << pc, inst, eng, step, results, objs, touched >>
      BY <1>1 DEF ReconcileNothing, GetFails, round
    <2> QED BY <2>1, StillStep
  <1>2. CASE Reconcile
    <2>1. /\ pc = "idle" /\ step = 1
          /\ UNCHANGED << step, results, objs, touched >>
      BY <1>2 DEF Reconcile, TypeOK
    <2>2. results' = Nothing BY <2>1 DEF StandInv, ResultsFit, Working
    <2> QED BY <2>1, <2>2, NoneDone DEF StandInv
  <1>3. CASE AddFinalizer \/ AddFinalizerRejected
    <2>1. /\ pc = "finalize" /\ step' = 1 /\ UNCHANGED << objs, touched >>
          /\ results' = results \/ results' = Nothing
      BY <1>3 DEF AddFinalizer, AddFinalizerRejected, GiveUp, Finish, TypeOK
    <2>2. results' = Nothing BY <2>1 DEF StandInv, ResultsFit, Working
    <2> QED BY <2>1, <2>2, NoneDone DEF StandInv
  <1>4. CASE Refetch
    <2>1. /\ pc = "refetch" /\ pc' = "status"
          /\ UNCHANGED << inst, results, objs, touched >>
      BY <1>4 DEF Refetch
    <2>2. \A e : \A i \in Nat \ {0} : Done(e, i)' => Done(e, i)
      BY <2>1 DEF Done, AtEngine
    <2>3. DoneStands' BY <2>1, <2>2, QuietStep
    <2> QED BY <2>1, <2>3 DEF StandInv, ResultsFit, Working
  <1>5. CASE RefetchFails \/ UpdateStatus \/ UpdateStatusRejected
    <2>1. /\ results' = Nothing /\ step' = 1 /\ UNCHANGED << objs, touched >>
      BY <1>5 DEF RefetchFails, UpdateStatus, UpdateStatusRejected, GiveUp, Finish
    <2> QED BY <2>1, NoneDone DEF StandInv
  <1>6. CASE Delete
    <2>1. /\ pc \in {"cleanup", "unfinalize"} /\ pc' # "deploy"
          /\ results' = results \/ results' = Nothing
      BY <1>6 DEF Delete, DeleteInstalled, CleanupFails, RemoveFinalizer,
         RemoveFinalizerRejected, GiveUp, Finish
    <2>2. results' = Nothing BY <2>1 DEF StandInv, ResultsFit, Working
    <2> QED BY <2>1, <2>2, NoneDone DEF StandInv, AtEngine
  <1> QED BY <1>1, <1>2, <1>3, <1>4, <1>5, <1>6 DEF Worker

\* The informer, delayed requests and a restart.
LEMMA RuntimeStands ==
    ASSUME TypeOK, TypeOK', StandInv, Observe \/ TimerFires \/ Restart
    PROVE  StandInv'
  <1>1. CASE Observe \/ TimerFires
    <2>1. UNCHANGED << pc, inst, eng, step, results, objs, touched >>
      BY <1>1 DEF Observe, TimerFires, round
    <2> QED BY <2>1, StillStep
  <1>2. CASE Restart
    <2>1. results' = Nothing /\ step' = 1 /\ UNCHANGED << objs, touched >>
      BY <1>2 DEF Restart
    <2> QED BY <2>1, NoneDone DEF StandInv
  <1> QED BY <1>1, <1>2

\* Users, other clients and the garbage collector: what they change is charged to
\* them, and the collector takes nothing of the resource the round works for.
LEMMA OutsideStands ==
    ASSUME TypeOK, StandInv, FinalizerInv,
           CreateCR \/ EditCR \/ DeleteCR \/ ForeignCreate \/ ForeignDelete \/ ForeignEdit \/ CollectGarbage
    PROVE  StandInv'
  <1>0. UNCHANGED << pc, inst, eng, step, results >>
    BY DEF CreateCR, EditCR, DeleteCR, ForeignCreate, ForeignDelete, ForeignEdit, CollectGarbage,
       Outside, round
  <1>1. CASE CreateCR \/ EditCR \/ DeleteCR
    <2>1. UNCHANGED << objs, touched >>
      BY <1>1 DEF CreateCR, EditCR, DeleteCR
    <2> QED BY <1>0, <2>1, StillStep
  <1>2. ResultsFit' BY <1>0 DEF StandInv, ResultsFit
  <1>3. \A e : \A i \in Nat \ {0} : Done(e, i)' => Done(e, i)
    BY <1>0 DEF Done, AtEngine, Engine
  <1>4. CASE ForeignCreate \/ ForeignDelete \/ ForeignEdit
    <2>1. \A x : Kept(x)
      <3>1. ASSUME NEW o, touched' = touched \cup {o},
                   objs' = Without(objs, {o}) \/ (\E v : objs' = With(objs, o, v))
            PROVE  \A x : Kept(x)
        BY <3>1 DEF Kept, Exists, With, Without
      <3>2. CASE ForeignCreate BY <3>1, <3>2 DEF ForeignCreate
      <3>3. CASE ForeignDelete BY <3>1, <3>3 DEF ForeignDelete
      <3>4. CASE ForeignEdit BY <3>1, <3>4 DEF ForeignEdit
      <3> QED BY <1>4, <3>2, <3>3, <3>4
    <2>2. ASSUME NEW st, Stands(st) PROVE Stands(st)'
      BY <1>0, <2>1, <2>2, StandsKept
    <2>3. DoneStands' BY <1>0, <1>3, <2>2, StandingStep
    <2> QED BY <1>2, <2>3 DEF StandInv
  <1>5. CASE CollectGarbage
    <2>1. PICK o \in DOMAIN objs :
             /\ objs[o].owner # NoOwner
             /\ ~ (cr # None /\ cr.uid = objs[o].owner)
             /\ objs' = Without(objs, {o})
             /\ touched' = touched
      BY <1>5 DEF CollectGarbage
    <2>2. \A x : x # o => Kept(x) BY <2>1 DEF Kept, Exists, Without
    <2>3. ASSUME NEW e, NEW i, Done(e, i) PROVE cr # None /\ cr.uid = inst.uid
      <3>1. pc \in Working
        BY <2>3 DEF Done, StandInv, ResultsFit, Nothing, AtEngine, Working
      <3> QED BY <3>1 DEF FinalizerInv, WorksForLiveResource, Working
    <2>4. ASSUME NEW e, NEW i, Done(e, i), NEW st, Stands(st) PROVE Stands(st)'
      <3>1. CASE st.obj # o
        BY <1>0, <2>2, <2>4, <3>1, StandsKept
      <3>2. CASE st.obj = o
        <4>1. ~ (objs[o] = Rendered(st))
          BY <2>1, <2>3, <2>4 DEF Rendered
        <4>2. st.obj \in touched \/ (st.how = "schedule" /\ ~ VeleroInstalled)
          BY <2>4, <3>2, <4>1 DEF Stands
        <4> QED BY <2>1, <4>2 DEF Stands
      <3> QED BY <3>1, <3>2
    <2>5. DoneStands' BY <1>0, <1>3, <2>4, StandingStep
    <2> QED BY <1>2, <2>5 DEF StandInv
  <1> QED BY <1>1, <1>4, <1>5

-----------------------------------------------------------------------------
\* The inductive invariant behind the next theorem: every call that returned nil in
\* this round has its object in place until the round ends, whatever comes between
\* two calls.
THEOREM CallsStand == Spec => []StandInv
  <1>1. Init => StandInv
    <2> SUFFICES ASSUME Init PROVE StandInv OBVIOUS
    <2>1. inst = None /\ results = Nothing BY DEF Init
    <2>2. DoneStands BY <2>1 DEF DoneStands, ClassesApart
    <2>3. ResultsFit BY <2>1 DEF ResultsFit, Nothing
    <2> QED BY <2>2, <2>3 DEF StandInv
  <1>2. TypeOK /\ TypeOK' /\ FinalizerInv /\ SweepSparesPlan /\ StandInv /\ [Next]_vars
        => StandInv'
    <2> SUFFICES ASSUME TypeOK, TypeOK', FinalizerInv, SweepSparesPlan, StandInv, [Next]_vars
                 PROVE  StandInv'
      OBVIOUS
    <2>1. CASE Deploy BY <2>1, DeployStands
    <2>2. CASE Sweep BY <2>2, SweepStands
    <2>3. CASE Worker /\ ~ Deploy /\ ~ Sweep BY <2>3, RoundStands
    <2>4. CASE Observe \/ TimerFires \/ Restart BY <2>4, RuntimeStands
    <2>5. CASE CreateCR \/ EditCR \/ DeleteCR \/ ForeignCreate \/ ForeignDelete \/ ForeignEdit \/ CollectGarbage
      BY <2>5, OutsideStands
    <2>6. CASE UNCHANGED vars BY <2>6, StillStep DEF vars
    <2> QED BY <2>1, <2>2, <2>3, <2>4, <2>5, <2>6 DEF Next
  <1> QED BY <1>1, <1>2, TypeCorrect, FinalizerInductive, SweepSafe, PTL DEF Spec

\* An engine the round reports Running has every object of its plan in place when
\* the status is computed (deployEngines, deployer.go:75-135): no later engine, no
\* sweep and no removal of the schedule in the same round takes one back.
THEOREM RunningMeansStanding == Spec => []RunningEnginesStand
  <1>1. TypeOK /\ StandInv => RunningEnginesStand
    <2> SUFFICES ASSUME TypeOK, StandInv, NEW e \in DOMAIN results, results[e] = "Running",
                        DistinctClasses(inst.spec), NEW st \in PlanOf[inst.spec][e]
                 PROVE  Stands(st)
      BY DEF RunningEnginesStand, Stands
    <2>1. pc \in Working /\ e \in inst.spec.on
      BY DEF StandInv, ResultsFit, Nothing
    <2>2. inst # None /\ inst.spec \in Specs
      BY <2>1, InstTyped DEF Working
    <2>3. e \in Engines BY <2>1, <2>2, SpecsAssumption
    <2>4. /\ PlanOf[inst.spec][e] = PlanSteps(inst.spec, e)
          /\ CallsOf[inst.spec][e] = Steps(inst.spec, e)
      BY <2>2, <2>3 DEF PlanOf, CallsOf
    <2>5. PICK i \in DOMAIN CallsOf[inst.spec][e] : st = CallsOf[inst.spec][e][i] /\ Writes(st)
      BY <2>4 DEF PlanSteps
    <2>6. Done(e, i) BY DEF Done
    <2> QED BY <2>1, <2>2, <2>5, <2>6 DEF StandInv, DoneStands, ClassesApart
  <1> QED BY <1>1, CallsStand, TypeCorrect, PTL
=============================================================================
