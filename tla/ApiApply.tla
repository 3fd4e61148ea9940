------------------------------ MODULE ApiApply ------------------------------
(***************************************************************************)
(* One object under the deployer's apply helpers, call by call.            *)
(*                                                                         *)
(* The module Reconciler takes an apply as one step. Here it is what the   *)
(* code does: a Get answered by the informer's copy, an Update that        *)
(* carries the version of that copy, up to Attempts rounds of this on a    *)
(* conflict, and for drifted objects a Delete without a precondition, then *)
(* a Create in the same call (StorageClass, Service) or in a later one     *)
(* (StatefulSet). Several appliers - two managers during an upgrade of the *)
(* operator - work on the object, and other clients change, delete and     *)
(* create it, between any two calls. The object is described as in         *)
(* Reconciler: owner, managed-by label, immutable and mutable content.     *)
(*                                                                         *)
(* Of resourceVersions only equality with the present one matters: a copy  *)
(* is fresh until the object changes.                                      *)
(***************************************************************************)
EXTENDS Naturals

CONSTANTS
    Kinds,          \* the helpers, one of which applies the object
    Appliers,       \* who applies: the workers of the managers
    Wants,          \* the contents specs ask for
    Foreigners,     \* what other clients create, or write into the object
    Gone,           \* no object
    Attempts,       \* retry.DefaultRetry.Steps
    MaxEdits,       \* bound: how often an applier learns of another spec
    MaxTrouble      \* bound: failing calls, crashes, and changes by others

VARIABLES
    kind,       \* the helper: apply, storageclass, statefulset, service, unstructured
    obj,        \* the object in the API server, or Gone
    view,       \* the informer's copy in each applier's process
    seen,       \* the copy the present attempt decides on ("existing")
    pc,         \* where each applier is
    ask,        \* what the spec asks each applier for
    want,       \* what its present call renders
    tries,      \* attempts begun in this call
    stamped,    \* the request carries a resourceVersion
    result,     \* how the last call returned; none while it runs
    author,     \* not in the code: who has changed the object last
    replaced,   \* not in the code: what a replacing call has deleted while nobody
                \* has created it again, its author, and who deleted it
    used        \* how much of each bound has been used

vars ==
    << kind, obj, author, view, seen, pc, ask, want, tries, stamped, result, replaced, used >>

Uid    == 1         \* the uid of the OpenEBS resource
Others == "others"  \* other clients and controllers

Objects == [owner : {0, Uid}, labelled : BOOLEAN, imm : STRING, mut : STRING]

Helpers   == {"apply", "storageclass", "statefulset", "service", "unstructured"}
Replacing == {"storageclass", "service"}
Deleting  == {"statefulset"}

\* The helpers that delete only what is the operator's.
Guarded   == {"statefulset", "service"}

ASSUME ApplyAssumption ==
    /\ Kinds \subseteq Helpers
    /\ Wants # {} /\ Wants \subseteq [imm : STRING, mut : STRING]
    /\ Foreigners \subseteq Objects
    /\ Gone \notin Objects
    /\ Others \notin Appliers
    /\ Attempts \in Nat \ {0}

Render(d) == [owner |-> Uid, labelled |-> TRUE, imm |-> d.imm, mut |-> d.mut]

\* IsControlledBy(instance), or the managed-by label.
Owned(o) == o.owner = Uid \/ o.labelled

\* A copy: what was read, whether that is the present version still, and whether
\* nobody but the reader has changed the object since (not in the code). What the
\* reader knows of a Service is out of date after its own changes too: one call
\* deletes and creates it.
CopyOf(o) == [what |-> o, fresh |-> TRUE, own |-> TRUE]

NoCopy    == [what |-> Gone, fresh |-> FALSE, own |-> FALSE]

Aged(copies, by) ==
    [w \in Appliers |-> [copies[w] EXCEPT !.fresh = FALSE, !.own = @ /\ w = by]]

AgedViews(by) == Aged(view, IF kind = "service" THEN Others ELSE by)

NotReplaced == [what |-> Gone, author |-> Others, by |-> Others]

Init ==
    /\ kind \in Kinds
    /\ obj = Gone
    /\ view = [w \in Appliers |-> CopyOf(Gone)]
    /\ seen = [w \in Appliers |-> NoCopy]
    /\ pc = [w \in Appliers |-> "idle"]
    /\ \E d \in Wants : ask = [w \in Appliers |-> d]
    /\ want = ask
    /\ tries = [w \in Appliers |-> 0]
    /\ stamped = [w \in Appliers |-> FALSE]
    /\ result = [w \in Appliers |-> "none"]
    /\ author = Others
    /\ replaced = NotReplaced
    /\ used = [edits |-> 0, trouble |-> 0]

-----------------------------------------------------------------------------
Trouble == used.trouble < MaxTrouble /\ used' = [used EXCEPT !.trouble = @ + 1]
Smooth  == UNCHANGED used

Go(w, to) == pc' = [pc EXCEPT ![w] = to]

\* The helper returns: nil is "ok".
Return(w, r) ==
    /\ Go(w, "idle")
    /\ tries' = [tries EXCEPT ![w] = 0]
    /\ stamped' = [stamped EXCEPT ![w] = FALSE]
    /\ result' = [result EXCEPT ![w] = r]

\* The object is now o, by the hand of w: no copy is fresh any more.
Changed(o, w) ==
    /\ obj' = o
    /\ author' = w
    /\ view' = AgedViews(w)

\* What a call has read is forgotten with it.
Forget(copies, w) == [copies EXCEPT ![w] = NoCopy]

\* An error is returned, and this call has changed nothing.
Refused(w) ==
    /\ Return(w, "err")
    /\ seen' = Forget(seen, w)
    /\ replaced' = IF replaced.by = w THEN NotReplaced ELSE replaced
    /\ UNCHANGED << kind, obj, author, view, ask, want >>

\* A write that takes effect; its reply arrives, or is lost. A write that changes
\* nothing leaves the version alone.
Written(w) ==
    /\ \/ Smooth /\ Return(w, "ok")
       \/ Trouble /\ Return(w, "err")
    /\ IF obj = Render(want[w])
       THEN seen' = Forget(seen, w) /\ UNCHANGED << obj, author, view, replaced >>
       ELSE /\ Changed(Render(want[w]), w)
            /\ seen' = Forget(Aged(seen, w), w)
            /\ replaced' = NotReplaced
    /\ UNCHANGED << kind, ask, want >>

-----------------------------------------------------------------------------
Begin(w) ==
    /\ pc[w] = "idle"
    /\ Go(w, "get")
    /\ want' = [want EXCEPT ![w] = ask[w]]
    /\ tries' = [tries EXCEPT ![w] = 1]
    /\ result' = [result EXCEPT ![w] = "none"]
    /\ UNCHANGED << kind, obj, author, view, seen, ask, stamped, replaced, used >>

\* Reads go to the informer's copy, but for unstructured objects.
Source(w) == IF kind = "unstructured" THEN CopyOf(obj) ELSE view[w]

\* applyStatefulSet and applyService compare what they have read themselves.
Drifted(w, o) == kind \in Guarded /\ o.imm # want[w].imm

\* d.Get: found or not, and then drifted or not.
Get(w) ==
    /\ pc[w] = "get"
    /\ seen' = [seen EXCEPT ![w] = Source(w)]
    /\ LET o == Source(w).what IN
       \/ o = Gone /\ Go(w, "create") /\ UNCHANGED stamped
       \/ /\ o # Gone /\ Drifted(w, o) /\ Owned(o)
          /\ Go(w, "delete") /\ UNCHANGED stamped
       \/ /\ o # Gone /\ ~ Drifted(w, o)
          /\ Go(w, "update") /\ stamped' = [stamped EXCEPT ![w] = TRUE]
    /\ UNCHANGED << kind, obj, author, view, ask, want, tries, result, replaced, used >>

\* Drifted, and not the operator's: "delete it manually".
GetForeign(w) ==
    /\ pc[w] = "get"
    /\ LET o == Source(w).what IN o # Gone /\ Drifted(w, o) /\ ~ Owned(o)
    /\ Refused(w) /\ Smooth

Update(w) ==
    /\ pc[w] = "update"
    /\ seen[w].fresh /\ obj.imm = want[w].imm
    /\ Written(w)

\* The object has changed: RetryOnConflict begins again, Attempts times in all.
\* The request keeps the resourceVersion it was given.
UpdateConflict(w) ==
    /\ pc[w] = "update"
    /\ obj # Gone /\ ~ seen[w].fresh
    /\ kind # "unstructured" /\ tries[w] < Attempts
    /\ Go(w, "get")
    /\ tries' = [tries EXCEPT ![w] = @ + 1]
    /\ seen' = Forget(seen, w)
    /\ UNCHANGED << kind, obj, author, view, ask, want, stamped, result, replaced, used >>

\* Mutant: Invalid is returned like any other error.
UpdateInvalidReported(w) ==
    /\ pc[w] = "update"
    /\ kind = "storageclass"
    /\ seen[w].fresh /\ obj.imm # want[w].imm
    /\ Refused(w) /\ Smooth

\* Mutant: any error of the Update has the class deleted, not only Invalid.
UpdateErrorDeletes(w) ==
    /\ pc[w] = "update"
    /\ kind = "storageclass"
    /\ obj # Gone
    /\ seen[w].fresh => obj.imm # want[w].imm
    /\ Go(w, "reread")
    /\ UNCHANGED << kind, obj, author, view, seen, ask, want, tries, stamped >>
    /\ UNCHANGED << result, replaced, used >>

\* applyStorageClass after Invalid: the class is read again, but only to be deleted,
\* whatever it is by then; the decision rests on what the Update met.
UpdateInvalid(w) ==
    /\ pc[w] = "update"
    /\ kind = "storageclass"
    /\ seen[w].fresh /\ obj.imm # want[w].imm
    /\ Go(w, "reread")
    /\ UNCHANGED << kind, obj, author, view, seen, ask, want, tries, stamped >>
    /\ UNCHANGED << result, replaced, used >>

\* NotFound; Conflict once more; Invalid.
UpdateRefused(w) ==
    /\ pc[w] = "update"
    /\ \/ obj = Gone
       \/ ~ seen[w].fresh /\ (kind = "unstructured" \/ tries[w] = Attempts)
       \/ seen[w].fresh /\ obj.imm # want[w].imm /\ kind # "storageclass"
    /\ Refused(w) /\ Smooth

Reread(w) ==
    /\ pc[w] = "reread"
    /\ view[w].what # Gone
    /\ Go(w, "delete")
    /\ UNCHANGED << kind, obj, author, view, seen, ask, want, tries, stamped >>
    /\ UNCHANGED << result, replaced, used >>

RereadNotFound(w) ==
    /\ pc[w] = "reread"
    /\ view[w].what = Gone
    /\ Refused(w) /\ Smooth

\* Mutant: the drift error counts as a conflict, and RetryOnConflict goes on.
DeleteAndRetry(w) ==
    /\ pc[w] = "delete"
    /\ obj # Gone
    /\ Changed(Gone, w)
    /\ seen' = Forget(Aged(seen, w), w)
    /\ Go(w, "get")
    /\ Smooth
    /\ UNCHANGED << kind, ask, want, tries, stamped, result, replaced >>

\* Mutant: applyStatefulSet creates at once, like applyService.
DeleteAndCreate(w) ==
    /\ pc[w] = "delete"
    /\ obj # Gone
    /\ Changed(Gone, w)
    /\ seen' = Aged(seen, w)
    /\ Go(w, "recreate")
    /\ stamped' = [stamped EXCEPT ![w] = FALSE]
    /\ replaced' = [what |-> obj, author |-> author, by |-> w]
    /\ Smooth
    /\ UNCHANGED << kind, ask, want, tries, result >>

\* The Delete names the object and no version: it takes what is there now.
Delete(w) ==
    /\ pc[w] = "delete"
    /\ obj # Gone
    /\ Changed(Gone, w)
    /\ \/ /\ kind \in Replacing /\ Smooth
          /\ seen' = Aged(seen, w)
          /\ Go(w, "recreate")
          /\ stamped' = [stamped EXCEPT ![w] = FALSE]
          /\ replaced' = [what |-> obj, author |-> author, by |-> w]
          /\ UNCHANGED << tries, result >>
       \/ /\ IF kind \in Deleting THEN Smooth ELSE Trouble
          /\ seen' = Forget(Aged(seen, w), w)
          /\ Return(w, "err")
          /\ UNCHANGED replaced
    /\ UNCHANGED << kind, ask, want >>

DeleteNotFound(w) ==
    /\ pc[w] = "delete"
    /\ obj = Gone
    /\ Refused(w) /\ Smooth

Create(w) ==
    /\ pc[w] \in {"create", "recreate"}
    /\ ~ stamped[w] /\ obj = Gone
    /\ Written(w)

\* AlreadyExists; or the request still has the resourceVersion of an earlier
\* attempt, which the API server does not accept on a new object.
CreateRefused(w) ==
    /\ pc[w] \in {"create", "recreate"}
    /\ stamped[w] \/ obj # Gone
    /\ Refused(w) /\ Smooth

\* Any call may fail without an effect.
CallFails(w) ==
    /\ pc[w] # "idle"
    /\ Refused(w) /\ Trouble

Step(w) ==
    \/ Begin(w) \/ Get(w) \/ GetForeign(w)
    \/ Update(w) \/ UpdateConflict(w) \/ UpdateInvalid(w) \/ UpdateRefused(w)
    \/ Reread(w) \/ RereadNotFound(w)
    \/ Delete(w) \/ DeleteNotFound(w)
    \/ Create(w) \/ CreateRefused(w) \/ CallFails(w)

-----------------------------------------------------------------------------
\* A watch event brings the informer of w up to date.
Observe(w) ==
    /\ ~ view[w].fresh
    /\ view' = [view EXCEPT ![w] = CopyOf(obj)]
    /\ UNCHANGED << kind, obj, author, seen, pc, ask, want, tries, stamped >>
    /\ UNCHANGED << result, replaced, used >>

\* A crash of the manager of w; its new informer lists the object.
Restart(w) ==
    /\ Trouble
    /\ IF pc[w] = "idle" THEN UNCHANGED << pc, tries, stamped, result >>
                         ELSE Return(w, "err")
    /\ view' = [view EXCEPT ![w] = CopyOf(obj)]
    /\ seen' = Forget(seen, w)
    /\ replaced' = IF replaced.by = w THEN NotReplaced ELSE replaced
    /\ UNCHANGED << kind, obj, author, ask, want >>

\* The spec is edited; each manager learns of it in its own time.
Edit(w) ==
    /\ used.edits < MaxEdits
    /\ used' = [used EXCEPT !.edits = @ + 1]
    /\ \E d \in Wants \ {ask[w]} : ask' = [ask EXCEPT ![w] = d]
    /\ UNCHANGED << kind, obj, author, view, seen, pc, want, tries, stamped, result, replaced >>

\* Another client creates, edits or deletes the object.
Meddle ==
    /\ Trouble
    /\ \E f \in Foreigners :
           \/ obj = Gone /\ Changed(f, Others)
           \/ obj # Gone /\ Changed([obj EXCEPT !.mut = f.mut], Others)
           \/ obj # Gone /\ Changed(Gone, Others)
    /\ seen' = Aged(seen, Others)
    /\ replaced' = NotReplaced
    /\ UNCHANGED << kind, pc, ask, want, tries, stamped, result >>

\* A controller writes the object's status: a new version of the same content.
ReportStatus ==
    /\ Trouble
    /\ obj # Gone
    /\ view' = [w \in Appliers |-> [view[w] EXCEPT !.fresh = FALSE]]
    /\ seen' = [w \in Appliers |-> [seen[w] EXCEPT !.fresh = FALSE]]
    /\ UNCHANGED << kind, obj, author, pc, ask, want, tries, stamped, result, replaced >>

Next ==
    \/ \E w \in Appliers : Step(w) \/ Observe(w) \/ Restart(w) \/ Edit(w)
    \/ Meddle \/ ReportStatus

Spec == Init /\ [][Next]_vars

(***************************************************************************)
(* Each manager keeps making rounds (the requeue), its calls return, and   *)
(* its informer delivers what has changed.                                 *)
(***************************************************************************)
FairSpec == Spec /\ \A w \in Appliers : WF_vars(Step(w)) /\ WF_vars(Observe(w))
-----------------------------------------------------------------------------
Copies == [what : Objects \cup {Gone}, fresh : BOOLEAN, own : BOOLEAN]

Types ==
    /\ kind \in Helpers
    /\ obj \in Objects \cup {Gone}
    /\ view \in [Appliers -> Copies] /\ seen \in [Appliers -> Copies]
    /\ pc \in [Appliers -> {"idle", "get", "update", "reread", "delete", "create", "recreate"}]
    /\ ask \in [Appliers -> Wants] /\ want \in [Appliers -> Wants]
    /\ tries \in [Appliers -> 0 .. Attempts]
    /\ stamped \in [Appliers -> BOOLEAN]
    /\ result \in [Appliers -> {"none", "ok", "err"}]
    /\ author \in Appliers \cup {Others}
    /\ replaced \in [what : Objects \cup {Gone}, author : Appliers \cup {Others},
                     by : Appliers \cup {Others}]
    /\ used \in [edits : Nat, trouble : Nat]

\* Where only some of the helpers get to.
Stations ==
    \A w \in Appliers :
        /\ pc[w] = "recreate" => kind \in Replacing
        /\ pc[w] = "reread" => kind = "storageclass"
        /\ pc[w] = "delete" => kind \in Replacing \cup Deleting

\* Type correctness: a call never makes more than Attempts attempts, only the three
\* helpers that compare immutable fields, or are told of them, ever delete, and only
\* a replacing helper gets as far as to create after a delete.
TypeOK == Types /\ Stations

\* A delete (deployer.go:569, 626, 664) names no version, and the copy it was decided
\* on may be old; yet unless somebody else has changed the object since, what it
\* deletes is drifted, and for a StatefulSet or a Service the operator's own: the
\* applier's earlier writes, which its cache may not show yet, never make it delete
\* the object it has just repaired. Of a Service this holds only while the applier
\* itself has not changed it since either: applyService creates in the call that
\* deletes, so the next call may read the old Service from the cache and delete the
\* new one.
JudgedRight ==
    \A w \in Appliers :
        pc[w] = "delete" /\ seen[w].own /\ obj # Gone =>
            /\ obj.imm # want[w].imm
            /\ kind \in Guarded => Owned(obj)

\* What an applier acts on: its call's own copy once it has decided to delete.
Basis(w) == IF pc[w] \in {"reread", "delete", "recreate"} THEN seen[w] ELSE view[w]

\* An apply is one step, as in Reconciler: the module AtomicApply, in which a
\* replaced object is seen to be gone only when the call that deleted it gives up.
Atomic == INSTANCE AtomicApply WITH
    object  <- IF replaced.what = Gone THEN obj ELSE replaced.what,
    author  <- IF replaced.what = Gone THEN author ELSE replaced.author,
    current <- {w \in Appliers : Basis(w).own},
    pending <- {w \in Appliers : pc[w] # "idle"}

ImplementsAtomicApply == Atomic!ASpec

\* What the helper refuses to touch, or cannot change.
Stuck(d) ==
    /\ obj # Gone /\ obj.imm # d.imm
    /\ kind \in {"apply", "unstructured"} \/ (kind \in Guarded /\ ~ Owned(obj))

\* Once the managers agree on what is wanted and others leave the object alone, it
\* becomes what is wanted and stays so, but for an object of others that the helper
\* must not touch: five attempts, stale copies and deletes by name do no lasting harm.
Settles ==
    \A d \in Wants :
        <>[](\A w \in Appliers : ask[w] = d) => <>[](obj = Render(d) \/ Stuck(d))
=============================================================================
