------------------------------ MODULE Lifecycle ------------------------------
(***************************************************************************)
(* What the operator promises about the life of an OpenEBS resource, which *)
(* the module Reconciler implements: nothing is installed for a resource   *)
(* that is not there under the finalizer; a resource under the finalizer   *)
(* goes only at the end of a cleanup made for it, after it was marked      *)
(* deleted; a cleanup never begins for a resource that is to stay.         *)
(***************************************************************************)
EXTENDS Naturals

VARIABLES
    resource,   \* the resource: its uid, whether it has the finalizer and is marked deleted
    worker,     \* what the operator is doing, and for which uid
    owners,     \* the uids that own an object
    lastUid     \* the last uid given to a resource

lvars == << resource, worker, owners, lastUid >>

Absent == [uid |-> 0, fin |-> FALSE, del |-> FALSE]

Rest          == [stage |-> "rest", uid |-> 0]
Installing(u) == [stage |-> "install", uid |-> u]
Cleaning(u)   == [stage |-> "clean", uid |-> u]
Cleaned(u)    == [stage |-> "cleaned", uid |-> u]

LInit ==
    /\ resource = Absent
    /\ worker = Rest
    /\ owners = {}
    /\ lastUid = 0

-----------------------------------------------------------------------------
\* Users create a resource, and delete it: at once, or, under the finalizer, by a
\* mark that stays.
Create ==
    /\ resource = Absent
    /\ lastUid' = lastUid + 1
    /\ resource' = [uid |-> lastUid', fin |-> FALSE, del |-> FALSE]
    /\ UNCHANGED << worker, owners >>

Vanish ==
    /\ resource # Absent /\ ~ resource.fin
    /\ resource' = Absent
    /\ UNCHANGED << worker, owners, lastUid >>

MarkDeleted ==
    /\ resource.fin /\ ~ resource.del
    /\ resource' = [resource EXCEPT !.del = TRUE]
    /\ UNCHANGED << worker, owners, lastUid >>

\* The finalizer comes first; the installation may follow at once.
Protect ==
    /\ worker = Rest
    /\ resource # Absent /\ ~ resource.del
    /\ resource' = [resource EXCEPT !.fin = TRUE]
    /\ worker' \in {Rest, Installing(resource.uid)}
    /\ UNCHANGED << owners, lastUid >>

\* The mark may already be there: the operator works from a copy that may be old.
BeginInstall ==
    /\ worker = Rest
    /\ resource.fin
    /\ worker' = Installing(resource.uid)
    /\ UNCHANGED << resource, owners, lastUid >>

\* Objects are written, replaced or removed for the resource that is there.
Install ==
    /\ resource.fin
    /\ worker = Installing(resource.uid)
    /\ owners' \subseteq owners \cup {worker.uid}
    /\ UNCHANGED << resource, worker, lastUid >>

\* The resource may be gone already, and another one there, but it was marked.
BeginCleanup ==
    /\ worker = Rest
    /\ \E u \in 1 .. lastUid :
        /\ u = resource.uid => resource.del
        /\ worker' = Cleaning(u)
    /\ UNCHANGED << resource, owners, lastUid >>

EndCleanup ==
    /\ worker = Cleaning(worker.uid)
    /\ worker' = Cleaned(worker.uid)
    /\ owners' \subseteq owners
    /\ UNCHANGED << resource, lastUid >>

\* The finalizer is dropped, and the resource goes with it.
Forget ==
    /\ resource.del
    /\ worker = Cleaned(resource.uid)
    /\ resource' = Absent /\ worker' = Rest
    /\ UNCHANGED << owners, lastUid >>

\* At any time objects may go (the sweep, a cleanup, the garbage collector, other
\* clients), and the worker may end its round (done, an error, a crash).
Lose ==
    /\ owners' \subseteq owners
    /\ worker' \in {worker, Rest}
    /\ UNCHANGED << resource, lastUid >>

LNext ==
    \/ Create \/ Vanish \/ MarkDeleted
    \/ Protect \/ BeginInstall \/ Install
    \/ BeginCleanup \/ EndCleanup \/ Forget
    \/ Lose

LSpec == LInit /\ [][LNext]_lvars
=============================================================================
