---------------------------- MODULE AtomicApply ----------------------------
(***************************************************************************)
(* What one apply of the deployer promises about one object, the step the  *)
(* module Reconciler takes for it: between the moment it is called and the *)
(* moment it returns it takes effect at most once, and that in the step    *)
(* that returns. It returns nil only if the object was then as rendered;   *)
(* it fails without an effect, with its effect (a lost reply), or, where   *)
(* the helper may delete, with the object gone. What it takes away is      *)
(* drifted, unless somebody else has changed the object since the applier  *)
(* last saw it.                                                            *)
(***************************************************************************)
CONSTANTS
    Appliers,       \* who applies: the workers of the managers
    Others,         \* other clients and controllers
    Wants,          \* what a spec may ask of the object
    Render(_),      \* the object as the constructor renders it
    Owned(_),       \* whether an object is the operator's
    Gone,           \* no object
    Replacing,      \* the helpers that delete and create an object in one call
    Deleting,       \* the helpers that delete it and leave it to a later call
    Guarded         \* the helpers that delete only what is the operator's

VARIABLES
    kind,           \* the helper that applies the object
    object,         \* the object, or Gone
    author,         \* who has changed the object last
    current,        \* the appliers whose picture of the object nobody else has outdated
    pending,        \* the appliers whose call has not returned
    want,           \* what each call was asked to apply
    result          \* how the last call of each applier returned; none while it runs

avars == << kind, object, author, current, pending, want, result >>

AInit ==
    /\ object = Gone
    /\ author = Others
    /\ current = Appliers
    /\ pending = {}
    /\ want \in [Appliers -> Wants]
    /\ result = [w \in Appliers |-> "none"]

-----------------------------------------------------------------------------
\* Nobody's picture of the object becomes worse.
NoneOutdated == current \subseteq current'

\* By the hand of w: at worst only w itself still knows the object, and of a Service,
\* which is replaced outright, not even w.
Alters(w) ==
    /\ author' = w
    /\ w \in current /\ kind # "service" => w \in current'

Call(w) ==
    /\ w \notin pending
    /\ pending' = pending \cup {w}
    /\ \E d \in Wants : want' = [want EXCEPT ![w] = d]
    /\ result' = [result EXCEPT ![w] = "none"]
    /\ NoneOutdated
    /\ UNCHANGED << kind, object, author >>

Return(w, r) ==
    /\ w \in pending
    /\ pending' = pending \ {w}
    /\ result' = [result EXCEPT ![w] = r]
    /\ UNCHANGED << kind, want >>

\* In place only if the immutable fields agree; else by delete and create.
Install(w) ==
    /\ object # Gone /\ kind \notin Replacing => object.imm = Render(want[w]).imm
    /\ object' = Render(want[w])
    /\ Alters(w) \/ (NoneOutdated /\ UNCHANGED << object, author >>)
    /\ Return(w, "ok") \/ Return(w, "err")

\* The drifted object is gone, and not created again.
Remove(w) ==
    /\ kind \in Replacing \cup Deleting
    /\ object # Gone
    /\ w \in current =>
           /\ object.imm # Render(want[w]).imm
           /\ kind \in Guarded => Owned(object)
    /\ object' = Gone
    /\ Alters(w)
    /\ Return(w, "err")

Fail(w) ==
    /\ Return(w, "err")
    /\ NoneOutdated
    /\ UNCHANGED << object, author >>

\* A call that is about to replace the object outdates the pictures of the others.
Unsettle(w) ==
    /\ kind \in Replacing /\ w \in pending
    /\ current' = current \cap {w}
    /\ UNCHANGED << kind, object, author, pending, want, result >>

\* Watch events.
Learn ==
    /\ NoneOutdated
    /\ UNCHANGED << kind, object, author, pending, want, result >>

\* Other clients do what they like with the object, and no applier knows of it yet.
Meddle ==
    /\ author' = Others
    /\ current' = {}
    /\ UNCHANGED << kind, pending, want, result >>

ANext ==
    \/ \E w \in Appliers : Call(w) \/ Install(w) \/ Remove(w) \/ Fail(w) \/ Unsettle(w)
    \/ Learn \/ Meddle

ASpec == AInit /\ [][ANext]_avars
=============================================================================
