------------------------- MODULE CrdBreakingCheck -------------------------
(***************************************************************************)
(* The check a pull request that touches the CRD must pass                 *)
(* (hack/crd-breaking-check): it compares the schema of every version the  *)
(* new CRD has with that of the same version in the released one. Here it  *)
(* runs release after release, while resources are stored in between.      *)
(*                                                                         *)
(* A schema has a node for every property, the nested ones included. It is *)
(* a function from their paths, the sequences of property names that       *)
(* compareSchemas carries as prefix, to what the check looks at: the type, *)
(* the enum (empty: any value) and the required properties. A resource has *)
(* a value at every path, in the same way.                                 *)
(***************************************************************************)
EXTENDS Sequences, FiniteSets

CONSTANTS
    Names,      \* the names of properties
    Crds,       \* the CRDs there may be: versions with their schemas
    Values,     \* the values a resource may have at a path, with their types
    NoSchema,   \* a version without a schema
    None        \* no pull request

\* Every path but the root extends another one by a name.
IsTree(t) ==
    /\ << >> \in DOMAIN t
    /\ \A p \in DOMAIN t :
           /\ p \in Seq(Names)
           /\ p = << >> \/ \E q \in DOMAIN t, f \in Names : p = Append(q, f)

ASSUME CrdAssumption ==
    /\ None \notin Crds
    /\ \A c \in Crds : \A v \in DOMAIN c : c[v] = NoSchema \/ IsTree(c[v])

VARIABLES
    crd,        \* the released CRD
    pr,         \* the CRD of the pull request that is checked, or None
    todo,       \* the versions the check has not compared yet
    breaking,   \* the changes it has found
    stored      \* resources: the version each was stored in, and its content

vars == << crd, pr, todo, breaking, stored >>

-----------------------------------------------------------------------------
(* The comparison.                                                          *)

\* The properties of the schema at a path.
Properties(s, p) == {f \in Names : Append(p, f) \in DOMAIN s}

TypeChanges(p, old, new) ==
    IF old[p].type # new[p].type THEN {<< p, "type" >>} ELSE {}

RequiredChanges(p, old, new) ==
    {<< Append(p, f), "required" >> : f \in new[p].required \ old[p].required} \cup
    {<< Append(p, f), "optional" >> : f \in old[p].required \ new[p].required}

\* Mutant: values that were dropped are passed over.
EnumAdditions(p, old, new) ==
    {<< p, "enum" >> : v \in new[p].enum \ old[p].enum}

\* Looked at only if the new schema has an enum.
EnumChanges(p, old, new) ==
    IF new[p].enum = {} THEN {}
    ELSE {<< p, "enum" >> : v \in (new[p].enum \ old[p].enum) \cup (old[p].enum \ new[p].enum)}

Removed(p, old, new) ==
    {<< Append(p, f), "removed" >> : f \in Properties(old, p) \ Properties(new, p)}

\* compareSchemas: it descends into the properties both schemas have, so it comes
\* to the paths both have; an added property is fine.
Compare(old, new) ==
    UNION {TypeChanges(p, old, new) \cup RequiredChanges(p, old, new)
           \cup EnumChanges(p, old, new) \cup Removed(p, old, new) :
               p \in DOMAIN old \cap DOMAIN new}

-----------------------------------------------------------------------------
(* What a schema accepts, by the API server's rules. Fields a schema does   *)
(* not know are pruned before a resource is stored.                         *)

\* The value at a path both have is what the node asks for.
Fits(node, d, p) ==
    /\ d[p].type = node.type
    /\ node.enum = {} \/ d[p].value \in node.enum
    /\ d[p].type = "object" => \A f \in node.required : Append(p, f) \in DOMAIN d

Accepts(s, d) == \A p \in DOMAIN d \cap DOMAIN s : Fits(s[p], d, p)

\* Only an object has something below it.
IsResource(d) ==
    /\ IsTree(d)
    /\ \A p \in DOMAIN d, f \in Names : Append(p, f) \in DOMAIN d => d[p].type = "object"

\* The resources a schema accepts, after pruning.
Accepted(s) ==
    {d \in UNION {[P -> Values] : P \in SUBSET DOMAIN s} : IsResource(d) /\ Accepts(s, d)}

\* The API server takes a CRD whose versions all have schemas, and that keeps the
\* versions in which resources are stored (status.storedVersions).
Servable(c) ==
    /\ \A v \in DOMAIN c : c[v] # NoSchema
    /\ \A r \in stored : r.version \in DOMAIN c

-----------------------------------------------------------------------------
Init ==
    /\ stored = {}
    /\ crd \in {c \in Crds : \A v \in DOMAIN c : c[v] # NoSchema}
    /\ pr = None /\ todo = {} /\ breaking = {}

\* A pull request changes the CRD, and the check starts.
Propose ==
    /\ pr = None
    /\ pr' \in Crds \ {crd}
    /\ todo' = DOMAIN pr'
    /\ UNCHANGED << crd, breaking, stored >>

\* Both CRDs have the version, and a schema for it.
Comparable(v) == v \in DOMAIN crd /\ pr[v] # NoSchema /\ crd[v] # NoSchema

\* Mutant: a version the released CRD lacks is a change as well.
CheckVersionAdded(v) ==
    /\ v \in todo
    /\ todo' = todo \ {v}
    /\ breaking' = breaking \cup
           {[version |-> v, change |-> x] :
               x \in IF Comparable(v) THEN Compare(crd[v], pr[v])
                                      ELSE {<< << >>, "type" >>}}
    /\ UNCHANGED << crd, pr, stored >>

\* One round of the loop in main.
CheckVersion(v) ==
    /\ v \in todo
    /\ todo' = todo \ {v}
    /\ breaking' = breaking \cup
           {[version |-> v, change |-> x] :
               x \in IF Comparable(v) THEN Compare(crd[v], pr[v]) ELSE {}}
    /\ UNCHANGED << crd, pr, stored >>

Ended == pr # None /\ todo = {} /\ pr' = None /\ breaking' = {} /\ UNCHANGED << todo, stored >>

\* Exit 0: merged, released and installed, if the API server takes it.
Release ==
    /\ breaking = {} /\ Ended
    /\ IF Servable(pr) THEN crd' = pr ELSE UNCHANGED crd

\* Exit 1.
Reject ==
    /\ breaking # {} /\ Ended
    /\ UNCHANGED crd

\* A user stores a resource that the released CRD accepts; one at a time, since the
\* check treats no resource with regard to another.
Store(v) ==
    /\ pr = None
    /\ stored = {}
    /\ \E d \in Accepted(crd[v]) : stored' = {[version |-> v, content |-> d]}
    /\ UNCHANGED << crd, pr, todo, breaking >>

\* It is deleted.
Delete ==
    /\ pr = None
    /\ stored # {} /\ stored' = {}
    /\ UNCHANGED << crd, pr, todo, breaking >>

Next ==
    \/ Propose
    \/ \E v \in todo : CheckVersion(v)
    \/ Release \/ Reject
    \/ \E v \in DOMAIN crd : Store(v)
    \/ Delete

Spec == Init /\ [][Next]_vars
-----------------------------------------------------------------------------
\* Type correctness; a change is reported only of a version that both CRDs have.
TypeOK ==
    /\ crd \in Crds /\ pr \in Crds \cup {None}
    /\ pr = None => todo = {} /\ breaking = {}
    /\ pr # None => /\ todo \subseteq DOMAIN pr
                    /\ \A b \in breaking : b.version \in DOMAIN crd \cap DOMAIN pr

\* "No breaking changes detected." (main.go:58): a resource stored under one release
\* is accepted by every later one, however many pull requests that each passed the
\* check have changed the CRD since, by what the check looks at (main.go:82-134).
StoredStaysValid ==
    \A r \in stored : Accepts(crd[r.version], r.content)
=============================================================================
