------------------------------ MODULE CrdProofs ------------------------------
(***************************************************************************)
(* What the check of CRD changes promises: two schemas it finds no change  *)
(* between accept the same stored resources, and so do all the releases it *)
(* lets pass, for all CRDs, however deep their schemas are.                *)
(***************************************************************************)
EXTENDS CrdBreakingCheck, Integers, SequenceTheorems, NaturalsInduction,
        WellFoundedInduction, TLAPS

-----------------------------------------------------------------------------
(* A shortest path: what stands for an induction over a schema.             *)

\* The order of the numbers is well-founded, in the form the library has it.
LEMMA LessIsWellFounded ==
    \A m, n \in Nat : m < n => << m, n >> \in OpToRel(<, Nat)
  BY Zenon DEF OpToRel

\* Some number of a set is the least.
LEMMA LeastNumber ==
    ASSUME NEW T, T \subseteq Nat, T # {}
    PROVE  \E n \in T : \A m \in T : n <= m
  <1>1. PICK n \in T : \A m \in T : ~ (<< m, n >> \in OpToRel(<, Nat))
    BY NatLessThanWellFounded, WFMin, Zenon
  <1>2. \A m \in T : ~ (m < n)
    BY <1>1, LessIsWellFounded, Zenon
  <1> QED BY <1>2

\* Of some paths, one is not longer than any other.
LEMMA ShortestPath ==
    ASSUME NEW S, S \subseteq Seq(Names), S # {}
    PROVE  \E p \in S : \A q \in S : Len(p) <= Len(q)
  <1> DEFINE T == {Len(p) : p \in S}
  <1>1. T \subseteq Nat /\ T # {} BY LenProperties
  <1>2. PICK n \in T : \A m \in T : n <= m BY <1>1, LeastNumber
  <1> QED BY <1>2

\* A tree whose root another tree has, and that has no path of its own just below a
\* common one, is a part of the other.
LEMMA PartOfTree ==
    ASSUME NEW s, NEW t, IsTree(s), IsTree(t),
           \A q \in DOMAIN s \cap DOMAIN t : Properties(s, q) \subseteq Properties(t, q)
    PROVE  DOMAIN s \subseteq DOMAIN t
  <1> DEFINE S == DOMAIN s \ DOMAIN t
  <1> SUFFICES ASSUME S # {} PROVE FALSE OBVIOUS
  <1>1. S \subseteq Seq(Names) BY DEF IsTree
  <1>2. PICK p \in S : \A q \in S : Len(p) <= Len(q) BY <1>1, ShortestPath
  <1>3. p # << >> BY DEF IsTree
  <1>4. PICK q \in DOMAIN s, f \in Names : p = Append(q, f) BY <1>3 DEF IsTree
  <1>5. q \in Seq(Names) BY DEF IsTree
  <1>6. Len(p) = Len(q) + 1 /\ Len(q) \in Nat BY <1>4, <1>5, AppendProperties, LenProperties
  <1>7. q \notin S BY <1>2, <1>6
  <1>8. f \in Properties(t, q) BY <1>4, <1>7 DEF Properties
  <1> QED BY <1>4, <1>8 DEF Properties

-----------------------------------------------------------------------------
(* The comparison.                                                          *)

\* Where the check finds nothing, the two nodes of a path say the same, but that the
\* new one may have dropped its enum.
LEMMA SameNode ==
    ASSUME NEW old, NEW new, Compare(old, new) = {}, NEW p \in DOMAIN old \cap DOMAIN new
    PROVE  /\ old[p].type = new[p].type
           /\ new[p].required \subseteq old[p].required
           /\ new[p].enum = {} \/ old[p].enum = new[p].enum
           /\ Properties(old, p) \subseteq Properties(new, p)
  <1>1. /\ TypeChanges(p, old, new) = {} /\ RequiredChanges(p, old, new) = {}
        /\ EnumChanges(p, old, new) = {} /\ Removed(p, old, new) = {}
    BY DEF Compare
  <1>2. old[p].type = new[p].type BY <1>1 DEF TypeChanges
  <1>3. new[p].required \ old[p].required = {} BY <1>1 DEF RequiredChanges
  <1>4. new[p].enum = {} \/ (new[p].enum \ old[p].enum) \cup (old[p].enum \ new[p].enum) = {}
    BY <1>1 DEF EnumChanges
  <1>5. Properties(old, p) \ Properties(new, p) = {} BY <1>1 DEF Removed
  <1> QED BY <1>2, <1>3, <1>4, <1>5

\* "No breaking changes detected." (main.go:58): a resource the old schema accepts,
\* pruned by it, is accepted by the new one, and nothing of it is pruned.
THEOREM PassedIsCompatible ==
    ASSUME NEW old, NEW new, IsTree(old), IsTree(new), Compare(old, new) = {},
           NEW d, DOMAIN d \subseteq DOMAIN old, Accepts(old, d)
    PROVE  DOMAIN d \subseteq DOMAIN new /\ Accepts(new, d)
  <1>1. DOMAIN old \subseteq DOMAIN new BY SameNode, PartOfTree
  <1>2. ASSUME NEW p \in DOMAIN d
        PROVE  Fits(new[p], d, p)
    <2>1. p \in DOMAIN old \cap DOMAIN new BY <1>1
    <2>2. Fits(old[p], d, p) BY <2>1 DEF Accepts
    <2> QED BY <2>1, <2>2, SameNode DEF Fits
  <1> QED BY <1>1, <1>2 DEF Accepts

-----------------------------------------------------------------------------
(* The releases.                                                            *)

\* Every version of the released CRD has a schema.
Released == \A v \in DOMAIN crd : crd[v] # NoSchema

\* What the check has still to report of a version, it has not yet compared.
Reported ==
    pr # None =>
        \A v \in DOMAIN pr \ todo : Comparable(v) =>
            \A x \in Compare(crd[v], pr[v]) : [version |-> v, change |-> x] \in breaking

\* A stored resource is accepted by the schema of its version, and pruned.
StoredFits ==
    \A r \in stored :
        /\ r.version \in DOMAIN crd
        /\ DOMAIN r.content \subseteq DOMAIN crd[r.version]
        /\ Accepts(crd[r.version], r.content)

ReleaseInv == TypeOK /\ Released /\ Reported /\ StoredFits

\* A CRD that passed the check and is served accepts what was stored before.
LEMMA ReleaseKeepsStored ==
    ASSUME ReleaseInv, pr # None, todo = {}, breaking = {}, Servable(pr), crd' = pr, stored' = stored
    PROVE  Released' /\ StoredFits'
  <1>1. crd \in Crds /\ pr \in Crds BY DEF ReleaseInv, TypeOK
  <1>2. Released' BY DEF Released, Servable
  <1>3. ASSUME NEW r \in stored
        PROVE  /\ r.version \in DOMAIN pr
               /\ DOMAIN r.content \subseteq DOMAIN pr[r.version]
               /\ Accepts(pr[r.version], r.content)
    <2> DEFINE v == r.version
    <2>1. v \in DOMAIN pr /\ pr[v] # NoSchema BY DEF Servable
    <2>2. v \in DOMAIN crd /\ crd[v] # NoSchema BY DEF ReleaseInv, StoredFits, Released
    <2>3. IsTree(crd[v]) /\ IsTree(pr[v]) BY <1>1, <2>1, <2>2, CrdAssumption
    <2>4. Compare(crd[v], pr[v]) = {}
      BY <2>1, <2>2 DEF ReleaseInv, Reported, Comparable
    <2>5. DOMAIN r.content \subseteq DOMAIN crd[v] /\ Accepts(crd[v], r.content)
      BY DEF ReleaseInv, StoredFits
    <2> QED BY <2>1, <2>3, <2>4, <2>5, PassedIsCompatible
  <1> QED BY <1>2, <1>3 DEF StoredFits

\* Every action keeps the invariant.
LEMMA ReleaseStep ==
    ASSUME ReleaseInv, [Next]_vars
    PROVE  ReleaseInv'
  <1>1. CASE Propose
    <2>1. /\ pr' \in Crds /\ pr' # None /\ todo' = DOMAIN pr' /\ breaking' = {}
          /\ UNCHANGED << crd, stored >>
      BY <1>1, CrdAssumption DEF Propose, ReleaseInv, TypeOK
    <2>2. TypeOK' BY <2>1 DEF ReleaseInv, TypeOK
    <2>3. Reported' BY <2>1 DEF Reported
    <2> QED BY <2>1, <2>2, <2>3 DEF ReleaseInv, Released, StoredFits
  <1>2. ASSUME NEW v \in todo, CheckVersion(v) PROVE ReleaseInv'
    <2> DEFINE found == {[version |-> v, change |-> x] :
                            x \in IF Comparable(v) THEN Compare(crd[v], pr[v]) ELSE {}}
    <2>1. /\ todo' = todo \ {v} /\ breaking' = breaking \cup found
          /\ UNCHANGED << crd, pr, stored >>
      BY <1>2 DEF CheckVersion
    <2>2. pr # None /\ v \in DOMAIN pr BY <1>2 DEF ReleaseInv, TypeOK
    <2>3. \A b \in found : b.version = v /\ v \in DOMAIN crd BY DEF Comparable
    <2>4. TypeOK' BY <2>1, <2>2, <2>3 DEF ReleaseInv, TypeOK
    <2>5. Reported'
      <3> SUFFICES ASSUME NEW w \in DOMAIN pr \ (todo \ {v}), Comparable(w),
                          NEW x \in Compare(crd[w], pr[w])
                   PROVE  [version |-> w, change |-> x] \in breaking \cup found
        BY <2>1 DEF Reported, Comparable
      <3>1. CASE w = v BY <3>1
      <3>2. CASE w # v BY <2>2, <3>2 DEF ReleaseInv, Reported
      <3> QED BY <3>1, <3>2
    <2> QED BY <2>1, <2>4, <2>5 DEF ReleaseInv, Released, StoredFits
  <1>3. CASE Release \/ Reject
    <2>1. /\ pr # None /\ todo = {} /\ pr' = None /\ breaking' = {} /\ todo' = {} /\ stored' = stored
          /\ \/ crd' = crd
             \/ breaking = {} /\ Servable(pr) /\ crd' = pr
      BY <1>3 DEF Release, Reject, Ended
    <2>2. crd' \in Crds BY <2>1 DEF ReleaseInv, TypeOK
    <2>3. TypeOK' BY <2>1, <2>2 DEF TypeOK
    <2>4. Reported' BY <2>1 DEF Reported
    <2>5. Released' /\ StoredFits'
      <3>1. CASE crd' = crd BY <2>1, <3>1 DEF ReleaseInv, Released, StoredFits
      <3>2. CASE crd' # crd BY <2>1, <3>2, ReleaseKeepsStored
      <3> QED BY <3>1, <3>2
    <2> QED BY <2>3, <2>4, <2>5 DEF ReleaseInv
  <1>4. ASSUME NEW v \in DOMAIN crd, Store(v) PROVE ReleaseInv'
    <2>1. UNCHANGED << crd, pr, todo, breaking >> BY <1>4 DEF Store
    <2>2. PICK d \in Accepted(crd[v]) : stored' = {[version |-> v, content |-> d]}
      BY <1>4 DEF Store
    <2>3. DOMAIN d \subseteq DOMAIN crd[v] /\ Accepts(crd[v], d) BY DEF Accepted
    <2>4. StoredFits' BY <1>4, <2>1, <2>2, <2>3 DEF StoredFits
    <2> QED BY <2>1, <2>4 DEF ReleaseInv, TypeOK, Released, Reported, Comparable
  <1>5. CASE Delete
    <2>1. UNCHANGED << crd, pr, todo, breaking >> /\ stored' = {} BY <1>5 DEF Delete
    <2> QED BY <2>1 DEF ReleaseInv, TypeOK, Released, Reported, Comparable, StoredFits
  <1>6. CASE UNCHANGED vars
    BY <1>6 DEF vars, ReleaseInv, TypeOK, Released, Reported, Comparable, StoredFits
  <1> QED BY <1>1, <1>2, <1>3, <1>4, <1>5, <1>6 DEF Next

\* The invariant behind the next two theorems: what was compared is reported, and
\* what is stored is accepted and pruned.
THEOREM ReleaseInductive == Spec => []ReleaseInv
  <1>1. Init => ReleaseInv
    BY DEF Init, ReleaseInv, TypeOK, Released, Reported, StoredFits
  <1>2. ReleaseInv /\ [Next]_vars => ReleaseInv'
    BY ReleaseStep
  <1> QED BY <1>1, <1>2, PTL DEF Spec

\* A change is reported only of a version that both CRDs have (main.go:33-36).
THEOREM CheckTyped == Spec => []TypeOK
  <1>1. ReleaseInv => TypeOK BY DEF ReleaseInv
  <1> QED BY <1>1, ReleaseInductive, PTL

\* A resource stored under one release is accepted by every later one that passed
\* the check (main.go:58, 82-134), for all CRDs and any number of releases.
THEOREM StoredAccepted == Spec => []StoredStaysValid
  <1>1. ReleaseInv => StoredStaysValid
    BY DEF ReleaseInv, StoredFits, StoredStaysValid
  <1> QED BY <1>1, ReleaseInductive, PTL
=============================================================================
