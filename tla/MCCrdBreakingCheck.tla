------------------------ MODULE MCCrdBreakingCheck ------------------------
(***************************************************************************)
(* Instances of CrdBreakingCheck for TLC.                                  *)
(***************************************************************************)
EXTENDS CrdBreakingCheck, TLC

SomeNames == {"f", "g", "spec"}

Node(type, enum, required) == [type |-> type, enum |-> enum, required |-> required]
Text(values)     == Node("string", values, {})
Number           == Node("integer", {}, {})
Object(required) == Node("object", {}, required)

\* Fields of every type, with and without enums.
Leaves == {Text({}), Text({"a"}), Text({"a", "b"}), Text({"b"}), Number}

Empty == << >> :> Object({})

\* An object with one field, with a field more, and with the field one level down.
Flat   == {(<< >> :> Object(req)) @@ (<< "f" >> :> x) : req \in SUBSET {"f"}, x \in Leaves}
Wider  == {(<< >> :> Object(req)) @@ (<< "f" >> :> Text({})) @@ (<< "g" >> :> x) :
               req \in SUBSET {"g"}, x \in {Text({}), Number}}
Deeper == {(<< >> :> Object({})) @@ (<< "spec" >> :> Object(req)) @@ (<< "spec", "f" >> :> x) :
               req \in SUBSET {"f"}, x \in Leaves}

Schemas == Flat \cup Wider \cup Deeper \cup {Empty}

\* One version; a second one beside it; and that one alone, or without a schema.
SomeCrds ==
    {[v1alpha1 |-> s] : s \in Schemas}
    \cup {[v1alpha1 |-> s, v1 |-> t] :
              s \in {Empty, (<< >> :> Object({})) @@ (<< "f" >> :> Text({}))},
              t \in Flat \cup {NoSchema}}
    \cup {[v1 |-> t] : t \in Wider}

SomeValues == {[type |-> "string", value |-> x] : x \in {"a", "b", "c"}}
                  \cup {[type |-> "integer", value |-> "1"], [type |-> "object", value |-> "{}"]}
=============================================================================
