--------------------------- MODULE ApiApplyProofs ---------------------------
(***************************************************************************)
(* What holds of ApiApply for any number of appliers, contents, attempts   *)
(* and troubles.                                                           *)
(***************************************************************************)
EXTENDS ApiApply, TLAPS

-----------------------------------------------------------------------------
(* What the helpers return.                                                *)

LEMMA CopyTyped ==
    /\ \A o \in Objects \cup {Gone} : CopyOf(o) \in Copies
    /\ NoCopy \in Copies
  BY DEF CopyOf, NoCopy, Copies

LEMMA AgedTyped ==
    ASSUME NEW copies \in [Appliers -> Copies], NEW by
    PROVE  Aged(copies, by) \in [Appliers -> Copies]
  BY DEF Aged, Copies

\* A copy that has become stale.
LEMMA StaleTyped ==
    ASSUME NEW c \in Copies
    PROVE  /\ [c EXCEPT !.fresh = FALSE] \in Copies
           /\ [c EXCEPT !.fresh = FALSE].what = c.what
           /\ [c EXCEPT !.fresh = FALSE].own = c.own
           /\ ~ [c EXCEPT !.fresh = FALSE].fresh
  BY DEF Copies

\* What a change of the object leaves of the views.
LEMMA AgedViewsTyped ==
    ASSUME view \in [Appliers -> Copies], NEW by
    PROVE  AgedViews(by) \in [Appliers -> Copies]
  BY AgedTyped DEF AgedViews

LEMMA ForgetTyped ==
    ASSUME NEW copies \in [Appliers -> Copies], NEW w \in Appliers
    PROVE  Forget(copies, w) \in [Appliers -> Copies]
  BY CopyTyped DEF Forget

LEMMA RenderTyped ==
    \A d \in Wants : Render(d) \in Objects /\ Render(d) # Gone
  <1> SUFFICES ASSUME NEW d \in Wants PROVE Render(d) \in Objects
    BY ApplyAssumption
  <1>1. d.imm \in STRING /\ d.mut \in STRING BY ApplyAssumption
  <1>2. Uid \in {0, Uid} OBVIOUS
  <1> QED BY <1>1, <1>2 DEF Render, Objects

\* What a replacing call may have deleted.
Replacements ==
    [what : Objects \cup {Gone}, author : Appliers \cup {Others}, by : Appliers \cup {Others}]

LEMMA NotReplacedTyped ==
    NotReplaced \in Replacements
  BY DEF NotReplaced, Replacements

\* The program counters.
Places == {"idle", "get", "update", "reread", "delete", "create", "recreate"}

LEMMA ReturnTyped ==
    ASSUME Types, NEW w \in Appliers, NEW r \in {"ok", "err"}, Return(w, r)
    PROVE  /\ pc' \in [Appliers -> Places]
           /\ tries' \in [Appliers -> 0 .. Attempts]
           /\ stamped' \in [Appliers -> BOOLEAN]
           /\ result' \in [Appliers -> {"none", "ok", "err"}]
  BY ApplyAssumption DEF Types, Return, Go, Places

LEMMA UsedTyped ==
    ASSUME Types
    PROVE  (Smooth \/ Trouble) => used' \in [edits : Nat, trouble : Nat]
  BY DEF Types, Smooth, Trouble

LEMMA RefusedTyped ==
    ASSUME Types, NEW w \in Appliers, Refused(w), Smooth \/ Trouble
    PROVE  Types'
  <1>1. Return(w, "err") BY DEF Refused
  <1>2. seen' \in [Appliers -> Copies] BY ForgetTyped DEF Refused, Types
  <1>3. replaced' \in Replacements
    BY NotReplacedTyped DEF Refused, Types, Replacements
  <1>4. UNCHANGED << kind, obj, author, view, ask, want >> BY DEF Refused
  <1> QED BY <1>1, <1>2, <1>3, <1>4, ReturnTyped, UsedTyped DEF Types, Places, Replacements

LEMMA WrittenTyped ==
    ASSUME Types, NEW w \in Appliers, Written(w)
    PROVE  Types'
  <1>1. \E r \in {"ok", "err"} : Return(w, r) BY DEF Written
  <1>2. Smooth \/ Trouble BY DEF Written
  <1>3. want[w] \in Wants BY DEF Types
  <1>4. obj' \in Objects \cup {Gone} BY <1>3, RenderTyped DEF Written, Changed, Types
  <1>5. view' \in [Appliers -> Copies] /\ author' \in Appliers \cup {Others}
    BY AgedViewsTyped DEF Written, Changed, Types
  <1>6. seen' \in [Appliers -> Copies]
    <2>1. seen \in [Appliers -> Copies] /\ Aged(seen, w) \in [Appliers -> Copies]
      BY AgedTyped DEF Types
    <2>2. /\ Forget(seen, w) \in [Appliers -> Copies]
          /\ Forget(Aged(seen, w), w) \in [Appliers -> Copies]
      BY <2>1, ForgetTyped
    <2> QED BY <2>2 DEF Written
  <1>7. replaced' \in Replacements
    BY NotReplacedTyped DEF Written, Types, Replacements
  <1>8. UNCHANGED << kind, ask, want >> BY DEF Written
  <1> QED BY <1>1, <1>2, <1>4, <1>5, <1>6, <1>7, <1>8, ReturnTyped, UsedTyped
          DEF Types, Places, Replacements

LEMMA SourceTyped ==
    ASSUME Types, NEW w \in Appliers
    PROVE  Source(w) \in Copies
  BY CopyTyped DEF Source, Types

-----------------------------------------------------------------------------
LEMMA TypeStart == Init => TypeOK
  <1> SUFFICES ASSUME Init PROVE Types
    BY DEF Init, TypeOK, Stations
  <1>1. kind \in Helpers BY ApplyAssumption DEF Init
  <1>2. view \in [Appliers -> Copies] /\ seen \in [Appliers -> Copies]
    BY CopyTyped DEF Init
  <1>3. ask \in [Appliers -> Wants] /\ want \in [Appliers -> Wants] BY DEF Init
  <1>4. replaced \in Replacements
    BY NotReplacedTyped DEF Init
  <1>5. tries \in [Appliers -> 0 .. Attempts] BY ApplyAssumption DEF Init
  <1> QED BY <1>1, <1>2, <1>3, <1>4, <1>5 DEF Init, Types, Replacements

LEMMA TypeKeptByStep ==
    ASSUME Types, NEW w \in Appliers, Step(w)
    PROVE  Types'
  <1>1. CASE Begin(w)
    BY <1>1, ApplyAssumption DEF Begin, Go, Types
  <1>2. CASE Get(w)
    <2>1. seen' \in [Appliers -> Copies] BY <1>2, SourceTyped DEF Get, Types
    <2>2. pc' \in [Appliers -> Places] BY <1>2 DEF Get, Go, Types, Places
    <2>3. stamped' \in [Appliers -> BOOLEAN] BY <1>2 DEF Get, Types
    <2> QED BY <1>2, <2>1, <2>2, <2>3 DEF Get, Types, Places
  <1>3. CASE GetForeign(w) BY <1>3, RefusedTyped DEF GetForeign
  <1>4. CASE Update(w) BY <1>4, WrittenTyped DEF Update
  <1>5. CASE UpdateConflict(w)
    <2>1. seen' \in [Appliers -> Copies] BY <1>5, ForgetTyped DEF UpdateConflict, Types
    <2>2. tries' \in [Appliers -> 0 .. Attempts]
      BY <1>5, ApplyAssumption DEF UpdateConflict, Types
    <2>3. pc' \in [Appliers -> Places] BY <1>5 DEF UpdateConflict, Go, Types, Places
    <2> QED BY <1>5, <2>1, <2>2, <2>3 DEF UpdateConflict, Types, Places
  <1>6. CASE UpdateInvalid(w) BY <1>6 DEF UpdateInvalid, Go, Types
  <1>7. CASE UpdateRefused(w) BY <1>7, RefusedTyped DEF UpdateRefused
  <1>8. CASE Reread(w) BY <1>8 DEF Reread, Go, Types
  <1>9. CASE RereadNotFound(w) BY <1>9, RefusedTyped DEF RereadNotFound
  <1>10. CASE Delete(w)
    <2>1. /\ obj' \in Objects \cup {Gone} /\ view' \in [Appliers -> Copies]
          /\ author' \in Appliers \cup {Others}
      BY <1>10, AgedViewsTyped DEF Delete, Changed, Types
    <2>2. seen' \in [Appliers -> Copies]
      <3>1. Aged(seen, w) \in [Appliers -> Copies] BY AgedTyped DEF Types
      <3>2. Forget(Aged(seen, w), w) \in [Appliers -> Copies] BY <3>1, ForgetTyped
      <3> QED BY <1>10, <3>1, <3>2 DEF Delete
    <2>3. /\ pc' \in [Appliers -> Places]
          /\ tries' \in [Appliers -> 0 .. Attempts]
          /\ stamped' \in [Appliers -> BOOLEAN]
          /\ result' \in [Appliers -> {"none", "ok", "err"}]
      BY <1>10, ReturnTyped DEF Delete, Go, Types, Places
    <2>4. replaced' \in Replacements
      BY <1>10 DEF Delete, Types, Replacements
    <2>5. used' \in [edits : Nat, trouble : Nat]
      BY <1>10, UsedTyped DEF Delete
    <2> QED BY <1>10, <2>1, <2>2, <2>3, <2>4, <2>5 DEF Delete, Types, Places, Replacements
  <1>11. CASE DeleteNotFound(w) BY <1>11, RefusedTyped DEF DeleteNotFound
  <1>12. CASE Create(w) BY <1>12, WrittenTyped DEF Create
  <1>13. CASE CreateRefused(w) BY <1>13, RefusedTyped DEF CreateRefused
  <1>14. CASE CallFails(w) BY <1>14, RefusedTyped DEF CallFails
  <1> QED BY <1>1, <1>2, <1>3, <1>4, <1>5, <1>6, <1>7, <1>8, <1>9, <1>10, <1>11, <1>12,
             <1>13, <1>14 DEF Step

LEMMA TypeKept ==
    ASSUME Types, [Next]_vars
    PROVE  Types'
  <1>1. ASSUME NEW w \in Appliers, Step(w) PROVE Types' BY <1>1, TypeKeptByStep
  <1>2. ASSUME NEW w \in Appliers, Observe(w) PROVE Types'
    BY <1>2, CopyTyped DEF Observe, Types
  <1>3. ASSUME NEW w \in Appliers, Restart(w) PROVE Types'
    <2>1. /\ pc' \in [Appliers -> Places]
          /\ tries' \in [Appliers -> 0 .. Attempts]
          /\ stamped' \in [Appliers -> BOOLEAN]
          /\ result' \in [Appliers -> {"none", "ok", "err"}]
      BY <1>3, ReturnTyped DEF Restart, Types, Places
    <2>2. view' \in [Appliers -> Copies] BY <1>3, CopyTyped DEF Restart, Types
    <2>3. seen' \in [Appliers -> Copies] BY <1>3, ForgetTyped DEF Restart, Types
    <2>4. replaced' \in Replacements
      BY <1>3, NotReplacedTyped DEF Restart, Types, Replacements
    <2> QED BY <1>3, <2>1, <2>2, <2>3, <2>4, UsedTyped DEF Restart, Types, Places, Replacements
  <1>4. ASSUME NEW w \in Appliers, Edit(w) PROVE Types' BY <1>4 DEF Edit, Types
  <1>5. CASE Meddle
    <2>1. obj' \in Objects \cup {Gone}
      <3>1. CASE obj = Gone
        BY <1>5, <3>1, ApplyAssumption DEF Meddle, Changed
      <3>2. CASE obj # Gone
        <4>1. obj \in Objects BY <3>2 DEF Types
        <4>2. \A f \in Foreigners : [obj EXCEPT !.mut = f.mut] \in Objects
          BY <4>1, ApplyAssumption DEF Objects
        <4> QED BY <1>5, <3>2, <4>2 DEF Meddle, Changed
      <3> QED BY <3>1, <3>2
    <2>2. /\ view' \in [Appliers -> Copies] /\ seen' \in [Appliers -> Copies]
          /\ author' \in Appliers \cup {Others}
      BY <1>5, AgedTyped, AgedViewsTyped DEF Meddle, Changed, Types
    <2>3. replaced' \in Replacements BY <1>5, NotReplacedTyped DEF Meddle
    <2> QED BY <1>5, <2>1, <2>2, <2>3, UsedTyped DEF Meddle, Types, Replacements
  <1>6. CASE ReportStatus
    <2>1. view' \in [Appliers -> Copies] /\ seen' \in [Appliers -> Copies]
      <3>1. \A v \in Appliers : view[v] \in Copies /\ seen[v] \in Copies BY DEF Types
      <3>2. \A v \in Appliers : /\ [view[v] EXCEPT !.fresh = FALSE] \in Copies
                               /\ [seen[v] EXCEPT !.fresh = FALSE] \in Copies
        BY <3>1, StaleTyped
      <3>3. /\ view' = [v \in Appliers |-> [view[v] EXCEPT !.fresh = FALSE]]
            /\ seen' = [v \in Appliers |-> [seen[v] EXCEPT !.fresh = FALSE]]
        BY <1>6 DEF ReportStatus
      <3> QED BY <3>2, <3>3
    <2> QED BY <1>6, <2>1, UsedTyped DEF ReportStatus, Types
  <1>7. CASE UNCHANGED vars BY <1>7 DEF vars, Types
  <1> QED BY <1>1, <1>2, <1>3, <1>4, <1>5, <1>6, <1>7 DEF Next

LEMMA StepOnlyMoves ==
    ASSUME Types, NEW w \in Appliers, Step(w)
    PROVE  \A v \in Appliers \ {w} : pc'[v] = pc[v]
  BY DEF Step, Types, Begin, Get, GetForeign, Update, UpdateConflict, UpdateInvalid,
         UpdateRefused, Reread, RereadNotFound, Delete, DeleteNotFound, Create,
         CreateRefused, CallFails, Refused, Written, Return, Go

LEMMA StationsKeptByStep ==
    ASSUME TypeOK, NEW w \in Appliers, Step(w)
    PROVE  Stations'
  <1>t. Types /\ Stations BY DEF TypeOK
  <1>1. kind' = kind
    BY DEF Step, Begin, Get, GetForeign, Update, UpdateConflict, UpdateInvalid,
           UpdateRefused, Reread, RereadNotFound, Delete, DeleteNotFound, Create,
           CreateRefused, CallFails, Refused, Written
  <1>2. /\ pc'[w] = "recreate" => kind \in Replacing
        /\ pc'[w] = "reread" => kind = "storageclass"
        /\ pc'[w] = "delete" => kind \in Replacing \cup Deleting
    <2>1. CASE Get(w) BY <1>t, <2>1 DEF Get, Go, Drifted, Guarded, Types, Replacing, Deleting
    <2>2. CASE UpdateInvalid(w) BY <1>t, <2>2 DEF UpdateInvalid, Go, Types
    <2>3. CASE Reread(w) BY <1>t, <2>3 DEF Reread, Go, Types, Stations, Replacing
    <2>4. CASE Delete(w) BY <1>t, <2>4 DEF Delete, Return, Go, Types
    <2>5. CASE Begin(w) BY <1>t, <2>5 DEF Begin, Go, Types
    <2>6. CASE UpdateConflict(w) BY <1>t, <2>6 DEF UpdateConflict, Go, Types
    <2>7. CASE Update(w) \/ Create(w) BY <1>t, <2>7 DEF Update, Create, Written, Return, Go, Types
    <2>8. CASE GetForeign(w) \/ UpdateRefused(w) \/ RereadNotFound(w) \/ DeleteNotFound(w)
                 \/ CreateRefused(w) \/ CallFails(w)
      BY <1>t, <2>8 DEF GetForeign, UpdateRefused, RereadNotFound, DeleteNotFound, CreateRefused,
                  CallFails, Refused, Return, Go, Types
    <2> QED BY <2>1, <2>2, <2>3, <2>4, <2>5, <2>6, <2>7, <2>8 DEF Step
  <1> QED BY <1>t, <1>1, <1>2, StepOnlyMoves DEF Stations

LEMMA StationsKept ==
    ASSUME TypeOK, [Next]_vars
    PROVE  Stations'
  <1>t. Types /\ Stations BY DEF TypeOK
  <1>1. ASSUME NEW w \in Appliers, Step(w) PROVE Stations'
    BY <1>1, StationsKeptByStep
  <1>2. ASSUME NEW w \in Appliers, Restart(w) PROVE Stations'
    <2>1. kind' = kind BY <1>2 DEF Restart
    <2>2. pc' = pc \/ pc' = [pc EXCEPT ![w] = "idle"] BY <1>2 DEF Restart, Return, Go
    <2>3. \A v \in Appliers : pc'[v] = pc[v] \/ pc'[v] = "idle" BY <2>2, <1>t DEF Types
    <2> QED BY <2>1, <2>3, <1>t DEF Stations
  <1>3. CASE UNCHANGED << kind, pc >> BY <1>3, <1>t DEF Stations
  <1>4. CASE \/ \E w \in Appliers : Observe(w) \/ Edit(w)
             \/ Meddle \/ ReportStatus \/ UNCHANGED vars
    BY <1>4, <1>3 DEF Observe, Edit, Meddle, ReportStatus, vars
  <1> QED BY <1>1, <1>2, <1>4 DEF Next

\* The types of ApiApply's variables; in particular no call exceeds Attempts attempts
\* (the bound of retry.RetryOnConflict, deployer.go:587), only helpers that can meet
\* immutable drift delete, and only applyStorageClass and applyService create in the
\* call that has deleted (deployer.go:569-573, 664-668).
THEOREM ApplyTypeCorrect == Spec => []TypeOK
  <1>1. TypeOK /\ [Next]_vars => TypeOK' BY TypeKept, StationsKept DEF TypeOK
  <1> QED BY <1>1, TypeStart, PTL DEF Spec

-----------------------------------------------------------------------------
(* What a delete is decided on. A copy that nobody but its reader has made  *)
(* old still tells the immutable fields and the owner of a StatefulSet that *)
(* is there: the reader itself changes neither but by deleting it, and      *)
(* creates it again only after its informer has seen it gone. Of a Service, *)
(* a copy that counts as the reader's own is the object still.              *)

FreshIsTrue ==
    \A w \in Appliers : \A c \in {view[w], seen[w]} : c.fresh => c.what = obj /\ c.own

TellsOwn(c) ==
    c.own /\ c.what # Gone /\ obj # Gone =>
        obj.imm = c.what.imm /\ (Owned(c.what) => Owned(obj))

OwnCopies ==
    \A w \in Appliers :
        /\ kind = "statefulset" => TellsOwn(view[w]) /\ TellsOwn(seen[w])
        /\ kind = "service" =>
              /\ view[w].own => view[w].what = obj
              /\ seen[w].own /\ pc[w] # "recreate" => seen[w].what = obj

Ground(w) ==
    /\ pc[w] = "update" => seen[w].what # Gone
    /\ kind = "statefulset" /\ pc[w] = "create" /\ view[w].own /\ obj = Gone =>
          view[w].what = Gone
    /\ kind \in Guarded /\ pc[w] = "delete" =>
          seen[w].what # Gone /\ seen[w].what.imm # want[w].imm /\ Owned(seen[w].what)
    /\ kind = "storageclass" /\ pc[w] \in {"reread", "delete"} /\ seen[w].own =>
          obj.imm # want[w].imm

JudgedInv == TypeOK /\ FreshIsTrue /\ OwnCopies /\ \A w \in Appliers : Ground(w)

LEMMA AgedCopies ==
    ASSUME NEW copies \in [Appliers -> Copies], NEW by
    PROVE  \A w \in Appliers :
              /\ Aged(copies, by)[w].what = copies[w].what
              /\ ~ Aged(copies, by)[w].fresh
              /\ w # by => ~ Aged(copies, by)[w].own
              /\ Aged(copies, by)[w].own => copies[w].own
              /\ w = by /\ copies[w].own => Aged(copies, by)[w].own
  BY DEF Aged, Copies

\* What a change by by leaves of the views; of a Service, nobody's own.
LEMMA AgedViewsCopies ==
    ASSUME view \in [Appliers -> Copies], NEW by
    PROVE  \A w \in Appliers :
              /\ AgedViews(by)[w].what = view[w].what
              /\ ~ AgedViews(by)[w].fresh
              /\ w # by => ~ AgedViews(by)[w].own
              /\ AgedViews(by)[w].own => view[w].own
              /\ kind = "service" => ~ AgedViews(by)[w].own
  <1>1. CASE kind = "service"
    <2>1. AgedViews(by) = Aged(view, Others) BY <1>1 DEF AgedViews
    <2>2. \A w \in Appliers : w # Others BY ApplyAssumption
    <2> QED BY <2>1, <2>2, AgedCopies
  <1>2. CASE kind # "service"
    <2>1. AgedViews(by) = Aged(view, by) BY <1>2 DEF AgedViews
    <2> QED BY <1>2, <2>1, AgedCopies
  <1> QED BY <1>1, <1>2

LEMMA ForgottenCopies ==
    ASSUME NEW copies \in [Appliers -> Copies], NEW w \in Appliers
    PROVE  /\ Forget(copies, w)[w] = NoCopy
           /\ \A v \in Appliers \ {w} : Forget(copies, w)[v] = copies[v]
           /\ ~ NoCopy.fresh /\ ~ NoCopy.own
  BY DEF Forget, NoCopy

LEMMA JudgedInvStart == Init => JudgedInv
  <1> SUFFICES ASSUME Init PROVE JudgedInv OBVIOUS
  <1>1. TypeOK BY TypeStart
  <1>3. FreshIsTrue BY DEF Init, FreshIsTrue, CopyOf, NoCopy
  <1>4. OwnCopies BY DEF Init, OwnCopies, TellsOwn, CopyOf, NoCopy
  <1>5. \A w \in Appliers : Ground(w) BY DEF Init, Ground
  <1> QED BY <1>1, <1>3, <1>4, <1>5 DEF JudgedInv

\* Steps that leave the object alone, and give or take copies of it.
LEMMA QuietStep ==
    ASSUME JudgedInv, UNCHANGED << kind, obj, view >>, NEW w \in Appliers,
           \A v \in Appliers \ {w} :
               pc'[v] = pc[v] /\ seen'[v] = seen[v] /\ want'[v] = want[v],
           \/ seen'[w] = seen[w] \/ seen'[w] = view[w] \/ seen'[w] = CopyOf(obj)
           \/ seen'[w] = NoCopy,
           pc[w] = "recreate" => pc'[w] = "recreate" \/ seen'[w] = NoCopy,
           Ground(w)'
    PROVE  FreshIsTrue' /\ OwnCopies' /\ \A v \in Appliers : Ground(v)'
  <1>1. FreshIsTrue'
    BY DEF JudgedInv, FreshIsTrue, CopyOf, NoCopy
  <1>2. OwnCopies'
    <2>1. TellsOwn(CopyOf(obj)) BY DEF TellsOwn, CopyOf
    <2>2. TellsOwn(NoCopy) BY DEF TellsOwn, NoCopy
    <2>3. kind = "statefulset" => \A v \in Appliers : TellsOwn(view[v]) /\ TellsOwn(seen'[v])
      BY <2>1, <2>2 DEF JudgedInv, OwnCopies
    <2>4. ASSUME kind = "service", NEW v \in Appliers, seen'[v].own, pc'[v] # "recreate"
          PROVE  seen'[v].what = obj
      BY <2>4 DEF JudgedInv, OwnCopies, CopyOf, NoCopy
    <2> QED BY <2>3, <2>4 DEF JudgedInv, OwnCopies, TellsOwn
  <1>3. ASSUME NEW v \in Appliers \ {w} PROVE Ground(v)'
    BY <1>3 DEF JudgedInv, Ground
  <1> QED BY <1>1, <1>2, <1>3

LEMMA RefusalIsQuiet ==
    ASSUME JudgedInv, NEW w \in Appliers, Refused(w)
    PROVE  FreshIsTrue' /\ OwnCopies' /\ \A v \in Appliers : Ground(v)'
  <1>1. \A v \in Appliers \ {w} : pc'[v] = pc[v] /\ want'[v] = want[v]
    BY DEF Refused, Return, Go, JudgedInv, TypeOK, Types
  <1>2. seen'[w] = NoCopy /\ \A v \in Appliers \ {w} : seen'[v] = seen[v]
    BY ForgottenCopies DEF Refused, JudgedInv, TypeOK, Types
  <1>3. pc'[w] = "idle" BY DEF Refused, Return, Go, JudgedInv, TypeOK, Types
  <1>4. Ground(w)' BY <1>3 DEF Ground
  <1> QED BY <1>1, <1>2, <1>4, QuietStep DEF Refused

\* A change by the hand of w leaves the others nothing of their own; what w has left
\* must tell the new object.
LEMMA ChangingStep ==
    ASSUME JudgedInv, kind' = kind, want' = want, NEW o, NEW by, Changed(o, by),
           seen' \in [Appliers -> Copies],
           \A v \in Appliers :
               /\ ~ seen'[v].fresh
               /\ v # by => pc'[v] = pc[v] /\ seen'[v].what = seen[v].what /\ ~ seen'[v].own,
           \A v \in Appliers : v = by =>
               /\ kind = "statefulset" => TellsOwn(view[v])' /\ TellsOwn(seen[v])'
               /\ seen'[v].own => pc'[v] = "recreate"
               /\ Ground(v)'
    PROVE  FreshIsTrue' /\ OwnCopies' /\ \A v \in Appliers : Ground(v)'
  <1>1. \A v \in Appliers :
           /\ view'[v].what = view[v].what /\ ~ view'[v].fresh
           /\ v # by \/ kind = "service" => ~ view'[v].own
    <2>1. view' = AgedViews(by) /\ view \in [Appliers -> Copies]
      BY DEF Changed, JudgedInv, TypeOK, Types
    <2> QED BY <2>1, AgedViewsCopies
  <1>2. FreshIsTrue' BY <1>1 DEF FreshIsTrue
  <1>3. \A v \in Appliers : v # by => TellsOwn(view[v])' /\ TellsOwn(seen[v])'
    BY <1>1 DEF TellsOwn
  <1>4. ASSUME kind = "service", NEW v \in Appliers
        PROVE  ~ view'[v].own /\ (seen'[v].own => pc'[v] = "recreate")
    BY <1>1, <1>4
  <1>6. OwnCopies' BY <1>3, <1>4 DEF OwnCopies
  <1>5. ASSUME NEW v \in Appliers, v # by PROVE Ground(v)'
    BY <1>1, <1>5 DEF JudgedInv, Ground
  <1> QED BY <1>2, <1>5, <1>6

LEMMA WriteIsJudged ==
    ASSUME JudgedInv, NEW w \in Appliers, Written(w),
           \/ obj # Gone /\ obj.imm = want[w].imm
           \/ obj = Gone /\ pc[w] \in {"create", "recreate"}
    PROVE  FreshIsTrue' /\ OwnCopies' /\ \A v \in Appliers : Ground(v)'
  <1>t. Types BY DEF JudgedInv, TypeOK
  <1>1. /\ \A v \in Appliers \ {w} : pc'[v] = pc[v]
        /\ pc'[w] = "idle"
        /\ kind' = kind /\ want' = want
    BY <1>t DEF Written, Return, Go, Types
  <1>2. Ground(w)' BY <1>1 DEF Ground
  <1>3. CASE obj = Render(want[w])
    <2>1. seen' = Forget(seen, w) /\ UNCHANGED << obj, view >> BY <1>3 DEF Written
    <2>2. seen'[w] = NoCopy /\ \A v \in Appliers \ {w} : seen'[v] = seen[v]
      BY <2>1, <1>t, ForgottenCopies DEF Types
    <2> QED BY <1>1, <1>2, <2>1, <2>2, QuietStep
  <1>4. CASE obj # Render(want[w])
    <2> DEFINE aged == Aged(seen, w)
    <2>1. Changed(Render(want[w]), w) /\ seen' = Forget(aged, w) BY <1>4 DEF Written
    <2>2. aged \in [Appliers -> Copies] BY <1>t, AgedTyped DEF Types
    <2>3. seen' \in [Appliers -> Copies] BY <2>1, <2>2, ForgetTyped
    <2>4. seen'[w] = NoCopy /\ \A v \in Appliers \ {w} : seen'[v] = aged[v]
      BY <2>1, <2>2, ForgottenCopies
    <2>5. \A v \in Appliers :
             /\ ~ seen'[v].fresh
             /\ v # w => seen'[v].what = seen[v].what /\ ~ seen'[v].own
      BY <2>4, <1>t, AgedCopies DEF Types, NoCopy
    <2>6. kind = "statefulset" => TellsOwn(view[w])' /\ TellsOwn(seen[w])'
      <3> SUFFICES ASSUME kind = "statefulset" PROVE TellsOwn(view[w])' /\ TellsOwn(seen[w])'
        OBVIOUS
      <3>1. obj' = Render(want[w]) /\ view' = AgedViews(w) BY <2>1 DEF Changed
      <3>2. obj'.imm = want[w].imm /\ Owned(obj') BY <3>1 DEF Render, Owned
      <3>3. view'[w].what = view[w].what /\ (view'[w].own => view[w].own)
        BY <3>1, <1>t, AgedViewsCopies DEF Types
      <3>4. TellsOwn(view[w])'
        <4>1. CASE obj # Gone /\ obj.imm = want[w].imm
          BY <4>1, <3>2, <3>3 DEF TellsOwn, JudgedInv, OwnCopies
        <4>2. CASE obj = Gone /\ pc[w] = "create"
          BY <4>2, <3>3 DEF TellsOwn, JudgedInv, Ground
        <4>3. CASE pc[w] = "recreate"
          BY <4>3 DEF JudgedInv, TypeOK, Stations, Replacing
        <4> QED BY <4>1, <4>2, <4>3
      <3>5. TellsOwn(seen[w])' BY <2>4 DEF TellsOwn, NoCopy
      <3> QED BY <3>4, <3>5
    <2>7. ~ seen'[w].own BY <2>4 DEF NoCopy
    <2> HIDE DEF aged
    <2> QED BY <1>1, <1>2, <2>1, <2>3, <2>5, <2>6, <2>7, ChangingStep
  <1> QED BY <1>3, <1>4

LEMMA DeleteIsJudged ==
    ASSUME JudgedInv, NEW w \in Appliers, Delete(w)
    PROVE  FreshIsTrue' /\ OwnCopies' /\ \A v \in Appliers : Ground(v)'
  <1>t. Types BY DEF JudgedInv, TypeOK
  <1> DEFINE aged == Aged(seen, w)
  <1>1. Changed(Gone, w) /\ obj' = Gone /\ kind' = kind /\ want' = want
    BY DEF Delete, Changed
  <1>2. \/ seen' = aged /\ pc' = [pc EXCEPT ![w] = "recreate"]
        \/ seen' = Forget(aged, w) /\ pc' = [pc EXCEPT ![w] = "idle"]
    BY DEF Delete, Return, Go
  <1>3. pc'[w] \in {"recreate", "idle"} /\ \A v \in Appliers \ {w} : pc'[v] = pc[v]
    BY <1>2, <1>t DEF Types
  <1>4. aged \in [Appliers -> Copies] BY <1>t, AgedTyped DEF Types
  <1>5. seen' \in [Appliers -> Copies] BY <1>2, <1>4, ForgetTyped
  <1>6. \A v \in Appliers : v # w => seen'[v] = aged[v]
    BY <1>2, <1>4, ForgottenCopies
  <1>7. seen'[w] = NoCopy \/ seen'[w] = aged[w]
    BY <1>2, <1>4, ForgottenCopies
  <1>8. \A v \in Appliers :
           /\ ~ seen'[v].fresh
           /\ v # w => seen'[v].what = seen[v].what /\ ~ seen'[v].own
    BY <1>6, <1>7, <1>t, AgedCopies DEF Types, NoCopy
  <1>9. TellsOwn(view[w])' /\ TellsOwn(seen[w])' BY <1>1 DEF TellsOwn
  <1>10. Ground(w)' BY <1>3 DEF Ground
  <1>11. seen'[w].own => pc'[w] = "recreate"
    BY <1>2, <1>4, <1>t, ForgottenCopies DEF Types
  <1> HIDE DEF aged
  <1> QED BY <1>1, <1>3, <1>5, <1>8, <1>9, <1>10, <1>11, ChangingStep

\* A Get decides as the copy it has read says.
LEMMA GetIsJudged ==
    ASSUME JudgedInv, NEW w \in Appliers, Get(w)
    PROVE  Ground(w)'
  <1>t. Types BY DEF JudgedInv, TypeOK
  <1>1. UNCHANGED << kind, obj, view, want >> BY DEF Get
  <1>2. seen'[w] = Source(w) BY <1>t DEF Get, Types
  <1>3. kind \in Guarded => Source(w) = view[w] BY DEF Source, Guarded
  <1>4. CASE Source(w).what = Gone /\ Go(w, "create")
    <2>1. pc'[w] = "create" BY <1>4, <1>t DEF Go, Types
    <2> QED BY <1>1, <1>3, <1>4, <2>1 DEF Ground, Guarded
  <1>5. CASE /\ Source(w).what # Gone /\ Drifted(w, Source(w).what) /\ Owned(Source(w).what)
             /\ Go(w, "delete")
    <2>1. pc'[w] = "delete" BY <1>5, <1>t DEF Go, Types
    <2>2. kind # "storageclass" /\ Source(w).what.imm # want[w].imm BY <1>5 DEF Drifted, Guarded
    <2> QED BY <1>1, <1>2, <1>5, <2>1, <2>2 DEF Ground
  <1>6. CASE Source(w).what # Gone /\ Go(w, "update")
    <2>1. pc'[w] = "update" BY <1>6, <1>t DEF Go, Types
    <2> QED BY <1>1, <1>2, <1>6, <2>1 DEF Ground
  <1> QED BY <1>4, <1>5, <1>6 DEF Get

LEMMA StepIsJudged ==
    ASSUME JudgedInv, NEW w \in Appliers, Step(w)
    PROVE  FreshIsTrue' /\ OwnCopies' /\ \A v \in Appliers : Ground(v)'
  <1>t. Types BY DEF JudgedInv, TypeOK
  <1>a. \A v \in Appliers \ {w} : pc'[v] = pc[v] BY <1>t, StepOnlyMoves
  <1>1. CASE Begin(w)
    <2>1. \A v \in Appliers \ {w} : want'[v] = want[v] BY <1>1, <1>t DEF Begin, Types
    <2>2. UNCHANGED << kind, obj, view, seen >> BY <1>1 DEF Begin
    <2>3. pc[w] = "idle" /\ pc'[w] = "get" BY <1>1, <1>t DEF Begin, Go, Types
    <2>4. Ground(w)' BY <2>3 DEF Ground
    <2> QED BY <1>a, <2>1, <2>2, <2>3, <2>4, QuietStep
  <1>2. CASE Get(w)
    <2>1. UNCHANGED << kind, obj, view, want >> BY <1>2 DEF Get
    <2>2. /\ \A v \in Appliers \ {w} : seen'[v] = seen[v]
          /\ seen'[w] = view[w] \/ seen'[w] = CopyOf(obj)
      BY <1>2, <1>t DEF Get, Source, Types
    <2>3. pc[w] = "get" BY <1>2 DEF Get
    <2> QED BY <1>2, <1>a, <2>1, <2>2, <2>3, GetIsJudged, QuietStep
  <1>3. CASE UpdateConflict(w)
    <2>1. UNCHANGED << kind, obj, view, want >> BY <1>3 DEF UpdateConflict
    <2>2. seen'[w] = NoCopy /\ \A v \in Appliers \ {w} : seen'[v] = seen[v]
      BY <1>3, <1>t, ForgottenCopies DEF UpdateConflict, Types
    <2>3. pc'[w] = "get" BY <1>3, <1>t DEF UpdateConflict, Go, Types
    <2>4. Ground(w)' BY <2>3 DEF Ground
    <2> QED BY <1>a, <2>1, <2>2, <2>4, QuietStep
  <1>4. CASE UpdateInvalid(w)
    <2>1. UNCHANGED << kind, obj, view, seen, want >> BY <1>4 DEF UpdateInvalid
    <2>2. pc[w] = "update" /\ pc'[w] = "reread" BY <1>4, <1>t DEF UpdateInvalid, Go, Types
    <2>3. kind = "storageclass" /\ obj.imm # want[w].imm BY <1>4 DEF UpdateInvalid
    <2>4. Ground(w)' BY <2>1, <2>2, <2>3 DEF Ground
    <2> QED BY <1>a, <2>1, <2>2, <2>4, QuietStep
  <1>5. CASE Reread(w)
    <2>1. UNCHANGED << kind, obj, view, seen, want >> BY <1>5 DEF Reread
    <2>2. pc[w] = "reread" /\ pc'[w] = "delete" BY <1>5, <1>t DEF Reread, Go, Types
    <2>3. kind = "storageclass" BY <2>2 DEF JudgedInv, TypeOK, Stations
    <2>4. Ground(w)' BY <2>1, <2>2, <2>3 DEF JudgedInv, Ground, Guarded
    <2> QED BY <1>a, <2>1, <2>2, <2>4, QuietStep
  <1>6. CASE Update(w)
    <2>1. obj # Gone /\ obj.imm = want[w].imm
      BY <1>6 DEF Update, JudgedInv, FreshIsTrue, Ground
    <2> QED BY <1>6, <2>1, WriteIsJudged DEF Update
  <1>7. CASE Create(w)
    BY <1>7, WriteIsJudged DEF Create
  <1>8. CASE Delete(w)
    BY <1>8, DeleteIsJudged
  <1>9. CASE GetForeign(w) \/ UpdateRefused(w) \/ RereadNotFound(w) \/ DeleteNotFound(w)
               \/ CreateRefused(w) \/ CallFails(w)
    BY <1>9, RefusalIsQuiet DEF GetForeign, UpdateRefused, RereadNotFound, DeleteNotFound,
       CreateRefused, CallFails
  <1> QED BY <1>1, <1>2, <1>3, <1>4, <1>5, <1>6, <1>7, <1>8, <1>9 DEF Step

\* A new copy, in the informer of w.
LEMMA ObservingStep ==
    ASSUME JudgedInv, NEW w \in Appliers, UNCHANGED << kind, obj, want >>,
           view' = [view EXCEPT ![w] = CopyOf(obj)],
           \A v \in Appliers \ {w} : pc'[v] = pc[v] /\ seen'[v] = seen[v],
           \/ pc'[w] = pc[w] /\ seen'[w] = seen[w]
           \/ pc'[w] = "idle" /\ seen'[w] = NoCopy
    PROVE  FreshIsTrue' /\ OwnCopies' /\ \A v \in Appliers : Ground(v)'
  <1>1. view'[w] = CopyOf(obj) /\ \A v \in Appliers \ {w} : view'[v] = view[v]
    BY DEF JudgedInv, TypeOK, Types
  <1>2. FreshIsTrue' BY <1>1 DEF JudgedInv, FreshIsTrue, CopyOf, NoCopy
  <1>3. TellsOwn(CopyOf(obj)) BY DEF TellsOwn, CopyOf
  <1>4. TellsOwn(NoCopy) BY DEF TellsOwn, NoCopy
  <1>5. kind = "statefulset" => \A v \in Appliers : TellsOwn(view'[v]) /\ TellsOwn(seen'[v])
    BY <1>1, <1>3, <1>4 DEF JudgedInv, OwnCopies
  <1>6. OwnCopies'
    <2>1. ASSUME kind = "service", NEW v \in Appliers
          PROVE  /\ view'[v].own => view'[v].what = obj
                 /\ seen'[v].own /\ pc'[v] # "recreate" => seen'[v].what = obj
      BY <1>1, <2>1 DEF JudgedInv, OwnCopies, CopyOf, NoCopy
    <2> QED BY <1>5, <2>1 DEF OwnCopies, TellsOwn
  <1>7. ASSUME NEW v \in Appliers \ {w} PROVE Ground(v)'
    BY <1>1, <1>7 DEF JudgedInv, Ground
  <1>8. Ground(w)' BY <1>1 DEF JudgedInv, Ground, CopyOf
  <1> QED BY <1>2, <1>6, <1>7, <1>8

LEMMA JudgedInvJudges ==
    ASSUME JudgedInv, NEW w \in Appliers, pc[w] = "delete", seen[w].own, obj # Gone
    PROVE  /\ obj.imm # want[w].imm
           /\ kind \in Guarded => Owned(obj)
  <1>1. kind \in {"storageclass", "statefulset", "service"}
    BY DEF JudgedInv, TypeOK, Stations, Replacing, Deleting
  <1>2. CASE kind = "statefulset"
    BY <1>2 DEF JudgedInv, OwnCopies, TellsOwn, Ground, Guarded
  <1>3. CASE kind = "service"
    BY <1>3 DEF JudgedInv, OwnCopies, Ground, Guarded
  <1>4. CASE kind = "storageclass"
    BY <1>4 DEF JudgedInv, Ground, Guarded
  <1> QED BY <1>1, <1>2, <1>3, <1>4

LEMMA JudgedInvKept ==
    ASSUME JudgedInv, [Next]_vars
    PROVE  JudgedInv'
  <1>t. TypeOK /\ Types BY DEF JudgedInv, TypeOK
  <1>u. TypeOK' BY <1>t, TypeKept, StationsKept DEF TypeOK
  <1> DEFINE Aim == FreshIsTrue' /\ OwnCopies' /\ \A v \in Appliers : Ground(v)'
  <1>1. ASSUME NEW w \in Appliers, Step(w) PROVE Aim
    BY <1>1, StepIsJudged
  <1>2. ASSUME NEW w \in Appliers, Observe(w) PROVE Aim
    <2>1. UNCHANGED << kind, obj, want, pc, seen >> /\ view' = [view EXCEPT ![w] = CopyOf(obj)]
      BY <1>2 DEF Observe
    <2> QED BY <2>1, ObservingStep
  <1>3. ASSUME NEW w \in Appliers, Restart(w) PROVE Aim
    <2>1. UNCHANGED << kind, obj, want >> /\ view' = [view EXCEPT ![w] = CopyOf(obj)]
      BY <1>3 DEF Restart
    <2>2. pc'[w] = "idle" /\ \A v \in Appliers \ {w} : pc'[v] = pc[v]
      BY <1>3, <1>t DEF Restart, Return, Go, Types
    <2>3. seen'[w] = NoCopy /\ \A v \in Appliers \ {w} : seen'[v] = seen[v]
      BY <1>3, <1>t, ForgottenCopies DEF Restart, Types
    <2> QED BY <2>1, <2>2, <2>3, ObservingStep
  <1>4. ASSUME NEW w \in Appliers, Edit(w) PROVE Aim
    <2>1. UNCHANGED << kind, obj, view, seen, pc, want >> BY <1>4 DEF Edit
    <2>3. Ground(w)' BY <2>1 DEF JudgedInv, Ground
    <2> QED BY <2>1, <2>3, QuietStep
  <1>5. ASSUME Meddle PROVE Aim
    <2>1. UNCHANGED << kind, pc, want >> /\ seen' = Aged(seen, Others) BY <1>5 DEF Meddle
    <2>2. PICK o : Changed(o, Others) BY <1>5 DEF Meddle
    <2>3. seen' \in [Appliers -> Copies] BY <2>1, <1>t, AgedTyped DEF Types
    <2>4. \A v \in Appliers :
             /\ ~ seen'[v].fresh
             /\ v # Others => pc'[v] = pc[v] /\ seen'[v].what = seen[v].what /\ ~ seen'[v].own
      <3>1. seen \in [Appliers -> Copies] BY <1>t DEF Types
      <3> QED BY <2>1, <3>1, AgedCopies
    <2>5. \A v \in Appliers : v # Others BY ApplyAssumption
    <2> QED BY <2>1, <2>2, <2>3, <2>4, <2>5, ChangingStep
  <1>6. ASSUME ReportStatus PROVE Aim
    <2>1. UNCHANGED << kind, obj, pc, want >> BY <1>6 DEF ReportStatus
    <2>2. \A v \in Appliers :
             /\ view'[v] = [view[v] EXCEPT !.fresh = FALSE]
             /\ seen'[v] = [seen[v] EXCEPT !.fresh = FALSE]
      BY <1>6 DEF ReportStatus
    <2>3. \A v \in Appliers :
             /\ view'[v].what = view[v].what /\ (view'[v].own => view[v].own)
             /\ seen'[v].what = seen[v].what /\ (seen'[v].own => seen[v].own)
             /\ ~ view'[v].fresh /\ ~ seen'[v].fresh
      <3> TAKE v \in Appliers
      <3>1. view[v] \in Copies /\ seen[v] \in Copies BY <1>t DEF Types
      <3>2. /\ view'[v] = [view[v] EXCEPT !.fresh = FALSE]
            /\ seen'[v] = [seen[v] EXCEPT !.fresh = FALSE]
        BY <2>2
      <3>3. view'[v].what = view[v].what /\ view'[v].own = view[v].own /\ ~ view'[v].fresh
        BY <3>1, <3>2, StaleTyped
      <3>4. seen'[v].what = seen[v].what /\ seen'[v].own = seen[v].own /\ ~ seen'[v].fresh
        BY <3>1, <3>2, StaleTyped
      <3> QED BY <3>3, <3>4
    <2>4. FreshIsTrue' BY <2>3 DEF FreshIsTrue
    <2>5. OwnCopies' BY <2>1, <2>3 DEF JudgedInv, OwnCopies, TellsOwn
    <2>6. \A v \in Appliers : Ground(v)' BY <2>1, <2>3 DEF JudgedInv, Ground
    <2> QED BY <2>4, <2>5, <2>6
  <1>7. ASSUME UNCHANGED vars PROVE Aim
    <2>1. UNCHANGED << kind, obj, view, seen, pc, want >> BY <1>7 DEF vars
    <2> QED BY <2>1 DEF JudgedInv, FreshIsTrue, OwnCopies, TellsOwn, Ground
  <1>8. Aim BY <1>1, <1>2, <1>3, <1>4, <1>5, <1>6, <1>7 DEF Next
  <1> QED BY <1>u, <1>8 DEF JudgedInv

\* No object is deleted on the word of a cache that has not yet shown the applier its
\* own last write, but for a Service it has replaced itself (deployer.go:569, 626, 664):
\* unless somebody else has changed the object since it was read, what a Delete finds is
\* drifted, and a StatefulSet or a Service the operator's.
THEOREM DeletesJudgedRight == Spec => []JudgedRight
  <1>1. JudgedInv /\ [Next]_vars => JudgedInv' BY JudgedInvKept
  <1>2. JudgedInv => JudgedRight BY JudgedInvJudges DEF JudgedRight
  <1> QED BY <1>1, <1>2, JudgedInvStart, PTL DEF Spec
-----------------------------------------------------------------------------
(* The refinement. An object deleted to be replaced is still there for      *)
(* AtomicApply while the call that deleted it goes on, and while nobody has *)
(* created it again.                                                        *)

Gap ==
    /\ replaced.what # Gone =>
          /\ obj = Gone /\ author = replaced.by
          /\ replaced.by \in Appliers /\ pc[replaced.by] = "recreate"
    /\ replaced.what = Gone => replaced.by = Others

\* What the call of w has decided on is no better known than what its informer has,
\* but for a Service it has deleted itself; and what it has deleted, the decision was
\* right about, unless somebody else has changed the object since.
Held(w) ==
    /\ kind # "unstructured" /\ pc[w] \in {"update", "reread", "delete"} /\ seen[w].own =>
          view[w].own
    /\ pc[w] = "recreate" /\ seen[w].own =>
          /\ replaced.by = w
          /\ replaced.what.imm # want[w].imm
          /\ kind \in Guarded => Owned(replaced.what)
          /\ kind # "service" => view[w].own

AtomicInv == JudgedInv /\ Gap /\ \A w \in Appliers : Held(w)

LEMMA GapKeptByRefusal ==
    ASSUME Types, Gap, NEW w \in Appliers, Refused(w)
    PROVE  Gap'
  <1>1. \A v \in Appliers \ {w} : pc'[v] = pc[v] BY DEF Refused, Return, Go, Types
  <1>2. obj' = obj /\ author' = author BY DEF Refused
  <1>3. CASE replaced.by = w
    BY <1>3 DEF Refused, NotReplaced, Gap
  <1>4. CASE replaced.by # w
    <2>1. replaced' = replaced BY <1>4 DEF Refused
    <2> QED BY <1>1, <1>2, <1>4, <2>1 DEF Gap
  <1> QED BY <1>3, <1>4

LEMMA GapKeptByWrite ==
    ASSUME Types, Gap, NEW w \in Appliers, Written(w)
    PROVE  Gap' /\ obj' = Render(want[w]) /\ replaced'.what = Gone
  <1>1. Render(want[w]) # Gone BY RenderTyped DEF Types
  <1>2. CASE obj = Render(want[w])
    <2>1. obj' = obj /\ author' = author /\ replaced' = replaced BY <1>2 DEF Written
    <2>2. replaced.what = Gone BY <1>1, <1>2 DEF Gap
    <2> QED BY <1>2, <2>1, <2>2 DEF Gap
  <1>3. CASE obj # Render(want[w])
    BY <1>3 DEF Written, Changed, NotReplaced, Gap
  <1> QED BY <1>2, <1>3

LEMMA GapKeptByStep ==
    ASSUME Types, Gap, NEW w \in Appliers, Step(w)
    PROVE  Gap'
  <1>1. CASE /\ UNCHANGED << obj, author, replaced >>
             /\ pc[w] # "recreate"
    BY <1>1, StepOnlyMoves DEF Gap
  <1>2. CASE Begin(w) BY <1>1, <1>2 DEF Begin
  <1>3. CASE Get(w) BY <1>1, <1>3 DEF Get
  <1>4. CASE UpdateConflict(w) BY <1>1, <1>4 DEF UpdateConflict
  <1>5. CASE UpdateInvalid(w) BY <1>1, <1>5 DEF UpdateInvalid
  <1>6. CASE Reread(w) BY <1>1, <1>6 DEF Reread
  <1>7. CASE Update(w) \/ Create(w) BY <1>7, GapKeptByWrite DEF Update, Create
  <1>8. CASE GetForeign(w) \/ UpdateRefused(w) \/ RereadNotFound(w) \/ DeleteNotFound(w)
               \/ CreateRefused(w) \/ CallFails(w)
    BY <1>8, GapKeptByRefusal DEF GetForeign, UpdateRefused, RereadNotFound,
       DeleteNotFound, CreateRefused, CallFails
  <1>9. CASE Delete(w)
    <2>1. obj # Gone /\ replaced.what = Gone /\ obj' = Gone /\ author' = w
      BY <1>9 DEF Delete, Changed, Gap
    <2>2. \/ replaced' = [what |-> obj, author |-> author, by |-> w] /\ pc'[w] = "recreate"
          \/ replaced' = replaced
      BY <1>9 DEF Delete, Go, Types
    <2> QED BY <2>1, <2>2 DEF Gap
  <1> QED BY <1>2, <1>3, <1>4, <1>5, <1>6, <1>7, <1>8, <1>9 DEF Step

\* What another does leaves what w holds, or makes its copies old.
LEMMA HeldMeanwhile ==
    ASSUME NEW v \in Appliers, Held(v), kind' = kind, pc'[v] = pc[v], want'[v] = want[v],
           \/ ~ seen'[v].own
           \/ /\ seen'[v] = seen[v]
              /\ view'[v] = view[v] \/ view'[v].own
              /\ replaced' = replaced \/ replaced.by # v
    PROVE  Held(v)'
  BY DEF Held

LEMMA HeldElsewhere ==
    ASSUME AtomicInv, NEW w \in Appliers, Step(w), NEW v \in Appliers \ {w}
    PROVE  Held(v)'
  <1>t. Types /\ Held(v) BY DEF AtomicInv, JudgedInv, TypeOK
  <1>1. pc'[v] = pc[v] BY <1>t, StepOnlyMoves
  <1>2. kind' = kind /\ want'[v] = want[v]
    BY <1>t DEF Types, Step, Begin, Get, GetForeign, Update, UpdateConflict, UpdateInvalid,
           UpdateRefused, Reread, RereadNotFound, Delete, DeleteNotFound, Create,
           CreateRefused, CallFails, Refused, Written
  <1>3. CASE /\ view' = view /\ seen'[v] = seen[v]
             /\ replaced' = replaced \/ replaced.by # v
    BY <1>t, <1>1, <1>2, <1>3, HeldMeanwhile
  <1>4. CASE ~ seen'[v].own
    BY <1>t, <1>1, <1>2, <1>4, HeldMeanwhile
  <1>5. Forget(seen, w)[v] = seen[v] BY <1>t, ForgottenCopies DEF Types
  <1>6. CASE Begin(w) BY <1>3, <1>6 DEF Begin
  <1>7. CASE Get(w) BY <1>t, <1>3, <1>7 DEF Get, Types
  <1>8. CASE UpdateConflict(w) BY <1>3, <1>5, <1>8 DEF UpdateConflict
  <1>9. CASE UpdateInvalid(w) BY <1>3, <1>9 DEF UpdateInvalid
  <1>10. CASE Reread(w) BY <1>3, <1>10 DEF Reread
  <1>11. CASE Refused(w) BY <1>3, <1>5, <1>11 DEF Refused
  <1>12. CASE seen' = Aged(seen, w) \/ seen' = Forget(Aged(seen, w), w)
    <2>1. Aged(seen, w) \in [Appliers -> Copies] BY <1>t, AgedTyped DEF Types
    <2>2. ~ Aged(seen, w)[v].own BY <1>t, AgedCopies DEF Types
    <2>3. Forget(Aged(seen, w), w)[v] = Aged(seen, w)[v] BY <2>1, ForgottenCopies
    <2> QED BY <1>4, <1>12, <2>2, <2>3
  <1>13. CASE Written(w)
    <2>1. CASE obj = Render(want[w]) BY <1>3, <1>5, <1>13, <2>1 DEF Written
    <2>2. CASE obj # Render(want[w]) BY <1>12, <1>13, <2>2 DEF Written
    <2> QED BY <2>1, <2>2
  <1>14. CASE Delete(w) BY <1>12, <1>14 DEF Delete
  <1> QED BY <1>6, <1>7, <1>8, <1>9, <1>10, <1>11, <1>13, <1>14
      DEF Step, GetForeign, Update, UpdateRefused, RereadNotFound, DeleteNotFound, Create,
          CreateRefused, CallFails

LEMMA HeldByStep ==
    ASSUME AtomicInv, NEW w \in Appliers, Step(w)
    PROVE  Held(w)'
  <1>t. Types BY DEF AtomicInv, JudgedInv, TypeOK
  <1>1. CASE pc'[w] \notin {"update", "reread", "delete", "recreate"} BY <1>1 DEF Held
  <1>2. CASE Begin(w) \/ UpdateConflict(w)
    BY <1>t, <1>1, <1>2 DEF Begin, UpdateConflict, Go, Types
  <1>3. CASE Get(w)
    <2>1. pc'[w] \in {"create", "update", "delete"} BY <1>t, <1>3 DEF Get, Go, Types
    <2>2. CASE pc'[w] # "create"
      <3>1. kind' = kind /\ view' = view /\ (kind # "unstructured" => seen'[w] = view[w])
        BY <1>t, <1>3 DEF Get, Source, Types
      <3> QED BY <2>1, <2>2, <3>1 DEF Held
    <2> QED BY <1>1, <2>1, <2>2
  <1>4. CASE UpdateInvalid(w)
    <2>1. pc[w] = "update" /\ pc'[w] = "reread" /\ UNCHANGED << kind, view, seen >>
      BY <1>t, <1>4 DEF UpdateInvalid, Go, Types
    <2> QED BY <2>1 DEF AtomicInv, Held
  <1>5. CASE Reread(w)
    <2>1. pc[w] = "reread" /\ pc'[w] = "delete" /\ UNCHANGED << kind, view, seen >>
      BY <1>t, <1>5 DEF Reread, Go, Types
    <2> QED BY <2>1 DEF AtomicInv, Held
  <1>6. CASE Refused(w) \/ Written(w)
    BY <1>t, <1>1, <1>6 DEF Refused, Written, Return, Go, Types
  <1>7. CASE Delete(w)
    <2>1. CASE pc'[w] = "idle" BY <1>1, <2>1
    <2>2. CASE pc'[w] = "recreate"
      <3>1. /\ replaced' = [what |-> obj, author |-> author, by |-> w]
            /\ seen' = Aged(seen, w) /\ view' = AgedViews(w)
            /\ pc[w] = "delete" /\ obj # Gone
            /\ kind' = kind /\ want' = want
        BY <1>t, <1>7, <2>2 DEF Delete, Changed, Return, Go, Types
      <3>2. SUFFICES ASSUME seen'[w].own PROVE Held(w)'
        BY <2>2 DEF Held
      <3>3. seen[w].own BY <1>t, <3>1, <3>2, AgedCopies DEF Types
      <3>4. obj.imm # want[w].imm /\ (kind \in Guarded => Owned(obj))
        BY <3>1, <3>3, JudgedInvJudges DEF AtomicInv
      <3>5. kind # "service" => view'[w].own
        <4>1. kind # "unstructured"
          BY <3>1 DEF AtomicInv, JudgedInv, TypeOK, Stations, Replacing, Deleting
        <4>2. Aged(view, w)[w].own
          BY <1>t, <3>1, <3>3, <4>1, AgedCopies DEF Types, AtomicInv, Held
        <4> QED BY <3>1, <4>2 DEF AgedViews
      <3> QED BY <2>2, <3>1, <3>4, <3>5 DEF Held
    <2>3. pc'[w] \in {"idle", "recreate"} BY <1>t, <1>7 DEF Delete, Return, Go, Types
    <2> QED BY <2>1, <2>2, <2>3
  <1> QED BY <1>2, <1>3, <1>4, <1>5, <1>6, <1>7
      DEF Step, GetForeign, Update, UpdateRefused, RereadNotFound, DeleteNotFound, Create,
          CreateRefused, CallFails

LEMMA AtomicInvStart == Init => AtomicInv
  <1> SUFFICES ASSUME Init PROVE AtomicInv OBVIOUS
  <1>1. Gap BY DEF Init, Gap, NotReplaced
  <1>2. \A w \in Appliers : Held(w) BY DEF Init, Held
  <1> QED BY <1>1, <1>2, JudgedInvStart DEF AtomicInv

LEMMA AtomicInvKept ==
    ASSUME AtomicInv, [Next]_vars
    PROVE  AtomicInv'
  <1>t. Types /\ JudgedInv /\ Gap /\ \A w \in Appliers : Held(w)
    BY DEF AtomicInv, JudgedInv, TypeOK
  <1>u. JudgedInv' BY <1>t, JudgedInvKept
  <1> DEFINE Aim == Gap' /\ \A v \in Appliers : Held(v)'
  <1>1. ASSUME NEW w \in Appliers, Step(w) PROVE Aim
    BY <1>1, <1>t, GapKeptByStep, HeldElsewhere, HeldByStep
  <1>2. ASSUME NEW w \in Appliers, Observe(w) PROVE Aim
    <2>1. UNCHANGED << kind, obj, author, pc, seen, want, replaced >> BY <1>2 DEF Observe
    <2>2. \A v \in Appliers : view'[v] = view[v] \/ view'[v].own
      BY <1>2, <1>t DEF Observe, Types, CopyOf
    <2>3. Gap' BY <2>1, <1>t DEF Gap
    <2> QED BY <2>1, <2>2, <2>3, <1>t, HeldMeanwhile
  <1>3. ASSUME NEW w \in Appliers, Restart(w) PROVE Aim
    <2>1. /\ UNCHANGED << kind, obj, author, want >>
          /\ replaced' = IF replaced.by = w THEN NotReplaced ELSE replaced
      BY <1>3 DEF Restart
    <2>2. pc'[w] = "idle" /\ \A v \in Appliers \ {w} : pc'[v] = pc[v]
      BY <1>3, <1>t DEF Restart, Return, Go, Types
    <2>3. \A v \in Appliers \ {w} : seen'[v] = seen[v] /\ view'[v] = view[v]
      BY <1>3, <1>t, ForgottenCopies DEF Restart, Types
    <2>4. Gap'
      <3>1. CASE replaced.by = w BY <1>t, <2>1, <3>1 DEF NotReplaced, Gap
      <3>2. CASE replaced.by # w
        <4>1. replaced' = replaced BY <2>1, <3>2
        <4> QED BY <2>1, <2>2, <3>2, <4>1, <1>t DEF Gap
      <3> QED BY <3>1, <3>2
    <2>5. Held(w)' BY <2>2 DEF Held
    <2>6. \A v \in Appliers \ {w} : Held(v)' BY <1>t, <2>1, <2>2, <2>3, HeldMeanwhile
    <2> QED BY <2>4, <2>5, <2>6
  <1>4. ASSUME NEW w \in Appliers, Edit(w) PROVE Aim
    <2>1. UNCHANGED << kind, obj, author, view, seen, pc, want, replaced >> BY <1>4 DEF Edit
    <2> QED BY <2>1, <1>t DEF Gap, Held
  <1>5. ASSUME Meddle PROVE Aim
    <2>1. UNCHANGED << kind, pc, want >> /\ replaced' = NotReplaced /\ seen' = Aged(seen, Others)
      BY <1>5 DEF Meddle
    <2>2. \A v \in Appliers : ~ seen'[v].own
      <3>1. \A v \in Appliers : v # Others BY ApplyAssumption
      <3> QED BY <2>1, <3>1, <1>t, AgedCopies DEF Types
    <2>3. Gap' BY <2>1, <1>t DEF Gap, NotReplaced
    <2> QED BY <2>1, <2>2, <2>3, <1>t, HeldMeanwhile
  <1>6. ASSUME ReportStatus PROVE Aim
    <2>1. UNCHANGED << kind, obj, author, pc, want, replaced >> BY <1>6 DEF ReportStatus
    <2>2. \A v \in Appliers : view'[v].own = view[v].own /\ seen'[v].own = seen[v].own
      <3> TAKE v \in Appliers
      <3>1. view[v] \in Copies /\ seen[v] \in Copies BY <1>t DEF Types
      <3>2. /\ view'[v] = [view[v] EXCEPT !.fresh = FALSE]
            /\ seen'[v] = [seen[v] EXCEPT !.fresh = FALSE]
        BY <1>6 DEF ReportStatus
      <3> QED BY <3>1, <3>2, StaleTyped
    <2> QED BY <2>1, <2>2, <1>t DEF Gap, Held
  <1>7. ASSUME UNCHANGED vars PROVE Aim
    <2>1. UNCHANGED << kind, obj, author, view, seen, pc, want, replaced >> BY <1>7 DEF vars
    <2> QED BY <2>1, <1>t DEF Gap, Held
  <1>8. Aim BY <1>1, <1>2, <1>3, <1>4, <1>5, <1>6, <1>7 DEF Next
  <1> QED BY <1>u, <1>8 DEF AtomicInv

LEMMA AtomicAlways == Spec => []AtomicInv
  <1>1. AtomicInv /\ [Next]_vars => AtomicInv' BY AtomicInvKept
  <1> QED BY <1>1, AtomicInvStart, PTL DEF Spec

-----------------------------------------------------------------------------
\* The variables of AtomicApply.
Object  == IF replaced.what = Gone THEN obj ELSE replaced.what
Author  == IF replaced.what = Gone THEN author ELSE replaced.author
Current == {w \in Appliers : Basis(w).own}
Pending == {w \in Appliers : pc[w] # "idle"}

Stutter == UNCHANGED << kind, Object, Author, Current, Pending, want, result >>

LEMMA ReturnIsReturn ==
    ASSUME Types, NEW w \in Appliers, pc[w] # "idle", NEW r, Return(w, r),
           UNCHANGED << kind, want >>
    PROVE  Atomic!Return(w, r)
  <1>1. w \in Pending BY DEF Pending
  <1>2. Pending' = Pending \ {w} BY DEF Return, Go, Types, Pending
  <1>3. result' = [result EXCEPT ![w] = r] BY DEF Return
  <1> QED BY <1>1, <1>2, <1>3 DEF Atomic!Return, Pending

LEMMA PendingStays ==
    ASSUME Types, NEW w \in Appliers, pc[w] # "idle", NEW to, to # "idle", Go(w, to)
    PROVE  Pending' = Pending
  BY DEF Types, Go, Pending

\* What is not the applier's own picture of the object is at best what it held.
LEMMA BasisHeld ==
    ASSUME AtomicInv, NEW w \in Appliers, Basis(w).own, ~ view[w].own
    PROVE  kind = "service" /\ pc[w] = "recreate" /\ replaced.by = w
  BY DEF AtomicInv, JudgedInv, TypeOK, Stations, Basis, Held, Replacing, Deleting

\* An error takes the gap with it, or leaves things as they are.
LEMMA RefusalIsFailure ==
    ASSUME AtomicInv, NEW w \in Appliers, pc[w] # "idle",
           Return(w, "err"), UNCHANGED << kind, obj, author, want >>,
           \A v \in Appliers \ {w} : view'[v] = view[v] /\ seen'[v] = seen[v],
           view'[w] = view[w] \/ view'[w].own,
           replaced' = IF replaced.by = w THEN NotReplaced ELSE replaced
    PROVE  Atomic!Remove(w) \/ Atomic!Fail(w)
  <1>t. Types /\ Stations /\ Gap /\ \A v \in Appliers : Held(v)
    BY DEF AtomicInv, JudgedInv, TypeOK
  <1>1. Atomic!Return(w, "err") BY <1>t, ReturnIsReturn
  <1>2. pc'[w] = "idle" /\ \A v \in Appliers \ {w} : pc'[v] = pc[v]
    BY <1>t DEF Return, Go, Types
  <1>3. \A v \in Appliers \ {w} : Basis(v)' = Basis(v) BY <1>2 DEF Basis
  <1>4. Basis(w)' = view'[w] BY <1>2 DEF Basis
  <1>5. CASE replaced.by = w
    <2>1. replaced.what # Gone BY <1>5, <1>t, ApplyAssumption DEF Gap
    <2>2. obj = Gone /\ pc[w] = "recreate" /\ kind \in Replacing
      BY <1>5, <2>1, <1>t DEF Gap, Stations
    <2>3. Object' = Gone /\ Object = replaced.what BY <1>5, <2>1, <2>2 DEF NotReplaced, Object
    <2>4. Author' = w
      BY <1>5, <2>1, <1>t DEF NotReplaced, Author, Gap
    <2>5. w \in Current =>
             /\ Object.imm # Render(want[w]).imm
             /\ kind \in Guarded => Owned(Object)
      BY <2>2, <2>3, <1>t DEF Current, Basis, Held, Render
    <2>6. w \in Current /\ kind # "service" => w \in Current'
      BY <1>4, BasisHeld DEF Current
    <2> QED BY <1>1, <2>1, <2>2, <2>3, <2>4, <2>5, <2>6
        DEF Atomic!Remove, Atomic!Alters, Object, Author, Current
  <1>6. CASE replaced.by # w
    <2>1. Object' = Object /\ Author' = Author BY <1>6 DEF Object, Author
    <2>2. Basis(w).own => Basis(w)'.own BY <1>4, <1>6, BasisHeld
    <2>3. Current \subseteq Current' BY <1>3, <2>2 DEF Current
    <2> QED BY <1>1, <2>1, <2>3 DEF Atomic!Fail, Atomic!NoneOutdated, Object, Author, Current
  <1> QED BY <1>5, <1>6

LEMMA WriteIsInstall ==
    ASSUME AtomicInv, NEW w \in Appliers, pc[w] # "idle", Written(w),
           obj # Gone => obj.imm = want[w].imm
    PROVE  Atomic!Install(w)
  <1>t. Types /\ Stations /\ Gap /\ \A v \in Appliers : Held(v)
    BY DEF AtomicInv, JudgedInv, TypeOK
  <1>1. Atomic!Return(w, "ok") \/ Atomic!Return(w, "err")
    <2>1. CASE Return(w, "ok") BY <2>1, <1>t, ReturnIsReturn DEF Written
    <2>2. CASE Return(w, "err") BY <2>2, <1>t, ReturnIsReturn DEF Written
    <2> QED BY <2>1, <2>2 DEF Written
  <1>2. Object' = Render(want[w]) BY <1>t, GapKeptByWrite DEF Object
  <1>3. Object # Gone /\ kind \notin Replacing => Object.imm = Render(want[w]).imm
    <2>1. kind \notin Replacing => replaced.what = Gone BY <1>t DEF Gap, Stations
    <2>2. Render(want[w]).imm = want[w].imm BY DEF Render
    <2> QED BY <2>1, <2>2 DEF Object
  <1>4. pc'[w] = "idle" /\ \A v \in Appliers \ {w} : pc'[v] = pc[v]
    BY <1>t DEF Written, Return, Go, Types
  <1>5. CASE obj = Render(want[w])
    <2>1. UNCHANGED << obj, author, view, replaced >> /\ seen' = Forget(seen, w)
      BY <1>5 DEF Written
    <2>2. obj # Gone BY <1>5, <1>t, RenderTyped DEF Types
    <2>3. replaced.what = Gone /\ replaced.by # w
      BY <2>2, <1>t, ApplyAssumption DEF Gap
    <2>4. Object' = Object /\ Author' = Author BY <2>1 DEF Object, Author
    <2>5. \A v \in Appliers \ {w} : Basis(v)' = Basis(v)
      BY <1>4, <2>1, <1>t, ForgottenCopies DEF Basis, Types
    <2>6. Basis(w).own => Basis(w)'.own BY <1>4, <2>1, <2>3, BasisHeld DEF Basis
    <2>7. Current \subseteq Current' BY <2>5, <2>6 DEF Current
    <2> QED BY <1>1, <1>2, <1>3, <2>4, <2>7
        DEF Atomic!Install, Atomic!NoneOutdated, Object, Author, Current
  <1>6. CASE obj # Render(want[w])
    <2>1. author' = w /\ view' = AgedViews(w) /\ replaced' = NotReplaced
      BY <1>6 DEF Written, Changed
    <2>2. Author' = w BY <2>1 DEF Author, NotReplaced
    <2>3. ASSUME w \in Current, kind # "service" PROVE w \in Current'
      <3>1. view[w].own BY <2>3, BasisHeld DEF Current
      <3>2. view'[w].own BY <2>1, <2>3, <3>1, <1>t, AgedCopies DEF AgedViews, Types
      <3> QED BY <1>4, <3>2 DEF Current, Basis
    <2> QED BY <1>1, <1>2, <1>3, <2>2, <2>3
        DEF Atomic!Install, Atomic!Alters, Object, Author, Current
  <1> QED BY <1>5, <1>6

\* A delete takes the object away and returns, or outdates what the others know.
LEMMA DeleteIsAtomic ==
    ASSUME AtomicInv, NEW w \in Appliers, Delete(w)
    PROVE  Atomic!Remove(w) \/ Atomic!Unsettle(w)
  <1>t. Types /\ Stations /\ Gap /\ \A v \in Appliers : Held(v)
    BY DEF AtomicInv, JudgedInv, TypeOK
  <1>1. /\ pc[w] = "delete" /\ obj # Gone /\ obj' = Gone /\ author' = w
        /\ view' = AgedViews(w)
        /\ UNCHANGED << kind, want >>
    BY DEF Delete, Changed
  <1>2. replaced.what = Gone /\ Object = obj /\ Author = author
    BY <1>1, <1>t DEF Gap, Object, Author
  <1>3. Basis(w) = seen[w] BY <1>1 DEF Basis
  <1>4. CASE /\ replaced' = [what |-> obj, author |-> author, by |-> w] /\ kind \in Replacing
             /\ seen' = Aged(seen, w)
             /\ Go(w, "recreate") /\ result' = result
    <2>1. Pending' = Pending BY <1>1, <1>4, <1>t, PendingStays
    <2>2. Object' = Object /\ Author' = Author BY <1>1, <1>2, <1>4 DEF Object, Author
    <2>3. Basis(w)'.own <=> Basis(w).own
      <3>1. pc'[w] = "recreate" BY <1>4, <1>t DEF Go, Types
      <3>2. Basis(w)' = Aged(seen, w)[w] BY <1>4, <3>1 DEF Basis
      <3> QED BY <1>3, <3>2, <1>t, AgedCopies DEF Types
    <2>4. \A v \in Appliers \ {w} : ~ Basis(v)'.own
      <3>1. \A v \in Appliers \ {w} : ~ Aged(seen, w)[v].own BY <1>t, AgedCopies DEF Types
      <3>2. \A v \in Appliers \ {w} : ~ AgedViews(w)[v].own BY <1>t, AgedViewsCopies DEF Types
      <3> QED BY <1>1, <1>4, <3>1, <3>2 DEF Basis
    <2>5. Current' = Current \cap {w} BY <2>3, <2>4 DEF Current
    <2>6. w \in Pending BY <1>1 DEF Pending
    <2> QED BY <1>1, <1>4, <2>1, <2>2, <2>5, <2>6
        DEF Atomic!Unsettle, Object, Author, Current, Pending
  <1>5. CASE Return(w, "err") /\ replaced' = replaced
    <2>1. Atomic!Return(w, "err") BY <1>1, <1>5, <1>t, ReturnIsReturn
    <2>2. Object' = Gone /\ Author' = w BY <1>1, <1>2, <1>5 DEF Object, Author
    <2>3. kind \in Replacing \cup Deleting BY <1>1, <1>t DEF Stations
    <2>4. w \in Current => /\ Object.imm # Render(want[w]).imm
                           /\ kind \in Guarded => Owned(Object)
      BY <1>1, <1>2, <1>3, JudgedInvJudges DEF AtomicInv, Current, Render
    <2>5. ASSUME w \in Current, kind # "service" PROVE w \in Current'
      <3>1. view[w].own BY <1>1, <2>5, BasisHeld DEF Current
      <3>2. view'[w].own BY <1>1, <2>5, <3>1, <1>t, AgedCopies DEF AgedViews, Types
      <3>3. pc'[w] = "idle" BY <1>5, <1>t DEF Return, Go, Types
      <3> QED BY <3>2, <3>3 DEF Current, Basis
    <2> QED BY <1>1, <1>2, <2>1, <2>2, <2>3, <2>4, <2>5
        DEF Atomic!Remove, Atomic!Alters, Object, Author, Current
  <1> QED BY <1>4, <1>5 DEF Delete

\* Steps in which an applier only reads and decides.
LEMMA ThoughtIsAtomic ==
    ASSUME AtomicInv, NEW w \in Appliers,
           Get(w) \/ UpdateConflict(w) \/ UpdateInvalid(w) \/ Reread(w)
    PROVE  Atomic!Learn
  <1>t. Types /\ Stations BY DEF AtomicInv, JudgedInv, TypeOK
  <1>1. \E to \in {"create", "delete", "update", "get", "reread"} :
           pc[w] # "idle" /\ Go(w, to)
    BY DEF Get, UpdateConflict, UpdateInvalid, Reread
  <1>2. Pending' = Pending BY <1>1, <1>t, PendingStays
  <1>3. UNCHANGED << kind, obj, author, view, replaced, want, result >>
    BY DEF Get, UpdateConflict, UpdateInvalid, Reread
  <1>4. UNCHANGED << Object, Author >> BY <1>3 DEF Object, Author
  <1>5. \A v \in Appliers \ {w} : Basis(v)' = Basis(v)
    <2>1. \A v \in Appliers \ {w} : pc'[v] = pc[v] BY <1>1, <1>t DEF Go, Types
    <2>2. Forget(seen, w) \in [Appliers -> Copies] BY <1>t, ForgetTyped DEF Types
    <2>3. \A v \in Appliers \ {w} : seen'[v] = seen[v]
      BY <1>t, <2>2, ForgottenCopies DEF Types, Get, UpdateConflict, UpdateInvalid, Reread
    <2> QED BY <1>3, <2>1, <2>3 DEF Basis
  <1>6. Basis(w).own => Basis(w)'.own
    <2>1. CASE Get(w)
      <3>1. pc[w] = "get" /\ pc'[w] \in {"create", "update", "delete"}
        BY <1>t, <2>1 DEF Get, Go, Types
      <3>2. CASE pc'[w] = "delete"
        <4>1. kind \in Guarded BY <1>t, <2>1, <3>2 DEF Get, Go, Types, Drifted
        <4>2. seen'[w] = view[w] BY <1>t, <2>1, <4>1 DEF Get, Source, Types, Guarded
        <4> QED BY <3>1, <3>2, <4>2 DEF Basis
      <3> QED BY <1>3, <3>1, <3>2 DEF Basis
    <2>2. CASE UpdateConflict(w)
      BY <1>3, <1>t, <2>2 DEF UpdateConflict, Go, Types, Basis
    <2>3. CASE UpdateInvalid(w)
      <3>1. seen'[w] = seen[w] /\ seen[w].own /\ pc'[w] = "reread"
        BY <1>t, <2>3 DEF UpdateInvalid, Go, Types, AtomicInv, JudgedInv, FreshIsTrue
      <3> QED BY <3>1 DEF Basis
    <2>4. CASE Reread(w)
      BY <1>t, <2>4 DEF Reread, Go, Types, Basis
    <2> QED BY <2>1, <2>2, <2>3, <2>4
  <1>7. Current \subseteq Current' BY <1>5, <1>6 DEF Current
  <1> QED BY <1>2, <1>3, <1>4, <1>7
      DEF Atomic!Learn, Atomic!NoneOutdated, Object, Author, Current, Pending

LEMMA StepIsAtomic ==
    ASSUME AtomicInv, NEW w \in Appliers, Step(w)
    PROVE  Atomic!ANext
  <1>t. Types BY DEF AtomicInv, JudgedInv, TypeOK
  <1>1. CASE Begin(w)
    <2>1. w \notin Pending /\ Pending' = Pending \cup {w}
      BY <1>1, <1>t DEF Begin, Go, Types, Pending
    <2>2. ask[w] \in Wants /\ want' = [want EXCEPT ![w] = ask[w]]
      BY <1>1, <1>t DEF Begin, Types
    <2>3. /\ UNCHANGED << kind, obj, author, view, seen, replaced >>
          /\ result' = [result EXCEPT ![w] = "none"]
      BY <1>1 DEF Begin
    <2>4. \A v \in Appliers : Basis(v)' = Basis(v)
      BY <1>1, <1>t, <2>3 DEF Begin, Go, Types, Basis
    <2>5. UNCHANGED << Object, Author, Current >> BY <2>3, <2>4 DEF Object, Author, Current
    <2> QED BY <2>1, <2>2, <2>3, <2>5
        DEF Atomic!Call, Atomic!NoneOutdated, Atomic!ANext, Object, Author, Current, Pending
  <1>2. CASE Get(w) \/ UpdateConflict(w) \/ UpdateInvalid(w) \/ Reread(w)
    BY <1>2, ThoughtIsAtomic DEF Atomic!ANext
  <1>3. CASE Update(w)
    <2>1. Written(w) /\ pc[w] # "idle" /\ obj.imm = want[w].imm BY <1>3 DEF Update
    <2> QED BY <2>1, WriteIsInstall DEF Atomic!ANext
  <1>4. CASE Create(w)
    <2>1. Written(w) /\ pc[w] # "idle" /\ obj = Gone BY <1>4 DEF Create
    <2> QED BY <2>1, WriteIsInstall DEF Atomic!ANext
  <1>5. CASE GetForeign(w) \/ UpdateRefused(w) \/ RereadNotFound(w) \/ DeleteNotFound(w)
               \/ CreateRefused(w) \/ CallFails(w)
    <2>1. pc[w] # "idle" /\ Refused(w)
      BY <1>5 DEF GetForeign, UpdateRefused, RereadNotFound, DeleteNotFound, CreateRefused,
         CallFails
    <2>2. \A v \in Appliers \ {w} : seen'[v] = seen[v]
      BY <2>1, <1>t, ForgottenCopies DEF Refused, Types
    <2> QED BY <2>1, <2>2, RefusalIsFailure DEF Refused, Atomic!ANext
  <1>6. CASE Delete(w) BY <1>6, DeleteIsAtomic DEF Atomic!ANext
  <1> QED BY <1>1, <1>2, <1>3, <1>4, <1>5, <1>6 DEF Step

LEMMA RestartIsAtomic ==
    ASSUME AtomicInv, NEW w \in Appliers, Restart(w)
    PROVE  Atomic!ANext
  <1>t. Types /\ Gap BY DEF AtomicInv, JudgedInv, TypeOK
  <1>1. /\ UNCHANGED << kind, obj, author, want >>
        /\ view' = [view EXCEPT ![w] = CopyOf(obj)] /\ seen' = Forget(seen, w)
        /\ replaced' = IF replaced.by = w THEN NotReplaced ELSE replaced
    BY DEF Restart
  <1>2. \A v \in Appliers \ {w} : view'[v] = view[v] /\ seen'[v] = seen[v]
    BY <1>1, <1>t, ForgottenCopies DEF Types
  <1>3. view'[w].own BY <1>1, <1>t DEF Types, CopyOf
  <1>4. CASE pc[w] = "idle"
    <2>1. replaced.by # w BY <1>4, <1>t, ApplyAssumption DEF Gap
    <2>2. UNCHANGED << replaced, pc, result >> BY <1>1, <1>4, <2>1 DEF Restart
    <2>3. Current \subseteq Current' BY <1>2, <1>3, <1>4, <2>2 DEF Current, Basis
    <2> QED BY <1>1, <2>2, <2>3
        DEF Atomic!Learn, Atomic!NoneOutdated, Atomic!ANext, Object, Author, Current, Pending
  <1>5. CASE pc[w] # "idle"
    <2>1. Return(w, "err") BY <1>5 DEF Restart
    <2> QED BY <1>1, <1>2, <1>3, <1>5, <2>1, RefusalIsFailure DEF Atomic!ANext
  <1> QED BY <1>4, <1>5

\* Whatever an applier does between two calls, its apply looks from outside like
\* AtomicApply (deployer.go:559-674): it changes the object at most once, in the step
\* that returns; it returns nil only when it has the object as rendered; an error goes
\* with no change, with the write whose reply was lost, or with an object deleted,
\* which was drifted - and the operator's, of a StatefulSet or a Service - unless
\* somebody else has changed it since the applier saw it. For any number of managers,
\* stale copies, conflicts, crashes and interfering clients.
THEOREM ApplyIsAtomic == Spec => ImplementsAtomicApply
  <1>1. Init => Atomic!AInit
    <2> SUFFICES ASSUME Init PROVE Atomic!AInit OBVIOUS
    <2>1. \A w \in Appliers : Basis(w).own BY DEF Init, Basis, CopyOf
    <2> QED BY <2>1 DEF Init, Atomic!AInit, NotReplaced
  <1>2. AtomicInv /\ [Next]_vars => [Atomic!ANext]_Atomic!avars
    <2> SUFFICES ASSUME AtomicInv, [Next]_vars PROVE Atomic!ANext \/ Stutter
      BY DEF Atomic!avars, Stutter, Object, Author, Current, Pending
    <2>t. Types BY DEF AtomicInv, JudgedInv, TypeOK
    <2>1. ASSUME NEW w \in Appliers, Step(w) PROVE Atomic!ANext
      BY <2>1, StepIsAtomic
    <2>2. ASSUME NEW w \in Appliers, Observe(w) PROVE Atomic!ANext
      <3>1. UNCHANGED << kind, obj, author, pc, seen, want, result, replaced >>
        BY <2>2 DEF Observe
      <3>2. \A v \in Appliers : view'[v] = view[v] \/ view'[v].own
        BY <2>2, <2>t DEF Observe, Types, CopyOf
      <3>3. Current \subseteq Current' BY <3>1, <3>2 DEF Current, Basis
      <3> QED BY <3>1, <3>3
          DEF Atomic!Learn, Atomic!NoneOutdated, Atomic!ANext, Object, Author, Current, Pending
    <2>3. ASSUME NEW w \in Appliers, Restart(w) PROVE Atomic!ANext
      BY <2>3, RestartIsAtomic
    <2>4. ASSUME NEW w \in Appliers, Edit(w) PROVE Stutter
      BY <2>4 DEF Edit, Stutter, Object, Author, Current, Pending, Basis
    <2>5. CASE Meddle
      <3>1. UNCHANGED << kind, pc, want, result >> /\ seen' = Aged(seen, Others)
            /\ replaced' = NotReplaced /\ author' = Others /\ view' = AgedViews(Others)
        BY <2>5 DEF Meddle, Changed
      <3>2. \A v \in Appliers : ~ seen'[v].own /\ ~ view'[v].own
        <4>1. \A v \in Appliers : v # Others BY ApplyAssumption
        <4> QED BY <3>1, <4>1, <2>t, AgedCopies, AgedViewsCopies DEF Types
      <3>3. Current' = {} BY <3>2 DEF Current, Basis
      <3>4. Author' = Others BY <3>1 DEF Author, NotReplaced
      <3> QED BY <3>1, <3>3, <3>4 DEF Atomic!Meddle, Atomic!ANext, Author, Current, Pending
    <2>6. CASE ReportStatus
      <3>1. UNCHANGED << kind, obj, author, pc, want, result, replaced >> BY <2>6 DEF ReportStatus
      <3>2. \A v \in Appliers : view'[v].own = view[v].own /\ seen'[v].own = seen[v].own
        <4> TAKE v \in Appliers
        <4>1. view[v] \in Copies /\ seen[v] \in Copies BY <2>t DEF Types
        <4>2. /\ view'[v] = [view[v] EXCEPT !.fresh = FALSE]
              /\ seen'[v] = [seen[v] EXCEPT !.fresh = FALSE]
          BY <2>6 DEF ReportStatus
        <4> QED BY <4>1, <4>2, StaleTyped
      <3>3. \A v \in Appliers : Basis(v)'.own = Basis(v).own BY <3>1, <3>2 DEF Basis
      <3>4. Current' = Current BY <3>3 DEF Current
      <3> QED BY <3>1, <3>4 DEF Stutter, Object, Author, Pending
    <2>7. CASE UNCHANGED vars
      BY <2>7 DEF vars, Stutter, Object, Author, Current, Pending, Basis
    <2> QED BY <2>1, <2>2, <2>3, <2>4, <2>5, <2>6, <2>7 DEF Next
  <1> QED BY <1>1, <1>2, AtomicAlways, PTL DEF Spec, ImplementsAtomicApply, Atomic!ASpec
=============================================================================
