---------------------------- MODULE StudioProofs ----------------------------
(***************************************************************************)
(* What Studio and Projects promise, for any number of requests, designs,   *)
(* revisions, versions and models, and for any assets; and then what their    *)
(* composition in MCStudio does, which is what the run checks.               *)
(***************************************************************************)
EXTENDS MCStudio, FiniteSetTheorems, SequenceTheorems, WellFoundedInduction, TLAPS

\* Studio counts versions with its own instance of FiniteSets, which is this module's.
LEMMA SameFiniteSets ==
    \A S : D!IsFiniteSet(S) = IsFiniteSet(S) /\ D!Cardinality(S) = Cardinality(S)
BY DEF D!IsFiniteSet, IsFiniteSet, D!Cardinality, Cardinality

\* No version has a number above the newest.
LEMMA NewestIsMax ==
    ASSUME D!StudioAssumption, NEW vs \in SUBSET D!VersionRow
    PROVE  /\ D!Newest(vs) \in Nat
           /\ \A v \in vs : v.no <= D!Newest(vs)
<1>1. CASE vs = {}
  BY <1>1 DEF D!Newest
<1>2. CASE vs # {}
  <2> DEFINE T == {MaxVersions - v.no : v \in vs}
  <2>1. \A v \in vs : v.no \in 1..MaxVersions
    BY DEF D!VersionRow
  <2>2. MaxVersions \in Nat
    BY DEF D!StudioAssumption
  <2>3. T \subseteq Nat /\ T # {}
    BY <1>2, <2>1, <2>2
  <2>4. \E x \in T : \A y \in T : ~(<<y, x>> \in OpToRel(<, Nat))
    BY <2>3, WFMin, NatLessThanWellFounded
  <2>5. \E x \in T : \A y \in T : ~(y < x)
    BY <2>3, <2>4 DEF OpToRel
  <2>6. PICK m \in vs : \A v \in vs : v.no <= m.no
    <3>1. PICK x \in T : \A y \in T : ~(y < x)
      BY <2>5
    <3>2. PICK m \in vs : x = MaxVersions - m.no
      OBVIOUS
    <3>3. \A v \in vs : ~(MaxVersions - v.no < MaxVersions - m.no)
      BY <3>1, <3>2
    <3> QED
      BY <2>1, <2>2, <3>3
  <2>7. \E n \in {v.no : v \in vs} : \A v \in vs : v.no <= n
    BY <2>6
  <2>8. /\ D!Newest(vs) \in {v.no : v \in vs}
        /\ \A v \in vs : v.no <= D!Newest(vs)
    BY <1>2, <2>7 DEF D!Newest
  <2> QED
    BY <2>1, <2>8
<1> QED
  BY <1>1, <1>2

\* Of a finite set of versions with distinct numbers, one that is not empty has an oldest.
LEMMA OldestExists ==
    ASSUME NEW vs \in SUBSET [no: Nat, design: Designs, pinned: BOOLEAN], vs # {}
    PROVE  \E m \in vs : \A v \in vs : m.no <= v.no
<1> DEFINE T == {v.no : v \in vs}
<1>1. T \subseteq Nat /\ T # {}
  OBVIOUS
<1>2. \E x \in T : \A y \in T : ~(<<y, x>> \in OpToRel(<, Nat))
  BY <1>1, WFMin, NatLessThanWellFounded
<1>3. \E x \in T : \A y \in T : ~(y < x)
  BY <1>1, <1>2 DEF OpToRel
<1>4. PICK m \in vs : \A v \in vs : ~(v.no < m.no)
  BY <1>3
<1>5. \A v \in vs : v.no \in Nat
  OBVIOUS
<1> QED
  BY <1>4, <1>5

\* Pruning keeps at most Keep versions that no export holds.
LEMMA PruneBounds ==
    ASSUME D!StudioAssumption,
           NEW vs \in SUBSET [no: Nat, design: Designs, pinned: BOOLEAN], IsFiniteSet(vs),
           \A v, w \in vs : v.no = w.no => v = w
    PROVE  Cardinality({v \in D!Prune(vs) : ~v.pinned}) <= Keep
<1> DEFINE U == {v \in D!Prune(vs) : ~v.pinned}
<1> SUFFICES Cardinality(U) <= Keep
  OBVIOUS
<1>1. U \subseteq vs
  BY DEF D!Prune
<1>2. IsFiniteSet(U)
  BY <1>1, FS_Subset
<1>3. Keep \in Nat
  BY DEF D!StudioAssumption
<1>4. CASE U = {}
  <2>1. Cardinality(U) = 0
    BY <1>4, FS_EmptySet
  <2> QED
    BY <1>3, <2>1
<1>5. CASE U # {}
  <2>1. PICK m \in U : \A v \in U : m.no <= v.no
    BY <1>1, <1>5, OldestExists
  <2> DEFINE Newer == {w \in vs : ~w.pinned /\ w.no > m.no}
  <2>2. U \ {m} \subseteq Newer
    <3> SUFFICES ASSUME NEW v \in U, v # m PROVE v \in Newer
      OBVIOUS
    <3>1. v \in vs /\ m \in vs /\ ~v.pinned
      BY <1>1
    <3>2. v.no \in Nat /\ m.no \in Nat /\ v.no # m.no
      BY <3>1
    <3> QED
      BY <2>1, <3>1, <3>2
  <2>3. IsFiniteSet(Newer)
    BY FS_Subset, Newer \in SUBSET vs
  <2>4. Cardinality(Newer) < Keep
    BY SameFiniteSets DEF D!Prune
  <2>5. Cardinality(U \ {m}) <= Cardinality(Newer)
    BY <2>2, <2>3, FS_Subset
  <2>6. Cardinality(U \ {m}) = Cardinality(U) - 1
    BY <1>2, FS_RemoveElement
  <2>7. Cardinality(U) \in Nat /\ Cardinality(Newer) \in Nat /\ Cardinality(U \ {m}) \in Nat
    BY <1>2, <2>3, FS_RemoveElement, FS_CardinalityType
  <2> HIDE DEF U, Newer
  <2> QED
    BY <1>3, <2>4, <2>5, <2>6, <2>7
<1> QED
  BY <1>4, <1>5

\* A snapshot of a design leaves a history: what an export holds stays, and a pinned
\* snapshot is held.
LEMMA SnapshotHistory ==
    ASSUME D!StudioAssumption, NEW vs, D!IsHistory(vs), NEW d \in Designs, NEW pin \in BOOLEAN,
           D!Newest(vs) < MaxVersions, NEW S, S = D!Snapshot(vs, d, pin)
    PROVE  /\ D!IsHistory(S)
           /\ \A v \in vs : v.pinned => \E w \in S : w.design = v.design /\ w.pinned
           /\ pin => \E w \in S : w.design = d /\ w.pinned
<1> DEFINE Pinned(v) == IF v.no = D!Newest(vs) THEN [v EXCEPT !.pinned = @ \/ pin] ELSE v
<1>0. vs \in SUBSET D!VersionRow /\ IsFiniteSet(vs)
  BY SameFiniteSets DEF D!IsHistory
<1>1. /\ D!Newest(vs) \in Nat
      /\ \A v \in vs : v.no <= D!Newest(vs)
  BY <1>0, NewestIsMax
<1>2. CASE \E v \in vs : v.no = D!Newest(vs) /\ v.design = d
  <2>1. S = {Pinned(v) : v \in vs}
    BY <1>2 DEF D!Snapshot
  <2>2. \A v \in vs : /\ Pinned(v) \in D!VersionRow /\ Pinned(v).no = v.no
                      /\ Pinned(v).design = v.design
                      /\ v.pinned => Pinned(v).pinned
                      /\ ~Pinned(v).pinned => Pinned(v) = v
                      /\ v.no = D!Newest(vs) /\ pin => Pinned(v).pinned
    <3> SUFFICES ASSUME NEW v \in vs
                 PROVE /\ Pinned(v) \in D!VersionRow /\ Pinned(v).no = v.no
                       /\ Pinned(v).design = v.design
                       /\ v.pinned => Pinned(v).pinned
                       /\ ~Pinned(v).pinned => Pinned(v) = v
                       /\ v.no = D!Newest(vs) /\ pin => Pinned(v).pinned
      OBVIOUS
    <3>1. v \in D!VersionRow
      BY <1>0
    <3>2. CASE v.no = D!Newest(vs) /\ pin
      <4>1. Pinned(v) = [v EXCEPT !.pinned = TRUE]
        BY <3>2
      <4> QED
        BY <3>1, <4>1 DEF D!VersionRow
    <3>3. CASE ~(v.no = D!Newest(vs) /\ pin)
      <4>1. v.pinned \in BOOLEAN /\ v = [v EXCEPT !.pinned = v.pinned]
        BY <3>1 DEF D!VersionRow
      <4>2. Pinned(v) = v
        BY <3>3, <4>1
      <4> QED
        BY <3>1, <3>3, <4>2
    <3> QED
      BY <3>2, <3>3
  <2> HIDE DEF Pinned
  <2>3. S \subseteq D!VersionRow
    BY <2>1, <2>2
  <2>4. IsFiniteSet(S)
    <3>1. PICK v0 \in vs : v0.no = D!Newest(vs)
      BY <1>2
    <3>2. \A v \in vs : v.no = D!Newest(vs) => v = v0
      BY <3>1 DEF D!IsHistory
    <3>3. S \subseteq vs \cup {Pinned(v0)}
      BY <2>1, <2>2, <3>2 DEF Pinned
    <3> QED
      BY <1>0, <3>3, FS_AddElement, FS_Subset
  <2>5. \A v, w \in S : v.no = w.no => v = w
    BY <2>1, <2>2 DEF D!IsHistory
  <2>6. Cardinality({v \in S : ~v.pinned}) <= Keep
    <3>1. {v \in S : ~v.pinned} \subseteq {v \in vs : ~v.pinned}
      BY <2>1, <2>2
    <3>2. IsFiniteSet({v \in vs : ~v.pinned})
      BY <1>0, FS_Subset
    <3>3. /\ IsFiniteSet({v \in S : ~v.pinned})
          /\ Cardinality({v \in S : ~v.pinned}) <= Cardinality({v \in vs : ~v.pinned})
      BY <3>1, <3>2, FS_Subset
    <3>4. /\ Cardinality({v \in S : ~v.pinned}) \in Nat
          /\ Cardinality({v \in vs : ~v.pinned}) \in Nat
      BY <3>2, <3>3, FS_CardinalityType
    <3>5. Cardinality({v \in vs : ~v.pinned}) <= Keep /\ Keep \in Nat
      BY SameFiniteSets DEF D!IsHistory, D!StudioAssumption
    <3> QED
      BY <3>3, <3>4, <3>5
  <2>7. D!IsHistory(S)
    BY <2>3, <2>4, <2>5, <2>6, SameFiniteSets DEF D!IsHistory
  <2>8. \A v \in vs : v.pinned => \E w \in S : w.design = v.design /\ w.pinned
    BY <2>1, <2>2
  <2>9. pin => \E w \in S : w.design = d /\ w.pinned
    BY <1>2, <2>1, <2>2
  <2> QED
    BY <2>7, <2>8, <2>9
<1>3. CASE ~\E v \in vs : v.no = D!Newest(vs) /\ v.design = d
  <2> DEFINE new == [no |-> D!Newest(vs) + 1, design |-> d, pinned |-> pin]
             W == vs \cup {new}
  <2>1. S = D!Prune(W)
    BY <1>3 DEF D!Snapshot
  <2>2. new \in D!VersionRow /\ new.no = D!Newest(vs) + 1 /\ new.design = d /\ new.pinned = pin
    BY <1>1 DEF D!VersionRow, D!StudioAssumption
  <2> HIDE DEF new
  <2>3. W \subseteq D!VersionRow
    BY <1>0, <2>2
  <2>4. IsFiniteSet(W)
    BY <1>0, FS_AddElement
  <2>5. \A v, w \in W : v.no = w.no => v = w
    <3>1. \A v \in vs : v.no \in Nat /\ v.no # new.no
      BY <1>0, <1>1, <2>2 DEF D!VersionRow
    <3> QED
      BY <3>1 DEF D!IsHistory
  <2>6. W \in SUBSET [no: Nat, design: Designs, pinned: BOOLEAN]
    BY <2>3 DEF D!VersionRow
  <2> HIDE DEF W
  <2>7. Cardinality({v \in D!Prune(W) : ~v.pinned}) <= Keep
    BY <2>4, <2>5, <2>6, PruneBounds
  <2>8. D!Prune(W) \subseteq W /\ \A v \in W : v.pinned => v \in D!Prune(W)
    BY DEF D!Prune
  <2>9. IsFiniteSet(D!Prune(W))
    BY <2>4, <2>8, FS_Subset
  <2>10. D!IsHistory(D!Prune(W))
    BY <2>3, <2>5, <2>7, <2>8, <2>9, SameFiniteSets DEF D!IsHistory
  <2> QED
    BY <2>1, <2>2, <2>8, <2>10 DEF W
<1> QED
  BY <1>2, <1>3

-----------------------------------------------------------------------------
(* Requests and the row's lock.                                             *)

LEMMA IdleState == D!Idle \in D!RequestState /\ D!Idle.op = "idle" /\ D!Idle.at = "idle"
  BY DEF D!Idle, D!RequestState

\* What Send does: a request is sent, and nothing else moves.
LEMMA SendOK ==
    ASSUME D!IInv, NEW r \in Requests,
           NEW op \in {"save", "template", "restore", "bake", "prepare"},
           NEW design \in Designs \cup D!VersionRow \cup {None},
           NEW seen \in D!ProjectRow \cup {None},
           op \in {"save", "template", "bake"} => design \in Designs,
           op = "restore" => design \in D!VersionRow,
           op # "bake" => seen = None,
           D!Send(r, op, design, seen)
    PROVE  D!IInv'
<1> DEFINE new == [op |-> op, at |-> "sent", design |-> design, base |-> project.revision,
                   seen |-> seen]
<1>1. project.revision \in Nat
  BY DEF D!IInv, D!TypeOK, D!ProjectRow
<1>2. new \in D!RequestState /\ new.op = op /\ new.at = "sent" /\ new.design = design
      /\ new.seen = seen
  BY <1>1 DEF D!RequestState
<1> HIDE DEF new
<1>3. /\ studioReq' = [studioReq EXCEPT ![r] = new]
      /\ UNCHANGED <<lock, project, revisions, versions, job, sent>>
  BY DEF D!Send, new
<1>4. /\ studioReq' \in [Requests -> D!RequestState]
      /\ \A s \in Requests : studioReq'[s] = IF s = r THEN new ELSE studioReq[s]
  BY <1>2, <1>3 DEF D!IInv, D!TypeOK
<1>5. D!TypeOK'
  BY <1>2, <1>3, <1>4 DEF D!IInv, D!TypeOK
<1>6. D!LockInv'
  BY <1>2, <1>3, <1>4 DEF D!IInv, D!LockInv
<1>7. D!HistoryInv' /\ D!RevisionsChain'
  BY <1>3 DEF D!IInv, D!HistoryInv, D!IsHistory, D!RevisionsChain
<1> QED
  BY <1>5, <1>6, <1>7 DEF D!IInv

LEMMA EnterOK ==
    ASSUME D!StudioAssumption, D!IInv, NEW r \in Requests, D!Enter(r)
    PROVE  D!IInv'
<1> DEFINE new == [studioReq[r] EXCEPT !.at = "locked",
                                       !.seen = IF studioReq[r].seen = None THEN project
                                                ELSE studioReq[r].seen]
<1>1. studioReq[r] \in D!RequestState /\ project \in D!ProjectRow
  BY DEF D!IInv, D!TypeOK
<1>2. /\ new \in D!RequestState /\ new.op = studioReq[r].op /\ new.at = "locked"
      /\ new.design = studioReq[r].design
      /\ new.seen = IF studioReq[r].seen = None THEN project ELSE studioReq[r].seen
  BY <1>1 DEF D!RequestState
<1> HIDE DEF new
<1>3. /\ studioReq[r].at = "sent" /\ lock = None /\ lock' = r
      /\ studioReq' = [studioReq EXCEPT ![r] = new]
      /\ UNCHANGED <<project, revisions, versions, job, sent>>
  BY DEF D!Enter, new
<1>4. /\ studioReq' \in [Requests -> D!RequestState]
      /\ \A s \in Requests : studioReq'[s] = IF s = r THEN new ELSE studioReq[s]
  BY <1>2, <1>3 DEF D!IInv, D!TypeOK
<1>5. D!TypeOK'
  BY <1>2, <1>3, <1>4 DEF D!IInv, D!TypeOK
<1>6. D!LockInv'
  <2>1. ASSUME NEW s \in Requests, s # r PROVE studioReq[s].at # "locked"
    BY <1>3 DEF D!IInv, D!LockInv, D!StudioAssumption
  <2>2. studioReq[r].op \in {"save", "template", "restore"} => new.seen = project
    BY <1>2, <1>3 DEF D!IInv, D!LockInv
  <2> QED
    BY <1>2, <1>3, <1>4, <2>1, <2>2 DEF D!IInv, D!LockInv
<1>7. D!HistoryInv' /\ D!RevisionsChain'
  BY <1>3 DEF D!IInv, D!HistoryInv, D!IsHistory, D!RevisionsChain
<1> QED
  BY <1>5, <1>6, <1>7 DEF D!IInv

\* A request that ends releases the row, and only its holder has changed it.
LEMMA LeaveOK ==
    ASSUME D!StudioAssumption, D!IInv, NEW r \in Requests, D!Leave(r),
           project' = project \/ studioReq[r].at = "locked"
    PROVE  /\ D!LockInv' /\ lock' \in Requests \cup {None}
           /\ studioReq' \in [Requests -> D!RequestState]
           /\ \A s \in Requests :
                 /\ studioReq'[s].op \in {"save", "template", "bake"}
                       => studioReq'[s].design \in Designs
                 /\ studioReq'[s].op = "restore" => studioReq'[s].design \in D!VersionRow
<1>1. /\ studioReq' \in [Requests -> D!RequestState]
      /\ \A s \in Requests : studioReq'[s] = IF s = r THEN D!Idle ELSE studioReq[s]
  BY IdleState DEF D!Leave, D!IInv, D!TypeOK
<1>2. lock' \in Requests \cup {None}
  BY DEF D!Leave, D!IInv, D!TypeOK
<1>3. ASSUME NEW s \in Requests, s # r, studioReq[s].at = "locked"
      PROVE  lock = s /\ lock' = s /\ project' = project
  BY <1>3 DEF D!Leave, D!IInv, D!LockInv
<1>4. D!LockInv'
  BY <1>1, <1>3, IdleState DEF D!IInv, D!LockInv
<1> QED
  BY <1>1, <1>2, <1>4, IdleState DEF D!IInv, D!TypeOK

\* A snapshot written to the table is a history, and a design is sent only with a pin.
LEMMA NewHistory ==
    ASSUME D!StudioAssumption, D!HistoryInv, NEW d \in Designs, NEW pin \in BOOLEAN,
           D!Newest(versions) < MaxVersions, versions' = D!Snapshot(versions, d, pin),
           sent' = IF pin THEN sent \cup {d} ELSE sent
    PROVE  D!HistoryInv' /\ versions' \subseteq D!VersionRow
<1> DEFINE S == D!Snapshot(versions, d, pin)
<1>1. /\ D!IsHistory(S)
      /\ \A v \in versions : v.pinned => \E w \in S : w.design = v.design /\ w.pinned
      /\ pin => \E w \in S : w.design = d /\ w.pinned
  BY SnapshotHistory DEF D!HistoryInv
<1>2. versions' = S
  OBVIOUS
<1> HIDE DEF S
<1>3. {v \in versions' : ~v.pinned} = {v \in S : ~v.pinned}
  BY <1>2
<1>4. /\ versions' \subseteq D!VersionRow /\ IsFiniteSet(versions')
      /\ \A v, w \in versions' : v.no = w.no => v = w
  BY <1>1, <1>2, SameFiniteSets DEF D!IsHistory
<1>5. Cardinality({v \in versions' : ~v.pinned}) <= Keep
  BY <1>1, <1>3, SameFiniteSets DEF D!IsHistory
<1>6. \A x \in sent' : \E v \in versions' : v.design = x /\ v.pinned
  BY <1>1, <1>2 DEF D!HistoryInv
<1> QED
  BY <1>4, <1>5, <1>6, SameFiniteSets DEF D!HistoryInv, D!IsHistory

\* A new revision, on the one that its author worked on, continues the chain.
LEMMA NewRevisionOK ==
    ASSUME D!StudioAssumption, D!IInv, NEW seen, seen.revision = project.revision,
           NEW design \in Designs, NEW base, NEW model \in 0..MaxModels,
           D!NewRevision(seen, design, base, model), UNCHANGED sent
    PROVE  /\ project' \in D!ProjectRow
           /\ revisions' \in Seq([design: Designs, base: Nat])
           /\ versions' \subseteq D!VersionRow
           /\ D!HistoryInv' /\ D!RevisionsChain'
<1>1. /\ base = project.revision
      /\ Len(revisions) < MaxRevisions
      /\ revisions' = Append(revisions, [design |-> design, base |-> base])
      /\ project' = [project EXCEPT !.design = design, !.revision = project.revision + 1,
                                    !.model = model]
      /\ D!Newest(versions) < MaxVersions
      /\ versions' = D!Snapshot(versions, design, FALSE)
  BY DEF D!NewRevision
<1>2. /\ project \in D!ProjectRow /\ revisions \in Seq([design: Designs, base: Nat])
      /\ project.revision = Len(revisions) /\ Len(revisions) \in Nat
      /\ \A i \in 1..Len(revisions) : revisions[i].base = i - 1
  BY DEF D!IInv, D!TypeOK, D!RevisionsChain
<1>3. MaxRevisions \in Nat
  BY DEF D!StudioAssumption
<1>4. /\ project' \in D!ProjectRow /\ project'.revision = Len(revisions) + 1
      /\ project'.design = design
  <2>1. project' = [design |-> design, revision |-> Len(revisions) + 1, model |-> model]
    BY <1>1, <1>2 DEF D!ProjectRow
  <2>2. Len(revisions) + 1 \in 0..MaxRevisions
    BY <1>1, <1>2, <1>3
  <2> QED
    BY <2>1, <2>2 DEF D!ProjectRow
<1> DEFINE e == [design |-> design, base |-> base]
<1>5. e \in [design: Designs, base: Nat] /\ e.base = Len(revisions) /\ e.design = design
  BY <1>1, <1>2
<1> HIDE DEF e
<1>6. /\ revisions' \in Seq([design: Designs, base: Nat])
      /\ Len(revisions') = Len(revisions) + 1
      /\ \A i \in 1..Len(revisions) : revisions'[i] = revisions[i]
      /\ revisions'[Len(revisions) + 1] = e
  BY <1>1, <1>2, <1>5, AppendProperties DEF e
<1>7. D!RevisionsChain'
  <2>1. \A i \in 1..(Len(revisions) + 1) : i \in 1..Len(revisions) \/ i = Len(revisions) + 1
    BY <1>2
  <2> QED
    BY <1>2, <1>4, <1>5, <1>6, <2>1 DEF D!RevisionsChain
<1>8. D!HistoryInv' /\ versions' \subseteq D!VersionRow
  <2> DEFINE pin == FALSE
  <2>1. D!HistoryInv /\ pin \in BOOLEAN /\ versions' = D!Snapshot(versions, design, pin)
    BY <1>1 DEF D!IInv
  <2>2. sent' = (IF pin THEN sent \cup {design} ELSE sent) /\ D!Newest(versions) < MaxVersions
    BY <1>1
  <2> HIDE DEF pin
  <2> QED
    BY <2>1, <2>2, NewHistory
<1> QED
  BY <1>4, <1>6, <1>7, <1>8

\* A step that moves neither a request nor the lock, and changes the row only while nobody
\* holds it.
LEMMA EnvironmentOK ==
    ASSUME D!StudioAssumption, D!IInv, UNCHANGED <<lock, sent, studioReq>>,
           lock = None \/ project' = project,
           project' \in D!ProjectRow, revisions' \in Seq([design: Designs, base: Nat]),
           versions' \subseteq D!VersionRow, D!HistoryInv', D!RevisionsChain'
    PROVE  D!IInv'
<1>1. D!TypeOK'
  BY DEF D!IInv, D!TypeOK
<1>2. D!LockInv'
  BY DEF D!IInv, D!LockInv, D!StudioAssumption
<1> QED
  BY <1>1, <1>2 DEF D!IInv

-----------------------------------------------------------------------------

LEMMA InitOK == ASSUME D!StudioAssumption PROVE D!Init => D!IInv
<1> SUFFICES ASSUME D!Init PROVE D!IInv
  OBVIOUS
<1>1. project \in D!ProjectRow /\ project.revision = 0
  BY DEF D!Init, D!ProjectRow, D!StudioAssumption
<1>2. D!TypeOK
  BY <1>1, IdleState DEF D!Init, D!TypeOK
<1>3. D!LockInv
  BY IdleState DEF D!Init, D!LockInv, D!StudioAssumption
<1>4. D!HistoryInv
  <2>1. {v \in {} : ~v.pinned} = {}
    OBVIOUS
  <2>2. Cardinality({v \in {} : ~v.pinned}) <= Keep
    BY <2>1, FS_EmptySet DEF D!StudioAssumption
  <2> QED
    BY <2>2, FS_EmptySet, SameFiniteSets DEF D!Init, D!HistoryInv, D!IsHistory
<1>5. D!RevisionsChain
  BY <1>1 DEF D!Init, D!RevisionsChain
<1> QED
  BY <1>2, <1>3, <1>4, <1>5 DEF D!IInv

\* Every step keeps the invariant: one step of the proof for each action.
LEMMA NextOK == ASSUME D!StudioAssumption PROVE D!IInv /\ [D!Next]_D!vars => D!IInv'
<1> SUFFICES ASSUME D!IInv, [D!Next]_D!vars PROVE D!IInv'
  OBVIOUS
<1>0. /\ project \in D!ProjectRow /\ revisions \in Seq([design: Designs, base: Nat])
      /\ versions \subseteq D!VersionRow /\ D!HistoryInv /\ D!RevisionsChain
      /\ project.model \in 0..MaxModels /\ MaxModels \in Nat
  BY DEF D!IInv, D!TypeOK, D!ProjectRow, D!StudioAssumption
<1>1. CASE UNCHANGED D!vars
  BY <1>1 DEF D!vars, D!IInv, D!TypeOK, D!LockInv, D!HistoryInv, D!IsHistory, D!RevisionsChain
<1>2. ASSUME NEW r \in Requests, D!SendSave(r) PROVE D!IInv'
  BY <1>2, SendOK DEF D!SendSave
<1>3. ASSUME NEW r \in Requests, D!SendTemplate(r) PROVE D!IInv'
  BY <1>3, SendOK DEF D!SendTemplate
<1>4. ASSUME NEW r \in Requests, D!SendRestore(r) PROVE D!IInv'
  <2>1. PICK v \in versions : D!Send(r, "restore", v, None)
    BY <1>4 DEF D!SendRestore
  <2> QED
    BY <1>0, <2>1, SendOK
<1>5. ASSUME NEW r \in Requests, D!SendServiceBake(r) PROVE D!IInv'
  BY <1>5, SendOK DEF D!SendServiceBake
<1>6. ASSUME NEW r \in Requests, D!SendPrepare(r) PROVE D!IInv'
  BY <1>6, SendOK DEF D!SendPrepare
<1>7. ASSUME NEW r \in Requests, D!SendEditorBake(r) PROVE D!IInv'
  <2>1. project.design \in Designs
    BY <1>0, <1>7 DEF D!SendEditorBake, D!ProjectRow
  <2> QED
    BY <1>0, <1>7, <2>1, SendOK DEF D!SendEditorBake
<1>8. ASSUME NEW r \in Requests, D!Enter(r) PROVE D!IInv'
  BY <1>8, EnterOK
<1>9. ASSUME NEW r \in Requests, D!Refuse(r) PROVE D!IInv'
  <2>1. D!Leave(r) /\ UNCHANGED <<project, revisions, versions, job, sent>>
    BY <1>9 DEF D!Refuse
  <2>2. D!HistoryInv' /\ D!RevisionsChain'
    BY <1>0, <2>1 DEF D!HistoryInv, D!IsHistory, D!RevisionsChain
  <2> QED
    BY <2>1, <2>2, LeaveOK DEF D!IInv, D!TypeOK
<1>10. ASSUME NEW r \in Requests, NEW design \in Designs, NEW base,
              studioReq[r].op \in {"save", "template", "restore"}, studioReq[r].at = "locked",
              D!NewRevision(studioReq[r].seen, design, base, project.model), D!Leave(r),
              UNCHANGED sent
       PROVE  D!IInv'
  <2>1. studioReq[r].seen.revision = project.revision
    BY <1>10 DEF D!IInv, D!LockInv
  <2>2. /\ project' \in D!ProjectRow /\ revisions' \in Seq([design: Designs, base: Nat])
        /\ versions' \subseteq D!VersionRow /\ D!HistoryInv' /\ D!RevisionsChain'
    BY <1>0, <1>10, <2>1, NewRevisionOK
  <2> QED
    BY <1>10, <2>2, LeaveOK DEF D!IInv, D!TypeOK
<1>11. ASSUME NEW r \in Requests, D!SaveDesign(r) PROVE D!IInv'
  <2>1. studioReq[r].design \in Designs
    BY <1>11 DEF D!SaveDesign, D!IInv, D!TypeOK
  <2> QED
    BY <1>10, <1>11, <2>1 DEF D!SaveDesign
<1>12. ASSUME NEW r \in Requests, D!ApplyTemplate(r) PROVE D!IInv'
  <2>1. studioReq[r].design \in Designs
    BY <1>12 DEF D!ApplyTemplate, D!IInv, D!TypeOK
  <2> QED
    BY <1>10, <1>12, <2>1 DEF D!ApplyTemplate
<1>13. ASSUME NEW r \in Requests, D!RestoreVersion(r) PROVE D!IInv'
  <2>1. studioReq[r].design \in D!VersionRow
    BY <1>13 DEF D!RestoreVersion, D!IInv, D!TypeOK
  <2>2. studioReq[r].design.design \in Designs
    BY <2>1 DEF D!VersionRow
  <2> QED
    BY <1>10, <1>13, <2>2 DEF D!RestoreVersion
<1>14. ASSUME NEW r \in Requests, D!TriggerBake(r) PROVE D!IInv'
  <2> DEFINE d == studioReq[r].design
  <2>1. d \in Designs
    BY <1>14 DEF D!TriggerBake, D!IInv, D!TypeOK
  <2>2. /\ D!Newest(versions) < MaxVersions /\ versions' = D!Snapshot(versions, d, TRUE)
        /\ sent' = sent \cup {d} /\ D!Leave(r) /\ UNCHANGED <<project, revisions>>
    BY <1>14 DEF D!TriggerBake
  <2> HIDE DEF d
  <2>3. D!HistoryInv' /\ versions' \subseteq D!VersionRow
    BY <1>0, <2>1, <2>2, NewHistory
  <2>4. D!RevisionsChain'
    BY <1>0, <2>2 DEF D!RevisionsChain
  <2> QED
    BY <2>1, <2>2, <2>3, <2>4, LeaveOK DEF D!IInv, D!TypeOK
<1>15. ASSUME NEW r \in Requests, D!TriggerPrepare(r) PROVE D!IInv'
  <2>1. D!Leave(r) /\ UNCHANGED <<project, revisions, versions, sent>>
    BY <1>15 DEF D!TriggerPrepare
  <2>2. D!HistoryInv' /\ D!RevisionsChain'
    BY <1>0, <2>1 DEF D!HistoryInv, D!IsHistory, D!RevisionsChain
  <2> QED
    BY <2>1, <2>2, LeaveOK DEF D!IInv, D!TypeOK
<1>16. CASE UNCHANGED <<lock, project, revisions, versions, sent, studioReq>>
  <2>1. D!HistoryInv' /\ D!RevisionsChain'
    BY <1>0, <1>16 DEF D!HistoryInv, D!IsHistory, D!RevisionsChain
  <2> QED
    BY <1>0, <1>16, <2>1, EnvironmentOK
<1>17. CASE D!CompleteBake \/ D!EndJob \/ D!RetryBake \/ D!LeaveEditLock
  BY <1>16, <1>17 DEF D!CompleteBake, D!EndJob, D!RetryBake, D!LeaveEditLock
<1>18. ASSUME UNCHANGED <<lock, revisions, versions, sent, studioReq>>, lock = None,
              project.model < MaxModels, project' = [project EXCEPT !.model = @ + 1]
       PROVE  D!IInv'
  <2>1. /\ project' \in D!ProjectRow /\ project'.revision = project.revision
        /\ project'.design = project.design
    BY <1>0, <1>18 DEF D!ProjectRow
  <2>2. D!HistoryInv' /\ D!RevisionsChain'
    BY <1>0, <1>18, <2>1 DEF D!HistoryInv, D!IsHistory, D!RevisionsChain
  <2> QED
    BY <1>0, <1>18, <2>1, <2>2, EnvironmentOK
<1>19. CASE D!CompletePrepare
  <2>1. CASE project.design = None
    BY <1>18, <1>19, <2>1 DEF D!CompletePrepare
  <2>2. CASE project.design # None
    <3>1. PICK blank \in Designs :
             D!NewRevision(project, blank, project.revision, project.model + 1)
      BY <1>19, <2>2 DEF D!CompletePrepare
    <3>2. project.model + 1 \in 0..MaxModels /\ lock = None /\ UNCHANGED <<lock, sent, studioReq>>
      BY <1>0, <1>19 DEF D!CompletePrepare
    <3>3. /\ project' \in D!ProjectRow /\ revisions' \in Seq([design: Designs, base: Nat])
          /\ versions' \subseteq D!VersionRow /\ D!HistoryInv' /\ D!RevisionsChain'
      BY <3>1, <3>2, NewRevisionOK
    <3> QED
      BY <3>2, <3>3, EnvironmentOK
  <2> QED
    BY <2>1, <2>2
<1>20. CASE D!ReplaceModel
  BY <1>18, <1>20 DEF D!ReplaceModel
<1> QED
  BY <1>1, <1>2, <1>3, <1>4, <1>5, <1>6, <1>7, <1>8, <1>9, <1>11, <1>12, <1>13, <1>14, <1>15,
     <1>17, <1>19, <1>20 DEF D!Next

\* The inductive invariant of the project's design: who writes it decided on the row as it
\* is, and the history is one.
THEOREM StudioInvariant == ASSUME D!StudioAssumption PROVE D!Spec => []D!IInv
<1>1. D!Init => D!IInv
  BY InitOK
<1>2. D!IInv /\ [D!Next]_D!vars => D!IInv'
  BY NextOK
<1> QED
  BY <1>1, <1>2, PTL DEF D!Spec

-----------------------------------------------------------------------------
(* Projects: the files of a project.                                        *)

\* A request that does nothing is in order after a step that forgets no asset, and that takes
\* neither the row nor the object of one that it confirms, unless that is at risk now.
LEMMA RequestKept ==
    ASSUME P!IInv, NEW r \in Requests, projectReq'[r] = projectReq[r],
           \A a \in P!Assets :
              /\ status[a] # "none" => status'[a] # "none"
              /\ projectReq[r].op = "confirm" /\ projectReq[r].asset = a /\ status[a] # "none"
                   /\ a \in (P!Rows \ atRisk)'
                    => a \in P!Rows \ atRisk /\ (a \in store => a \in store')
    PROVE  P!RequestOK(projectReq[r])'
BY DEF P!IInv, P!RequestOK, P!Idle

\* What a request does when it begins, goes on or ends: it holds s now.
LEMMA RequestMoved ==
    ASSUME P!IInv, NEW r \in Requests, NEW s, projectReq' = [projectReq EXCEPT ![r] = s],
           P!RequestOK(s), UNCHANGED <<P!project, P!files, seedLost>>, due' \subseteq due
    PROVE  P!IInv'
<1>1. /\ DOMAIN projectReq' = Requests
      /\ \A q \in Requests : projectReq'[q] = IF q = r THEN s ELSE projectReq[q]
  BY DEF P!IInv
<1>2. P!TypeOK' /\ P!FilesInv'
  BY DEF P!IInv, P!TypeOK, P!FilesInv, P!project, P!files, P!Rows
<1>3. ASSUME NEW q \in Requests PROVE P!RequestOK(projectReq[q])'
  <2>1. CASE q # r
    BY <1>1, <2>1, RequestKept DEF P!project, P!files, P!Rows
  <2>2. CASE q = r
    BY <1>1, <2>2 DEF P!RequestOK, P!project, P!files, P!Rows, P!Idle
  <2> QED
    BY <2>1, <2>2
<1> QED
  BY <1>1, <1>2, <1>3 DEF P!IInv

LEMMA RefuseOK == ASSUME P!IInv, NEW r \in Requests, P!Refuse(r) PROVE P!IInv'
<1>1. P!RequestOK(P!Idle)
  BY DEF P!RequestOK
<1> QED
  BY <1>1, RequestMoved DEF P!Refuse, P!End

LEMMA AssetLoadsOK ==
    ASSUME P!IInv, NEW r \in Requests, NEW a \in P!Assets,
           P!ConfirmLoad(r, a) \/ P!DeleteLoad(r, a)
    PROVE  P!IInv'
<1>1. CASE P!ConfirmLoad(r, a)
  <2> DEFINE s == [op |-> "confirm", asset |-> a, stored |-> FALSE]
  <2>1. P!RequestOK(s)
    BY <1>1 DEF P!RequestOK, P!ConfirmLoad
  <2> QED
    BY <1>1, <2>1, RequestMoved DEF P!ConfirmLoad, P!Begin
<1>2. CASE P!DeleteLoad(r, a)
  <2> DEFINE s == [op |-> "delete", asset |-> a, isCanonical |-> canonical = a]
  <2>1. (canonical = a) \in BOOLEAN
    OBVIOUS
  <2>2. s \in [op: {"delete"}, asset: P!Assets, isCanonical: BOOLEAN] /\ s.asset = a
    BY <2>1
  <2>3. P!RequestOK(s)
    BY <1>2, <2>2 DEF P!RequestOK, P!DeleteLoad, P!Rows
  <2> QED
    BY <1>2, <2>3, RequestMoved DEF P!DeleteLoad, P!Begin
<1> QED
  BY <1>1, <1>2

LEMMA LoadsOK ==
    ASSUME P!IInv, NEW r \in Requests, P!SweepLoad(r) \/ P!RestoreLoad(r) \/ P!PurgeLoad(r)
    PROVE  P!IInv'
<1>1. CASE P!SweepLoad(r)
  <2> DEFINE s == [op |-> "sweep", assets |-> P!Stale]
  <2>1. P!Stale \in SUBSET P!Assets /\ \A b \in P!Stale : status[b] # "none"
    BY DEF P!Stale
  <2>2. P!RequestOK(s)
    BY <2>1 DEF P!RequestOK
  <2> QED
    BY <1>1, <2>2, RequestMoved DEF P!SweepLoad, P!Begin
<1>2. CASE P!RestoreLoad(r)
  <2>1. P!RequestOK([op |-> "restore"])
    BY <1>2 DEF P!RequestOK, P!RestoreLoad
  <2> QED
    BY <1>2, <2>1, RequestMoved DEF P!RestoreLoad, P!Begin
<1>3. CASE P!PurgeLoad(r)
  <2> DEFINE s == [op |-> "purge", paths |-> P!FilePaths]
  <2>1. P!FilePaths \in SUBSET P!Assets /\ \A b \in P!FilePaths : status[b] # "none"
    BY DEF P!FilePaths, P!Rows, P!IInv, P!TypeOK, P!FilesInv, P!Assets
  <2>2. P!RequestOK(s)
    BY <2>1 DEF P!RequestOK
  <2> QED
    BY <1>3, <2>2, RequestMoved DEF P!PurgeLoad, P!Begin
<1> QED
  BY <1>1, <1>2, <1>3

\* The confirmation that finds the object in storage.
LEMMA ConfirmCheckOK ==
    ASSUME P!IInv, NEW r \in Requests, P!ConfirmCheck(r) PROVE P!IInv'
<1> DEFINE s == [projectReq[r] EXCEPT !.stored = TRUE]
<1>1. /\ projectReq[r] \in [op: {"confirm"}, asset: P!Assets, stored: BOOLEAN]
      /\ status[projectReq[r].asset] # "none" /\ projectReq[r].asset \in store
  <2>1. /\ P!RequestOK(projectReq[r]) /\ projectReq[r].op = "confirm"
        /\ projectReq[r].asset \in store
    BY DEF P!ConfirmCheck, P!IInv
  <2>2. projectReq[r].op # "idle"
    BY <2>1
  <2> QED
    BY <2>1 DEF P!RequestOK, P!Idle
<1>2. /\ s \in [op: {"confirm"}, asset: P!Assets, stored: BOOLEAN]
      /\ s.asset = projectReq[r].asset
  BY <1>1
<1>3. P!RequestOK(s)
  BY <1>1, <1>2 DEF P!RequestOK
<1> QED
  BY <1>3, RequestMoved DEF P!ConfirmCheck

-----------------------------------------------------------------------------
(* What the steps of a project leave.                                       *)

\* A step that ends a request, or none, and is fair to the others as RequestKept asks.
LEMMA RequestsAfter ==
    ASSUME P!IInv, DOMAIN projectReq' = Requests,
           \A r \in Requests : projectReq'[r] \in {projectReq[r], P!Idle},
           \A a \in P!Assets :
              /\ status[a] # "none" => status'[a] # "none"
              /\ status[a] # "none" /\ a \in (P!Rows \ atRisk)'
                    => a \in P!Rows \ atRisk /\ (a \in store => a \in store'),
           P!TypeOK', P!FilesInv'
    PROVE  P!IInv'
<1>1. ASSUME NEW r \in Requests PROVE P!RequestOK(projectReq[r])'
  <2>1. CASE projectReq'[r] = projectReq[r]
    BY <2>1, RequestKept
  <2>2. CASE projectReq'[r] = P!Idle
    BY <2>2 DEF P!RequestOK, P!Idle
  <2> QED
    BY <2>1, <2>2
<1> QED
  BY <1>1 DEF P!IInv

\* A step of no request.
LEMMA NoRequest == P!IInv /\ projectReq' = projectReq
                      => /\ DOMAIN projectReq' = Requests
                         /\ \A r \in Requests : projectReq'[r] \in {projectReq[r], P!Idle}
BY DEF P!IInv

LEMMA EndsRequest ==
    ASSUME P!IInv, NEW r \in Requests, P!End(r)
    PROVE  /\ DOMAIN projectReq' = Requests
           /\ \A q \in Requests : projectReq'[q] \in {projectReq[q], P!Idle}
BY DEF P!IInv, P!End

LEMMA UploadsOK ==
    ASSUME P!ProjectsAssumption, P!IInv, NEW a \in P!Assets,
           \/ P!CreateUploadUrl(a) \/ P!Put(a) \/ P!Age(a) \/ P!CompletePrepare(a)
           \/ P!DeleteObject(a)
    PROVE  P!IInv'
<1>0. P!TypeOK /\ P!FilesInv
  BY DEF P!IInv
<1>1. CASE P!CreateUploadUrl(a)
  <2>1. P!TypeOK'
    BY <1>0, <1>1 DEF P!CreateUploadUrl, P!project, P!TypeOK
  <2>2. P!FilesInv'
    BY <1>0, <1>1 DEF P!CreateUploadUrl, P!project, P!TypeOK, P!FilesInv, P!Rows
  <2>3. \A b \in P!Assets :
           /\ status[b] # "none" => status'[b] # "none"
           /\ status[b] # "none" /\ b \in (P!Rows \ atRisk)'
                 => b \in P!Rows \ atRisk /\ (b \in store => b \in store')
    BY <1>0, <1>1 DEF P!CreateUploadUrl, P!project, P!Rows, P!TypeOK
  <2> QED
    BY <1>1, <2>1, <2>2, <2>3, NoRequest, RequestsAfter DEF P!CreateUploadUrl, P!project
<1>2. CASE P!Put(a)
  <2>1. P!TypeOK'
    BY <1>0, <1>2 DEF P!Put, P!project, P!TypeOK
  <2>2. P!FilesInv'
    BY <1>0, <1>2 DEF P!Put, P!project, P!TypeOK, P!FilesInv, P!Rows
  <2>3. \A b \in P!Assets :
           /\ status[b] # "none" => status'[b] # "none"
           /\ status[b] # "none" /\ b \in (P!Rows \ atRisk)'
                 => b \in P!Rows \ atRisk /\ (b \in store => b \in store')
    BY <1>0, <1>2 DEF P!Put, P!project, P!Rows, P!TypeOK
  <2> QED
    BY <1>2, <2>1, <2>2, <2>3, NoRequest, RequestsAfter DEF P!Put, P!project
<1>3. CASE P!Age(a)
  <2>1. P!TypeOK'
    BY <1>0, <1>3 DEF P!Age, P!project, P!TypeOK
  <2>2. P!FilesInv'
    BY <1>0, <1>3 DEF P!Age, P!project, P!TypeOK, P!FilesInv, P!Rows
  <2>3. \A b \in P!Assets :
           /\ status[b] # "none" => status'[b] # "none"
           /\ status[b] # "none" /\ b \in (P!Rows \ atRisk)'
                 => b \in P!Rows \ atRisk /\ (b \in store => b \in store')
    BY <1>0, <1>3 DEF P!Age, P!project, P!Rows, P!TypeOK
  <2> QED
    BY <1>3, <2>1, <2>2, <2>3, NoRequest, RequestsAfter DEF P!Age, P!project
<1>4. CASE P!CompletePrepare(a)
  <2>1. P!TypeOK'
    BY <1>0, <1>4 DEF P!CompletePrepare, P!TypeOK
  <2>2. P!FilesInv'
    BY <1>0, <1>4 DEF P!CompletePrepare, P!TypeOK, P!FilesInv, P!Rows
  <2> QED
    BY <1>0, <1>4, <2>1, <2>2, NoRequest, RequestsAfter
       DEF P!CompletePrepare, P!Rows, P!TypeOK
<1>5. CASE P!DeleteObject(a)
  <2>1. P!TypeOK'
    BY <1>0, <1>5 DEF P!DeleteObject, P!project, P!TypeOK
  <2>2. P!FilesInv'
    BY <1>0, <1>5 DEF P!DeleteObject, P!project, P!TypeOK, P!FilesInv, P!Rows
  <2>3. \A b \in P!Assets :
           /\ status[b] # "none" => status'[b] # "none"
           /\ status[b] # "none" /\ b \in (P!Rows \ atRisk)'
                 => b \in P!Rows \ atRisk /\ (b \in store => b \in store')
    BY <1>0, <1>5 DEF P!DeleteObject, P!project, P!Rows, P!TypeOK, P!FilesInv
  <2> QED
    BY <1>5, <2>1, <2>2, <2>3, NoRequest, RequestsAfter DEF P!DeleteObject, P!project
<1> QED
  BY <1>1, <1>2, <1>3, <1>4, <1>5

\* A scan's asset is registered again: nobody confirms the old row, or it is at risk.
LEMMA OutputUploadOK ==
    ASSUME P!IInv, NEW a \in P!Assets, P!CreateOutputUpload(a) PROVE P!IInv'
<1>0. P!TypeOK /\ P!FilesInv
  BY DEF P!IInv
<1>1. /\ status[a] = "gone" /\ status' = [status EXCEPT ![a] = "uploading"] /\ old' = old \ {a}
      /\ atRisk' \in {atRisk, atRisk \cup {a}}
      /\ a \notin atRisk'
           => /\ a \notin doomed
              /\ \A r \in Requests : ~(projectReq[r].op = "confirm" /\ projectReq[r].asset = a)
      /\ UNCHANGED <<life, trashed, canonical, thumbnail, store, doomed, due, seedLost,
                     projectReq>>
  BY DEF P!CreateOutputUpload, P!project
<1>2. P!TypeOK'
  BY <1>0, <1>1 DEF P!TypeOK
<1>3. \A b \in P!Assets :
        /\ status'[b] = "none" <=> status[b] = "none"
        /\ b # a => status'[b] = status[b]
        /\ b \in P!Rows' => b \in P!Rows \/ b = a
  BY <1>0, <1>1 DEF P!TypeOK, P!Rows
<1>4. P!FilesInv'
  <2>1. \A b \in P!Rows' \ atRisk' : b \notin doomed'
    BY <1>0, <1>1, <1>3 DEF P!FilesInv, P!Rows
  <2>2. canonical # None => canonical # a /\ canonical \in P!Assets
    BY <1>0, <1>1 DEF P!FilesInv, P!TypeOK, P!Assets
  <2> QED
    BY <1>0, <1>1, <1>3, <2>1, <2>2 DEF P!FilesInv
<1>5. ASSUME NEW r \in Requests PROVE P!RequestOK(projectReq[r])'
  <2>1. \A b \in P!Assets :
          projectReq[r].op = "confirm" /\ projectReq[r].asset = b /\ b \in (P!Rows \ atRisk)'
            => b \in P!Rows \ atRisk
    BY <1>1, <1>3
  <2> QED
    BY <1>1, <1>3, <2>1, RequestKept
<1> QED
  BY <1>1, <1>2, <1>4, <1>5 DEF P!IInv

\* The confirmed asset is in storage; the thumbnails it replaces are not models.
LEMMA ConfirmWriteOK ==
    ASSUME P!ProjectsAssumption, P!IInv, NEW r \in Requests, P!ConfirmWrite(r) PROVE P!IInv'
<1> DEFINE a == projectReq[r].asset
           stale == IF a \in Thumbnails THEN (P!Rows \cap Thumbnails) \ {a} ELSE {}
<1>0. P!TypeOK /\ P!FilesInv /\ P!RequestOK(projectReq[r])
  BY DEF P!IInv
<1>1. /\ projectReq[r].op = "confirm" /\ projectReq[r].stored
      /\ a \in P!Rows
      /\ \E target \in {"raw", "ready"} :
            status' = [b \in P!Assets |-> IF b = a THEN target
                                         ELSE IF b \in stale THEN "gone" ELSE status[b]]
      /\ canonical' = IF a \in Models THEN a ELSE canonical
      /\ thumbnail' = IF a \in Thumbnails THEN a ELSE thumbnail
      /\ doomed' = doomed \cup stale \/ doomed' = doomed
      /\ P!End(r)
      /\ UNCHANGED <<life, trashed, old, store, atRisk, due, seedLost>>
  BY DEF P!ConfirmWrite, P!Queue
<1>2. /\ a \in P!Assets
      /\ a \notin atRisk => a \in store
  BY <1>0, <1>1 DEF P!RequestOK, P!Idle
<1>3. stale \subseteq Thumbnails \cap P!Rows /\ a \notin stale
  OBVIOUS
<1> HIDE DEF a, stale
<1>4. P!TypeOK'
  BY <1>0, <1>1, <1>2, <1>3 DEF P!TypeOK, P!Assets
<1>5. P!FilesInv'
  <2>1. \A b \in P!Assets :
           /\ status'[b] = "none" => status[b] = "none" /\ b # a /\ b \notin stale
           /\ b \in P!Rows' => b \in P!Rows /\ b \notin stale
    BY <1>0, <1>1, <1>2, <1>3 DEF P!TypeOK, P!Rows
  <2>3. P!Rows' \subseteq P!Assets /\ a \in P!Rows'
    BY <1>1, <1>2 DEF P!Rows
  <2>4. \A b \in P!Rows' \ atRisk' : b \notin doomed'
    BY <1>0, <1>1, <2>1, <2>3 DEF P!FilesInv
  <2>5. \A b \in P!Assets : status'[b] = "none" => b # thumbnail' /\ b \notin doomed'
    BY <1>0, <1>1, <2>1 DEF P!FilesInv
  <2>6. canonical' # None
           => /\ status'[canonical'] \in {"raw", "ready"}
              /\ canonical' \in store' \cup seedLost' \cup atRisk'
    <3>1. CASE a \in Models
      BY <1>1, <1>2, <3>1
    <3>2. CASE a \notin Models
      <4>1. canonical' # None => canonical \in Models /\ canonical \notin stale
        BY <1>0, <1>1, <1>3, <3>2 DEF P!TypeOK, P!ProjectsAssumption
      <4> QED
        BY <1>0, <1>1, <1>2, <3>2, <4>1 DEF P!FilesInv, P!Assets
    <3> QED
      BY <3>1, <3>2
  <2> QED
    BY <1>0, <1>1, <2>4, <2>5, <2>6 DEF P!FilesInv
<1>6. \A b \in P!Assets : /\ status[b] # "none" => status'[b] # "none"
                          /\ b \in P!Rows' => b \in P!Rows
  BY <1>0, <1>1 DEF P!TypeOK, P!Rows
<1> QED
  BY <1>1, <1>4, <1>5, <1>6, EndsRequest, RequestsAfter

LEMMA DeleteWriteOK ==
    ASSUME P!IInv, NEW r \in Requests, P!DeleteWrite(r) PROVE P!IInv'
<1> DEFINE a == projectReq[r].asset
<1>0. P!TypeOK /\ P!FilesInv
  BY DEF P!IInv
<1>1. /\ a \in P!Rows
      /\ canonical' = canonical \/ canonical' = None
      /\ canonical' # a
      /\ status' = [status EXCEPT ![a] = "gone"]
      /\ doomed' = doomed \cup {a} \/ doomed' = doomed
      /\ P!End(r)
      /\ UNCHANGED <<life, trashed, thumbnail, old, store, atRisk, due, seedLost>>
  BY DEF P!DeleteWrite, P!Queue
<1>2. a \in P!Assets
  BY <1>1 DEF P!Rows
<1> HIDE DEF a
<1>3. P!TypeOK'
  BY <1>0, <1>1, <1>2 DEF P!TypeOK
<1>4. P!FilesInv'
  BY <1>0, <1>1, <1>2 DEF P!FilesInv, P!TypeOK, P!Rows, P!Assets
<1>5. \A b \in P!Assets : /\ status[b] # "none" => status'[b] # "none"
                          /\ b \in P!Rows' => b \in P!Rows
  BY <1>0, <1>1, <1>2 DEF P!TypeOK, P!Rows
<1> QED
  BY <1>1, <1>3, <1>4, <1>5, EndsRequest, RequestsAfter

\* The sweep deletes uploads by id; the project's model keeps its own row.
LEMMA SweepWriteOK ==
    ASSUME P!IInv, NEW r \in Requests, P!SweepWrite(r) PROVE P!IInv'
<1> DEFINE A == projectReq[r].assets
<1>0. P!TypeOK /\ P!FilesInv /\ P!RequestOK(projectReq[r])
  BY DEF P!IInv
<1>1. /\ projectReq[r].op = "sweep" /\ canonical \notin A
      /\ status' = [a \in P!Assets |-> IF a \in A THEN "gone" ELSE status[a]]
      /\ doomed' = doomed \cup A \/ doomed' = doomed
      /\ P!End(r)
      /\ UNCHANGED <<life, trashed, canonical, thumbnail, old, store, atRisk, due, seedLost>>
  BY DEF P!SweepWrite, P!Queue, P!project
<1>2. A \subseteq P!Assets /\ \A a \in A : status[a] # "none"
  BY <1>0, <1>1 DEF P!RequestOK, P!Idle
<1> HIDE DEF A
<1>3. P!TypeOK'
  BY <1>0, <1>1, <1>2 DEF P!TypeOK
<1>4. \A b \in P!Assets : /\ status'[b] = "none" <=> status[b] = "none"
                          /\ b \in P!Rows' => b \in P!Rows /\ b \notin A
  BY <1>0, <1>1, <1>2 DEF P!TypeOK, P!Rows
<1>5. P!FilesInv'
  <2>2. \A b \in P!Assets : status'[b] = "none" => b # thumbnail' /\ b \notin doomed'
    BY <1>0, <1>1, <1>2, <1>4 DEF P!FilesInv
  <2>3. \A b \in P!Rows' \ atRisk' : b \notin doomed'
    BY <1>0, <1>1, <1>4 DEF P!FilesInv, P!Rows
  <2>4. canonical' # None
           => /\ status'[canonical'] \in {"raw", "ready"}
              /\ canonical' \in store' \cup seedLost' \cup atRisk'
    BY <1>0, <1>1 DEF P!FilesInv, P!TypeOK, P!Assets
  <2> QED
    BY <1>0, <1>1, <2>2, <2>3, <2>4 DEF P!FilesInv
<1> QED
  BY <1>1, <1>3, <1>4, <1>5, EndsRequest, RequestsAfter

LEMMA RestoreWriteOK ==
    ASSUME P!ProjectsAssumption, P!IInv, NEW r \in Requests, P!RestoreWrite(r) PROVE P!IInv'
<1>0. P!TypeOK /\ P!FilesInv /\ P!RequestOK(projectReq[r])
  BY DEF P!IInv
<1>1. /\ life' = "live" /\ trashed' = 0 /\ P!End(r)
      /\ UNCHANGED <<canonical, thumbnail, status, old, store, doomed, atRisk, due, seedLost>>
  BY DEF P!RestoreWrite, P!files
<1>2. P!Rows' = P!Rows
  BY <1>1 DEF P!Rows
<1>3. P!TypeOK'
  BY <1>0, <1>1 DEF P!TypeOK, P!ProjectsAssumption
<1>4. P!FilesInv'
  BY <1>0, <1>1, <1>2 DEF P!FilesInv
<1> QED
  BY <1>1, <1>2, <1>3, <1>4, EndsRequest, RequestsAfter

\* What is purged is gone, and its files may go.
LEMMA PurgeWriteOK ==
    ASSUME P!ProjectsAssumption, P!IInv, NEW r \in Requests, P!PurgeWrite(r) PROVE P!IInv'
<1> DEFINE A == projectReq[r].paths
<1>0. P!TypeOK /\ P!FilesInv /\ P!RequestOK(projectReq[r])
  BY DEF P!IInv
<1>1. /\ projectReq[r].op = "purge" /\ life' = "gone" /\ trashed' = 0
      /\ canonical' = None /\ thumbnail' = None
      /\ status' = [a \in P!Assets |-> IF a \in P!Rows THEN "gone" ELSE status[a]]
      /\ doomed' = doomed \cup A \/ doomed' = doomed
      /\ P!End(r)
      /\ UNCHANGED <<old, store, atRisk, due, seedLost>>
  BY DEF P!PurgeWrite, P!Queue
<1>2. A \subseteq P!Assets /\ \A a \in A : status[a] # "none"
  BY <1>0, <1>1 DEF P!RequestOK, P!Idle
<1> HIDE DEF A
<1>3. RestoreDays \in Nat \ {0} /\ trashed' \in 0..RestoreDays /\ trashed' < RestoreDays
  BY <1>1 DEF P!ProjectsAssumption
<1>4. P!TypeOK'
  BY <1>0, <1>1, <1>2, <1>3 DEF P!TypeOK
<1>5. \A b \in P!Assets : status'[b] = "none" => status[b] = "none"
  BY <1>1
<1>6. P!FilesInv'
  <2>1. None \notin P!Assets
    BY DEF P!ProjectsAssumption, P!Assets
  <2>2. P!Rows' = {}
    BY <1>0, <1>1 DEF P!TypeOK, P!Rows
  <2> QED
    BY <1>0, <1>1, <1>2, <1>5, <2>1, <2>2 DEF P!FilesInv
<1>7. P!Rows' = {} /\ \A b \in P!Assets : status[b] # "none" => status'[b] # "none"
  BY <1>0, <1>1 DEF P!TypeOK, P!Rows
<1> QED
  BY <1>1, <1>4, <1>6, <1>7, EndsRequest, RequestsAfter

\* The project goes to the trash and grows old there.
LEMMA TrashOK ==
    ASSUME P!ProjectsAssumption, P!IInv, P!DeleteProject \/ P!DayPasses \/ P!CleanupSkipped
    PROVE  P!IInv'
<1>0. P!TypeOK /\ P!FilesInv /\ RestoreDays \in Nat \ {0} /\ trashed \in 0..RestoreDays
  BY DEF P!IInv, P!TypeOK, P!ProjectsAssumption
<1>1. /\ UNCHANGED <<canonical, thumbnail, status, store, doomed, atRisk, seedLost, projectReq>>
      /\ old' \subseteq P!Assets /\ life' \in {life, "trash"}
  BY <1>0 DEF P!DeleteProject, P!DayPasses, P!CleanupSkipped, P!project, P!files, P!TypeOK
<1>2. trashed' \in 0..RestoreDays /\ due' \subseteq 0..RestoreDays
  <2>1. CASE P!DeleteProject
    BY <1>0, <2>1 DEF P!DeleteProject, P!TypeOK
  <2>2. CASE P!DayPasses
    BY <1>0, <2>2 DEF P!DayPasses, P!TypeOK
  <2>3. CASE P!CleanupSkipped
    BY <1>0, <2>3 DEF P!CleanupSkipped, P!project, P!TypeOK
  <2> QED
    BY <2>1, <2>2, <2>3
<1>3. P!TypeOK' /\ P!FilesInv' /\ P!Rows' = P!Rows
  BY <1>0, <1>1, <1>2 DEF P!TypeOK, P!FilesInv, P!Rows
<1> QED
  BY <1>1, <1>3, NoRequest, RequestsAfter

\* The cleanup lists the files, and they are at risk from now on.
LEMMA CleanupOK ==
    ASSUME P!IInv, NEW r \in Requests, P!CleanupLoad(r) \/ P!CleanupFiles(r)
    PROVE  P!IInv'
<1>0. P!TypeOK /\ P!FilesInv
  BY DEF P!IInv
<1>1. CASE P!CleanupLoad(r)
  <2> DEFINE s == [op |-> "cleanup"]
  <2>1. P!RequestOK(s)
    BY DEF P!RequestOK
  <2>2. /\ projectReq' = [projectReq EXCEPT ![r] = s]
        /\ due' \subseteq due /\ UNCHANGED <<P!project, P!files, seedLost>>
    BY <1>1 DEF P!CleanupLoad, P!Begin
  <2> QED
    BY <2>1, <2>2, RequestMoved
<1>2. CASE P!CleanupFiles(r)
  <2>1. /\ doomed' = doomed \cup P!FilePaths /\ atRisk' = atRisk \cup P!FilePaths /\ P!End(r)
        /\ UNCHANGED <<life, trashed, canonical, thumbnail, status, old, store, due, seedLost>>
    BY <1>2 DEF P!CleanupFiles, P!project
  <2>2. P!FilePaths \subseteq {a \in P!Assets : status[a] # "none"}
    BY <1>0 DEF P!FilePaths, P!Rows, P!TypeOK, P!FilesInv, P!Assets
  <2>3. P!TypeOK'
    BY <1>0, <2>1, <2>2 DEF P!TypeOK
  <2>4. P!Rows' = P!Rows
    BY <2>1 DEF P!Rows
  <2>5. P!FilesInv'
    BY <1>0, <2>1, <2>2, <2>4 DEF P!FilesInv, P!FilePaths
  <2> QED
    BY <2>1, <2>3, <2>4, <2>5, EndsRequest, RequestsAfter
<1> QED
  BY <1>1, <1>2

LEMMA ProjectsInit == ASSUME P!ProjectsAssumption PROVE P!Init => P!IInv
<1> SUFFICES ASSUME P!Init PROVE P!IInv
  OBVIOUS
<1>1. P!TypeOK
  BY DEF P!Init, P!TypeOK, P!Assets, P!ProjectsAssumption
<1>2. P!FilesInv
  BY DEF P!Init, P!FilesInv, P!Assets, P!Rows, P!ProjectsAssumption
<1>3. DOMAIN projectReq = Requests /\ \A r \in Requests : P!RequestOK(projectReq[r])
  BY DEF P!Init, P!RequestOK
<1> QED
  BY <1>1, <1>2, <1>3 DEF P!IInv

LEMMA ProjectsNext ==
    ASSUME P!ProjectsAssumption PROVE P!IInv /\ [P!Next]_P!vars => P!IInv'
<1> SUFFICES ASSUME P!IInv, [P!Next]_P!vars PROVE P!IInv'
  OBVIOUS
<1>1. CASE UNCHANGED P!vars
  <2>1. P!TypeOK' /\ P!FilesInv'
    BY <1>1 DEF P!IInv, P!TypeOK, P!FilesInv, P!vars, P!Rows
  <2> QED
    BY <1>1, <2>1, NoRequest, RequestsAfter DEF P!vars, P!Rows
<1>2. ASSUME NEW a \in P!Assets,
             \/ P!CreateUploadUrl(a) \/ P!Put(a) \/ P!Age(a) \/ P!CompletePrepare(a)
             \/ P!DeleteObject(a)
      PROVE  P!IInv'
  BY <1>2, UploadsOK
<1>3. ASSUME NEW r \in Requests, P!Refuse(r) PROVE P!IInv'
  BY <1>3, RefuseOK
<1>4. ASSUME NEW r \in Requests, NEW a \in P!Assets, P!ConfirmLoad(r, a) \/ P!DeleteLoad(r, a)
      PROVE  P!IInv'
  BY <1>4, AssetLoadsOK
<1>5. ASSUME NEW r \in Requests, P!SweepLoad(r) \/ P!RestoreLoad(r) \/ P!PurgeLoad(r)
      PROVE  P!IInv'
  BY <1>5, LoadsOK
<1>6. ASSUME NEW r \in Requests,
             \/ P!ConfirmCheck(r) \/ P!ConfirmWrite(r) \/ P!DeleteWrite(r) \/ P!SweepWrite(r)
             \/ P!RestoreWrite(r) \/ P!PurgeWrite(r)
      PROVE  P!IInv'
  BY <1>6, ConfirmCheckOK, ConfirmWriteOK, DeleteWriteOK, SweepWriteOK, RestoreWriteOK,
     PurgeWriteOK
<1>7. CASE P!DeleteProject \/ P!DayPasses \/ P!CleanupSkipped
  BY <1>7, TrashOK
<1>8. ASSUME NEW r \in Requests, P!CleanupLoad(r) \/ P!CleanupFiles(r) PROVE P!IInv'
  BY <1>8, CleanupOK
<1>9. ASSUME NEW a \in P!Assets, P!CreateOutputUpload(a) PROVE P!IInv'
  BY <1>9, OutputUploadOK
<1> QED
  BY <1>1, <1>2, <1>3, <1>4, <1>5, <1>6, <1>7, <1>8, <1>9 DEF P!Next

\* The inductive invariant of the files: what the rows refer to stays in storage, and so does
\* what a confirmation has seen, unless its deletion was decided before it was in use again.
THEOREM FilesInvariant == ASSUME P!ProjectsAssumption PROVE P!Spec => []P!IInv
<1> QED
  BY ProjectsInit, ProjectsNext, PTL DEF P!Spec

-----------------------------------------------------------------------------
(* The two of them in the composition that the runs check.                  *)

\* A behaviour of the whole is one of the design.
LEMMA StudioPart == MCSpec => D!Spec
<1>1. MCInit => D!Init
  BY DEF MCInit
<1>2. [MCNext]_<<vars, studio, projects>> => [D!Next]_D!vars
  BY DEF MCNext, studio, D!vars
<1> QED
  BY <1>1, <1>2, PTL DEF MCSpec, D!Spec

\* And one of the files.
LEMMA ProjectsPart == MCSpec => P!Spec
<1>1. MCInit => P!Init
  BY DEF MCInit
<1>2. [MCNext]_<<vars, studio, projects>> => [P!Next]_P!vars
  BY DEF MCNext, projects, P!vars
<1> QED
  BY <1>1, <1>2, PTL DEF MCSpec, P!Spec

\* No save is lost, whoever saves, restores, applies a template, bakes or replaces the model.
THEOREM NoSaveLost == MCSpec => []RevisionsChain
<1>1. D!StudioAssumption
  BY PartsAssumption
<1>2. D!IInv => RevisionsChain
  BY DEF D!IInv, RevisionsChain
<1> QED
  BY <1>1, <1>2, StudioInvariant, StudioPart, PTL

\* What was sent to be made stays in the history, which holds no more than it should.
THEOREM ExportsHeld == MCSpec => []ExportsKept
<1>1. D!StudioAssumption
  BY PartsAssumption
<1>2. D!IInv => ExportsKept
  BY DEF D!IInv, D!HistoryInv, D!IsHistory, ExportsKept, D!ExportsKept
<1> QED
  BY <1>1, <1>2, StudioInvariant, StudioPart, PTL

\* The model of a live project is confirmed, raw or ready, and in storage, and no deletion
\* waits for it, however confirmations, deletions, sweeps, restores, cleanups and purges
\* interleave and however long they take - but for what was put at risk, and for a demo model
\* that was never uploaded.
THEOREM ModelStays == MCSpec => []CanonicalStored
<1>1. P!ProjectsAssumption
  BY PartsAssumption
<1>2. P!IInv => CanonicalStored
  BY <1>1 DEF P!IInv, P!FilesInv, P!TypeOK, P!Rows, P!Assets, CanonicalStored,
             P!CanonicalStored
<1> QED
  BY <1>1, <1>2, FilesInvariant, ProjectsPart, PTL
=============================================================================
