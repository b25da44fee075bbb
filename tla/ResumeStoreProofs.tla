------------------------- MODULE ResumeStoreProofs -------------------------
(***************************************************************************)
(* ResumeStore keeps its types, every stored document, snapshot and        *)
(* session copy resolvable, the default of every resume in its place and   *)
(* its history without holes, for any number of handlers, locales,         *)
(* contents, rows and snapshots, with or without crashes; and with one     *)
(* handler at a time, its numbers unique and its snapshots up to date.     *)
(* What AgentProposals adds to it keeps the documents resolvable; an       *)
(* accepted proposal did make its revision, an invalid one never does, and *)
(* as long as the history is not purged none makes two, however often the  *)
(* gateway is killed between the revision and the mark.                    *)
(***************************************************************************)
EXTENDS AgentProposals, FiniteSetTheorems, WellFoundedInduction, TLAPS

-----------------------------------------------------------------------------
(* Documents *)

\* A new document of one variant resolves, and a migrated one still does.
LEMMA DocumentResolves ==
  ASSUME NEW l \in Locales, NEW c \in Contents
  PROVE  Document(l, c) \in Data /\ WellFormed(Document(l, c))
  BY ConstantsAssumption DEF Document, Sole, Data, WellFormed, Available

\* Turning a legacy document into a default variant keeps it resolvable.
LEMMA MigratedResolves ==
  ASSUME NEW d \in Data, WellFormed(d)
  PROVE  Migrated(d) \in Data /\ WellFormed(Migrated(d))
  BY DEF Migrated, Data, WellFormed, Available

\* update_resume: an accepted edit leaves a document that resolves.
LEMMA EditedResolves ==
  ASSUME NEW d \in Data, WellFormed(d), NEW in \in Input, in.content \in Contents,
         EditAccepted(in, d)
  PROVE  Edited(in, d) \in Data /\ WellFormed(Edited(in, d))
<1> DEFINE t == EditTarget(in, d)
           v == [d.variants EXCEPT ![t] = in.content]
           a == IF in.target # None THEN t
                ELSE IF in.locale \in Available(d) THEN in.locale ELSE d.active
<1>1. d.default \in Available(d) /\ d.active \in Available(d) /\ Available(d) \subseteq Locales
  BY DEF WellFormed, Available
<1>2. t \in Available(d)
  <2>1. CASE in.target = None
    BY <2>1, <1>1 DEF EditTarget, OrElse, Normalize
  <2>2. CASE in.target # None
    BY <2>2 DEF EditAccepted
  <2> QED BY <2>1, <2>2
<1>3. a \in Available(d)
  BY <1>1, <1>2
<1>4. v \in [Locales -> Contents \union {None}]
  BY <1>1, <1>2 DEF Data
<1>5. \A l \in Available(d) : v[l] # None
  BY <1>1, <1>2, ConstantsAssumption DEF Available, Data
<1>6. Edited(in, d) = [d EXCEPT !.variants = v, !.active = a]
  BY DEF Edited, Data
<1> HIDE DEF t, v, a
<1>7. QED
  BY <1>1, <1>3, <1>4, <1>5, <1>6 DEF Data, WellFormed, Available

\* create_resume_locale_variant, activate_resume_locale_variant and
\* delete_resume_locale_variant likewise.
LEMMA WithVariantResolves ==
  ASSUME NEW d \in Data, WellFormed(d), NEW in \in Input, in.locale \in Locales,
         AddAccepted(in, d)
  PROVE  WithVariant(in, d) \in Data /\ WellFormed(WithVariant(in, d))
<1>1. VariantSource(in, d) \in Locales /\ d.variants[VariantSource(in, d)] # None
  BY DEF AddAccepted, Available
<1>2. QED
  BY <1>1 DEF WithVariant, Data, WellFormed, Available

\* Activating a variant that is held keeps the document resolvable.
LEMMA SwitchedResolves ==
  ASSUME NEW d \in Data, WellFormed(d), NEW in \in Input, SwitchAccepted(in, d)
  PROVE  Switched(in, d) \in Data /\ WellFormed(Switched(in, d))
  BY DEF SwitchAccepted, Switched, Data, WellFormed, Available

\* Dropping a variant that is not the default one: the default becomes active if need be.
LEMMA WithoutVariantResolves ==
  ASSUME NEW d \in Data, WellFormed(d), NEW in \in Input, DropAccepted(in, d)
  PROVE  WithoutVariant(in, d) \in Data /\ WellFormed(WithoutVariant(in, d))
<1>1. SwitchTarget(in, d) \in Locales /\ SwitchTarget(in, d) # d.default
  BY DEF DropAccepted, Available
<1>2. QED
  BY <1>1 DEF WithoutVariant, Data, WellFormed, Available

-----------------------------------------------------------------------------
(* What the handlers write *)

\* A handler whose arguments are accepted writes a document that resolves.
LEMMA NewDataResolves ==
  ASSUME NEW r \in Request, Carries(r), r.pc # "idle", Accepted(r)
  PROVE  NewData(r) \in Data /\ WellFormed(NewData(r))
<1>1. CASE r.kind = "update"
  BY <1>1, EditedResolves DEF Carries, Accepted, NewData, Migrating, Request
<1>2. CASE r.kind = "move"
  <2>1. EditAccepted(r.in, r.work)
    BY <1>2 DEF Carries, EditAccepted
  <2> QED BY <2>1, <1>2, EditedResolves DEF Carries, NewData, Migrating, Request
<1>3. CASE r.kind = "restore"
  <2> DEFINE i == RestoreInput(r.snap)
  <2>1. r.work \in Data /\ WellFormed(r.work) /\ r.snap \in Data /\ WellFormed(r.snap)
    BY <1>3 DEF Carries, Migrating
  <2>2. r.snap.active \in Locales /\ r.snap.variants[r.snap.active] \in Contents
    BY <2>1 DEF WellFormed, Available, Data
  <2>3. i \in Input /\ i.content \in Contents /\ i.target = None
    BY <2>2 DEF RestoreInput, NoInput, Input, LocaleArg
  <2>4. EditAccepted(i, r.work)
    BY <2>3 DEF EditAccepted
  <2> HIDE DEF i
  <2>5. Edited(i, r.work) \in Data /\ WellFormed(Edited(i, r.work))
    BY <2>1, <2>3, <2>4, EditedResolves
  <2>6. NewData(r) = Edited(i, r.work)
    BY <1>3 DEF NewData, i
  <2> QED BY <2>5, <2>6
<1>4. CASE r.kind = "addLocale"
  BY <1>4, WithVariantResolves DEF Carries, Accepted, NewData, Migrating, Request
<1>5. CASE r.kind = "activate"
  BY <1>5, SwitchedResolves DEF Carries, Accepted, NewData, Migrating, Request
<1>6. CASE r.kind = "dropLocale"
  BY <1>6, WithoutVariantResolves DEF Carries, Accepted, NewData, Migrating, Request
<1>7. CASE r.kind \notin {"update", "move", "restore", "addLocale", "activate", "dropLocale"}
  BY <1>7 DEF Carries, NewData, Row
<1> QED BY <1>1, <1>2, <1>3, <1>4, <1>5, <1>6, <1>7

\* The locale column it writes is a locale code.
LEMMA NewLocaleTyped ==
  ASSUME NEW r \in Request, Carries(r), r.pc # "idle"
  PROVE  NewLocale(r) \in Locales \union {Other}
<1>1. r.row.locale \in Locales \union {Other}
  BY DEF Carries, Row
<1>2. CASE r.kind \in {"update", "move", "restore"}
  BY <1>2 DEF Carries, Migrating, NewLocale, Data
<1>3. CASE r.kind = "rename"
  <2>1. NewLocale(r) = OrElse(r.in.locale, r.row.locale)
    BY <1>3 DEF NewLocale
  <2>2. r.in.locale \in Locales \union {Other, None}
    BY DEF Request, Input, LocaleArg
  <2> QED BY <1>1, <2>1, <2>2 DEF OrElse
<1>4. CASE r.kind \notin {"update", "move", "restore", "rename"}
  BY <1>1, <1>4 DEF NewLocale
<1> QED BY <1>2, <1>3, <1>4

\* Mixing a new row's columns with the stored row's keeps a row that resolves.
LEMMA FlushedResolves ==
  ASSUME NEW new \in Row, WellFormed(new.data), NEW loaded \in Row,
         NEW stored \in Row, WellFormed(stored.data)
  PROVE  Flushed(new, loaded, stored) \in Row /\ WellFormed(Flushed(new, loaded, stored).data)
  BY DEF Flushed, Row

-----------------------------------------------------------------------------
(* Numbers *)

\* What Numbers(id) holds: the numbers of the rows of resume id.
LEMMA NumbersTyped ==
  ASSUME TypeOK, NEW id \in Ids
  PROVE  Numbers(id) \subseteq Nat
<1>1. \A j \in 1..Len(revisions) : revisions[j].revision \in Nat
  <2>1. \A j \in 1..Len(revisions) : revisions[j] \in Revision
    BY DEF TypeOK
  <2> QED BY <2>1 DEF Revision
<1> QED BY <1>1 DEF Numbers

\* A history with a highest number has a natural number as its latest revision.
LEMMA LatestIsNat ==
  ASSUME TypeOK, SomeHighest, NEW id \in Ids
  PROVE  /\ LatestRevision(id) \in Nat
         /\ \A m \in Numbers(id) : m <= LatestRevision(id)
<1> DEFINE S == {0} \union Numbers(id)
<1>1. Numbers(id) \subseteq Nat
  BY NumbersTyped
<1>2. PICK n \in S : \A m \in Numbers(id) : m <= n
  BY DEF SomeHighest
<1>3. n \in Nat /\ \A m \in S : n >= m
  BY <1>1, <1>2
<1>4. LatestRevision(id) \in S /\ \A m \in S : LatestRevision(id) >= m
  BY <1>2, <1>3 DEF LatestRevision, Max
<1> QED BY <1>1, <1>4

\* Appending a snapshot adds its number to its own resume's and to no other's.
LEMMA NumbersAppend ==
  ASSUME TypeOK, NEW row \in Revision, revisions' = Append(revisions, row), NEW id \in Ids
  PROVE  Numbers(id)' = IF row.resume = id THEN Numbers(id) \union {row.revision} ELSE Numbers(id)
<1> DEFINE n == Len(revisions)
<1>1. n \in Nat /\ Len(revisions') = n + 1 /\ revisions'[n + 1] = row
      /\ \A j \in 1..n : revisions'[j] = revisions[j]
  BY DEF TypeOK
<1>2. 1..(n + 1) = 1..n \union {n + 1}
  BY <1>1
<1>3. Numbers(id) = {revisions[i].revision : i \in {j \in 1..n : revisions[j].resume = id}}
  BY DEF Numbers
<1>4. Numbers(id)' = {revisions'[i].revision : i \in {j \in 1..(n + 1) : revisions'[j].resume = id}}
  BY <1>1 DEF Numbers
<1> HIDE DEF n
<1>5. CASE row.resume = id
  BY <1>1, <1>2, <1>3, <1>4, <1>5
<1>6. CASE row.resume # id
  BY <1>1, <1>2, <1>3, <1>4, <1>6
<1> QED BY <1>5, <1>6

-----------------------------------------------------------------------------
(* Steps: an action rewrites at most one session and one table *)

RowsOK ==
  /\ resumes \in [Ids -> Row \union {None}]
  /\ \A id \in Ids : resumes[id] # None => WellFormed(resumes[id].data)

HistoryOK ==
  /\ revisions \in Seq(Revision)
  /\ \A i \in 1..Len(revisions) : WellFormed(revisions[i].data)
  /\ SomeHighest

SessionsOK == req \in [Requests -> Request] /\ SessionsResolve

\* The inductive invariant: TypeOK and DocumentsResolve strengthened by what the
\* sessions carry and by every history having a highest number, by state part.
IInv == RowsOK /\ HistoryOK /\ SessionsOK

\* It is the conjunction of the four named invariants of ResumeStore.
LEMMA IInvParts == IInv <=> TypeOK /\ DocumentsResolve /\ SessionsResolve /\ SomeHighest
  BY DEF IInv, TypeOK, DocumentsResolve, RowsOK, HistoryOK, SessionsOK

\* The empty session carries nothing.
LEMMA IdleCarries == Idle \in Request /\ Carries(Idle)
<1>1. Idle \in Request
  BY DEF Idle, Request, NoInput, Input, LocaleArg, Steps
<1>2. Idle.kind = None /\ Idle.pc = "idle"
  BY DEF Idle
<1>3. None \notin {"update", "restore", "addLocale", "activate", "dropLocale", "move", "duplicate"}
  BY ConstantsAssumption DEF AllKinds
<1> QED BY <1>1, <1>2, <1>3 DEF Carries, Migrating

\* The session of a request that has just inserted a resolvable row may be carried on.
LEMMA WritingCarries ==
  ASSUME NEW id \in Ids, NEW row \in Row, WellFormed(row.data)
  PROVE  Writing(id, row) \in Request /\ Carries(Writing(id, row))
<1> DEFINE w == Writing(id, row)
<1>1. w \in Request
  BY IdleCarries DEF Writing, Idle, Request, Steps
<1>2. w.kind = None /\ w.id = id /\ w.row = row
  BY DEF Writing, Idle
<1>3. None \notin {"update", "restore", "addLocale", "activate", "dropLocale", "move", "duplicate"}
  BY ConstantsAssumption DEF AllKinds
<1> HIDE DEF w
<1>4. Carries(w)
  BY <1>2, <1>3 DEF Carries, Migrating
<1> QED BY <1>1, <1>4 DEF w

\* A step that gives one session what it may carry keeps SessionsOK.
LEMMA SessionStep ==
  ASSUME SessionsOK, NEW q \in Requests, NEW r \in Request, Carries(r),
         req' = [req EXCEPT ![q] = r]
  PROVE  SessionsOK'
<1>1. req' \in [Requests -> Request]
  BY DEF SessionsOK
<1>2. ASSUME NEW p \in Requests PROVE Carries(req'[p])
  BY <1>2 DEF SessionsOK, SessionsResolve
<1> QED BY <1>1, <1>2 DEF SessionsOK, SessionsResolve

\* A step that writes one resolvable row, or removes one, keeps RowsOK.
LEMMA RowStep ==
  ASSUME RowsOK, NEW id \in Ids, NEW row \in Row \union {None},
         row # None => WellFormed(row.data), resumes' = [resumes EXCEPT ![id] = row]
  PROVE  RowsOK'
  BY DEF RowsOK

\* RowsOK depends on the resume table only.
LEMMA RowsKept == ASSUME RowsOK, UNCHANGED resumes PROVE RowsOK'
  BY DEF RowsOK

\* HistoryOK depends on the revision table only.
LEMMA HistoryKept == ASSUME HistoryOK, UNCHANGED revisions PROVE HistoryOK'
  BY DEF HistoryOK, SomeHighest, Numbers

\* A stored resume has a typed row whose document resolves.
LEMMA StoredResolves ==
  ASSUME RowsOK, NEW id, Stored(id)
  PROVE  id \in Ids /\ resumes[id] \in Row /\ WellFormed(resumes[id].data)
  BY DEF RowsOK, Stored

\* A session that only moves on keeps what it carries.
LEMMA MovedOn ==
  ASSUME NEW r \in Request, Carries(r), r.pc # "idle", NEW pc \in Steps,
         NEW row \in Row, WellFormed(row.data), NEW num \in Nat,
         NEW s, s = [r EXCEPT !.pc = pc, !.row = row, !.num = num]
  PROVE  s \in Request /\ Carries(s)
<1>1. s \in Request
  BY DEF Request
<1>2. s.kind = r.kind /\ s.in = r.in /\ s.work = r.work /\ s.snap = r.snap /\ s.id = r.id /\ s.row = row
  BY DEF Request
<1>3. Carries(s)
  BY <1>2 DEF Carries
<1> QED BY <1>1, <1>3

-----------------------------------------------------------------------------
(* The inductive invariant *)

\* The initial states, fresh or with one legacy resume, satisfy the invariant.
LEMMA InitIInv == Init => IInv
<1> SUFFICES ASSUME Init PROVE IInv
  OBVIOUS
<1>1. PICK row \in LegacyRows \union {None} :
        resumes = [id \in Ids |-> IF id = 1 THEN row ELSE None]
  BY DEF Init
<1>2. row # None => row \in Row /\ WellFormed(row.data)
  <2> SUFFICES ASSUME row # None PROVE row \in Row /\ WellFormed(row.data)
    OBVIOUS
  <2>1. PICK l \in Locales, c \in Contents, k \in Locales :
          row = [data |-> [Document(l, c) EXCEPT !.legacy = TRUE], locale |-> k]
    BY <1>1 DEF LegacyRows
  <2>2. Document(l, c) \in Data /\ WellFormed(Document(l, c))
    BY DocumentResolves
  <2> DEFINE d == [Document(l, c) EXCEPT !.legacy = TRUE]
  <2>3. d \in Data /\ WellFormed(d)
    BY <2>2 DEF Data, WellFormed, Available
  <2> QED BY <2>1, <2>3 DEF Row
<1>3. RowsOK
  BY <1>1, <1>2 DEF RowsOK
<1>4. HistoryOK
  <2>1. revisions = <<>>
    BY DEF Init
  <2>2. revisions \in Seq(Revision) /\ Len(revisions) = 0
    BY <2>1
  <2>3. \A id \in Ids : Numbers(id) = {}
    BY <2>2 DEF Numbers
  <2> QED BY <2>2, <2>3 DEF HistoryOK, SomeHighest
<1>5. SessionsOK
  BY IdleCarries DEF Init, SessionsOK, SessionsResolve
<1> QED BY <1>3, <1>4, <1>5 DEF IInv

\* The arguments a route accepts.
LEMMA InputsTyped ==
  ASSUME NEW kind \in Kinds, NEW in \in Inputs(kind)
  PROVE  /\ in \in Input
         /\ kind \in {"update", "move"} => in.content \in Contents
         /\ kind = "move" => in.target = None
         /\ kind = "addLocale" => in.locale \in Locales
<1>1. NoInput \in Input /\ Arguments \subseteq Input
  BY ConstantsAssumption DEF NoInput, Arguments, Input, LocaleArg
<1>2. CASE kind = "update"
  <2>1. in \in EditInputs
    BY <1>2 DEF Inputs
  <2> QED BY <1>1, <1>2, <2>1 DEF EditInputs, Arguments
<1>3. CASE kind = "move"
  <2>1. in \in MoveInputs
    BY <1>3 DEF Inputs
  <2> QED BY <1>1, <1>3, <2>1 DEF MoveInputs, Arguments
<1>4. CASE kind = "restore"
  <2>1. in \in RestoreInputs
    BY <1>4 DEF Inputs
  <2> QED BY <1>1, <1>4, <2>1, ConstantsAssumption DEF RestoreInputs, Input, LocaleArg, NoInput
<1>5. CASE kind = "addLocale"
  <2>1. in \in VariantInputs
    BY <1>5 DEF Inputs
  <2> QED BY <1>1, <1>5, <2>1 DEF VariantInputs
<1>6. CASE kind = "rename"
  <2>1. in \in LocaleInputs
    BY <1>6 DEF Inputs
  <2> QED BY <1>1, <1>6, <2>1 DEF LocaleInputs, Input, LocaleArg, NoInput
<1>7. CASE kind \in {"activate", "dropLocale"}
  <2>1. in \in LocaleInputs
    BY <1>7 DEF Inputs
  <2> QED BY <1>1, <1>7, <2>1 DEF LocaleInputs, Input, LocaleArg, NoInput
<1>8. CASE kind \notin {"update", "move", "restore", "addLocale", "rename", "activate", "dropLocale"}
  <2>1. in = NoInput
    BY <1>8 DEF Inputs
  <2> QED BY <1>1, <1>8, <2>1
<1> QED BY <1>2, <1>3, <1>4, <1>5, <1>6, <1>7, <1>8

\* A handler opens a session on a stored row.
LEMMA OpenStep ==
  ASSUME IInv, NEW q \in Requests, NEW kind \in Kinds, NEW id \in Ids,
         NEW in \in Inputs(kind), Open(q, kind, id, in)
  PROVE  IInv'
<1> DEFINE row == resumes[id]
           work == IF kind \in Migrating \union {"duplicate"} THEN Migrated(row.data) ELSE None
           pc == FirstStep(kind, row.data)
<1>1. RowsOK /\ HistoryOK /\ SessionsOK
  BY DEF IInv
<1>2. row \in Row /\ WellFormed(row.data)
  BY <1>1, StoredResolves DEF Open
<1>3. Migrated(row.data) \in Data /\ WellFormed(Migrated(row.data))
  BY <1>2, MigratedResolves DEF Row
<1>4. PICK snap \in IF kind = "restore" THEN Snapshots(id, in.base) ELSE {None} :
        req' = [req EXCEPT ![q] = [pc |-> pc, kind |-> kind, id |-> id, in |-> in, row |-> row,
                                   work |-> work, snap |-> snap, num |-> 0]]
  BY DEF Open
<1> DEFINE r == [pc |-> pc, kind |-> kind, id |-> id, in |-> in, row |-> row,
                 work |-> work, snap |-> snap, num |-> 0]
<1>5. snap \in Data \union {None} /\ (kind = "restore" => snap \in Data /\ WellFormed(snap))
  <2>1. \A i \in 1..Len(revisions) : revisions[i] \in Revision /\ WellFormed(revisions[i].data)
    BY <1>1 DEF HistoryOK
  <2>2. kind = "restore" => \E i \in 1..Len(revisions) : snap = revisions[i].data
    BY DEF Snapshots
  <2> QED BY <2>1, <2>2 DEF Revision
<1>6. /\ in \in Input
      /\ kind \in {"update", "move"} => in.content \in Contents
      /\ kind = "move" => in.target = None
      /\ kind = "addLocale" => in.locale \in Locales
  BY InputsTyped
<1>7. pc \in Steps /\ kind \in AllKinds
  BY ConstantsAssumption DEF FirstStep, Steps
<1>8. work \in Data \union {None}
  BY <1>3
<1>9. r \in Request
  BY <1>2, <1>5, <1>6, <1>7, <1>8 DEF Request
<1> HIDE DEF pc, row
<1>10. Carries(r)
  BY <1>2, <1>3, <1>5, <1>6, <1>7 DEF Carries
<1>11. SessionsOK'
  BY <1>1, <1>4, <1>9, <1>10, SessionStep
<1>12. RowsOK' /\ HistoryOK'
  BY <1>1, RowsKept, HistoryKept DEF Open
<1> QED BY <1>11, <1>12 DEF IInv

\* The commit of a lazy migration writes the migrated row of the session.
LEMMA MigrateCommitStep ==
  ASSUME IInv, NEW q \in Requests, MigrateCommit(q)
  PROVE  IInv'
<1> DEFINE r == req[q]
           new == Flushed(MigratedRow(r), r.row, resumes[r.id])
<1>1. RowsOK /\ HistoryOK /\ SessionsOK
  BY DEF IInv
<1>2. r \in Request /\ Carries(r) /\ r.pc = "migrate"
  BY <1>1 DEF SessionsOK, SessionsResolve, MigrateCommit
<1>3. r.row \in Row /\ WellFormed(r.row.data) /\ r.id \in Ids
  BY <1>2 DEF Carries
<1>4. resumes[r.id] \in Row /\ WellFormed(resumes[r.id].data)
  BY <1>1, StoredResolves DEF MigrateCommit
<1>5. MigratedRow(r) \in Row /\ WellFormed(MigratedRow(r).data)
  BY <1>3, MigratedResolves DEF MigratedRow, Row, Data
<1>6. new \in Row /\ WellFormed(new.data)
  BY <1>3, <1>4, <1>5, FlushedResolves
<1>7. resumes' = [resumes EXCEPT ![r.id] = new]
  BY DEF MigrateCommit
<1>8. RowsOK'
  BY <1>1, <1>3, <1>6, <1>7, RowStep
<1> DEFINE s == [r EXCEPT !.pc = "migrated", !.row = r.row, !.num = r.num]
<1>9. req' = [req EXCEPT ![q] = s]
  BY <1>1, <1>2 DEF MigrateCommit, SessionsOK, Request
<1>10. s \in Request /\ Carries(s)
  <2>1. "migrated" \in Steps /\ r.num \in Nat
    BY <1>2 DEF Steps, Request
  <2> HIDE DEF r
  <2> QED BY <2>1, <1>2, <1>3, MovedOn
<1> HIDE DEF s
<1>11. SessionsOK'
  BY <1>1, <1>9, <1>10, SessionStep
<1>12. HistoryOK'
  BY <1>1, HistoryKept DEF MigrateCommit
<1> QED BY <1>8, <1>11, <1>12 DEF IInv

\* The refresh after a lazy migration loads what is stored then.
LEMMA MigrateRefreshStep ==
  ASSUME IInv, NEW q \in Requests, MigrateRefresh(q)
  PROVE  IInv'
<1> DEFINE r == req[q]
           pc == IF r.kind = "move" THEN "check" ELSE "ready"
           s == [r EXCEPT !.pc = pc, !.row = resumes[r.id], !.num = r.num]
<1>1. RowsOK /\ HistoryOK /\ SessionsOK
  BY DEF IInv
<1>2. r \in Request /\ Carries(r) /\ r.pc # "idle" /\ r.num \in Nat /\ pc \in Steps
  BY <1>1 DEF SessionsOK, SessionsResolve, MigrateRefresh, Request, Steps
<1>3. resumes[r.id] \in Row /\ WellFormed(resumes[r.id].data)
  BY <1>1, StoredResolves DEF MigrateRefresh
<1>4. req' = [req EXCEPT ![q] = s]
  BY <1>1, <1>2 DEF MigrateRefresh, SessionsOK, Request
<1> HIDE DEF r, pc
<1>5. s \in Request /\ Carries(s)
  BY <1>2, <1>3, MovedOn
<1> HIDE DEF s
<1>6. SessionsOK'
  BY <1>1, <1>4, <1>5, SessionStep
<1>7. RowsOK' /\ HistoryOK'
  BY <1>1, RowsKept, HistoryKept DEF MigrateRefresh
<1> QED BY <1>6, <1>7 DEF IInv

\* The base revision check only moves a session on or ends it.
LEMMA CheckBaseRevisionStep ==
  ASSUME IInv, NEW q \in Requests, CheckBaseRevision(q)
  PROVE  IInv'
<1> DEFINE r == req[q]
           s == [r EXCEPT !.pc = "ready", !.row = r.row, !.num = r.num]
<1>1. RowsOK /\ HistoryOK /\ SessionsOK
  BY DEF IInv
<1>2. r \in Request /\ Carries(r) /\ r.pc # "idle" /\ r.num \in Nat /\ "ready" \in Steps
  BY <1>1 DEF SessionsOK, SessionsResolve, CheckBaseRevision, Request, Steps
<1>3. r.row \in Row /\ WellFormed(r.row.data)
  BY <1>2 DEF Carries
<1>4. req' = [req EXCEPT ![q] = s] \/ req' = [req EXCEPT ![q] = Idle]
  BY <1>1, <1>2 DEF CheckBaseRevision, SessionsOK, Request
<1> HIDE DEF r
<1>5. s \in Request /\ Carries(s)
  BY <1>2, <1>3, MovedOn
<1> HIDE DEF s
<1>6. SessionsOK'
  BY <1>1, <1>4, <1>5, SessionStep, IdleCarries
<1>7. RowsOK' /\ HistoryOK'
  BY <1>1, RowsKept, HistoryKept DEF CheckBaseRevision
<1> QED BY <1>6, <1>7 DEF IInv

\* A handler that gives up: the request was refused, or its row is gone.
LEMMA GiveUpStep ==
  ASSUME IInv, NEW q \in Requests, Refuse(q) \/ RowGone(q)
  PROVE  IInv'
<1>1. RowsOK /\ HistoryOK /\ SessionsOK
  BY DEF IInv
<1>2. SessionsOK'
  BY <1>1, IdleCarries, SessionStep DEF Refuse, RowGone
<1>3. RowsOK' /\ HistoryOK'
  BY <1>1, RowsKept, HistoryKept DEF Refuse, RowGone
<1> QED BY <1>2, <1>3 DEF IInv

\* A commit writes the document its session carries.
LEMMA CommitStep ==
  ASSUME IInv, NEW q \in Requests, Commit(q)
  PROVE  IInv'
<1> DEFINE r == req[q]
           written == [data |-> NewData(r), locale |-> NewLocale(r)]
           new == Flushed(written, r.row, resumes[r.id])
<1>1. RowsOK /\ HistoryOK /\ SessionsOK
  BY DEF IInv
<1>2. r \in Request /\ Carries(r) /\ r.pc # "idle" /\ Accepted(r) /\ Stored(r.id)
  BY <1>1 DEF SessionsOK, SessionsResolve, Commit
<1>3. resumes' = [resumes EXCEPT ![r.id] = new] /\ req' = [req EXCEPT ![q] = Writing(r.id, r.row)]
      /\ revisions' = revisions
  BY DEF Commit
<1> HIDE DEF r
<1>4. r.row \in Row /\ WellFormed(r.row.data) /\ r.id \in Ids
  BY <1>2 DEF Carries
<1>5. resumes[r.id] \in Row /\ WellFormed(resumes[r.id].data)
  BY <1>1, <1>2, StoredResolves
<1>6. written \in Row /\ WellFormed(written.data)
  BY <1>2, NewDataResolves, NewLocaleTyped DEF Row
<1> HIDE DEF written
<1>7. new \in Row /\ WellFormed(new.data)
  BY <1>4, <1>5, <1>6, FlushedResolves
<1> HIDE DEF new
<1>8. RowsOK'
  BY <1>1, <1>3, <1>4, <1>7, RowStep
<1>9. SessionsOK'
  BY <1>1, <1>3, <1>4, WritingCarries, SessionStep
<1>10. HistoryOK'
  BY <1>1, <1>3, HistoryKept
<1> QED BY <1>8, <1>9, <1>10 DEF IInv

\* The refresh after a commit loads what is stored then.
LEMMA RefreshStep ==
  ASSUME IInv, NEW q \in Requests, Refresh(q)
  PROVE  IInv'
<1> DEFINE r == req[q]
           s == [r EXCEPT !.pc = "fresh", !.row = resumes[r.id], !.num = r.num]
<1>1. RowsOK /\ HistoryOK /\ SessionsOK
  BY DEF IInv
<1>2. r \in Request /\ Carries(r) /\ r.pc # "idle" /\ r.num \in Nat /\ "fresh" \in Steps
  BY <1>1 DEF SessionsOK, SessionsResolve, Refresh, Request, Steps
<1>3. resumes[r.id] \in Row /\ WellFormed(resumes[r.id].data)
  BY <1>1, StoredResolves DEF Refresh
<1>4. req' = [req EXCEPT ![q] = s]
  BY <1>1, <1>2 DEF Refresh, SessionsOK, Request
<1> HIDE DEF r
<1>5. s \in Request /\ Carries(s)
  BY <1>2, <1>3, MovedOn
<1> HIDE DEF s
<1>6. SessionsOK'
  BY <1>1, <1>4, <1>5, SessionStep
<1>7. RowsOK' /\ HistoryOK'
  BY <1>1, RowsKept, HistoryKept DEF Refresh
<1> QED BY <1>6, <1>7 DEF IInv

\* A new row that resolves, inserted under the next identifier.
LEMMA InsertStep ==
  ASSUME IInv, NEW q \in Requests, NEW doc \in Data, WellFormed(doc), Insert(q, doc)
  PROVE  IInv'
<1> DEFINE row == [data |-> doc, locale |-> doc.default]
<1>1. RowsOK /\ HistoryOK /\ SessionsOK
  BY DEF IInv
<1>2. row \in Row /\ WellFormed(row.data)
  BY DEF Row, Data
<1>3. NextId \in Ids /\ resumes' = [resumes EXCEPT ![NextId] = row]
      /\ req' = [req EXCEPT ![q] = Writing(NextId, row)] /\ revisions' = revisions
  BY DEF Insert
<1> HIDE DEF row
<1>4. RowsOK'
  BY <1>1, <1>2, <1>3, RowStep
<1>5. SessionsOK'
  BY <1>1, <1>2, <1>3, WritingCarries, SessionStep
<1>6. HistoryOK'
  BY <1>1, <1>3, HistoryKept
<1> QED BY <1>4, <1>5, <1>6 DEF IInv

\* A created resume holds a new document.
LEMMA CreateStep ==
  ASSUME IInv, NEW q \in Requests, Create(q)
  PROVE  IInv'
<1>1. PICK l \in Locales, c \in Contents : Insert(q, Document(l, c))
  BY DEF Create
<1> QED BY <1>1, DocumentResolves, InsertStep

\* A duplicate holds the document that the session read.
LEMMA DuplicateStep ==
  ASSUME IInv, NEW q \in Requests, Duplicate(q)
  PROVE  IInv'
<1>1. req[q].work \in Data /\ WellFormed(req[q].work)
  BY DEF IInv, SessionsOK, SessionsResolve, Carries, Duplicate
<1> QED BY <1>1, InsertStep DEF Duplicate

\* A delete removes a row and touches no snapshot.
LEMMA DeleteStep ==
  ASSUME IInv, NEW q \in Requests, Delete(q)
  PROVE  IInv'
<1>1. RowsOK /\ HistoryOK /\ SessionsOK
  BY DEF IInv
<1>2. req[q].id \in Ids
  BY <1>1 DEF SessionsOK, SessionsResolve, Carries, Delete
<1>3. RowsOK'
  BY <1>1, <1>2, RowStep DEF Delete
<1>4. SessionsOK'
  BY <1>1, IdleCarries, SessionStep DEF Delete
<1>5. HistoryOK'
  BY <1>1, HistoryKept DEF Delete
<1> QED BY <1>3, <1>4, <1>5 DEF IInv

\* Numbering a snapshot reads the highest number of the history.
LEMMA NumberSnapshotStep ==
  ASSUME IInv, NEW q \in Requests, NumberSnapshot(q)
  PROVE  IInv'
<1> DEFINE r == req[q]
           s == [r EXCEPT !.pc = "numbered", !.row = r.row, !.num = LatestRevision(r.id) + 1]
<1>1. RowsOK /\ HistoryOK /\ SessionsOK
  BY DEF IInv
<1>2. r \in Request /\ Carries(r) /\ r.pc # "idle" /\ "numbered" \in Steps
  BY <1>1 DEF SessionsOK, SessionsResolve, NumberSnapshot, Steps
<1>3. r.row \in Row /\ WellFormed(r.row.data) /\ r.id \in Ids
  BY <1>2 DEF Carries
<1>4. LatestRevision(r.id) + 1 \in Nat
  <2>1. TypeOK /\ SomeHighest
    BY IInvParts
  <2>2. LatestRevision(r.id) \in Nat
    BY <1>3, <2>1, LatestIsNat
  <2> QED BY <2>2
<1>5. req' = [req EXCEPT ![q] = s]
  BY <1>1, <1>2 DEF NumberSnapshot, SessionsOK, Request
<1> HIDE DEF r
<1>6. s \in Request /\ Carries(s)
  BY <1>2, <1>3, <1>4, MovedOn
<1> HIDE DEF s
<1>7. SessionsOK'
  BY <1>1, <1>5, <1>6, SessionStep
<1>8. RowsOK' /\ HistoryOK'
  BY <1>1, RowsKept, HistoryKept DEF NumberSnapshot
<1> QED BY <1>7, <1>8 DEF IInv

\* Appending keeps the history resolvable, and the larger of the highest number
\* and the new one is the highest.
LEMMA AppendStep ==
  ASSUME TypeOK, HistoryOK, NEW row \in Revision, WellFormed(row.data),
         revisions' = Append(revisions, row)
  PROVE  HistoryOK'
<1>1. revisions' \in Seq(Revision)
  BY DEF HistoryOK
<1>2. \A i \in 1..Len(revisions') : WellFormed(revisions'[i].data)
  <2>1. Len(revisions) \in Nat /\ Len(revisions') = Len(revisions) + 1
        /\ revisions'[Len(revisions) + 1] = row
        /\ \A i \in 1..Len(revisions) : revisions'[i] = revisions[i]
    BY DEF HistoryOK
  <2> QED BY <2>1 DEF HistoryOK
<1>3. ASSUME NEW id \in Ids
      PROVE  \E n \in {0} \union Numbers(id)' : \A m \in Numbers(id)' : m <= n
  <2>1. PICK n \in {0} \union Numbers(id) : \A m \in Numbers(id) : m <= n
    BY <1>3 DEF HistoryOK, SomeHighest
  <2>2. Numbers(id) \subseteq Nat /\ row.revision \in Nat
    BY NumbersTyped DEF Revision
  <2>3. Numbers(id)' = IF row.resume = id THEN Numbers(id) \union {row.revision} ELSE Numbers(id)
    BY NumbersAppend
  <2>4. CASE row.resume # id \/ row.revision <= n
    BY <2>1, <2>2, <2>3, <2>4
  <2>5. CASE row.resume = id /\ ~ (row.revision <= n)
    <3>1. \A m \in Numbers(id)' : m <= row.revision
      BY <2>1, <2>2, <2>3, <2>5
    <3> QED BY <3>1, <2>3, <2>5
  <2> QED BY <2>4, <2>5
<1> QED BY <1>1, <1>2, <1>3 DEF HistoryOK, SomeHighest

\* The snapshot inserted is the row its session carries.
LEMMA InsertSnapshotStep ==
  ASSUME IInv, NEW q \in Requests, InsertSnapshot(q)
  PROVE  IInv'
<1> DEFINE r == req[q]
           row == [resume |-> r.id, revision |-> r.num, data |-> r.row.data]
           s == [r EXCEPT !.pc = "serialize", !.row = r.row, !.num = 0]
<1>1. RowsOK /\ HistoryOK /\ SessionsOK
  BY DEF IInv
<1>2. r \in Request /\ Carries(r) /\ r.pc # "idle" /\ "serialize" \in Steps
  BY <1>1 DEF SessionsOK, SessionsResolve, InsertSnapshot, Steps
<1>3. r.row \in Row /\ WellFormed(r.row.data) /\ r.id \in Ids
  BY <1>2 DEF Carries
<1>4. revisions' = Append(revisions, row) /\ resumes' = resumes
      /\ (req' = [req EXCEPT ![q] = s] \/ req' = [req EXCEPT ![q] = Idle])
  BY <1>1, <1>2 DEF InsertSnapshot, SessionsOK, Request
<1>5. row \in Revision /\ WellFormed(row.data)
  BY <1>2, <1>3 DEF Revision, Request, Row
<1> HIDE DEF r, row
<1>6. s \in Request /\ Carries(s)
  BY <1>2, <1>3, MovedOn
<1> HIDE DEF s
<1>7. SessionsOK'
  BY <1>1, <1>4, <1>6, SessionStep, IdleCarries
<1>8. HistoryOK'
  BY <1>1, <1>4, <1>5, AppendStep, IInvParts
<1>9. RowsOK'
  BY <1>1, <1>4, RowsKept
<1> QED BY <1>7, <1>8, <1>9 DEF IInv

\* The answer ends the session and changes no table.
LEMMA SerializeStep ==
  ASSUME IInv, NEW q \in Requests, Serialize(q)
  PROVE  IInv'
<1> DEFINE r == req[q]
           new == Flushed(MigratedRow(r), r.row, resumes[r.id])
<1>1. RowsOK /\ HistoryOK /\ SessionsOK
  BY DEF IInv
<1>2. r \in Request /\ Carries(r) /\ r.pc # "idle"
  BY <1>1 DEF SessionsOK, SessionsResolve, Serialize
<1>3. req' = [req EXCEPT ![q] = Idle] /\ revisions' = revisions
      /\ (resumes' = resumes \/ (Stored(r.id) /\ resumes' = [resumes EXCEPT ![r.id] = new]))
  BY DEF Serialize
<1> HIDE DEF r
<1>4. r.row \in Row /\ WellFormed(r.row.data) /\ r.id \in Ids
  BY <1>2 DEF Carries
<1>5. MigratedRow(r) \in Row /\ WellFormed(MigratedRow(r).data)
  BY <1>4, MigratedResolves DEF MigratedRow, Row, Data
<1>6. CASE resumes' = resumes
  BY <1>1, <1>6, RowsKept, <1>3, IdleCarries, SessionStep, HistoryKept DEF IInv
<1>7. CASE Stored(r.id) /\ resumes' = [resumes EXCEPT ![r.id] = new]
  <2>1. resumes[r.id] \in Row /\ WellFormed(resumes[r.id].data)
    BY <1>1, <1>7, StoredResolves
  <2>2. new \in Row /\ WellFormed(new.data)
    BY <1>4, <1>5, <2>1, FlushedResolves
  <2> HIDE DEF new
  <2>3. RowsOK'
    BY <1>1, <1>4, <1>7, <2>2, RowStep
  <2> QED BY <1>1, <1>3, <2>3, IdleCarries, SessionStep, HistoryKept DEF IInv
<1> QED BY <1>3, <1>6, <1>7

\* A purge empties the history and leaves the rows and the sessions as they are.
LEMMA PurgeStep ==
  ASSUME IInv, NEW q \in Requests, Purge(q)
  PROVE  IInv'
<1>1. RowsOK /\ SessionsOK
  BY DEF IInv
<1>2. revisions' = <<>> /\ resumes' = resumes /\ req' = req
  BY DEF Purge
<1>3. Len(revisions') = 0 /\ revisions' \in Seq(Revision)
  BY <1>2
<1>4. \A id \in Ids : Numbers(id)' = {}
  BY <1>3 DEF Numbers
<1>5. HistoryOK'
  BY <1>3, <1>4 DEF HistoryOK, SomeHighest
<1>6. RowsOK'
  BY <1>1, <1>2, RowsKept
<1>7. SessionsOK'
  BY <1>1, <1>2 DEF SessionsOK, SessionsResolve
<1> QED BY <1>5, <1>6, <1>7 DEF IInv

\* A kill empties the sessions and leaves the tables as they are.
LEMMA CrashStep == ASSUME IInv, Crash PROVE IInv'
<1>1. RowsOK' /\ HistoryOK'
  BY RowsKept, HistoryKept DEF IInv, Crash
<1>2. SessionsOK'
  BY IdleCarries DEF SessionsOK, SessionsResolve, Crash
<1> QED BY <1>1, <1>2 DEF IInv

\* Every step of the gateway, and a stutter, keeps the invariant.
LEMMA NextIInv == IInv /\ [Next]_vars => IInv'
<1> SUFFICES ASSUME IInv, [Next]_vars PROVE IInv'
  OBVIOUS
<1>1. CASE Crash
  BY <1>1, CrashStep
<1>2. ASSUME NEW q \in Requests, Handler(q) PROVE IInv'
  <2>1. CASE \E kind \in Kinds, id \in Ids : \E in \in Inputs(kind) : Open(q, kind, id, in)
    BY <2>1, OpenStep
  <2>2. CASE MigrateCommit(q) \/ MigrateRefresh(q) \/ CheckBaseRevision(q)
    BY <2>2, MigrateCommitStep, MigrateRefreshStep, CheckBaseRevisionStep
  <2>3. CASE Refuse(q) \/ Commit(q) \/ RowGone(q) \/ Refresh(q)
    BY <2>3, GiveUpStep, CommitStep, RefreshStep
  <2>4. CASE Create(q) \/ Duplicate(q) \/ Delete(q)
    BY <2>4, CreateStep, DuplicateStep, DeleteStep
  <2>5. CASE NumberSnapshot(q) \/ InsertSnapshot(q) \/ Serialize(q) \/ Purge(q)
    BY <2>5, NumberSnapshotStep, InsertSnapshotStep, SerializeStep, PurgeStep
  <2> QED BY <1>2, <2>1, <2>2, <2>3, <2>4, <2>5 DEF Handler
<1>3. CASE UNCHANGED vars
  <2>1. RowsOK' /\ HistoryOK'
    BY <1>3, RowsKept, HistoryKept DEF IInv, vars
  <2>2. SessionsOK'
    BY <1>3 DEF IInv, vars, SessionsOK, SessionsResolve
  <2> QED BY <2>1, <2>2 DEF IInv
<1> QED BY <1>1, <1>2, <1>3 DEF Next

\* The inductive invariant holds in every behaviour of the store.
THEOREM Inductive == Spec => []IInv
  BY InitIInv, NextIInv, PTL DEF Spec

\* The tables and sessions keep their types whatever the constants.
THEOREM TypeCorrect == Spec => []TypeOK
<1>1. IInv => TypeOK
  BY IInvParts
<1> QED BY <1>1, Inductive, PTL

\* Every stored document and snapshot names a default and an active locale it
\* holds, for any number of interleaved handlers, stale sessions, deletions,
\* purges and crashes: resolve_resume_variant always succeeds on a stored row.
THEOREM DocumentsAlwaysResolve == Spec => []DocumentsResolve
<1>1. IInv => DocumentsResolve
  BY IInvParts
<1> QED BY <1>1, Inductive, PTL

\* So does everything a handler carries between two of its steps.
THEOREM SessionsAlwaysResolve == Spec => []SessionsResolve
<1>1. IInv => SessionsResolve
  BY IInvParts
<1> QED BY <1>1, Inductive, PTL

-----------------------------------------------------------------------------
(* Largest elements *)

\* Every set of natural numbers has a least one, as < is well founded.
LEMMA Least ==
  ASSUME NEW T \in SUBSET Nat, T # {}
  PROVE  \E x \in T : \A y \in T : x <= y
<1>1. IsWellFoundedOn(OpToRel(<,Nat), Nat)
  BY NatLessThanWellFounded
<1> DEFINE R == OpToRel(<, Nat)
<1>2. \A x, y \in Nat : x < y => <<x, y>> \in R
  BY DEF OpToRel
<1>3. IsWellFoundedOn(R, Nat)
  BY <1>1
<1> HIDE DEF R
<1>4. PICK x \in T : \A y \in T : ~ (<<y, x>> \in R)
  BY <1>3, WFMin
<1>5. \A y \in T : ~ (y < x)
  BY <1>2, <1>4
<1> QED BY <1>5

\* So a bounded set has the maximum that Max chooses.
LEMMA MaxOfBounded ==
  ASSUME NEW n \in Nat, NEW S \in SUBSET (0..n), S # {}
  PROVE  Max(S) \in S /\ \A y \in S : Max(S) >= y
<1> DEFINE T == {n - x : x \in S}
<1>1. T \in SUBSET Nat /\ T # {}
  <2>1. PICK x \in S : TRUE
    OBVIOUS
  <2>2. n - x \in T
    BY <2>1
  <2>3. \A y \in S : n - y \in Nat
    OBVIOUS
  <2> QED BY <2>2, <2>3
<1>2. PICK t \in T : \A y \in T : t <= y
  BY <1>1, Least
<1>3. PICK x \in S : t = n - x
  BY <1>2
<1>4. \A y \in S : x >= y
  <2> SUFFICES ASSUME NEW y \in S PROVE x >= y
    OBVIOUS
  <2>1. n - y \in T /\ t <= n - y
    BY <1>2
  <2> QED BY <1>3, <2>1
<1> QED BY <1>4 DEF Max

\* The identifier of a new row is free: a resume is never overwritten by another.
LEMMA NextIdIsFree ==
  ASSUME NextId \in Ids
  PROVE  resumes[NextId] = None
<1> DEFINE S == {0} \union {i \in Ids : resumes[i] # None}
<1>1. MaxId \in Nat /\ S \in SUBSET (0..MaxId) /\ S # {}
  BY ConstantsAssumption DEF Ids
<1>2. Max(S) \in S /\ \A y \in S : Max(S) >= y
  BY <1>1, MaxOfBounded
<1>3. NextId = 1 + Max(S)
  BY DEF NextId
<1> DEFINE m == Max(S)
<1> HIDE DEF S, m
<1>4. NextId \notin S
  <2> SUFFICES ASSUME NextId \in S PROVE FALSE
    OBVIOUS
  <2>1. m \in S /\ m >= NextId /\ NextId = 1 + m
    BY <1>2, <1>3 DEF m
  <2>2. m \in Nat
    BY <1>1, <2>1
  <2> QED BY <2>1, <2>2
<1> QED BY <1>4 DEF S

-----------------------------------------------------------------------------
(* The default locale *)

\* No route rewrites the default locale of the document it works on.
LEMMA DefaultKept ==
  ASSUME NEW r \in Request, Carries(r), r.pc # "idle"
  PROVE  \/ NewData(r) = r.row.data
         \/ r.kind \in Migrating /\ NewData(r).default = r.work.default
<1>1. \A in, d : d \in Data =>
        /\ Edited(in, d).default = d.default /\ WithVariant(in, d).default = d.default
        /\ Switched(in, d).default = d.default /\ WithoutVariant(in, d).default = d.default
  BY DEF Edited, WithVariant, Switched, WithoutVariant, Data
<1>2. CASE r.kind \in {"update", "move"}
  <2>1. NewData(r) = Edited(r.in, r.work) /\ r.kind \in Migrating
    BY <1>2 DEF NewData, Migrating
  <2> QED BY <1>1, <2>1 DEF Carries
<1>3. CASE r.kind = "restore"
  <2>1. NewData(r) = Edited(RestoreInput(r.snap), r.work) /\ r.kind \in Migrating
    BY <1>3 DEF NewData, Migrating
  <2> QED BY <1>1, <2>1 DEF Carries
<1>4. CASE r.kind = "addLocale"
  <2>1. NewData(r) = WithVariant(r.in, r.work) /\ r.kind \in Migrating
    BY <1>4 DEF NewData, Migrating
  <2> QED BY <1>1, <2>1 DEF Carries
<1>5. CASE r.kind = "activate"
  <2>1. NewData(r) = Switched(r.in, r.work) /\ r.kind \in Migrating
    BY <1>5 DEF NewData, Migrating
  <2> QED BY <1>1, <2>1 DEF Carries
<1>6. CASE r.kind = "dropLocale"
  <2>1. NewData(r) = WithoutVariant(r.in, r.work) /\ r.kind \in Migrating
    BY <1>6 DEF NewData, Migrating
  <2> QED BY <1>1, <2>1 DEF Carries
<1>7. CASE r.kind \notin {"update", "move", "restore", "addLocale", "activate", "dropLocale"}
  BY <1>7 DEF NewData
<1> QED BY <1>2, <1>3, <1>4, <1>5, <1>6, <1>7

\* What a step may do to the default locale of the resumes that stay.
DefaultsKept ==
  \A id \in Ids :
    resumes[id] # None /\ resumes'[id] # None /\ HeldAlike(id)
      => resumes'[id].data.default = resumes[id].data.default

\* A write of either the session's document or the stored one.
LEMMA WriteKeepsDefault ==
  ASSUME IInv, NEW q \in Requests, NEW new, NEW key \in Ids,
         req[q].id = key, req[q].row \in Row,
         \/ new.data.default = req[q].row.data.default
         \/ req[q].work \in Data /\ new.data.default = req[q].work.default,
         resumes' = [resumes EXCEPT ![key] = Flushed(new, req[q].row, resumes[key])]
  PROVE  DefaultsKept
<1> SUFFICES ASSUME NEW id \in Ids, resumes[id] # None, HeldAlike(id)
             PROVE  resumes'[id].data.default = resumes[id].data.default
  BY DEF DefaultsKept
<1>1. resumes \in [Ids -> Row \union {None}]
  BY DEF IInv, RowsOK
<1>2. CASE id # key
  BY <1>1, <1>2
<1>3. CASE id = key
  <2>1. resumes'[id].data \in {new.data, resumes[id].data}
    BY <1>1, <1>3 DEF Flushed
  <2>2. req[q].row # None => req[q].row.data.default = resumes[id].data.default
    BY <1>3 DEF HeldAlike
  <2>3. req[q].work # None => req[q].work.default = resumes[id].data.default
    BY <1>3 DEF HeldAlike
  <2>4. req[q].row # None /\ (req[q].work \in Data => req[q].work # None)
    BY NoneAssumption
  <2> QED BY <2>1, <2>2, <2>3, <2>4
<1> QED BY <1>2, <1>3

\* Only four kinds of step write a stored row, and none moves its default locale
\* unless the session holds the row of another resume.
LEMMA NextKeepsDefaults == IInv /\ [Next]_vars => DefaultsKept \/ UNCHANGED vars
<1> SUFFICES ASSUME IInv, Next PROVE DefaultsKept
  OBVIOUS
<1>1. resumes \in [Ids -> Row \union {None}]
  BY DEF IInv, RowsOK
<1>2. CASE UNCHANGED resumes
  BY <1>2 DEF DefaultsKept
<1>3. ASSUME NEW q \in Requests, MigrateCommit(q) \/ (Serialize(q) /\ resumes' # resumes)
      PROVE  DefaultsKept
  <2> DEFINE r == req[q]
  <2>1. r \in Request /\ Carries(r) /\ r.pc # "idle"
    BY <1>3 DEF IInv, SessionsOK, SessionsResolve, MigrateCommit, Serialize
  <2>2. r.id \in Ids /\ r.row \in Row
    BY <2>1 DEF Carries
  <2>3. resumes' = [resumes EXCEPT ![r.id] = Flushed(MigratedRow(r), r.row, resumes[r.id])]
    BY <1>3 DEF MigrateCommit, Serialize
  <2>4. MigratedRow(r).data.default = r.row.data.default
    BY <2>2 DEF MigratedRow, Migrated, Row, Data
  <2> DEFINE new == MigratedRow(r)
  <2> HIDE DEF new
  <2>5. new.data.default = req[q].row.data.default
    BY <2>4 DEF new
  <2>6. resumes' = [resumes EXCEPT ![r.id] = Flushed(new, req[q].row, resumes[r.id])]
    BY <2>3 DEF new
  <2> QED BY <2>2, <2>5, <2>6, WriteKeepsDefault
<1>4. ASSUME NEW q \in Requests, Commit(q)
      PROVE  DefaultsKept
  <2> DEFINE r == req[q]
             new == [data |-> NewData(r), locale |-> NewLocale(r)]
  <2>1. r \in Request /\ Carries(r) /\ r.pc # "idle"
    BY <1>4 DEF IInv, SessionsOK, SessionsResolve, Commit
  <2>2. r.id \in Ids /\ r.row \in Row /\ (r.kind \in Migrating => r.work \in Data)
    BY <2>1 DEF Carries
  <2>3. resumes' = [resumes EXCEPT ![r.id] = Flushed(new, r.row, resumes[r.id])]
    BY <1>4 DEF Commit
  <2>4. \/ new.data.default = r.row.data.default
        \/ r.work \in Data /\ new.data.default = r.work.default
    BY <2>1, <2>2, DefaultKept
  <2> HIDE DEF new
  <2> QED BY <2>2, <2>3, <2>4, WriteKeepsDefault
<1>5. ASSUME NEW q \in Requests, NEW doc, Insert(q, doc)
      PROVE  DefaultsKept
  BY <1>1, <1>5, NextIdIsFree DEF Insert, DefaultsKept
<1>6. ASSUME NEW q \in Requests, Delete(q)
      PROVE  DefaultsKept
  BY <1>1, <1>6 DEF Delete, DefaultsKept
<1>7. ASSUME NEW q \in Requests, Handler(q)
      PROVE  DefaultsKept
  <2>1. CASE \E kind \in Kinds, id \in Ids : \E in \in Inputs(kind) : Open(q, kind, id, in)
    BY <1>2, <2>1 DEF Open
  <2>2. CASE MigrateCommit(q) \/ Serialize(q)
    BY <1>2, <1>3, <2>2
  <2>3. CASE Commit(q)
    BY <1>4, <2>3
  <2>4. CASE Create(q) \/ Duplicate(q)
    BY <1>5, <2>4 DEF Create, Duplicate
  <2>5. CASE Delete(q)
    BY <1>6, <2>5
  <2>6. CASE \/ MigrateRefresh(q) \/ CheckBaseRevision(q) \/ Refuse(q) \/ RowGone(q)
             \/ Refresh(q) \/ NumberSnapshot(q) \/ InsertSnapshot(q) \/ Purge(q)
    BY <1>2, <2>6 DEF MigrateRefresh, CheckBaseRevision, Refuse, RowGone, Refresh, NumberSnapshot,
                      InsertSnapshot, Purge
  <2> QED BY <1>7, <2>1, <2>2, <2>3, <2>4, <2>5, <2>6 DEF Handler
<1>8. CASE Crash
  BY <1>2, <1>8 DEF Crash
<1> QED BY <1>7, <1>8 DEF Next

\* However stale the rows that concurrent handlers hold, none of them moves the
\* default locale of a resume, unless it holds a deleted one of the same identifier.
THEOREM DefaultsNeverMove == Spec => DefaultNeverMoves
<1>1. IInv /\ [Next]_vars => [DefaultsKept]_vars
  BY NextKeepsDefaults
<1>2. Spec => [][DefaultsKept]_vars
  BY <1>1, Inductive, PTL DEF Spec
<1> QED BY <1>2 DEF DefaultNeverMoves, DefaultsKept

-----------------------------------------------------------------------------
(* Snapshot numbers *)

\* What a handler holds between reading the highest number and inserting its own:
\* at most one past the highest, which may have grown meanwhile.
Numbered ==
  \A q \in Requests, id \in Ids :
    req[q].pc = "numbered" /\ req[q].id = id => req[q].num \in 1..(LatestRevision(id) + 1)

\* Inductive as long as no purge takes the numbers back under a handler.
NumbersIInv == IInv /\ NumbersContiguous /\ Numbered

\* The latest revision is a natural number in every state of the invariant.
LEMMA LatestTyped == ASSUME IInv PROVE \A id \in Ids : LatestRevision(id) \in Nat
  BY IInvParts, LatestIsNat

\* A history numbered 1..n has n as its latest revision.
LEMMA MaxOfNumbers ==
  ASSUME NEW n \in Nat
  PROVE  Max({0} \union (1..n)) = n
<1> DEFINE S == {0} \union (1..n)
           m == Max(S)
<1>1. S \in SUBSET (0..n) /\ 0 \in S /\ n \in S
  OBVIOUS
<1>2. m \in S /\ \A y \in S : m >= y
  BY <1>1, MaxOfBounded
<1> HIDE DEF S, m
<1>3. m = n
  BY <1>1, <1>2
<1> QED BY <1>3 DEF S, m

\* A step that inserts no snapshot and numbers none.
LEMMA NumbersKept ==
  ASSUME NumbersIInv, IInv', UNCHANGED revisions,
         \A q \in Requests : req'[q].pc = "numbered" =>
           req[q].pc = "numbered" /\ req'[q].num = req[q].num /\ req'[q].id = req[q].id
  PROVE  NumbersIInv'
<1>1. \A id \in Ids : Numbers(id)' = Numbers(id) /\ LatestRevision(id)' = LatestRevision(id)
  BY DEF Numbers, LatestRevision
<1>2. NumbersContiguous'
  BY <1>1 DEF NumbersIInv, NumbersContiguous
<1>3. Numbered'
  <2> SUFFICES ASSUME NEW q \in Requests, NEW id \in Ids, req'[q].pc = "numbered", req'[q].id = id
               PROVE  req'[q].num \in 1..(LatestRevision(id)' + 1)
    BY DEF Numbered
  <2>1. req[q].num \in 1..(LatestRevision(id) + 1) /\ req'[q].num = req[q].num
    BY DEF NumbersIInv, Numbered
  <2> QED BY <1>1, <2>1
<1> QED BY <1>2, <1>3 DEF NumbersIInv

\* Reading the highest number.
LEMMA NumberKeepsNumbers ==
  ASSUME NumbersIInv, IInv', NEW q \in Requests, NumberSnapshot(q)
  PROVE  NumbersIInv'
<1>1. \A id \in Ids : Numbers(id)' = Numbers(id) /\ LatestRevision(id)' = LatestRevision(id)
  BY DEF Numbers, LatestRevision, NumberSnapshot
<1>2. NumbersContiguous'
  BY <1>1 DEF NumbersIInv, NumbersContiguous
<1>3. req \in [Requests -> Request] /\ req[q].id \in Ids
  BY DEF NumbersIInv, IInv, SessionsOK, SessionsResolve, Carries, NumberSnapshot
<1>4. \A id \in Ids : req[q].id = id => req'[q].num = LatestRevision(id) + 1 /\ req'[q].id = id
  BY <1>3 DEF NumberSnapshot, Request
<1>5. \A p \in Requests \ {q} : req'[p] = req[p]
  BY <1>3 DEF NumberSnapshot
<1>6. req'[q].id = req[q].id
  BY <1>3, <1>4
<1>7. Numbered'
  <2> SUFFICES ASSUME NEW p \in Requests, NEW id \in Ids, req'[p].pc = "numbered", req'[p].id = id
               PROVE  req'[p].num \in 1..(LatestRevision(id)' + 1)
    BY DEF Numbered
  <2>1. CASE p = q
    <3> DEFINE n == LatestRevision(id)
    <3>1. n \in Nat
      BY LatestTyped DEF NumbersIInv
    <3>2. req'[p].num = n + 1 /\ LatestRevision(id)' = n
      BY <1>1, <1>4, <1>6, <2>1
    <3> HIDE DEF n
    <3>3. n + 1 \in 1..(n + 1)
      BY <3>1
    <3> QED BY <3>2, <3>3
  <2>2. CASE p # q
    BY <1>1, <1>5, <2>2 DEF NumbersIInv, Numbered
  <2> QED BY <2>1, <2>2
<1> QED BY <1>2, <1>7 DEF NumbersIInv

\* Inserting a number up to one past the highest leaves no hole, and what the other
\* handlers read stays at most one past the highest.
LEMMA InsertKeepsNumbers ==
  ASSUME NumbersIInv, IInv', NEW q \in Requests, InsertSnapshot(q)
  PROVE  NumbersIInv'
<1> DEFINE r == req[q]
           row == [resume |-> r.id, revision |-> r.num, data |-> r.row.data]
<1>1. req \in [Requests -> Request] /\ r \in Request /\ r.pc = "numbered" /\ r.id \in Ids /\ r.row \in Row
  BY DEF NumbersIInv, IInv, SessionsOK, SessionsResolve, Carries, InsertSnapshot
<1>2. row \in Revision /\ revisions' = Append(revisions, row)
  BY <1>1 DEF InsertSnapshot, Revision, Request, Row
<1>3. \A p \in Requests : req'[p].pc = "numbered" => p # q /\ req'[p] = req[p]
  BY <1>1 DEF InsertSnapshot, Request, Idle
<1>4. TypeOK
  BY IInvParts DEF NumbersIInv
<1>5. \A id \in Ids : LatestRevision(id) \in Nat /\ Numbers(id) = 1..LatestRevision(id)
  BY LatestTyped DEF NumbersIInv, NumbersContiguous
<1>6. r.num \in 1..(LatestRevision(r.id) + 1)
  BY <1>1 DEF NumbersIInv, Numbered
<1>7. \A id \in Ids : Numbers(id)' = IF r.id = id THEN Numbers(id) \union {r.num} ELSE Numbers(id)
  BY <1>2, <1>4, NumbersAppend
<1> HIDE DEF r, row
<1>8. ASSUME NEW id \in Ids
      PROVE  \E m \in Nat : m >= LatestRevision(id) /\ Numbers(id)' = 1..m
  <2> DEFINE n == LatestRevision(id)
  <2>1. n \in Nat /\ Numbers(id) = 1..n
    BY <1>5
  <2> HIDE DEF n
  <2>2. CASE r.id # id
    <3>1. Numbers(id)' = 1..n /\ n >= n
      BY <1>7, <2>1, <2>2
    <3> QED BY <2>1, <3>1 DEF n
  <2>3. CASE r.id = id
    <3>1. r.num \in 1..(n + 1) /\ Numbers(id)' = 1..n \union {r.num}
      BY <1>6, <1>7, <2>1, <2>3 DEF n
    <3>2. CASE r.num \in 1..n
      <4>1. Numbers(id)' = 1..n /\ n >= n
        BY <2>1, <3>1, <3>2
      <4> QED BY <2>1, <4>1 DEF n
    <3>3. CASE r.num = n + 1
      <4>1. 1..n \union {n + 1} = 1..(n + 1) /\ n + 1 \in Nat /\ n + 1 >= n
        BY <2>1
      <4>2. Numbers(id)' = 1..(n + 1)
        BY <3>1, <3>3, <4>1
      <4> QED BY <4>1, <4>2 DEF n
    <3> QED BY <2>1, <3>1, <3>2, <3>3
  <2> QED BY <2>2, <2>3
<1>9. ASSUME NEW id \in Ids
      PROVE  /\ LatestRevision(id)' \in Nat /\ LatestRevision(id)' >= LatestRevision(id)
             /\ Numbers(id)' = 1..LatestRevision(id)'
  <2>1. PICK m \in Nat : m >= LatestRevision(id) /\ Numbers(id)' = 1..m
    BY <1>8
  <2>2. LatestRevision(id)' = Max({0} \union Numbers(id)')
    BY DEF LatestRevision
  <2>3. LatestRevision(id)' = m
    BY <2>1, <2>2, MaxOfNumbers
  <2> QED BY <2>1, <2>3
<1>10. NumbersContiguous'
  BY <1>9 DEF NumbersContiguous
<1>11. Numbered'
  <2> SUFFICES ASSUME NEW p \in Requests, NEW id \in Ids, req'[p].pc = "numbered", req'[p].id = id
               PROVE  req'[p].num \in 1..(LatestRevision(id)' + 1)
    BY DEF Numbered
  <2>1. req'[p] = req[p] /\ req[p].num \in 1..(LatestRevision(id) + 1)
    BY <1>3 DEF NumbersIInv, Numbered
  <2>2. LatestRevision(id) \in Nat
    BY <1>5
  <2>3. LatestRevision(id)' \in Nat /\ LatestRevision(id)' >= LatestRevision(id)
    BY <1>9
  <2> QED BY <2>1, <2>2, <2>3
<1> QED BY <1>10, <1>11 DEF NumbersIInv

\* Every other step inserts no snapshot, numbers none and purges none.
LEMMA OtherSteps ==
  ASSUME IInv, NEW q \in Requests, Handler(q),
         ~ NumberSnapshot(q), ~ InsertSnapshot(q), ~ Purge(q)
  PROVE  UNCHANGED revisions /\ \A p \in Requests : req'[p].pc = "numbered" => req'[p] = req[p]
<1>1. req \in [Requests -> Request]
  BY DEF IInv, SessionsOK
<1>2. ASSUME NEW r, req' = [req EXCEPT ![q] = r], r.pc # "numbered"
      PROVE  \A p \in Requests : req'[p].pc = "numbered" => req'[p] = req[p]
  BY <1>1, <1>2
<1>3. CASE \E kind \in Kinds, id \in Ids : \E in \in Inputs(kind) : Open(q, kind, id, in)
  <2>1. PICK kind \in Kinds, id \in Ids : \E in \in Inputs(kind) : Open(q, kind, id, in)
    BY <1>3
  <2>2. FirstStep(kind, resumes[id].data) # "numbered"
    BY DEF FirstStep
  <2> DEFINE work == IF kind \in Migrating \union {"duplicate"} THEN Migrated(resumes[id].data) ELSE None
             Session(in, snap) == [pc |-> FirstStep(kind, resumes[id].data), kind |-> kind, id |-> id,
                                   in |-> in, row |-> resumes[id], work |-> work, snap |-> snap, num |-> 0]
  <2>3. PICK in, snap : req' = [req EXCEPT ![q] = Session(in, snap)]
    BY <2>1, Zenon DEF Open
  <2>4. UNCHANGED revisions /\ Session(in, snap).pc # "numbered"
    BY <2>1, <2>2 DEF Open
  <2> HIDE DEF Session
  <2> QED BY <1>2, <2>3, <2>4
<1>4. CASE Refuse(q) \/ RowGone(q) \/ Delete(q) \/ Serialize(q)
  <2>1. req' = [req EXCEPT ![q] = Idle] /\ Idle.pc # "numbered" /\ UNCHANGED revisions
    BY <1>4 DEF Refuse, RowGone, Delete, Serialize, Idle
  <2> QED BY <1>2, <2>1
<1>5. CASE Commit(q) \/ Create(q) \/ Duplicate(q)
  <2>1. \A id, row : Writing(id, row).pc = "committed"
    BY DEF Writing, Idle
  <2>2. PICK r : req' = [req EXCEPT ![q] = r] /\ r.pc # "numbered" /\ UNCHANGED revisions
    BY <1>5, <2>1 DEF Commit, Create, Duplicate, Insert
  <2> QED BY <1>2, <2>2
<1>6. CASE MigrateCommit(q)
  BY <1>1, <1>6 DEF MigrateCommit, Request
<1>7. CASE MigrateRefresh(q)
  BY <1>1, <1>7 DEF MigrateRefresh, Request
<1>8. CASE CheckBaseRevision(q)
  BY <1>1, <1>8 DEF CheckBaseRevision, Idle, Request
<1>9. CASE Refresh(q)
  BY <1>1, <1>9 DEF Refresh, Request
<1> QED BY <1>3, <1>4, <1>5, <1>6, <1>7, <1>8, <1>9 DEF Handler

\* Without a purge no step takes a number back, so none leaves a hole.
LEMMA NextKeepsNumbers ==
  ASSUME "purge" \notin Kinds
  PROVE  NumbersIInv /\ [Next]_vars => NumbersIInv'
<1> SUFFICES ASSUME NumbersIInv, [Next]_vars PROVE NumbersIInv'
  OBVIOUS
<1>1. IInv /\ IInv'
  BY NextIInv DEF NumbersIInv
<1>2. ASSUME NEW q \in Requests, Handler(q) PROVE NumbersIInv'
  <2>1. CASE NumberSnapshot(q)
    BY <1>1, <2>1, NumberKeepsNumbers
  <2>2. CASE InsertSnapshot(q)
    BY <1>1, <2>2, InsertKeepsNumbers
  <2>3. CASE ~ NumberSnapshot(q) /\ ~ InsertSnapshot(q)
    <3>1. UNCHANGED revisions /\ \A p \in Requests : req'[p].pc = "numbered" => req'[p] = req[p]
      BY <1>1, <1>2, <2>3, OtherSteps DEF Purge
    <3> QED BY <1>1, <3>1, NumbersKept
  <2> QED BY <2>1, <2>2, <2>3
<1>3. CASE Crash
  <2>1. UNCHANGED revisions /\ \A p \in Requests : req'[p].pc # "numbered"
    BY <1>3 DEF Crash, Idle
  <2> QED BY <1>1, <2>1, NumbersKept
<1>4. CASE UNCHANGED vars
  BY <1>1, <1>4, NumbersKept DEF vars
<1> QED BY <1>2, <1>3, <1>4 DEF Next

\* The history starts empty.
LEMMA InitNumbers == Init => NumbersIInv
<1> SUFFICES ASSUME Init PROVE NumbersIInv
  OBVIOUS
<1>1. IInv /\ Len(revisions) = 0 /\ \A q \in Requests : req[q].pc = "idle"
  BY InitIInv DEF Init, Idle
<1>2. \A id \in Ids : Numbers(id) = {}
  BY <1>1 DEF Numbers
<1>3. 1..0 = {}
  OBVIOUS
<1>4. \A id \in Ids : LatestRevision(id) = 0
  <2>1. Max({0} \union (1..0)) = 0
    BY MaxOfNumbers
  <2> QED BY <1>2, <1>3, <2>1 DEF LatestRevision
<1> QED BY <1>1, <1>2, <1>3, <1>4 DEF NumbersIInv, NumbersContiguous, Numbered

\* Without a purge the numbers of a resume's snapshots have no hole, though any number
\* of handlers may read the same highest number and crash before they insert.
THEOREM HistoryHasNoHoles ==
  ASSUME "purge" \notin Kinds
  PROVE  Spec => []NumbersContiguous
<1>1. NumbersIInv /\ [Next]_vars => NumbersIInv'
  BY NextKeepsNumbers
<1>2. NumbersIInv => NumbersContiguous
  BY DEF NumbersIInv
<1> QED BY <1>1, <1>2, InitNumbers, PTL DEF Spec

-----------------------------------------------------------------------------
(* One handler at a time *)

OneHandler == \A p, q \in Requests : p = q

\* Nothing changes under a handler that runs alone: what it holds is what is stored.
Alike(r, stored) ==
  /\ stored # None
  /\ r.pc \in {"migrate", "check", "ready", "fresh", "numbered", "serialize"} => r.row = stored
  /\ r.pc = "migrate" => r.work = Migrated(r.row.data)
  /\ r.pc = "migrated" => r.work = stored.data
  /\ r.pc \in {"check", "ready"} /\ r.kind \in Migrating => r.work = stored.data

Alone == \A q \in Requests : req[q].pc # "idle" => Alike(req[q], resumes[req[q].id])

\* A snapshot number that a handler has taken is larger than all that are stored.
Ahead ==
  \A q \in Requests, id \in Ids :
    req[q].pc = "numbered" /\ req[q].id = id => \A m \in Numbers(id) : m < req[q].num

AloneIInv == IInv /\ Alone /\ Ahead /\ NumbersUnique

\* A step of the only handler.
LEMMA AloneStep ==
  ASSUME OneHandler, IInv, NEW q \in Requests, NEW r, req' = [req EXCEPT ![q] = r],
         r.pc # "idle" => Alike(r, resumes'[r.id])
  PROVE  Alone'
<1>1. req \in [Requests -> Request] /\ \A p \in Requests : p = q
  BY DEF IInv, SessionsOK, OneHandler
<1>2. \A p \in Requests : req'[p] = r
  BY <1>1
<1> QED BY <1>2 DEF Alone

\* A handler that ends carries nothing to agree with the table.
LEMMA AloneEnds ==
  ASSUME OneHandler, IInv, NEW q \in Requests, req' = [req EXCEPT ![q] = Idle]
  PROVE  Alone'
<1>1. Idle.pc = "idle"
  BY DEF Idle
<1> QED BY <1>1, AloneStep

\* A migrated document is what it was if it was not a legacy one.
LEMMA MigratedIsSame == ASSUME NEW d \in Data, ~ d.legacy PROVE Migrated(d) = d
  BY DEF Data, Migrated

\* A handler that starts loads its row as it stands.
LEMMA AloneOpens ==
  ASSUME OneHandler, AloneIInv, NEW q \in Requests, NEW kind \in Kinds, NEW id \in Ids, NEW in,
         Open(q, kind, id, in)
  PROVE  Alone'
<1> DEFINE stored == resumes[id]
           pc == FirstStep(kind, stored.data)
           work == IF kind \in Migrating \union {"duplicate"} THEN Migrated(stored.data) ELSE None
           Session(snap) == [pc |-> pc, kind |-> kind, id |-> id, in |-> in, row |-> stored,
                             work |-> work, snap |-> snap, num |-> 0]
<1>1. stored \in Row /\ stored # None /\ resumes' = resumes
  BY DEF AloneIInv, IInv, RowsOK, Open, Stored
<1>2. PICK snap : req' = [req EXCEPT ![q] = Session(snap)]
  BY Zenon DEF Open
<1>3. /\ pc \in {"serialize", "fresh", "migrate", "check", "ready"}
      /\ pc = "migrate" => kind \in Migrating
      /\ pc \in {"check", "ready"} /\ kind \in Migrating => ~ stored.data.legacy
  BY DEF FirstStep, Migrating
<1> HIDE DEF pc
<1>4. pc \in {"check", "ready"} /\ kind \in Migrating => work = stored.data
  BY <1>1, <1>3, MigratedIsSame DEF Row
<1>5. Alike(Session(snap), stored) /\ Session(snap).id = id
  BY <1>1, <1>3, <1>4 DEF Alike
<1> HIDE DEF Session, stored
<1>6. Alike(Session(snap), resumes'[Session(snap).id])
  BY <1>1, <1>5 DEF stored
<1> QED BY <1>2, <1>6, AloneStep DEF AloneIInv

\* The rows stay, and their documents are at most migrated.
OnlyMigrates ==
  \A id \in Ids :
    /\ resumes'[id] = None <=> resumes[id] = None
    /\ resumes[id] # None => resumes'[id].data \in {resumes[id].data, Migrated(resumes[id].data)}

\* A migration is written to the row that was read.
LEMMA AloneMigrates ==
  ASSUME OneHandler, AloneIInv, NEW q \in Requests, MigrateCommit(q)
  PROVE  Alone' /\ OnlyMigrates
<1> DEFINE r == req[q]
           stored == resumes[r.id]
           new == Flushed(MigratedRow(r), r.row, stored)
           s == [r EXCEPT !.pc = "migrated"]
<1>1. r \in Request /\ Carries(r) /\ r.pc = "migrate" /\ Alike(r, stored) /\ r.id \in Ids /\ stored \in Row
  BY StoredResolves DEF AloneIInv, IInv, SessionsOK, SessionsResolve, Alone, MigrateCommit, Carries
<1>2. resumes \in [Ids -> Row \union {None}] /\ resumes' = [resumes EXCEPT ![r.id] = new]
      /\ req' = [req EXCEPT ![q] = s]
  BY <1>1 DEF AloneIInv, IInv, RowsOK, SessionsOK, MigrateCommit
<1>3. r.row = stored /\ r.work = Migrated(stored.data)
  BY <1>1 DEF Alike
<1> HIDE DEF r
<1>4. new.data = Migrated(stored.data) /\ new = [data |-> new.data, locale |-> new.locale]
  BY <1>3 DEF Flushed, MigratedRow
<1>5. new \in Row
  <2>1. MigratedRow(r) \in Row
    BY <1>1, <1>3 DEF MigratedRow, Row, Data, Migrated
  <2> QED BY <1>1, <1>3, <2>1 DEF Flushed, Row
<1>6. new # None
  BY <1>5, NoneAssumption
<1> HIDE DEF new, stored
<1>7. s.pc = "migrated" /\ s.work = new.data /\ s.id = r.id
  BY <1>1, <1>3, <1>4 DEF Request
<1> HIDE DEF s
<1>8. Alike(s, new)
  BY <1>6, <1>7 DEF Alike
<1>9. resumes'[r.id] = new
  BY <1>1, <1>2
<1>10. Alone'
  BY <1>2, <1>7, <1>8, <1>9, AloneStep DEF AloneIInv
<1>11. OnlyMigrates
  BY <1>1, <1>2, <1>4, <1>6, <1>9, NoneAssumption DEF OnlyMigrates, stored
<1> QED BY <1>10, <1>11

\* An answer reads the row again.
LEMMA AloneSerializes ==
  ASSUME OneHandler, AloneIInv, NEW q \in Requests, Serialize(q)
  PROVE  Alone' /\ OnlyMigrates
<1> DEFINE r == req[q]
           stored == resumes[r.id]
           new == Flushed(MigratedRow(r), r.row, stored)
<1>1. r \in Request /\ Carries(r) /\ r.pc = "serialize" /\ Alike(r, stored) /\ r.id \in Ids
  BY DEF AloneIInv, IInv, SessionsOK, SessionsResolve, Alone, Serialize, Carries
<1>2. resumes \in [Ids -> Row \union {None}]
  BY DEF AloneIInv, IInv, RowsOK
<1>3. stored \in Row /\ r.row = stored
  BY <1>1, <1>2 DEF Alike
<1>4. resumes' = resumes \/ resumes' = [resumes EXCEPT ![r.id] = new]
  BY DEF Serialize
<1>5. Alone'
  BY AloneEnds DEF Serialize, AloneIInv
<1> HIDE DEF r
<1>6. new.data \in {stored.data, Migrated(stored.data)}
  BY <1>3 DEF Flushed, MigratedRow
<1>7. new \in Row
  <2>1. MigratedRow(r) \in Row
    BY <1>3 DEF MigratedRow, Row, Data, Migrated
  <2> QED BY <1>3, <2>1 DEF Flushed, Row
<1>8. new # None
  BY <1>7, NoneAssumption
<1> HIDE DEF new
<1>9. OnlyMigrates
  BY <1>1, <1>2, <1>3, <1>4, <1>6, <1>8, NoneAssumption DEF OnlyMigrates
<1> QED BY <1>5, <1>9

\* The other steps that only move the session on.
LEMMA AloneGoesOn ==
  ASSUME OneHandler, AloneIInv, NEW q \in Requests,
         MigrateRefresh(q) \/ CheckBaseRevision(q) \/ Refresh(q) \/ NumberSnapshot(q) \/ InsertSnapshot(q)
  PROVE  Alone'
<1> DEFINE r == req[q]
           stored == resumes[r.id]
<1>1. /\ req \in [Requests -> Request] /\ r \in Request /\ Carries(r) /\ r.pc # "idle"
      /\ Alike(r, stored) /\ r.id \in Ids /\ resumes' = resumes
  BY DEF AloneIInv, IInv, SessionsOK, SessionsResolve, Alone, Carries, MigrateRefresh, CheckBaseRevision,
         Refresh, NumberSnapshot, InsertSnapshot
<1>2. ASSUME NEW s, req' = [req EXCEPT ![q] = s], s.id = r.id, Alike(s, stored)
      PROVE  Alone'
  BY <1>1, <1>2, AloneStep DEF AloneIInv
<1>3. CASE MigrateRefresh(q)
  <2> DEFINE s == [r EXCEPT !.pc = IF r.kind = "move" THEN "check" ELSE "ready", !.row = stored]
  <2>1. req' = [req EXCEPT ![q] = s] /\ r.pc = "migrated"
    BY <1>1, <1>3 DEF MigrateRefresh
  <2>2. s.id = r.id /\ s.pc \in {"check", "ready"} /\ s.row = stored /\ s.work = r.work
    BY <1>1 DEF Request
  <2> HIDE DEF s, r, stored
  <2>3. Alike(s, stored)
    BY <1>1, <2>1, <2>2 DEF Alike
  <2> QED BY <1>2, <2>1, <2>2, <2>3
<1>4. CASE CheckBaseRevision(q)
  <2> DEFINE s == [r EXCEPT !.pc = "ready"]
  <2>1. (req' = [req EXCEPT ![q] = s] \/ req' = [req EXCEPT ![q] = Idle]) /\ r.pc = "check"
    BY <1>1, <1>4 DEF CheckBaseRevision
  <2>2. s.id = r.id /\ s.pc = "ready" /\ s.row = r.row /\ s.work = r.work /\ s.kind = r.kind
    BY <1>1 DEF Request
  <2> HIDE DEF s, r, stored
  <2>3. Alike(s, stored)
    BY <1>1, <2>1, <2>2 DEF Alike
  <2> QED BY <1>2, <2>1, <2>2, <2>3, AloneEnds DEF AloneIInv
<1>5. CASE Refresh(q)
  <2> DEFINE s == [r EXCEPT !.pc = "fresh", !.row = stored]
  <2>1. req' = [req EXCEPT ![q] = s]
    BY <1>1, <1>5 DEF Refresh
  <2>2. s.id = r.id /\ s.pc = "fresh" /\ s.row = stored
    BY <1>1 DEF Request
  <2> HIDE DEF s, r, stored
  <2>3. Alike(s, stored)
    BY <1>1, <2>2 DEF Alike
  <2> QED BY <1>2, <2>1, <2>2, <2>3
<1>6. CASE NumberSnapshot(q)
  <2> DEFINE s == [r EXCEPT !.pc = "numbered", !.num = LatestRevision(r.id) + 1]
  <2>1. req' = [req EXCEPT ![q] = s] /\ r.pc = "fresh"
    BY <1>1, <1>6 DEF NumberSnapshot
  <2>2. s.id = r.id /\ s.pc = "numbered" /\ s.row = r.row
    BY <1>1 DEF Request
  <2> HIDE DEF s, r, stored
  <2>3. Alike(s, stored)
    BY <1>1, <2>1, <2>2 DEF Alike
  <2> QED BY <1>2, <2>1, <2>2, <2>3
<1>7. CASE InsertSnapshot(q)
  <2> DEFINE s == [r EXCEPT !.pc = "serialize", !.num = 0]
  <2>1. (req' = [req EXCEPT ![q] = s] \/ req' = [req EXCEPT ![q] = Idle]) /\ r.pc = "numbered"
    BY <1>1, <1>7 DEF InsertSnapshot
  <2>2. s.id = r.id /\ s.pc = "serialize" /\ s.row = r.row
    BY <1>1 DEF Request
  <2> HIDE DEF s, r, stored
  <2>3. Alike(s, stored)
    BY <1>1, <2>1, <2>2 DEF Alike
  <2> QED BY <1>2, <2>1, <2>2, <2>3, AloneEnds DEF AloneIInv
<1> QED BY <1>3, <1>4, <1>5, <1>6, <1>7

\* A row that has just been written is there.
LEMMA AloneWrites ==
  ASSUME OneHandler, AloneIInv, IInv', NEW q \in Requests, NEW id \in Ids, NEW row \in Row,
         req' = [req EXCEPT ![q] = Writing(id, row)], resumes'[id] # None
  PROVE  Alone'
<1> DEFINE s == Writing(id, row)
<1>1. s.pc = "committed" /\ s.id = id
  BY DEF Writing, Idle
<1> HIDE DEF s
<1>2. Alike(s, resumes'[s.id])
  BY <1>1 DEF Alike
<1> QED BY <1>2, AloneStep DEF AloneIInv, s

\* A commit makes the row what the handler carries.
LEMMA AloneCommits ==
  ASSUME OneHandler, AloneIInv, IInv', NEW q \in Requests,
         Commit(q) \/ \E doc \in Data : Insert(q, doc)
  PROVE  Alone'
<1>1. resumes \in [Ids -> Row \union {None}] /\ None \notin Row
  BY NoneAssumption DEF AloneIInv, IInv, RowsOK
<1>2. CASE Commit(q)
  <2> DEFINE r == req[q]
             new == Flushed([data |-> NewData(r), locale |-> NewLocale(r)], r.row, resumes[r.id])
  <2>1. r \in Request /\ Carries(r) /\ r.pc # "idle" /\ Accepted(r) /\ Stored(r.id)
    BY <1>2 DEF AloneIInv, IInv, SessionsOK, SessionsResolve, Commit
  <2>2. resumes' = [resumes EXCEPT ![r.id] = new] /\ req' = [req EXCEPT ![q] = Writing(r.id, r.row)]
    BY <1>2 DEF Commit
  <2> HIDE DEF r
  <2>3. r.id \in Ids /\ r.row \in Row /\ resumes[r.id] \in Row
    BY <1>1, <2>1 DEF Carries, Stored
  <2>4. NewData(r) \in Data /\ NewLocale(r) \in Locales \union {Other}
    BY <2>1, NewDataResolves, NewLocaleTyped
  <2>5. new \in Row
    BY <2>3, <2>4 DEF Flushed, Row
  <2> HIDE DEF new
  <2>6. resumes'[r.id] # None
    BY <1>1, <2>2, <2>3, <2>5
  <2> QED BY <2>2, <2>3, <2>6, AloneWrites
<1>3. ASSUME NEW doc \in Data, Insert(q, doc)
      PROVE  Alone'
  <2> DEFINE row == [data |-> doc, locale |-> doc.default]
  <2>1. row \in Row /\ NextId \in Ids
    BY <1>3 DEF Row, Data, Insert
  <2>2. resumes' = [resumes EXCEPT ![NextId] = row] /\ req' = [req EXCEPT ![q] = Writing(NextId, row)]
    BY <1>3 DEF Insert
  <2> HIDE DEF row
  <2>3. PICK id \in Ids : id = NextId
    BY <2>1
  <2>4. resumes'[id] # None
    BY <1>1, <2>1, <2>2, <2>3
  <2> QED BY <2>1, <2>2, <2>3, <2>4, AloneWrites
<1> QED BY <1>2, <1>3

\* A handler that runs alone never finds its row gone.
LEMMA AloneFindsItsRow ==
  ASSUME AloneIInv, NEW q \in Requests
  PROVE  ~ RowGone(q)
<1> SUFFICES ASSUME RowGone(q) PROVE FALSE
  OBVIOUS
<1>1. req[q].pc # "idle"
  BY DEF RowGone
<1>2. req[q].id \in Ids /\ resumes[req[q].id] # None
  BY <1>1 DEF AloneIInv, IInv, SessionsOK, SessionsResolve, Carries, Alone, Alike
<1> QED BY <1>2 DEF RowGone, Stored

\* A step that numbers and inserts no snapshot.
LEMMA AheadKept ==
  ASSUME AloneIInv, UNCHANGED revisions,
         \A p \in Requests : req'[p].pc = "numbered" => req'[p] = req[p]
  PROVE  Ahead' /\ NumbersUnique'
<1>1. \A id \in Ids : Numbers(id)' = Numbers(id)
  BY DEF Numbers
<1>2. Ahead'
  <2> SUFFICES ASSUME NEW q \in Requests, NEW id \in Ids, req'[q].pc = "numbered", req'[q].id = id,
                      NEW m \in Numbers(id)'
               PROVE  m < req'[q].num
    BY DEF Ahead
  <2> QED BY <1>1 DEF AloneIInv, Ahead
<1> QED BY <1>2 DEF AloneIInv, NumbersUnique

\* A number taken is one past the highest.
LEMMA AheadNumbers ==
  ASSUME OneHandler, AloneIInv, NEW q \in Requests, NumberSnapshot(q)
  PROVE  Ahead' /\ NumbersUnique'
<1>1. req \in [Requests -> Request] /\ TypeOK /\ SomeHighest
  BY IInvParts DEF AloneIInv, IInv, SessionsOK
<1>2. \A id \in Ids : Numbers(id)' = Numbers(id)
  BY DEF Numbers, NumberSnapshot
<1>3. Ahead'
  <2> SUFFICES ASSUME NEW p \in Requests, NEW id \in Ids, req'[p].id = id, NEW m \in Numbers(id)
               PROVE  m < req'[p].num
    BY <1>2 DEF Ahead
  <2>1. p = q
    BY DEF OneHandler
  <2>2. req[q].id = id /\ req'[p].num = LatestRevision(id) + 1
    BY <1>1, <2>1 DEF NumberSnapshot, Request
  <2> DEFINE n == LatestRevision(id)
  <2>3. n \in Nat /\ m \in Nat /\ m <= n
    BY <1>1, LatestIsNat, NumbersTyped
  <2>4. req'[p].num = n + 1
    BY <2>2
  <2> HIDE DEF n
  <2> QED BY <2>3, <2>4
<1> QED BY <1>3 DEF AloneIInv, NumbersUnique, NumberSnapshot

\* A number that is larger than all names no other snapshot of the resume.
LEMMA AheadInserts ==
  ASSUME OneHandler, AloneIInv, NEW q \in Requests, InsertSnapshot(q)
  PROVE  Ahead' /\ NumbersUnique'
<1> DEFINE r == req[q]
           n == Len(revisions)
           row == [resume |-> r.id, revision |-> r.num, data |-> r.row.data]
<1>1. req \in [Requests -> Request] /\ r \in Request /\ r.pc = "numbered" /\ r.id \in Ids /\ r.row \in Row
  BY DEF AloneIInv, IInv, SessionsOK, SessionsResolve, Carries, InsertSnapshot
<1>2. revisions \in Seq(Revision) /\ TypeOK
  BY IInvParts DEF AloneIInv, IInv, HistoryOK
<1>3. row \in Revision /\ revisions' = Append(revisions, row)
  BY <1>1 DEF InsertSnapshot, Revision, Request, Row
<1>4. \A p \in Requests : req'[p].pc # "numbered"
  BY <1>1 DEF InsertSnapshot, Request, Idle, OneHandler
<1>5. n \in Nat /\ Len(revisions') = n + 1 /\ revisions'[n + 1] = row
      /\ \A i \in 1..n : revisions'[i] = revisions[i]
  BY <1>2, <1>3
<1>6. \A i \in 1..n : revisions[i].resume = r.id => revisions[i].revision # r.num
  <2> SUFFICES ASSUME NEW i \in 1..n, revisions[i].resume = r.id PROVE revisions[i].revision # r.num
    OBVIOUS
  <2>1. revisions[i].revision \in Numbers(r.id)
    BY DEF Numbers
  <2>2. revisions[i].revision < r.num
    BY <1>1, <2>1 DEF AloneIInv, Ahead
  <2>3. revisions[i].revision \in Nat /\ r.num \in Nat
    BY <1>1, <1>2, <2>1, NumbersTyped DEF Request
  <2> QED BY <2>2, <2>3
<1>7. row.resume = r.id /\ row.revision = r.num
  OBVIOUS
<1> HIDE DEF r, row, n
<1>8. NumbersUnique'
  <2> SUFFICES ASSUME NEW i \in 1..(n + 1), NEW j \in 1..(n + 1),
                      revisions'[i].resume = revisions'[j].resume,
                      revisions'[i].revision = revisions'[j].revision
               PROVE  i = j
    BY <1>5 DEF NumbersUnique
  <2>1. \A k \in 1..(n + 1) : k \in 1..n \/ k = n + 1
    BY <1>5
  <2>2. CASE i \in 1..n /\ j \in 1..n
    BY <1>5, <2>2 DEF AloneIInv, NumbersUnique, n
  <2>3. CASE i \in 1..n /\ j = n + 1
    BY <1>5, <1>6, <1>7, <2>3
  <2>4. CASE i = n + 1 /\ j \in 1..n
    BY <1>5, <1>6, <1>7, <2>4
  <2> QED BY <2>1, <2>2, <2>3, <2>4
<1> QED BY <1>4, <1>8 DEF Ahead

\* A lone handler's steps keep the invariant.
LEMMA NextAlone ==
  ASSUME OneHandler
  PROVE  AloneIInv /\ [Next]_vars => AloneIInv'
<1> SUFFICES ASSUME AloneIInv, [Next]_vars PROVE AloneIInv'
  OBVIOUS
<1>1. IInv /\ IInv'
  BY NextIInv DEF AloneIInv
<1>2. ASSUME NEW q \in Requests, Handler(q) PROVE Alone'
  <2>1. CASE \E kind \in Kinds, id \in Ids : \E in \in Inputs(kind) : Open(q, kind, id, in)
    BY <2>1, AloneOpens
  <2>2. CASE MigrateCommit(q) \/ Serialize(q)
    BY <2>2, AloneMigrates, AloneSerializes
  <2>3. CASE MigrateRefresh(q) \/ CheckBaseRevision(q) \/ Refresh(q) \/ NumberSnapshot(q) \/ InsertSnapshot(q)
    BY <2>3, AloneGoesOn
  <2>4. CASE Refuse(q) \/ Delete(q)
    BY <1>1, <2>4, AloneEnds DEF Refuse, Delete
  <2>5. CASE RowGone(q)
    BY <2>5, AloneFindsItsRow
  <2>6. CASE Commit(q)
    BY <1>1, <2>6, AloneCommits
  <2>7. CASE Create(q)
    <3>1. PICK l \in Locales, c \in Contents : Insert(q, Document(l, c))
      BY <2>7 DEF Create
    <3> QED BY <1>1, <3>1, DocumentResolves, AloneCommits
  <2>8. CASE Duplicate(q)
    <3>1. req[q].work \in Data /\ Insert(q, req[q].work)
      BY <1>1, <2>8 DEF IInv, SessionsOK, SessionsResolve, Carries, Duplicate
    <3> QED BY <1>1, <3>1, AloneCommits
  <2>9. CASE Purge(q)
    BY <2>9 DEF Purge, AloneIInv, Alone
  <2> QED BY <1>2, <2>1, <2>2, <2>3, <2>4, <2>5, <2>6, <2>7, <2>8, <2>9 DEF Handler
<1>3. ASSUME NEW q \in Requests, Handler(q) PROVE Ahead' /\ NumbersUnique'
  <2>1. CASE NumberSnapshot(q)
    BY <2>1, AheadNumbers
  <2>2. CASE InsertSnapshot(q)
    BY <2>2, AheadInserts
  <2>3. CASE Purge(q)
    <3>1. Len(revisions') = 0 /\ req' = req /\ req[q].pc = "idle"
      BY <2>3 DEF Purge
    <3> QED BY <3>1 DEF Ahead, NumbersUnique, OneHandler
  <2>4. CASE ~ NumberSnapshot(q) /\ ~ InsertSnapshot(q) /\ ~ Purge(q)
    BY <1>1, <1>3, <2>4, OtherSteps, AheadKept
  <2> QED BY <2>1, <2>2, <2>3, <2>4
<1>4. CASE Crash
  <2>1. UNCHANGED revisions /\ \A p \in Requests : req'[p].pc = "idle"
    BY <1>4 DEF Crash, Idle
  <2>2. Ahead' /\ NumbersUnique'
    BY <2>1, AheadKept
  <2> QED BY <1>1, <2>1, <2>2 DEF AloneIInv, Alone
<1>5. CASE UNCHANGED vars
  <2>1. Alone'
    BY <1>5 DEF AloneIInv, Alone, vars
  <2>2. Ahead' /\ NumbersUnique'
    BY <1>5, AheadKept DEF vars
  <2> QED BY <1>1, <2>1, <2>2 DEF AloneIInv
<1> QED BY <1>1, <1>2, <1>3, <1>4, <1>5 DEF Next, AloneIInv

\* Initially no handler runs and no snapshot is stored.
LEMMA InitAlone == Init => AloneIInv
<1> SUFFICES ASSUME Init PROVE AloneIInv
  OBVIOUS
<1>1. Len(revisions) = 0 /\ \A q \in Requests : req[q].pc = "idle"
  BY DEF Init, Idle
<1> QED BY <1>1, InitIInv DEF AloneIInv, Alone, Ahead, NumbersUnique

\* With one handler at a time, crashes and purges included, a revision number names
\* one snapshot: create_resume_revision's read of the highest number is safe alone.
THEOREM LoneHandlerNumbersUniquely ==
  ASSUME OneHandler
  PROVE  Spec => []NumbersUnique
<1>1. AloneIInv /\ [Next]_vars => AloneIInv'
  BY NextAlone
<1>2. AloneIInv => NumbersUnique
  BY DEF AloneIInv
<1> QED BY <1>1, <1>2, InitAlone, PTL DEF Spec

-----------------------------------------------------------------------------
(* One variant at a time *)

\* Two documents that differ in one locale variant at most.
Apart(d, e) == e.default = d.default /\ \E l : Changed(d, e) \subseteq {l}

\* Each route rewrites the variant of one locale of the document it works on.
LEMMA RoutesChangeOneVariant ==
  ASSUME NEW in, NEW d \in Data
  PROVE  /\ Apart(d, Edited(in, d)) /\ Apart(d, WithVariant(in, d))
         /\ Apart(d, Switched(in, d)) /\ Apart(d, WithoutVariant(in, d))
<1>1. Apart(d, Edited(in, d))
  <2>1. Changed(d, Edited(in, d)) \subseteq {EditTarget(in, d)} /\ Edited(in, d).default = d.default
    BY DEF Data, Edited, Changed
  <2> QED BY <2>1 DEF Apart
<1>2. Apart(d, WithVariant(in, d))
  <2>1. Changed(d, WithVariant(in, d)) \subseteq {in.locale} /\ WithVariant(in, d).default = d.default
    BY DEF Data, WithVariant, Changed
  <2> QED BY <2>1 DEF Apart
<1>3. Apart(d, Switched(in, d))
  <2>1. Changed(d, Switched(in, d)) \subseteq {d.default} /\ Switched(in, d).default = d.default
    BY DEF Data, Switched, Changed
  <2> QED BY <2>1 DEF Apart
<1>4. Apart(d, WithoutVariant(in, d))
  <2>1. /\ Changed(d, WithoutVariant(in, d)) \subseteq {SwitchTarget(in, d)}
        /\ WithoutVariant(in, d).default = d.default
    BY DEF Data, WithoutVariant, Changed
  <2> QED BY <2>1 DEF Apart
<1> QED BY <1>1, <1>2, <1>3, <1>4

\* What a handler that runs alone composes is one variant apart from what is stored.
LEMMA NewDataIsApart ==
  ASSUME NEW r \in Request, NEW stored \in Row, Alike(r, stored), r.pc = "ready"
  PROVE  Apart(stored.data, NewData(r))
<1>1. stored.data \in Data /\ r.row = stored /\ (r.kind \in Migrating => r.work = stored.data)
  BY DEF Alike, Row
<1>2. CASE r.kind \in {"update", "move"}
  <2>1. NewData(r) = Edited(r.in, stored.data)
    BY <1>1, <1>2 DEF NewData, Migrating
  <2> QED BY <1>1, <2>1, RoutesChangeOneVariant
<1>3. CASE r.kind = "restore"
  <2>1. NewData(r) = Edited(RestoreInput(r.snap), stored.data)
    BY <1>1, <1>3 DEF NewData, Migrating
  <2> QED BY <1>1, <2>1, RoutesChangeOneVariant
<1>4. CASE r.kind = "addLocale"
  <2>1. NewData(r) = WithVariant(r.in, stored.data)
    BY <1>1, <1>4 DEF NewData, Migrating
  <2> QED BY <1>1, <2>1, RoutesChangeOneVariant
<1>5. CASE r.kind = "activate"
  <2>1. NewData(r) = Switched(r.in, stored.data)
    BY <1>1, <1>5 DEF NewData, Migrating
  <2> QED BY <1>1, <2>1, RoutesChangeOneVariant
<1>6. CASE r.kind = "dropLocale"
  <2>1. NewData(r) = WithoutVariant(r.in, stored.data)
    BY <1>1, <1>6 DEF NewData, Migrating
  <2> QED BY <1>1, <2>1, RoutesChangeOneVariant
<1>7. CASE r.kind \notin {"update", "move", "restore", "addLocale", "activate", "dropLocale"}
  <2>1. NewData(r) = stored.data
    BY <1>1, <1>7 DEF NewData
  <2> QED BY <1>1, <2>1 DEF Apart, Changed
<1> QED BY <1>2, <1>3, <1>4, <1>5, <1>6, <1>7

\* The rows that stay are one variant apart from what they were.
RowsApart ==
  \A id \in Ids :
    resumes[id] # None /\ resumes'[id] # None => Apart(resumes[id].data, resumes'[id].data)

\* A step that leaves the rows alone edits no variant.
LEMMA RowsSame == ASSUME UNCHANGED resumes PROVE RowsApart
  BY DEF RowsApart, Apart, Changed

\* A migration moves no variant.
LEMMA MigrationIsApart == ASSUME IInv, OnlyMigrates PROVE RowsApart
<1> SUFFICES ASSUME NEW id \in Ids, resumes[id] # None
             PROVE  Apart(resumes[id].data, resumes'[id].data)
  BY DEF RowsApart
<1>1. resumes[id].data \in Data
  BY DEF IInv, RowsOK, Row
<1>2. resumes'[id].data \in {resumes[id].data, Migrated(resumes[id].data)}
  BY DEF OnlyMigrates
<1> QED BY <1>1, <1>2 DEF Apart, Changed, Migrated, Data

\* A lone handler's commit.
LEMMA CommitIsApart ==
  ASSUME AloneIInv, NEW q \in Requests, Commit(q)
  PROVE  RowsApart
<1> DEFINE r == req[q]
           stored == resumes[r.id]
           new == Flushed([data |-> NewData(r), locale |-> NewLocale(r)], r.row, stored)
<1>1. resumes \in [Ids -> Row \union {None}]
  BY DEF AloneIInv, IInv, RowsOK
<1>2. r \in Request /\ r.pc = "ready" /\ Alike(r, stored) /\ r.id \in Ids
  BY DEF AloneIInv, IInv, SessionsOK, SessionsResolve, Alone, Carries, Commit
<1>3. stored \in Row
  BY <1>1, <1>2 DEF Alike
<1>4. resumes' = [resumes EXCEPT ![r.id] = new]
  BY DEF Commit
<1> HIDE DEF r
<1>5. Apart(stored.data, NewData(r))
  BY <1>2, <1>3, NewDataIsApart
<1>6. new.data \in {NewData(r), stored.data} /\ Apart(stored.data, stored.data)
  BY DEF Flushed, Apart, Changed
<1> HIDE DEF new
<1> QED BY <1>1, <1>2, <1>4, <1>5, <1>6, RowsSame DEF RowsApart, Apart, Changed

\* A new row takes the place of none.
LEMMA InsertIsApart ==
  ASSUME IInv, NEW q \in Requests, NEW doc, Insert(q, doc)
  PROVE  RowsApart
<1>1. resumes \in [Ids -> Row \union {None}] /\ resumes[NextId] = None
  BY NextIdIsFree DEF IInv, RowsOK, Insert
<1> QED BY <1>1 DEF Insert, RowsApart, Apart, Changed

\* Together, one case per action.
LEMMA NextIsApart ==
  ASSUME OneHandler
  PROVE  AloneIInv /\ [Next]_vars => RowsApart
<1> SUFFICES ASSUME AloneIInv, [Next]_vars PROVE RowsApart
  OBVIOUS
<1>1. IInv
  BY DEF AloneIInv
<1>2. CASE UNCHANGED resumes
  BY <1>2, RowsSame
<1>3. ASSUME NEW q \in Requests, Handler(q) PROVE RowsApart
  <2>1. CASE MigrateCommit(q) \/ Serialize(q)
    BY <1>1, <2>1, AloneMigrates, AloneSerializes, MigrationIsApart
  <2>2. CASE Commit(q)
    BY <2>2, CommitIsApart
  <2>3. CASE Create(q) \/ Duplicate(q)
    BY <1>1, <2>3, InsertIsApart DEF Create, Duplicate
  <2>4. CASE Delete(q)
    <3>1. resumes \in [Ids -> Row \union {None}]
      BY <1>1 DEF IInv, RowsOK
    <3> QED BY <2>4, <3>1 DEF Delete, RowsApart, Apart, Changed
  <2>5. CASE \E kind \in Kinds, id \in Ids : \E in \in Inputs(kind) : Open(q, kind, id, in)
    BY <1>2, <2>5 DEF Open
  <2>6. CASE \/ MigrateRefresh(q) \/ CheckBaseRevision(q) \/ Refuse(q) \/ RowGone(q)
             \/ Refresh(q) \/ NumberSnapshot(q) \/ InsertSnapshot(q) \/ Purge(q)
    BY <1>2, <2>6 DEF MigrateRefresh, CheckBaseRevision, Refuse, RowGone, Refresh, NumberSnapshot,
                      InsertSnapshot, Purge
  <2> QED BY <1>3, <2>1, <2>2, <2>3, <2>4, <2>5, <2>6 DEF Handler
<1>4. CASE Crash \/ UNCHANGED vars
  BY <1>2, <1>4 DEF Crash, vars
<1> QED BY <1>3, <1>4 DEF Next

\* Documents that are one variant apart differ in at most one locale.
LEMMA ApartMeansOne ==
  ASSUME NEW d, NEW e, Apart(d, e)
  PROVE  Cardinality(Changed(d, e)) <= 1
<1>1. PICK l : Changed(d, e) \subseteq {l}
  BY DEF Apart
<1>2. IsFiniteSet({l}) /\ Cardinality({l}) = 1
  BY FS_Singleton
<1> QED BY <1>1, <1>2, FS_Subset

VariantsApart ==
  \A id \in Ids :
    resumes[id] # None /\ resumes'[id] # None
      => /\ Cardinality(Changed(resumes[id].data, resumes'[id].data)) <= 1
         /\ resumes'[id].data.default = resumes[id].data.default

\* A handler that runs alone edits one locale variant of a resume at a time, whatever
\* the route: what was written in the other languages is what stays stored.
THEOREM LoneHandlerEditsOneVariant ==
  ASSUME OneHandler
  PROVE  Spec => OneVariantAtATime
<1>1. RowsApart => VariantsApart
  BY ApartMeansOne DEF RowsApart, VariantsApart, Apart
<1>2. AloneIInv /\ [Next]_vars => [VariantsApart]_vars /\ AloneIInv'
  BY <1>1, NextIsApart, NextAlone
<1>3. Spec => [][VariantsApart]_vars
  BY <1>2, InitAlone, PTL DEF Spec
<1> QED BY <1>3 DEF OneVariantAtATime, VariantsApart

-----------------------------------------------------------------------------
(* The head of the history *)

\* A resume that has a history is what its newest snapshot says.
HeadHeld(id) ==
  resumes[id] # None /\ Numbers(id) # {}
    => \E d \in Snapshots(id, LatestRevision(id)) : Migrated(d) = Migrated(resumes[id].data)

\* Only a handler about to record a snapshot leaves a resume ahead of its history.
Heads ==
  \A id \in Ids : HeadHeld(id) \/ \E q \in Requests : req[q].id = id /\ req[q].pc \in Recording

\* A step that adds no snapshot and at most migrates or removes the row.
LEMMA HeadKept ==
  ASSUME UNCHANGED revisions, NEW id \in Ids, HeadHeld(id),
         resumes'[id] # None =>
           resumes[id] # None /\ Migrated(resumes'[id].data) = Migrated(resumes[id].data)
  PROVE  HeadHeld(id)'
<1>1. /\ Numbers(id)' = Numbers(id) /\ LatestRevision(id)' = LatestRevision(id)
      /\ \A n : Snapshots(id, n)' = Snapshots(id, n)
  BY DEF Numbers, LatestRevision, Snapshots
<1>2. Snapshots(id, LatestRevision(id))' = Snapshots(id, LatestRevision(id))
  BY <1>1 DEF Snapshots
<1> QED BY <1>1, <1>2 DEF HeadHeld

\* When no handler is about to record, every resume is what its history says.
LEMMA AllHeld ==
  ASSUME OneHandler, Heads, NEW q \in Requests, req[q].pc \notin Recording
  PROVE  \A id \in Ids : HeadHeld(id)
  BY DEF Heads, OneHandler

\* A migrated document is not migrated again.
LEMMA MigratedTwice == ASSUME NEW d \in Data PROVE Migrated(Migrated(d)) = Migrated(d)
  BY DEF Data, Migrated

\* The steps outside recording: rows are migrated at most, or deleted.
LEMMA HeadsOutside ==
  ASSUME OneHandler, AloneIInv, Heads, NEW q \in Requests, req[q].pc \notin Recording,
         UNCHANGED revisions, OnlyMigrates \/ UNCHANGED resumes \/ Delete(q)
  PROVE  Heads'
<1>1. resumes \in [Ids -> Row \union {None}]
  BY DEF AloneIInv, IInv, RowsOK
<1>2. ASSUME NEW id \in Ids, resumes'[id] # None
      PROVE  resumes[id] # None /\ Migrated(resumes'[id].data) = Migrated(resumes[id].data)
  <2>1. CASE OnlyMigrates
    BY <1>1, <1>2, <2>1, MigratedTwice DEF OnlyMigrates, Row
  <2>2. CASE UNCHANGED resumes
    BY <1>2, <2>2
  <2>3. CASE Delete(q)
    BY <1>1, <1>2, <2>3 DEF Delete
  <2> QED BY <2>1, <2>2, <2>3
<1>3. \A id \in Ids : HeadHeld(id)'
  BY <1>2, AllHeld, HeadKept
<1> QED BY <1>3 DEF Heads

\* A row just written is behind a handler that is about to record it.
LEMMA HeadsWritten ==
  ASSUME OneHandler, AloneIInv, Heads, NEW q \in Requests, req[q].pc \notin Recording,
         NEW key \in Ids, NEW row, NEW new, UNCHANGED revisions,
         resumes' = [resumes EXCEPT ![key] = new], req' = [req EXCEPT ![q] = Writing(key, row)]
  PROVE  Heads'
<1>1. resumes \in [Ids -> Row \union {None}] /\ req \in [Requests -> Request]
  BY DEF AloneIInv, IInv, RowsOK, SessionsOK
<1>2. req'[q].id = key /\ req'[q].pc \in Recording
  BY <1>1 DEF Writing, Idle, Recording
<1>3. ASSUME NEW id \in Ids, id # key PROVE HeadHeld(id)'
  BY <1>1, <1>3, AllHeld, HeadKept
<1> QED BY <1>2, <1>3 DEF Heads

\* On its way to record, a handler keeps the resume it wrote.
LEMMA HeadsPending ==
  ASSUME AloneIInv, Heads, NEW q \in Requests, Refresh(q) \/ NumberSnapshot(q)
  PROVE  Heads'
<1>1. req \in [Requests -> Request] /\ UNCHANGED <<resumes, revisions>>
  BY DEF AloneIInv, IInv, SessionsOK, Refresh, NumberSnapshot
<1>2. \A p \in Requests : req'[p].id = req[p].id /\ (req[p].pc \in Recording => req'[p].pc \in Recording)
  BY <1>1 DEF Refresh, NumberSnapshot, Request, Recording
<1>3. ASSUME NEW id \in Ids, HeadHeld(id) PROVE HeadHeld(id)'
  BY <1>1, <1>3, HeadKept
<1> QED BY <1>2, <1>3 DEF Heads

\* A snapshot numbered past all the others is the newest, and it holds what is stored.
LEMMA HeadsRecorded ==
  ASSUME OneHandler, AloneIInv, Heads, NEW q \in Requests, InsertSnapshot(q)
  PROVE  Heads'
<1> DEFINE r == req[q]
           n == Len(revisions)
           row == [resume |-> r.id, revision |-> r.num, data |-> r.row.data]
<1>1. /\ req \in [Requests -> Request] /\ r \in Request /\ r.pc = "numbered" /\ r.id \in Ids
      /\ r.row \in Row /\ r.row = resumes[r.id] /\ UNCHANGED resumes
  BY DEF AloneIInv, IInv, SessionsOK, SessionsResolve, Carries, InsertSnapshot, Alone, Alike
<1>2. revisions \in Seq(Revision) /\ TypeOK
  BY IInvParts DEF AloneIInv, IInv, HistoryOK
<1>3. row \in Revision /\ revisions' = Append(revisions, row)
  BY <1>1 DEF InsertSnapshot, Revision, Request, Row
<1>4. n \in Nat /\ Len(revisions') = n + 1 /\ revisions'[n + 1] = row
      /\ \A i \in 1..n : revisions'[i] = revisions[i]
  BY <1>2, <1>3
<1>5. \A id \in Ids : Numbers(id)' = IF r.id = id THEN Numbers(id) \union {r.num} ELSE Numbers(id)
  BY <1>2, <1>3, NumbersAppend
<1>6. row.resume = r.id /\ row.revision = r.num /\ row.data = r.row.data /\ r.num \in Nat
  BY <1>1 DEF Request
<1>7. \A m \in Numbers(r.id) : m \in Nat /\ m < r.num
  BY <1>1, <1>2, NumbersTyped DEF AloneIInv, Ahead
<1> HIDE DEF r, row, n
<1>8. ASSUME NEW id \in Ids, id = r.id PROVE HeadHeld(id)'
  <2> DEFINE S == {0} \union Numbers(id)'
  <2>1. S \in SUBSET (0..r.num) /\ r.num \in S
    BY <1>5, <1>6, <1>7, <1>8
  <2>2. Max(S) \in S /\ Max(S) >= r.num
    BY <1>6, <2>1, MaxOfBounded
  <2>3. \A y \in S : y \in Nat /\ y <= r.num
    BY <1>6, <2>1
  <2> DEFINE m == Max(S)
  <2> HIDE DEF S
  <2>4. m \in S /\ m >= r.num
    BY <2>2
  <2> HIDE DEF m
  <2>5. m \in Nat /\ m <= r.num
    BY <2>3, <2>4
  <2>6. m = r.num
    BY <1>6, <2>4, <2>5
  <2>7. LatestRevision(id)' = r.num
    BY <2>6 DEF LatestRevision, S, m
  <2>8. r.row.data \in Snapshots(id, LatestRevision(id))'
    <3>1. n + 1 \in 1..Len(revisions') /\ revisions'[n + 1].resume = id
          /\ revisions'[n + 1].revision = LatestRevision(id)' /\ revisions'[n + 1].data = r.row.data
      BY <1>4, <1>6, <1>8, <2>7
    <3> QED BY <3>1 DEF Snapshots
  <2> QED BY <1>1, <1>8, <2>8 DEF HeadHeld
<1>9. ASSUME NEW id \in Ids, id # r.id PROVE HeadHeld(id)'
  <2>1. HeadHeld(id)
    BY <1>1, <1>9 DEF Heads, OneHandler, r
  <2>2. Numbers(id)' = Numbers(id)
    BY <1>5, <1>9
  <2>3. LatestRevision(id)' = LatestRevision(id)
    BY <2>2 DEF LatestRevision
  <2>4. Snapshots(id, LatestRevision(id)) \subseteq Snapshots(id, LatestRevision(id))'
    <3> DEFINE latest == LatestRevision(id)
    <3>1. latest' = latest
      BY <2>3
    <3>2. /\ Snapshots(id, latest) = {revisions[i].data : i \in {j \in 1..n :
                                        revisions[j].resume = id /\ revisions[j].revision = latest}}
          /\ Snapshots(id, latest)' = {revisions'[i].data : i \in {j \in 1..(n + 1) :
                                        revisions'[j].resume = id /\ revisions'[j].revision = latest'}}
      BY <1>4 DEF Snapshots, n
    <3>3. 1..n \subseteq 1..(n + 1)
      BY <1>4
    <3> HIDE DEF latest
    <3>4. Snapshots(id, latest) \subseteq Snapshots(id, latest)'
      BY <1>4, <3>1, <3>2, <3>3
    <3> QED BY <3>4 DEF latest
  <2> QED BY <1>1, <2>1, <2>2, <2>4 DEF HeadHeld
<1> QED BY <1>8, <1>9 DEF Heads

\* Without a kill between a commit and its snapshot, a lone handler keeps the heads.
LEMMA NextHeads ==
  ASSUME OneHandler, ~ AllowCrash
  PROVE  AloneIInv /\ Heads /\ [Next]_vars => Heads'
<1> SUFFICES ASSUME AloneIInv, Heads, [Next]_vars PROVE Heads'
  OBVIOUS
<1>1. IInv /\ req \in [Requests -> Request]
  BY DEF AloneIInv, IInv, SessionsOK
<1>2. ASSUME NEW q \in Requests, Handler(q) PROVE Heads'
  <2>1. CASE \E kind \in Kinds, id \in Ids : \E in \in Inputs(kind) : Open(q, kind, id, in)
    BY <2>1, HeadsOutside DEF Open, Recording
  <2>2. CASE MigrateCommit(q) \/ Serialize(q)
    BY <2>2, AloneMigrates, AloneSerializes, HeadsOutside DEF MigrateCommit, Serialize, Recording
  <2>3. CASE MigrateRefresh(q) \/ CheckBaseRevision(q) \/ Refuse(q) \/ Delete(q)
    BY <2>3, HeadsOutside DEF MigrateRefresh, CheckBaseRevision, Refuse, Delete, Recording
  <2>4. CASE RowGone(q)
    BY <2>4, AloneFindsItsRow
  <2>5. CASE Commit(q)
    <3> DEFINE r == req[q]
               new == Flushed([data |-> NewData(r), locale |-> NewLocale(r)], r.row, resumes[r.id])
    <3>1. r.id \in Ids /\ r.pc \notin Recording
      BY <1>1, <2>5 DEF IInv, SessionsOK, SessionsResolve, Carries, Commit, Recording
    <3>2. /\ resumes' = [resumes EXCEPT ![r.id] = new] /\ UNCHANGED revisions
          /\ req' = [req EXCEPT ![q] = Writing(r.id, r.row)]
      BY <2>5 DEF Commit
    <3> HIDE DEF new
    <3> QED BY <3>1, <3>2, HeadsWritten
  <2>6. CASE Create(q) \/ Duplicate(q)
    <3>1. PICK doc : Insert(q, doc)
      BY <2>6 DEF Create, Duplicate
    <3> DEFINE row == [data |-> doc, locale |-> doc.default]
    <3>2. /\ NextId \in Ids /\ resumes' = [resumes EXCEPT ![NextId] = row] /\ UNCHANGED revisions
          /\ req' = [req EXCEPT ![q] = Writing(NextId, row)]
      BY <3>1 DEF Insert
    <3>3. req[q].pc \notin Recording
      BY <2>6 DEF Create, Duplicate, Recording
    <3> HIDE DEF row
    <3> QED BY <3>2, <3>3, HeadsWritten
  <2>7. CASE Refresh(q) \/ NumberSnapshot(q)
    BY <2>7, HeadsPending
  <2>8. CASE InsertSnapshot(q)
    BY <2>8, HeadsRecorded
  <2>9. CASE Purge(q)
    <3>1. \A id \in Ids : Numbers(id)' = {}
      BY <2>9 DEF Purge, Numbers
    <3> QED BY <3>1 DEF Heads, HeadHeld
  <2> QED BY <1>2, <2>1, <2>2, <2>3, <2>4, <2>5, <2>6, <2>7, <2>8, <2>9 DEF Handler
<1>3. CASE UNCHANGED vars
  <2>1. ASSUME NEW id \in Ids, HeadHeld(id) PROVE HeadHeld(id)'
    BY <1>3, <2>1, HeadKept DEF vars
  <2> QED BY <1>3, <2>1 DEF Heads, vars
<1> QED BY <1>2, <1>3 DEF Next, Crash

\* Alone and not killed between its commit and its snapshot, no handler changes a
\* resume without recording it: a stored resume is what its newest snapshot says.
THEOREM LoneHandlerRecordsItsWrites ==
  ASSUME OneHandler, ~ AllowCrash
  PROVE  Spec => []HeadIsCurrent
<1>1. Init => Heads
  <2>1. Init => \A id \in Ids : Numbers(id) = {}
    BY DEF Init, Numbers
  <2> QED BY <2>1 DEF Heads, HeadHeld
<1>2. AloneIInv /\ [Next]_vars => AloneIInv'
  BY NextAlone
<1>3. AloneIInv /\ Heads /\ [Next]_vars => Heads'
  BY NextHeads
<1>4. Heads => HeadIsCurrent
  BY DEF Heads, HeadHeld, HeadIsCurrent, Recording
<1> QED BY <1>1, <1>2, <1>3, <1>4, InitAlone, PTL DEF Spec

-----------------------------------------------------------------------------
(* The library that the store implements *)

\* The snapshots that are inserted, as the library records them.
Kept == {Record(revisions[i].resume, revisions[i].revision, revisions[i].data) : i \in 1..Len(revisions)}

\* What a handler is about to insert.
Pending(r) == Record(r.id, LatestRevision(r.id) + 1, resumes[r.id].data)

\* A document that is duplicated is the one that is stored.
Copied ==
  \A q \in Requests :
    req[q].kind = "duplicate" => Resolved(req[q].work) = Resolved(resumes[req[q].id].data)

\* The number that a handler has taken is the next one.
NextNumber ==
  \A q \in Requests : req[q].pc = "numbered" => req[q].num = LatestRevision(req[q].id) + 1

LibraryIInv == AloneIInv /\ Copied /\ NextNumber

\* A resume of the library is what a stored document says, migrated or not.
LEMMA ResolvedIsResume ==
  ASSUME NEW d \in Data, WellFormed(d)
  PROVE  /\ Resolved(d) \in Library!Resumes
         /\ Resolved(d) # None
         /\ Resolved(Migrated(d)) = Resolved(d)
<1>1. Library!Available(Resolved(d)) = Available(d)
  BY DEF Library!Available, Available, Resolved
<1>2. Resolved(d) \in Library!Resumes
  BY <1>1 DEF Library!Resumes, Resolved, Data, WellFormed
<1>3. Resolved(Migrated(d)) = Resolved(d)
  BY DEF Resolved, Migrated, Data
<1> QED BY <1>2, <1>3, LibraryAssumption

\* What is recorded of a handler that runs alone: nothing more, or what it is about to insert.
LEMMA RecordsAre ==
  ASSUME OneHandler, NEW q \in Requests
  PROVE  /\ req[q].pc \notin Recording => Records = Kept
         /\ req[q].pc \in Recording => Records = Kept \union {Pending(req[q])}
<1> DEFINE P == {p \in Requests : req[p].pc \in Recording}
<1>1. Records = Kept \union {Record(req[p].id, LatestRevision(req[p].id) + 1, resumes[req[p].id].data) : p \in P}
  BY DEF Records, Kept
<1>2. CASE req[q].pc \notin Recording
  <2>1. P = {}
    BY <1>2 DEF OneHandler
  <2> QED BY <1>1, <1>2, <2>1
<1>3. CASE req[q].pc \in Recording
  <2>1. P = {q}
    BY <1>3 DEF OneHandler
  <2>2. {Record(req[p].id, LatestRevision(req[p].id) + 1, resumes[req[p].id].data) : p \in P} = {Pending(req[q])}
    BY <2>1 DEF Pending
  <2> QED BY <1>1, <1>3, <2>2
<1> QED BY <1>2, <1>3

\* Likewise after the step.
LEMMA RecordsBecome ==
  ASSUME OneHandler, NEW q \in Requests
  PROVE  /\ req'[q].pc \notin Recording => Records' = Kept'
         /\ req'[q].pc \in Recording => Records' = Kept' \union {Pending(req[q])'}
<1> DEFINE P == {p \in Requests : req'[p].pc \in Recording}
           Next1(p) == Record(req[p].id, LatestRevision(req[p].id) + 1, resumes[req[p].id].data)'
<1>1. Records' = Kept' \union {Next1(p) : p \in P}
  BY DEF Records, Kept, Recording
<1>2. CASE req'[q].pc \notin Recording
  <2>1. P = {}
    BY <1>2 DEF OneHandler
  <2> QED BY <1>1, <1>2, <2>1
<1>3. CASE req'[q].pc \in Recording
  <2>1. P = {q}
    BY <1>3 DEF OneHandler
  <2>2. {Next1(p) : p \in P} = {Pending(req[q])'}
    BY <2>1 DEF Pending
  <2> QED BY <1>1, <1>3, <2>2
<1> QED BY <1>2, <1>3

\* When no snapshot is inserted, what is inserted and its numbers stay.
LEMMA KeptStays ==
  ASSUME UNCHANGED revisions
  PROVE  Kept' = Kept /\ \A id : LatestRevision(id)' = LatestRevision(id)
  BY DEF Kept, Record, Resolved, LatestRevision, Numbers

\* The number that the library gives next is the one that the store does.
LEMMA LatestAgrees ==
  ASSUME Records = Kept, NEW id
  PROVE  Library!Latest(id) = LatestRevision(id)
<1>1. Library!Numbers(id) = Numbers(id)
  <2> DEFINE L == {r \in Kept : r.resume = id}
             I == {j \in 1..Len(revisions) : revisions[j].resume = id}
  <2>1. Library!Numbers(id) = {r.revision : r \in L}
    BY DEF Library!Numbers
  <2>2. Numbers(id) = {revisions[i].revision : i \in I}
    BY DEF Numbers
  <2>3. \A i \in I : \E r \in L : r.revision = revisions[i].revision
    <3> TAKE i \in I
    <3>1. Record(revisions[i].resume, revisions[i].revision, revisions[i].data) \in L
      BY DEF Kept, Record
    <3> QED BY <3>1 DEF Record
  <2>4. \A r \in L : \E i \in I : r.revision = revisions[i].revision
    BY DEF Kept, Record
  <2> QED BY <2>1, <2>2, <2>3, <2>4
<1>2. \A S : Library!Max(S) = Max(S)
  BY DEF Library!Max, Max
<1> QED BY <1>1, <1>2 DEF Library!Latest, LatestRevision

\* Rows that stay, or are at most migrated, are the same resumes.
LEMMA SameResumes ==
  ASSUME IInv, OnlyMigrates \/ UNCHANGED resumes
  PROVE  /\ StoredResumes' = StoredResumes
         /\ \A id \in Ids : resumes[id] # None => Resolved(resumes'[id].data) = Resolved(resumes[id].data)
<1>1. \A id \in Ids : resumes[id] # None => resumes[id].data \in Data /\ WellFormed(resumes[id].data)
  BY DEF IInv, RowsOK, Row
<1>2. ASSUME NEW id \in Ids
      PROVE  /\ resumes'[id] = None <=> resumes[id] = None
             /\ resumes[id] # None => Resolved(resumes'[id].data) = Resolved(resumes[id].data)
  BY <1>1, ResolvedIsResume DEF OnlyMigrates
<1>3. StoredResumes' = [id \in Ids |-> IF resumes'[id] = None THEN None ELSE Resolved(resumes'[id].data)]
  BY DEF StoredResumes, Resolved
<1> QED BY <1>2, <1>3 DEF StoredResumes

\* A step that writes no resume and records none, by a handler that is as far from its snapshot as before.
LEMMA LibraryStays ==
  ASSUME OneHandler, AloneIInv, NEW q \in Requests, UNCHANGED revisions, OnlyMigrates \/ UNCHANGED resumes,
         \/ req[q].pc \notin Recording /\ req'[q].pc \notin Recording
         \/ req[q].pc \in Recording /\ req'[q].pc \in Recording /\ req'[q].id = req[q].id
  PROVE  UNCHANGED <<StoredResumes, Records>>
<1>1. StoredResumes' = StoredResumes
  BY SameResumes DEF AloneIInv
<1>2. Kept' = Kept /\ \A id : LatestRevision(id)' = LatestRevision(id)
  BY KeptStays
<1>3. CASE req[q].pc \notin Recording
  BY <1>1, <1>2, <1>3, RecordsAre, RecordsBecome
<1>4. CASE req[q].pc \in Recording
  <2>1. req[q].id \in Ids /\ resumes[req[q].id] # None
    BY <1>4 DEF AloneIInv, IInv, SessionsOK, SessionsResolve, Carries, Alone, Alike, Recording
  <2>2. Resolved(resumes'[req[q].id].data) = Resolved(resumes[req[q].id].data)
    BY <2>1, SameResumes DEF AloneIInv
  <2>3. Pending(req[q])' = Pending(req[q])
    BY <1>2, <1>4, <2>2 DEF Pending, Record, Resolved
  <2> QED BY <1>1, <1>2, <1>4, <2>3, RecordsAre, RecordsBecome
<1> QED BY <1>3, <1>4

\* The snapshot inserted is the one that was pending.
LEMMA InsertionIsSilent ==
  ASSUME OneHandler, LibraryIInv, NEW q \in Requests, InsertSnapshot(q)
  PROVE  UNCHANGED <<StoredResumes, Records>>
<1> DEFINE r == req[q]
           n == Len(revisions)
           row == [resume |-> r.id, revision |-> r.num, data |-> r.row.data]
<1>1. /\ req \in [Requests -> Request] /\ r.pc = "numbered" /\ r.id \in Ids
      /\ r.row = resumes[r.id] /\ r.num = LatestRevision(r.id) + 1 /\ UNCHANGED resumes
  BY DEF LibraryIInv, AloneIInv, IInv, SessionsOK, SessionsResolve, Carries, InsertSnapshot, Alone, Alike, NextNumber
<1>2. revisions \in Seq(Revision) /\ revisions' = Append(revisions, row)
  BY DEF LibraryIInv, AloneIInv, IInv, HistoryOK, InsertSnapshot
<1>3. n \in Nat /\ Len(revisions') = n + 1 /\ revisions'[n + 1] = row /\ \A i \in 1..n : revisions'[i] = revisions[i]
  BY <1>2
<1>4. req'[q].pc \notin Recording /\ r.pc \in Recording
  BY <1>1 DEF InsertSnapshot, Idle, Recording
<1>5. Pending(r) = Record(row.resume, row.revision, row.data)
  BY <1>1 DEF Pending
<1>6. Kept' = Kept \union {Pending(r)}
  <2> DEFINE Rec(i) == Record(revisions[i].resume, revisions[i].revision, revisions[i].data)
             New(i) == Record(revisions'[i].resume, revisions'[i].revision, revisions'[i].data)
  <2>1. Kept = {Rec(i) : i \in 1..n} /\ Kept' = {New(i) : i \in 1..(n + 1)}
    BY <1>3 DEF Kept, Record, Resolved
  <2>2. (\A i \in 1..n : New(i) = Rec(i)) /\ New(n + 1) = Pending(r)
    BY <1>3, <1>5
  <2>3. 1..(n + 1) = (1..n) \union {n + 1}
    BY <1>3
  <2> HIDE DEF New, Rec
  <2> QED BY <2>1, <2>2, <2>3
<1>7. StoredResumes' = StoredResumes
  BY <1>1, SameResumes DEF LibraryIInv, AloneIInv
<1> QED BY <1>4, <1>6, <1>7, RecordsAre, RecordsBecome

\* A row is written, by a handler that is then about to record it: the library saves it.
LEMMA WritingSaves ==
  ASSUME OneHandler, IInv, NEW q \in Requests, NEW key \in Ids, NEW row,
         row # None, resumes' = [resumes EXCEPT ![key] = row], UNCHANGED revisions,
         req[q].pc \notin Recording, req'[q].pc \in Recording, req'[q].id = key
  PROVE  Library!Save(key, Resolved(row.data))
<1>1. Kept' = Kept /\ LatestRevision(key)' = LatestRevision(key)
  BY KeptStays
<1>2. Records = Kept /\ Records' = Kept \union {Pending(req[q])'}
  BY <1>1, RecordsAre, RecordsBecome
<1>3. resumes' = [id \in Ids |-> IF id = key THEN row ELSE resumes[id]]
  BY DEF IInv, RowsOK
<1>4. Pending(req[q])' = [resume |-> key, revision |-> Library!Latest(key) + 1, data |-> Resolved(row.data)]
  <2>1. Library!Latest(key) = LatestRevision(key)
    BY <1>2, LatestAgrees
  <2>2. LatestRevision(req[q].id)' = LatestRevision(key)'
    BY DEF LatestRevision, Numbers
  <2>3. Pending(req[q])' = Record(key, LatestRevision(key)' + 1, resumes'[key].data)
    BY <2>2 DEF Pending, Record, Resolved
  <2> QED BY <1>1, <1>3, <2>1, <2>3 DEF Record
<1>5. StoredResumes' = [StoredResumes EXCEPT ![key] = Resolved(row.data)]
  <2>1. StoredResumes' = [id \in Ids |-> IF resumes'[id] = None THEN None ELSE Resolved(resumes'[id].data)]
    BY DEF StoredResumes, Resolved
  <2> QED BY <1>3, <2>1 DEF StoredResumes
<1> QED BY <1>2, <1>4, <1>5 DEF Library!Save

\* A document one variant apart is a write of that variant, and of the active locale.
LEMMA ApartIsOneWrite ==
  ASSUME NEW d \in Data, NEW e \in Data, WellFormed(d), WellFormed(e), Apart(d, e)
  PROVE  \E l, active \in Locales, c \in Contents \union {None} :
           Resolved(e) = [variants |-> [d.variants EXCEPT ![l] = c], default |-> d.default, active |-> active]
<1>1. PICK k : Changed(d, e) \subseteq {k}
  BY DEF Apart
<1> DEFINE l == IF k \in Locales THEN k ELSE d.default
           c == e.variants[l]
<1>2. l \in Locales /\ e.active \in Locales /\ c \in Contents \union {None}
  BY DEF Data
<1>3. \A m \in Locales : m # l => e.variants[m] = d.variants[m]
  BY <1>1 DEF Changed
<1> HIDE DEF l
<1>4. e.variants = [d.variants EXCEPT ![l] = c]
  <2>1. d.variants = [m \in Locales |-> d.variants[m]] /\ e.variants = [m \in Locales |-> e.variants[m]]
    BY DEF Data
  <2> QED BY <1>2, <1>3, <2>1
<1>5. Resolved(e) = [variants |-> [d.variants EXCEPT ![l] = c], default |-> d.default, active |-> e.active]
  BY <1>4 DEF Resolved, Apart
<1> QED BY <1>2, <1>5

\* A row that stays is rewritten, and recorded.
LEMMA RewriteIsAWrite ==
  ASSUME OneHandler, IInv, NEW q \in Requests, NEW key \in Ids, NEW row \in Row, WellFormed(row.data),
         resumes[key] # None, Apart(resumes[key].data, row.data),
         resumes' = [resumes EXCEPT ![key] = row], UNCHANGED revisions,
         req[q].pc \notin Recording, req'[q].pc \in Recording, req'[q].id = key
  PROVE  Library!Write(key)
<1>1. Library!Save(key, Resolved(row.data))
  BY WritingSaves, NoneAssumption
<1>2. resumes[key].data \in Data /\ WellFormed(resumes[key].data) /\ row.data \in Data
  BY DEF IInv, RowsOK, Row
<1>3. StoredResumes[key] = Resolved(resumes[key].data) /\ StoredResumes[key] # None
  BY <1>2, ResolvedIsResume DEF StoredResumes
<1>4. Resolved(row.data) \in Library!Resumes
  BY <1>2, ResolvedIsResume
<1>5. PICK l \in Locales, active \in Locales, c \in Contents \union {None} :
        Resolved(row.data)
          = [variants |-> [resumes[key].data.variants EXCEPT ![l] = c], default |-> resumes[key].data.default, active |-> active]
  BY <1>2, ApartIsOneWrite, Zenon
<1> DEFINE d == [variants |-> [StoredResumes[key].variants EXCEPT ![l] = c],
                 default |-> StoredResumes[key].default, active |-> active]
<1>6. d = Resolved(row.data)
  BY <1>3, <1>5 DEF Resolved
<1>7. d \in Library!Resumes /\ Library!Save(key, d)
  BY <1>1, <1>4, <1>6 DEF Library!Save
<1> QED BY <1>3, <1>7, Zenon DEF Library!Write

\* A route that rewrites its row.
LEMMA CommitIsAWrite ==
  ASSUME OneHandler, AloneIInv, NEW q \in Requests, Commit(q)
  PROVE  Library!Write(req[q].id)
<1> DEFINE r == req[q]
           written == [data |-> NewData(r), locale |-> NewLocale(r)]
           new == Flushed(written, r.row, resumes[r.id])
<1>1. IInv /\ RowsOK /\ SessionsOK
  BY DEF AloneIInv, IInv
<1>2. r \in Request /\ Carries(r) /\ r.pc = "ready" /\ Accepted(r) /\ Stored(r.id)
  BY <1>1 DEF SessionsOK, SessionsResolve, Commit
<1>3. resumes' = [resumes EXCEPT ![r.id] = new] /\ req' = [req EXCEPT ![q] = Writing(r.id, r.row)]
      /\ revisions' = revisions
  BY DEF Commit
<1> HIDE DEF r
<1>4. r.row \in Row /\ WellFormed(r.row.data) /\ r.id \in Ids
  BY <1>2 DEF Carries
<1>5. resumes[r.id] \in Row /\ WellFormed(resumes[r.id].data) /\ resumes[r.id] # None
  BY <1>1, <1>2, StoredResolves DEF Stored
<1>6. written \in Row /\ WellFormed(written.data)
  BY <1>2, NewDataResolves, NewLocaleTyped DEF Row
<1> HIDE DEF written
<1>7. new \in Row /\ WellFormed(new.data)
  BY <1>4, <1>5, <1>6, FlushedResolves
<1> HIDE DEF new
<1>8. resumes'[r.id] = new /\ new # None
  BY <1>1, <1>3, <1>4, <1>7, NoneAssumption DEF RowsOK
<1>9. Apart(resumes[r.id].data, new.data)
  BY <1>4, <1>5, <1>8, CommitIsApart DEF RowsApart
<1>10. req'[q].pc \in Recording /\ req'[q].id = r.id /\ req[q].pc \notin Recording
  BY <1>1, <1>2, <1>3 DEF Writing, Idle, Recording, SessionsOK, r
<1>11. Library!Write(r.id)
  BY <1>1, <1>3, <1>4, <1>5, <1>7, <1>9, <1>10, RewriteIsAWrite
<1> QED BY <1>11 DEF r

\* A snapshot is a write of what the resume already is.
LEMMA SnapshotIsAWrite ==
  ASSUME OneHandler, AloneIInv, NEW q \in Requests, NEW kind \in Kinds, NEW id \in Ids, NEW in,
         Open(q, kind, id, in), kind = "snapshot"
  PROVE  Library!Write(id)
<1>1. resumes \in [Ids -> Row \union {None}] /\ resumes[id] \in Row /\ WellFormed(resumes[id].data) /\ resumes[id] # None
  BY DEF AloneIInv, IInv, RowsOK, Open, Stored
<1>2. req'[q].pc \in Recording /\ req'[q].id = id /\ req[q].pc \notin Recording
  BY DEF Open, FirstStep, Recording, Migrating, AloneIInv, IInv, SessionsOK
<1>3. resumes' = [resumes EXCEPT ![id] = resumes[id]] /\ UNCHANGED revisions
  BY <1>1 DEF Open
<1>4. Apart(resumes[id].data, resumes[id].data)
  BY DEF Apart, Changed
<1> QED BY <1>1, <1>2, <1>3, <1>4, RewriteIsAWrite DEF AloneIInv

\* A row is inserted where there was none, and recorded.
LEMMA InsertSaves ==
  ASSUME OneHandler, IInv, NEW q \in Requests, NEW doc \in Data, Insert(q, doc), req[q].pc \notin Recording
  PROVE  NextId \in Ids /\ StoredResumes[NextId] = None /\ Library!Save(NextId, Resolved(doc))
<1> DEFINE row == [data |-> doc, locale |-> doc.default]
<1>1. /\ NextId \in Ids /\ resumes' = [resumes EXCEPT ![NextId] = row] /\ UNCHANGED revisions
      /\ req' = [req EXCEPT ![q] = Writing(NextId, row)]
  BY DEF Insert
<1>2. row \in Row /\ row # None /\ row.data = doc
  BY NoneAssumption DEF Row, Data
<1>3. resumes[NextId] = None
  BY <1>1, NextIdIsFree
<1> HIDE DEF row
<1>4. req'[q].pc \in Recording /\ req'[q].id = NextId
  BY <1>1 DEF Writing, Idle, Recording, IInv, SessionsOK
<1>5. Library!Save(NextId, Resolved(row.data))
  BY <1>1, <1>2, <1>4, WritingSaves
<1> QED BY <1>1, <1>2, <1>3, <1>5 DEF StoredResumes

\* A new resume holds one variant.
LEMMA CreateCreates ==
  ASSUME OneHandler, AloneIInv, NEW q \in Requests, Create(q)
  PROVE  \E id \in Ids : Library!Create(id)
<1>1. PICK l \in Locales, c \in Contents : Insert(q, Document(l, c))
  BY DEF Create
<1>2. Document(l, c) \in Data /\ req[q].pc \notin Recording
  BY DocumentResolves DEF Create, Recording
<1>3. NextId \in Ids /\ StoredResumes[NextId] = None /\ Library!Save(NextId, Resolved(Document(l, c)))
  BY <1>1, <1>2, InsertSaves DEF AloneIInv
<1> DEFINE d == [variants |-> [m \in Locales |-> IF m = l THEN c ELSE None], default |-> l, active |-> l]
<1>4. Resolved(Document(l, c)) = d
  BY DEF Resolved, Document, Sole
<1>5. Library!Save(NextId, d)
  BY <1>3, <1>4 DEF Library!Save
<1>6. Library!Create(NextId)
  BY <1>3, <1>5, Zenon DEF Library!Create
<1> QED BY <1>3, <1>6

\* A duplicate holds what the other resume is.
LEMMA DuplicateDuplicates ==
  ASSUME OneHandler, LibraryIInv, NEW q \in Requests, Duplicate(q)
  PROVE  \E id, source \in Ids : Library!Duplicate(id, source)
<1> DEFINE source == req[q].id
           work == req[q].work
<1>1. work \in Data /\ Insert(q, work) /\ req[q].pc \notin Recording /\ req[q].kind = "duplicate"
  BY DEF LibraryIInv, AloneIInv, IInv, SessionsOK, SessionsResolve, Carries, Duplicate, Recording
<1>2. source \in Ids /\ resumes[source] # None
  BY DEF LibraryIInv, AloneIInv, IInv, SessionsOK, SessionsResolve, Carries, Duplicate, Alone, Alike
<1>3. resumes[source].data \in Data /\ WellFormed(resumes[source].data)
  BY <1>2 DEF LibraryIInv, AloneIInv, IInv, RowsOK, Row
<1>4. StoredResumes[source] = Resolved(resumes[source].data) /\ StoredResumes[source] # None
  BY <1>2, <1>3, ResolvedIsResume DEF StoredResumes
<1>5. Resolved(work) = StoredResumes[source]
  BY <1>1, <1>4 DEF LibraryIInv, Copied
<1>6. NextId \in Ids /\ StoredResumes[NextId] = None /\ Library!Save(NextId, Resolved(work))
  BY <1>1, InsertSaves DEF LibraryIInv, AloneIInv
<1>7. Library!Save(NextId, StoredResumes[source])
  BY <1>5, <1>6 DEF Library!Save
<1> QED BY <1>2, <1>4, <1>6, <1>7, Zenon DEF Library!Duplicate

\* A resume is deleted, and its history stays.
LEMMA DeleteDeletes ==
  ASSUME OneHandler, AloneIInv, NEW q \in Requests, Delete(q)
  PROVE  \E id \in Ids : Library!Delete(id)
<1> DEFINE key == req[q].id
<1>1. /\ resumes \in [Ids -> Row \union {None}] /\ key \in Ids /\ resumes[key] # None
      /\ req \in [Requests -> Request]
  BY DEF AloneIInv, IInv, RowsOK, SessionsOK, SessionsResolve, Carries, Delete, Alone, Alike
<1>2. resumes' = [resumes EXCEPT ![key] = None] /\ UNCHANGED revisions
  BY DEF Delete
<1>3. req[q].pc \notin Recording /\ req'[q].pc \notin Recording
  BY <1>1 DEF Delete, Idle, Recording
<1>4. StoredResumes[key] # None
  BY <1>1, ResolvedIsResume DEF StoredResumes, AloneIInv, IInv, RowsOK, Row
<1> HIDE DEF key
<1>5. StoredResumes' = [StoredResumes EXCEPT ![key] = None]
  <2>1. StoredResumes' = [id \in Ids |-> IF resumes'[id] = None THEN None ELSE Resolved(resumes'[id].data)]
    BY DEF StoredResumes, Resolved
  <2>2. \A id \in Ids : resumes'[id] = IF id = key THEN None ELSE resumes[id]
    BY <1>1, <1>2
  <2> QED BY <2>1, <2>2 DEF StoredResumes
<1>6. Records' = Records
  BY <1>2, <1>3, KeptStays, RecordsAre, RecordsBecome
<1> QED BY <1>1, <1>4, <1>5, <1>6 DEF Library!Delete

\* A purge leaves no history.
LEMMA PurgePurges ==
  ASSUME OneHandler, NEW q \in Requests, Purge(q)
  PROVE  Library!Purge
<1>1. Kept' = {}
  <2>1. Len(revisions') = 0
    BY DEF Purge
  <2>2. Kept' = {Record(revisions'[i].resume, revisions'[i].revision, revisions'[i].data) : i \in 1..Len(revisions')}
    BY DEF Kept, Record, Resolved
  <2> QED BY <2>1, <2>2
<1>2. req'[q].pc \notin Recording /\ resumes' = resumes
  BY DEF Purge, Recording
<1>3. StoredResumes' = StoredResumes
  BY <1>2 DEF StoredResumes, Resolved
<1> QED BY <1>1, <1>2, <1>3, RecordsBecome DEF Library!Purge

\* A route starts: the library saves what is snapshotted, and sees no other start.
LEMMA OpenIsSeen ==
  ASSUME OneHandler, AloneIInv, NEW q \in Requests, NEW kind \in Kinds, NEW id \in Ids, NEW in,
         Open(q, kind, id, in)
  PROVE  Library!Write(id) \/ UNCHANGED <<StoredResumes, Records>>
<1>1. CASE kind = "snapshot"
  BY <1>1, SnapshotIsAWrite
<1>2. CASE kind # "snapshot"
  <2>1. FirstStep(kind, resumes[id].data) \notin Recording
    BY <1>2 DEF FirstStep, Recording
  <2> DEFINE work == IF kind \in Migrating \union {"duplicate"} THEN Migrated(resumes[id].data) ELSE None
             Session(snap) == [pc |-> FirstStep(kind, resumes[id].data), kind |-> kind, id |-> id, in |-> in,
                               row |-> resumes[id], work |-> work, snap |-> snap, num |-> 0]
  <2>2. PICK snap : req' = [req EXCEPT ![q] = Session(snap)]
    BY Zenon DEF Open
  <2>3. Session(snap).pc \notin Recording
    BY <2>1
  <2> HIDE DEF Session
  <2>4. req'[q].pc \notin Recording
    BY <2>2, <2>3 DEF AloneIInv, IInv, SessionsOK
  <2>5. req[q].pc \notin Recording /\ UNCHANGED <<resumes, revisions>>
    BY DEF Open, Recording
  <2> QED BY <2>4, <2>5, LibraryStays
<1> QED BY <1>1, <1>2

\* The steps between: the library sees nothing of them.
LEMMA SilentSteps ==
  ASSUME OneHandler, AloneIInv, NEW q \in Requests,
         \/ MigrateCommit(q) \/ MigrateRefresh(q) \/ CheckBaseRevision(q) \/ Refuse(q)
         \/ Refresh(q) \/ NumberSnapshot(q) \/ Serialize(q)
  PROVE  UNCHANGED <<StoredResumes, Records>>
<1>1. req \in [Requests -> Request]
  BY DEF AloneIInv, IInv, SessionsOK
<1>2. UNCHANGED revisions
  BY DEF MigrateCommit, MigrateRefresh, CheckBaseRevision, Refuse, Refresh, NumberSnapshot, Serialize
<1>3. OnlyMigrates \/ UNCHANGED resumes
  BY AloneMigrates, AloneSerializes DEF MigrateRefresh, CheckBaseRevision, Refuse, Refresh, NumberSnapshot
<1>4. \/ req[q].pc \notin Recording /\ req'[q].pc \notin Recording
      \/ req[q].pc \in Recording /\ req'[q].pc \in Recording /\ req'[q].id = req[q].id
  <2>1. CASE MigrateCommit(q)
    BY <1>1, <2>1 DEF MigrateCommit, Request, Recording
  <2>2. CASE MigrateRefresh(q)
    BY <1>1, <2>2 DEF MigrateRefresh, Request, Recording
  <2>3. CASE CheckBaseRevision(q)
    BY <1>1, <2>3 DEF CheckBaseRevision, Request, Idle, Recording
  <2>4. CASE Refuse(q) \/ Serialize(q)
    BY <1>1, <2>4 DEF Refuse, Serialize, Idle, Recording
  <2>5. CASE Refresh(q)
    BY <1>1, <2>5 DEF Refresh, Request, Recording
  <2>6. CASE NumberSnapshot(q)
    BY <1>1, <2>6 DEF NumberSnapshot, Request, Recording
  <2> QED BY <2>1, <2>2, <2>3, <2>4, <2>5, <2>6
<1> QED BY <1>2, <1>3, <1>4, LibraryStays

\* Every step of the store is one of the library, or none.
LEMMA NextIsLibrary ==
  ASSUME OneHandler, ~ AllowCrash, LibraryIInv, [Next]_vars
  PROVE  [Library!Next]_<<StoredResumes, Records>>
<1>1. AloneIInv
  BY DEF LibraryIInv
<1>2. ASSUME NEW q \in Requests, Handler(q) PROVE Library!Next \/ UNCHANGED <<StoredResumes, Records>>
  <2>1. CASE \E kind \in Kinds, id \in Ids : \E in \in Inputs(kind) : Open(q, kind, id, in)
    BY <1>1, <2>1, OpenIsSeen DEF Library!Next
  <2>2. CASE \/ MigrateCommit(q) \/ MigrateRefresh(q) \/ CheckBaseRevision(q) \/ Refuse(q)
             \/ Refresh(q) \/ NumberSnapshot(q) \/ Serialize(q)
    BY <1>1, <2>2, SilentSteps
  <2>3. CASE Commit(q)
    <3>1. req[q].id \in Ids
      BY <1>1, <2>3 DEF AloneIInv, IInv, SessionsOK, SessionsResolve, Carries, Commit
    <3> QED BY <1>1, <2>3, <3>1, CommitIsAWrite DEF Library!Next
  <2>4. CASE RowGone(q)
    BY <1>1, <2>4, AloneFindsItsRow
  <2>5. CASE Create(q)
    BY <1>1, <2>5, CreateCreates DEF Library!Next
  <2>6. CASE Duplicate(q)
    BY <2>6, DuplicateDuplicates DEF Library!Next
  <2>7. CASE Delete(q)
    BY <1>1, <2>7, DeleteDeletes DEF Library!Next
  <2>8. CASE InsertSnapshot(q)
    BY <2>8, InsertionIsSilent
  <2>9. CASE Purge(q)
    BY <2>9, PurgePurges DEF Library!Next
  <2> QED BY <1>2, <2>1, <2>2, <2>3, <2>4, <2>5, <2>6, <2>7, <2>8, <2>9 DEF Handler
<1>3. CASE UNCHANGED vars
  BY <1>3 DEF vars, StoredResumes, Records, Record, Resolved, LatestRevision, Numbers
<1> QED BY <1>2, <1>3 DEF Next, Crash

\* A session that goes on with its copy, or that carries none.
LEMMA CopiedStays ==
  ASSUME OneHandler, AloneIInv, Copied, NEW q \in Requests, OnlyMigrates \/ UNCHANGED resumes, req[q].pc # "idle",
         req'[q].kind = "duplicate" =>
           req[q].kind = "duplicate" /\ req'[q].id = req[q].id /\ req'[q].work = req[q].work
  PROVE  Copied'
<1> SUFFICES ASSUME req'[q].kind = "duplicate"
             PROVE  Resolved(req'[q].work) = Resolved(resumes'[req[q].id].data)
  BY DEF Copied, OneHandler, Resolved
<1>1. req[q].id \in Ids /\ resumes[req[q].id] # None
  BY DEF AloneIInv, IInv, SessionsOK, SessionsResolve, Carries, Alone, Alike
<1>2. Resolved(resumes'[req[q].id].data) = Resolved(resumes[req[q].id].data)
  BY <1>1, SameResumes DEF AloneIInv
<1> QED BY <1>2 DEF Copied

\* A route that duplicates copies the document that is stored.
LEMMA OpenCopies ==
  ASSUME OneHandler, AloneIInv, NEW q \in Requests, NEW kind \in Kinds, NEW id \in Ids, NEW in,
         Open(q, kind, id, in)
  PROVE  Copied'
<1>1. resumes[id].data \in Data /\ WellFormed(resumes[id].data) /\ req \in [Requests -> Request]
      /\ resumes' = resumes
  BY DEF AloneIInv, IInv, RowsOK, SessionsOK, Open, Stored, Row
<1> DEFINE work == IF kind \in Migrating \union {"duplicate"} THEN Migrated(resumes[id].data) ELSE None
           Session(snap) == [pc |-> FirstStep(kind, resumes[id].data), kind |-> kind, id |-> id, in |-> in,
                             row |-> resumes[id], work |-> work, snap |-> snap, num |-> 0]
<1>2. PICK snap : req' = [req EXCEPT ![q] = Session(snap)]
  BY Zenon DEF Open
<1>3. Session(snap).kind = kind /\ Session(snap).id = id /\ Session(snap).work = work
  OBVIOUS
<1>4. kind = "duplicate" => Resolved(work) = Resolved(resumes[id].data)
  BY <1>1, ResolvedIsResume
<1> HIDE DEF Session, work
<1>5. req'[q] = Session(snap)
  BY <1>1, <1>2
<1>6. req'[q].kind = "duplicate" => Resolved(req'[q].work) = Resolved(resumes'[req'[q].id].data)
  BY <1>1, <1>3, <1>4, <1>5
<1> QED BY <1>6 DEF Copied, OneHandler, Resolved

\* Every step keeps the copy true.
LEMMA NextCopies ==
  ASSUME OneHandler, AloneIInv, Copied, NEW q \in Requests, Handler(q)
  PROVE  Copied'
<1>1. req \in [Requests -> Request]
  BY DEF AloneIInv, IInv, SessionsOK
<1>2. CASE \E kind \in Kinds, id \in Ids : \E in \in Inputs(kind) : Open(q, kind, id, in)
  BY <1>2, OpenCopies
<1>3. CASE MigrateCommit(q)
  BY <1>1, <1>3, AloneMigrates, CopiedStays DEF MigrateCommit, Request
<1>4. CASE MigrateRefresh(q)
  BY <1>1, <1>4, CopiedStays DEF MigrateRefresh, Request
<1>5. CASE CheckBaseRevision(q)
  BY <1>1, <1>5, CopiedStays, NoneAssumption, ConstantsAssumption DEF CheckBaseRevision, Request, Idle, AllKinds
<1>6. CASE Refresh(q)
  BY <1>1, <1>6, CopiedStays DEF Refresh, Request
<1>7. CASE NumberSnapshot(q)
  BY <1>1, <1>7, CopiedStays DEF NumberSnapshot, Request
<1>8. CASE InsertSnapshot(q)
  BY <1>1, <1>8, CopiedStays, ConstantsAssumption DEF InsertSnapshot, Request, Idle, AllKinds
<1>9. ASSUME NEW s, req' = [req EXCEPT ![q] = s], s.kind = None
      PROVE  Copied'
  <2>1. req'[q].kind = None
    BY <1>1, <1>9
  <2> QED BY <2>1, ConstantsAssumption DEF Copied, OneHandler, AllKinds
<1>10. CASE Refuse(q) \/ Delete(q) \/ Serialize(q)
  <2>1. req' = [req EXCEPT ![q] = Idle] /\ Idle.kind = None
    BY <1>10 DEF Refuse, Delete, Serialize, Idle
  <2> QED BY <1>9, <2>1
<1>11. CASE Commit(q) \/ Create(q) \/ Duplicate(q)
  <2>1. \A id, row : Writing(id, row).kind = None
    BY DEF Writing, Idle
  <2>2. PICK key, row : req' = [req EXCEPT ![q] = Writing(key, row)]
    <3>1. CASE Commit(q)
      BY <3>1, Zenon DEF Commit
    <3>2. ASSUME NEW doc, Insert(q, doc)
          PROVE  \E key, row : req' = [req EXCEPT ![q] = Writing(key, row)]
      BY <3>2, Zenon DEF Insert
    <3> QED BY <1>11, <3>1, <3>2 DEF Create, Duplicate
  <2> QED BY <1>9, <2>1, <2>2
<1>12. CASE RowGone(q)
  BY <1>12, AloneFindsItsRow
<1>13. CASE Purge(q)
  BY <1>13 DEF Purge, Copied, Resolved
<1> QED BY <1>2, <1>3, <1>4, <1>5, <1>6, <1>7, <1>8, <1>10, <1>11, <1>12, <1>13 DEF Handler

\* A number that is taken stays the next one until its snapshot is inserted.
LEMMA NextNumbers ==
  ASSUME OneHandler, AloneIInv, NextNumber, NEW q \in Requests, Handler(q)
  PROVE  NextNumber'
<1>1. req \in [Requests -> Request]
  BY DEF AloneIInv, IInv, SessionsOK
<1>2. CASE NumberSnapshot(q)
  <2> DEFINE n == LatestRevision(req[q].id) + 1
  <2>1. req' = [req EXCEPT ![q].pc = "numbered", ![q].num = n] /\ revisions' = revisions
    BY <1>2 DEF NumberSnapshot
  <2> HIDE DEF n
  <2>2. req'[q].num = n /\ req'[q].id = req[q].id
    BY <1>1, <2>1 DEF Request
  <2>3. LatestRevision(req[q].id)' = LatestRevision(req[q].id)
    BY <2>1, <2>2 DEF LatestRevision, Numbers
  <2> QED BY <2>2, <2>3 DEF NextNumber, OneHandler, n
<1>3. CASE InsertSnapshot(q)
  <2>1. req'[q].pc # "numbered"
    BY <1>1, <1>3 DEF InsertSnapshot, Request, Idle
  <2> QED BY <2>1 DEF NextNumber, OneHandler
<1>4. CASE Purge(q)
  <2>1. req'[q].pc # "numbered"
    BY <1>4 DEF Purge
  <2> QED BY <2>1 DEF NextNumber, OneHandler
<1>5. CASE ~ NumberSnapshot(q) /\ ~ InsertSnapshot(q) /\ ~ Purge(q)
  <2>1. UNCHANGED revisions /\ (req'[q].pc = "numbered" => req'[q] = req[q])
    BY <1>5, OtherSteps DEF AloneIInv
  <2>2. req'[q].pc = "numbered" => LatestRevision(req[q].id)' = LatestRevision(req[q].id)
    BY <2>1 DEF LatestRevision, Numbers
  <2> QED BY <2>1, <2>2 DEF NextNumber, OneHandler
<1> QED BY <1>2, <1>3, <1>4, <1>5

\* The steps of a lone handler keep what the refinement needs.
LEMMA NextLibrary ==
  ASSUME OneHandler, ~ AllowCrash, LibraryIInv, [Next]_vars
  PROVE  LibraryIInv'
<1>1. AloneIInv'
  BY NextAlone DEF LibraryIInv
<1>2. CASE \E q \in Requests : Handler(q)
  BY <1>1, <1>2, NextCopies, NextNumbers DEF LibraryIInv
<1>3. CASE UNCHANGED vars
  <2>1. Copied'
    BY <1>3 DEF LibraryIInv, Copied, vars, Resolved
  <2>2. NextNumber'
    BY <1>3 DEF LibraryIInv, NextNumber, vars, LatestRevision, Numbers
  <2> QED BY <1>1, <2>1, <2>2 DEF LibraryIInv
<1> QED BY <1>2, <1>3 DEF Next, Crash

\* A legacy resume that the store starts with is one of the library.
LEMMA InitIsLibrary == Init => LibraryIInv /\ Library!Init
<1> SUFFICES ASSUME Init PROVE LibraryIInv /\ Library!Init
  OBVIOUS
<1>1. AloneIInv
  BY InitAlone
<1>2. Len(revisions) = 0 /\ \A q \in Requests : req[q].pc = "idle" /\ req[q].kind = None
  BY DEF Init, Idle
<1>3. Copied /\ NextNumber
  BY <1>2, ConstantsAssumption DEF Copied, NextNumber, AllKinds
<1>4. Records = {}
  BY <1>2 DEF Records, Recording
<1>5. StoredResumes \in [Ids -> Library!Resumes \union {None}]
  <2>1. \A id \in Ids : resumes[id] # None => Resolved(resumes[id].data) \in Library!Resumes
    BY <1>1, ResolvedIsResume DEF AloneIInv, IInv, RowsOK, Row
  <2> HIDE DEF Library!Resumes
  <2> QED BY <2>1 DEF StoredResumes
<1> QED BY <1>1, <1>3, <1>4, <1>5 DEF LibraryIInv, Library!Init

\* Alone and not killed, the routes of a resume are operations of the library: each change of a
\* resume is one step, which records what the resume becomes under the next number of its history
\* (resumes.py and create_resume_revision), although every route takes several.
THEOREM LoneHandlerIsALibrary ==
  ASSUME OneHandler, ~ AllowCrash
  PROVE  Spec => ImplementsLibrary
<1>1. LibraryIInv /\ [Next]_vars => LibraryIInv'
  BY NextLibrary
<1>2. LibraryIInv /\ [Next]_vars => [Library!Next]_<<StoredResumes, Records>>
  BY NextIsLibrary
<1> QED BY <1>1, <1>2, InitIsLibrary, PTL DEF Spec, ImplementsLibrary, Library!Spec

-----------------------------------------------------------------------------
(* What the store's steps do to other sessions and to the history *)

\* A handler's step is a step of the store.
LEMMA HandlerIInv == ASSUME IInv, NEW q \in Requests, Handler(q) PROVE IInv'
  BY NextIInv DEF Next

\* A handler's step leaves the other sessions alone.
LEMMA OthersUntouched ==
  ASSUME IInv, NEW q \in Requests, Handler(q), NEW p \in Requests, p # q
  PROVE  req'[p] = req[p]
<1>1. req \in [Requests -> Request]
  BY DEF IInv, SessionsOK
<1>2. ASSUME NEW r, req' = [req EXCEPT ![q] = r] PROVE req'[p] = req[p]
  BY <1>1, <1>2
<1>3. CASE \E kind \in Kinds, id \in Ids : \E in \in Inputs(kind) : Open(q, kind, id, in)
  <2>1. PICK kind \in Kinds, id \in Ids : \E in \in Inputs(kind) : Open(q, kind, id, in)
    BY <1>3
  <2> DEFINE work == IF kind \in Migrating \union {"duplicate"} THEN Migrated(resumes[id].data) ELSE None
             Session(in, snap) == [pc |-> FirstStep(kind, resumes[id].data), kind |-> kind, id |-> id,
                                   in |-> in, row |-> resumes[id], work |-> work, snap |-> snap, num |-> 0]
  <2>2. PICK in, snap : req' = [req EXCEPT ![q] = Session(in, snap)]
    BY <2>1, Zenon DEF Open
  <2> HIDE DEF Session
  <2> QED BY <1>2, <2>2
<1>4. CASE MigrateCommit(q)
  BY <1>1, <1>4 DEF MigrateCommit
<1>5. CASE MigrateRefresh(q)
  BY <1>1, <1>5 DEF MigrateRefresh
<1>6. CASE CheckBaseRevision(q)
  BY <1>1, <1>6 DEF CheckBaseRevision
<1>7. CASE Refresh(q) \/ NumberSnapshot(q) \/ InsertSnapshot(q)
  BY <1>1, <1>7 DEF Refresh, NumberSnapshot, InsertSnapshot
<1>8. CASE Refuse(q) \/ RowGone(q) \/ Delete(q) \/ Serialize(q) \/ Purge(q)
  BY <1>1, <1>8 DEF Refuse, RowGone, Delete, Serialize, Purge
<1>9. CASE Commit(q) \/ Create(q) \/ Duplicate(q)
  BY <1>1, <1>9 DEF Commit, Create, Duplicate, Insert
<1> QED BY <1>3, <1>4, <1>5, <1>6, <1>7, <1>8, <1>9 DEF Handler

\* Only the insertion of a snapshot and a purge write the history.
LEMMA HistoryWritten ==
  ASSUME IInv, NEW q \in Requests, Handler(q)
  PROVE  UNCHANGED revisions \/ InsertSnapshot(q) \/ Purge(q)
  BY OtherSteps DEF NumberSnapshot

\* The latest revision is a number of the history, or zero, and the largest of them.
Highest(id) ==
  /\ LatestRevision(id) \in Nat /\ LatestRevision(id) \in {0} \union Numbers(id)
  /\ Numbers(id) \subseteq Nat /\ \A m \in Numbers(id) : m <= LatestRevision(id)

\* The history of every resume has a highest number.
LEMMA LatestIsHighest == IInv => \A id \in Ids : Highest(id)
<1> SUFFICES ASSUME IInv, NEW id \in Ids PROVE Highest(id)
  OBVIOUS
<1>1. Numbers(id) \subseteq Nat /\ TypeOK /\ SomeHighest
  BY IInvParts, NumbersTyped
<1>2. PICK n \in {0} \union Numbers(id) : \A m \in Numbers(id) : m <= n
  BY DEF IInv, HistoryOK, SomeHighest
<1>3. n \in Nat /\ \A m \in {0} \union Numbers(id) : n >= m
  BY <1>1, <1>2
<1>4. LatestRevision(id) \in {0} \union Numbers(id)
  BY <1>2, <1>3 DEF LatestRevision, Max
<1> QED BY <1>1, <1>4, LatestIsNat DEF Highest

\* So it is after a step that keeps the store's invariant.
LEMMA LatestStaysHighest == IInv' => \A id \in Ids : Highest(id)'
<1>1. (IInv => \A id \in Ids : Highest(id))'
  BY LatestIsHighest, PTL
<1> QED BY <1>1

\* The revisions a handler inserts.
LEMMA InsertedNumbers ==
  ASSUME IInv, NEW q \in Requests, InsertSnapshot(q), NEW id \in Ids
  PROVE  Numbers(id)' = IF req[q].id = id THEN Numbers(id) \union {req[q].num} ELSE Numbers(id)
<1> DEFINE r == req[q]
           row == [resume |-> r.id, revision |-> r.num, data |-> r.row.data]
<1>1. r \in Request /\ r.id \in Ids /\ r.row \in Row
  BY DEF IInv, SessionsOK, SessionsResolve, Carries, InsertSnapshot
<1>2. row \in Revision /\ revisions' = Append(revisions, row)
  BY <1>1 DEF InsertSnapshot, Revision, Request, Row
<1>3. row.resume = r.id /\ row.revision = r.num
  OBVIOUS
<1> HIDE DEF row
<1> QED BY <1>2, <1>3, IInvParts, NumbersAppend

\* Unless it is a purge, a step of the store never takes a revision number back.
LEMMA LatestGrows ==
  ASSUME IInv, NEW q \in Requests, Handler(q), ~ Purge(q), NEW id \in Ids
  PROVE  LatestRevision(id)' \in Nat /\ LatestRevision(id)' >= LatestRevision(id)
<1>1. IInv'
  BY HandlerIInv
<1>2. LatestRevision(id) \in Nat /\ LatestRevision(id) \in {0} \union Numbers(id)
  BY LatestIsHighest DEF Highest
<1>3. Highest(id)'
  BY <1>1, LatestStaysHighest
<1>4. LatestRevision(id)' \in Nat /\ \A m \in Numbers(id)' : m <= LatestRevision(id)'
  BY <1>3 DEF Highest
<1>5. Numbers(id) \subseteq Numbers(id)'
  <2>1. CASE UNCHANGED revisions
    BY <2>1 DEF Numbers
  <2>2. CASE InsertSnapshot(q)
    BY <2>2, InsertedNumbers
  <2> QED BY <2>1, <2>2, HistoryWritten
<1> DEFINE n == LatestRevision(id)
           m == LatestRevision(id)'
<1>6. m >= n
  <2>1. n \in Nat /\ m \in Nat /\ (n = 0 \/ n <= m)
    BY <1>2, <1>4, <1>5
  <2> HIDE DEF n, m
  <2> QED BY <2>1
<1> QED BY <1>4, <1>6

-----------------------------------------------------------------------------
(* The invariant *)

AgentTypes ==
  /\ proposals \in [ProposalIds -> Proposal \union {None}]
  /\ accepting \in Commitment \union {None}
  /\ rejecting \in [Requests -> ProposalIds \union {None}]
  /\ applied \in [ProposalIds -> Nat]

Updating == {"migrate", "migrated", "ready", "committed", "fresh", "numbered", "serialize"}

\* A commitment a of proposal record p, and the session r that runs its update.
Committing(a, p, r) ==
  /\ p # None /\ p.status # "invalid"
  /\ a.stage # "loaded" => r.pc = "idle"
  /\ a.stage = "loaded" => r.pc \in Updating /\ r.id = p.resume /\ r.kind \in {"update", None}

AcceptanceOK ==
  accepting # None => Committing(accepting, proposals[accepting.proposal], req[Agent])

RejectingOK ==
  \A q \in Requests, p \in ProposalIds :
    rejecting[q] # None /\ rejecting[q] = p => proposals[p] # None /\ proposals[p].status # "invalid"

\* Once the revision check has passed, the proposal's base is its source, and the
\* resume moves on from it: what the update takes and inserts is a later number.
Checked(p, id) ==
  /\ proposals[p].source = proposals[p].base
  /\ proposals[p].base <= LatestRevision(id)
  /\ req[Agent].pc = "numbered" => proposals[p].base < req[Agent].num
  /\ req[Agent].pc = "serialize" => proposals[p].base < LatestRevision(id) /\ applied[p] > 0

CheckedOK ==
  \A p \in ProposalIds, id \in Ids :
    accepting # None /\ accepting.proposal = p /\ accepting.stage # "read" /\ proposals[p].resume = id
      => Checked(p, id)

\* What the table of proposals says of the history that the commits made.
Unsaved == \A p \in ProposalIds : proposals[p] = None => applied[p] = 0

MarksOK == AcceptedMeansApplied /\ InvalidIsNeverApplied /\ Unsaved

AgentIInv == IInv /\ AgentTypes /\ AcceptanceOK /\ RejectingOK /\ CheckedOK /\ MarksOK

\* Numbers and the latest revision depend on the revision table only.
LEMMA SameHistory ==
  ASSUME UNCHANGED revisions, NEW id \in Ids
  PROVE  Numbers(id)' = Numbers(id) /\ LatestRevision(id)' = LatestRevision(id)
  BY DEF Numbers, LatestRevision

\* Steps that leave the store alone.
LEMMA StoreKept ==
  ASSUME IInv, UNCHANGED <<resumes, revisions, req>>
  PROVE  IInv'
  BY NextIInv DEF vars

\* What was checked stays so while the session is kept and the history grows.
LEMMA CheckedStays ==
  ASSUME AgentIInv, NEW p \in ProposalIds, NEW id \in Ids, proposals[p] # None, Checked(p, id),
         proposals'[p] = proposals[p], applied' = applied, req'[Agent] = req[Agent],
         LatestRevision(id)' \in Nat, LatestRevision(id)' >= LatestRevision(id)
  PROVE  Checked(p, id)'
<1> DEFINE n == LatestRevision(id)
           m == LatestRevision(id)'
           b == proposals[p].base
<1>1. n \in Nat /\ m \in Nat /\ m >= n
  BY LatestTyped DEF AgentIInv
<1>2. b \in Nat
  BY DEF AgentIInv, AgentTypes, Proposal
<1>3. (b <= n => b <= m) /\ (b < n => b < m)
  <2> HIDE DEF b, n, m
  <2> QED BY <1>1, <1>2
<1> QED BY <1>3 DEF Checked

\* A step of the store that leaves a running update alone and takes no number back.
LEMMA StoreOnly ==
  ASSUME AgentIInv, IInv', UNCHANGED agentVars,
         accepting # None =>
           /\ req'[Agent] = req[Agent]
           /\ \A id \in Ids : LatestRevision(id)' \in Nat /\ LatestRevision(id)' >= LatestRevision(id)
  PROVE  AgentIInv'
<1>1. AgentTypes' /\ RejectingOK' /\ MarksOK' /\ AcceptanceOK'
  BY DEF AgentIInv, agentVars, AgentTypes, RejectingOK, MarksOK, AcceptedMeansApplied,
         InvalidIsNeverApplied, Unsaved, AcceptanceOK
<1>2. CheckedOK'
  <2> SUFFICES ASSUME NEW p \in ProposalIds, NEW id \in Ids, accepting # None,
                      accepting.proposal = p, accepting.stage # "read", proposals[p].resume = id
               PROVE  Checked(p, id)'
    BY DEF CheckedOK, agentVars
  <2>1. Checked(p, id) /\ proposals[p] # None
    BY DEF AgentIInv, CheckedOK, AcceptanceOK, Committing
  <2> QED BY <2>1, CheckedStays DEF agentVars
<1> QED BY <1>1, <1>2 DEF AgentIInv

-----------------------------------------------------------------------------
(* The steps of a proposal *)

\* Saving a proposal touches none that is being committed or rejected.
LEMMA SaveProposalStep ==
  ASSUME AgentIInv, NEW p \in ProposalIds, NEW id \in Ids, NEW source \in Numbers(id),
         NEW valid \in BOOLEAN, SaveProposal(p, id, source, valid)
  PROVE  AgentIInv'
<1> DEFINE new == [resume |-> id, source |-> source, base |-> LatestRevision(id), created |-> None,
                   status |-> IF valid THEN "pending" ELSE "invalid"]
<1>1. /\ proposals[p] = None /\ proposals' = [proposals EXCEPT ![p] = new]
      /\ UNCHANGED <<resumes, revisions, req, accepting, rejecting, applied>>
  BY DEF SaveProposal
<1>2. IInv /\ IInv'
  BY <1>1, StoreKept DEF AgentIInv
<1>3. new \in Proposal
  BY <1>2, LatestIsHighest DEF Highest, Proposal
<1>4. new.status \in {"pending", "invalid"}
  OBVIOUS
<1> HIDE DEF new
<1>5. AgentTypes'
  BY <1>1, <1>3 DEF AgentIInv, AgentTypes
<1>6. proposals'[p] = new /\ \A other \in ProposalIds \ {p} : proposals'[other] = proposals[other]
  BY <1>1 DEF AgentIInv, AgentTypes
<1>7. ASSUME accepting # None
      PROVE  accepting.proposal \in ProposalIds \ {p} /\ proposals[accepting.proposal] # None
  BY <1>1, <1>7 DEF AgentIInv, AcceptanceOK, Committing, AgentTypes, Commitment
<1>8. AcceptanceOK'
  BY <1>1, <1>6, <1>7 DEF AgentIInv, AcceptanceOK
<1>9. RejectingOK'
  BY <1>1, <1>6 DEF AgentIInv, RejectingOK
<1>10. CheckedOK'
  <2> SUFFICES ASSUME NEW other \in ProposalIds, NEW key \in Ids, accepting # None,
                      accepting.proposal = other, accepting.stage # "read",
                      proposals'[other].resume = key
               PROVE  Checked(other, key)'
    BY <1>1 DEF CheckedOK
  <2>1. proposals'[other] = proposals[other] /\ Checked(other, key) /\ LatestRevision(key)' = LatestRevision(key)
    BY <1>1, <1>6, <1>7, SameHistory DEF AgentIInv, CheckedOK
  <2> QED BY <1>1, <2>1 DEF Checked
<1>11. MarksOK'
  <2>1. applied[p] = 0
    BY <1>1 DEF AgentIInv, MarksOK, Unsaved
  <2> QED BY <1>1, <1>3, <1>4, <1>6, <2>1 DEF AgentIInv, MarksOK, Unsaved, AcceptedMeansApplied, InvalidIsNeverApplied
<1> QED BY <1>2, <1>5, <1>8, <1>9, <1>10, <1>11 DEF AgentIInv

\* Reading and checking move only the commitment; the check compares the revisions.
LEMMA AcceptCheckStep ==
  ASSUME AgentIInv, AcceptCheck \/ \E p \in ProposalIds, base \in 1..MaxRevision : AcceptRead(p, base)
  PROVE  AgentIInv'
<1>1. UNCHANGED <<resumes, revisions, req, proposals, rejecting, applied>>
  BY DEF AcceptCheck, AcceptRead
<1>2. IInv /\ IInv' /\ RejectingOK' /\ MarksOK'
  BY <1>1, StoreKept DEF AgentIInv, RejectingOK, MarksOK, Unsaved, AcceptedMeansApplied, InvalidIsNeverApplied
<1>3. CASE AcceptCheck
  <2> DEFINE new == [accepting EXCEPT !.stage = "checked"]
  <2>0. PICK p \in ProposalIds : p = accepting.proposal
    BY <1>3 DEF AgentIInv, AgentTypes, AcceptCheck, Commitment
  <2>1. /\ accepting \in Commitment /\ accepting.stage = "read"
        /\ proposals[p] \in Proposal /\ Committing(accepting, proposals[p], req[Agent])
    BY <1>3, <2>0 DEF AgentIInv, AgentTypes, AcceptanceOK, Committing, AcceptCheck
  <2>2. CASE accepting' = None
    BY <1>1, <1>2, <2>2 DEF AgentIInv, AgentTypes, AcceptanceOK, CheckedOK
  <2>3. CASE accepting' # None
    <3>1. /\ accepting' = new
          /\ {proposals[p].source, proposals[p].base, LatestRevision(proposals[p].resume)} = {accepting.base}
      BY <1>3, <2>0, <2>3 DEF AcceptCheck
    <3>2. new \in Commitment /\ new.proposal = p /\ new.stage = "checked"
      BY <2>0, <2>1 DEF Commitment
    <3> HIDE DEF new
    <3>3. Committing(new, proposals[p], req[Agent]) /\ req[Agent].pc = "idle"
      BY <2>1, <3>2 DEF Committing
    <3>4. ASSUME NEW id \in Ids, proposals[p].resume = id PROVE Checked(p, id)
      <4>1. proposals[p].source = proposals[p].base /\ proposals[p].base = LatestRevision(id)
        BY <3>1, <3>4
      <4>2. LatestRevision(id) <= LatestRevision(id)
        BY <1>2, LatestTyped
      <4> QED BY <3>3, <4>1, <4>2 DEF Checked
    <3>5. ASSUME NEW id \in Ids, proposals[p].resume = id PROVE Checked(p, id)'
      BY <1>1, <3>4, <3>5, SameHistory DEF Checked
    <3>6. CheckedOK'
      BY <1>1, <3>1, <3>2, <3>5 DEF CheckedOK
    <3> QED BY <1>1, <1>2, <3>1, <3>2, <3>3, <3>6 DEF AgentIInv, AgentTypes, AcceptanceOK
  <2> QED BY <2>2, <2>3
<1>4. ASSUME NEW p \in ProposalIds, NEW base \in 1..MaxRevision, AcceptRead(p, base)
      PROVE  AgentIInv'
  <2> DEFINE new == [proposal |-> p, base |-> base, stage |-> "read"]
  <2>1. new \in Commitment /\ new.stage = "read" /\ new.proposal = p
    BY DEF Commitment
  <2>2. accepting' = new
    BY <1>4 DEF AcceptRead
  <2> HIDE DEF new
  <2>3. Committing(new, proposals[p], req[Agent])
    BY <1>4, <2>1 DEF AcceptRead, Committing
  <2> QED BY <1>1, <1>2, <2>1, <2>2, <2>3 DEF AgentIInv, AgentTypes, AcceptanceOK, CheckedOK
<1> QED BY <1>3, <1>4

\* A step that ends the commitment, or finds none, keeps what remains.
LEMMA CommitmentEnds ==
  ASSUME AgentIInv, IInv', accepting' = None, UNCHANGED <<proposals, rejecting, applied>>
  PROVE  AgentIInv'
  BY DEF AgentIInv, AgentTypes, AcceptanceOK, RejectingOK, CheckedOK, MarksOK, Unsaved,
         AcceptedMeansApplied, InvalidIsNeverApplied

\* The session that a checked commitment opens carries what update_resume needs.
LEMMA AcceptLoadStep == ASSUME AgentIInv, AcceptLoad PROVE AgentIInv'
<1>1. /\ IInv /\ accepting \in Commitment /\ accepting.stage = "checked" /\ accepting # None
      /\ UNCHANGED <<resumes, revisions, proposals, rejecting, applied>>
  BY DEF AgentIInv, AgentTypes, AcceptLoad
<1>2. PICK p \in ProposalIds : p = accepting.proposal
  BY <1>1 DEF Commitment
<1>3. Committing(accepting, proposals[p], req[Agent]) /\ proposals[p] \in Proposal
  BY <1>1, <1>2 DEF AgentIInv, AgentTypes, AcceptanceOK, Committing
<1>4. PICK id \in Ids : id = proposals[p].resume
  BY <1>3 DEF Proposal
<1>5. CASE ~ Stored(id)
  BY <1>1, <1>2, <1>4, <1>5, StoreKept, CommitmentEnds DEF AcceptLoad
<1>6. CASE Stored(id)
  <2> DEFINE row == resumes[id]
             Session(snap, patched) ==
               [Idle EXCEPT !.pc = FirstStep("update", row.data), !.kind = "update", !.id = id,
                            !.row = row, !.snap = snap, !.work = Migrated(row.data),
                            !.in = [NoInput EXCEPT !.content = patched, !.target = snap.active]]
             new == [accepting EXCEPT !.stage = "loaded"]
  <2>1. PICK snap \in Snapshots(id, accepting.base), patched \in Contents :
          accepting' = new /\ req' = [req EXCEPT ![Agent] = Session(snap, patched)]
    BY <1>2, <1>4, <1>6, Zenon DEF AcceptLoad
  <2> DEFINE s == Session(snap, patched)
  <2>2. row \in Row /\ WellFormed(row.data)
    BY <1>1, <1>6, StoredResolves DEF IInv
  <2>3. Migrated(row.data) \in Data /\ WellFormed(Migrated(row.data))
    BY <2>2, MigratedResolves DEF Row
  <2>4. snap \in Data
    <3>1. \A i \in 1..Len(revisions) : revisions[i] \in Revision
      BY <1>1 DEF IInv, HistoryOK
    <3>2. \E i \in 1..Len(revisions) : snap = revisions[i].data
      BY DEF Snapshots
    <3> QED BY <3>1, <3>2 DEF Revision
  <2>5. s.in \in Input /\ s.in.content \in Contents
    BY <2>4 DEF Idle, NoInput, Input, LocaleArg, Data
  <2> HIDE DEF row
  <2>6. /\ s.pc = FirstStep("update", row.data) /\ s.kind = "update" /\ s.id = id /\ s.row = row
        /\ s.work = Migrated(row.data)
    BY DEF Idle
  <2>7. FirstStep("update", row.data) \in {"migrate", "ready"}
    BY <2>2 DEF FirstStep, Row, Data, Migrating
  <2>8. s \in Request
    <3>1. /\ FirstStep("update", row.data) \in Steps /\ "update" \in AllKinds
          /\ [NoInput EXCEPT !.content = patched, !.target = snap.active] \in Input
      BY <2>5, <2>7 DEF Steps, AllKinds, Idle
    <3> QED BY <2>2, <2>3, <2>4, <3>1 DEF Idle, Request
  <2> HIDE DEF s, Session
  <2>9. Carries(s)
    BY <2>2, <2>3, <2>5, <2>6 DEF Carries
  <2>10. IInv' /\ req'[Agent] = s
    <3>1. SessionsOK' /\ RowsOK' /\ HistoryOK'
      BY <1>1, <2>1, <2>8, <2>9, AgentAssumption, SessionStep, RowsKept, HistoryKept DEF IInv, s
    <3>2. req \in [Requests -> Request] /\ Agent \in Requests
      BY <1>1, AgentAssumption DEF IInv, SessionsOK
    <3> QED BY <2>1, <3>1, <3>2 DEF IInv, s
  <2>11. new \in Commitment /\ new.proposal = p /\ new.stage = "loaded"
    BY <1>1, <1>2 DEF Commitment
  <2> HIDE DEF new
  <2>12. Committing(new, proposals[p], s)
    BY <1>3, <1>4, <2>6, <2>11, <2>7 DEF Committing, Updating
  <2>13. AcceptanceOK'
    BY <1>1, <2>1, <2>10, <2>11, <2>12 DEF AcceptanceOK
  <2>14. CheckedOK'
    <3> SUFFICES ASSUME NEW key \in Ids, proposals[p].resume = key
                 PROVE  Checked(p, key)'
      BY <1>1, <2>1, <2>11 DEF CheckedOK
    <3>1. Checked(p, key) /\ LatestRevision(key)' = LatestRevision(key)
      BY <1>1, <1>2, SameHistory DEF AgentIInv, CheckedOK
    <3> QED BY <1>1, <2>6, <2>10, <2>7, <3>1 DEF Checked
  <2> QED BY <1>1, <2>1, <2>10, <2>11, <2>13, <2>14 DEF AgentIInv, AgentTypes, RejectingOK, MarksOK,
             Unsaved, AcceptedMeansApplied, InvalidIsNeverApplied
<1> QED BY <1>5, <1>6

\* update_resume on its way to the snapshot it inserts.
LEMMA UpdateMoves ==
  ASSUME AgentIInv, IInv', accepting # None, accepting.stage = "loaded",
         UNCHANGED <<revisions, proposals, accepting, rejecting, applied>>,
         NEW s, req' = [req EXCEPT ![Agent] = s],
         s.pc \in Updating \ {"serialize"}, s.id = req[Agent].id, s.kind \in {"update", None},
         s.pc = "numbered" => \A id \in Ids : id = s.id => s.num = LatestRevision(id) + 1
  PROVE  AgentIInv'
<1>1. req'[Agent] = s
  BY AgentAssumption DEF AgentIInv, IInv, SessionsOK
<1>2. PICK p \in ProposalIds : p = accepting.proposal
  BY DEF AgentIInv, AgentTypes, Commitment
<1>3. Committing(accepting, proposals[p], req[Agent]) /\ proposals[p] \in Proposal
  BY <1>2 DEF AgentIInv, AgentTypes, AcceptanceOK, Committing
<1>4. Committing(accepting, proposals[p], s)
  BY <1>3 DEF Committing
<1>5. CheckedOK'
  <2> SUFFICES ASSUME NEW id \in Ids, proposals[p].resume = id
               PROVE  Checked(p, id)'
    BY <1>2 DEF CheckedOK
  <2> DEFINE n == LatestRevision(id)
             b == proposals[p].base
  <2>1. Checked(p, id) /\ LatestRevision(id)' = n
    BY <1>2, SameHistory DEF AgentIInv, CheckedOK
  <2>2. n \in Nat /\ b \in Nat /\ b <= n
    BY <1>3, <2>1, LatestTyped DEF AgentIInv, Checked, Proposal
  <2>3. s.pc = "numbered" => s.num = n + 1
    BY <1>3 DEF Committing
  <2>4. s.pc = "numbered" => b < s.num
    <3> HIDE DEF b, n
    <3> QED BY <2>2, <2>3
  <2> QED BY <1>1, <2>1, <2>4 DEF Checked
<1> QED BY <1>1, <1>2, <1>4, <1>5 DEF AgentIInv, AgentTypes, AcceptanceOK, RejectingOK, MarksOK, Unsaved,
           AcceptedMeansApplied, InvalidIsNeverApplied

\* The insertion makes a revision newer than the proposal's base.
LEMMA UpdateInserts ==
  ASSUME AgentIInv, IInv', accepting # None, accepting.stage = "loaded", InsertSnapshot(Agent),
         applied' = [applied EXCEPT ![accepting.proposal] = @ + 1],
         UNCHANGED <<proposals, accepting, rejecting>>
  PROVE  AgentIInv'
<1> DEFINE r == req[Agent]
           s == [r EXCEPT !.pc = "serialize", !.num = 0]
<1>1. IInv /\ Agent \in Requests /\ req \in [Requests -> Request] /\ r \in Request /\ r.pc = "numbered"
  BY AgentAssumption DEF AgentIInv, IInv, SessionsOK, InsertSnapshot
<1>2. PICK p \in ProposalIds : p = accepting.proposal
  BY DEF AgentIInv, AgentTypes, Commitment
<1>3. Committing(accepting, proposals[p], r) /\ proposals[p] \in Proposal
  BY <1>2 DEF AgentIInv, AgentTypes, AcceptanceOK, Committing
<1>4. PICK id \in Ids : id = proposals[p].resume
  BY <1>3 DEF Proposal
<1>5. req'[Agent] = s
  <2>1. r.kind # "snapshot"
    BY <1>3, ConstantsAssumption DEF Committing, AllKinds
  <2> QED BY <1>1, <2>1 DEF InsertSnapshot
<1>6. s.pc = "serialize" /\ s.id = r.id /\ s.kind = r.kind
  BY <1>1 DEF Request
<1>7. r.id = id /\ r.num \in Nat
  BY <1>1, <1>3, <1>4 DEF Committing, Request
<1> HIDE DEF s, r
<1>8. Committing(accepting, proposals[p], s)
  BY <1>3, <1>6 DEF Committing, Updating
<1>9. Checked(p, id) /\ proposals[p].base < r.num
  BY <1>1, <1>2, <1>4 DEF AgentIInv, CheckedOK, Checked, r
<1>10. /\ applied \in [ProposalIds -> Nat] /\ applied'[p] = applied[p] + 1 /\ applied'[p] \in Nat /\ applied'[p] > 0
       /\ \A other \in ProposalIds \ {p} : applied'[other] = applied[other]
  <2>1. applied \in [ProposalIds -> Nat]
    BY DEF AgentIInv, AgentTypes
  <2>2. applied'[p] = applied[p] + 1 /\ applied[p] \in Nat
    BY <1>2, <2>1
  <2> QED BY <1>2, <2>1, <2>2
<1>11. proposals[p].base < LatestRevision(id)' /\ proposals[p].base <= LatestRevision(id)'
  <2>1. r.num \in Numbers(id)'
    BY <1>1, <1>7, InsertedNumbers DEF r
  <2>2. Highest(id)'
    BY LatestStaysHighest
  <2>3. LatestRevision(id)' \in Nat /\ r.num <= LatestRevision(id)' /\ proposals[p].base \in Nat
    BY <1>3, <2>1, <2>2 DEF Highest, Proposal
  <2> DEFINE b == proposals[p].base
             m == LatestRevision(id)'
             k == r.num
  <2>4. b < k /\ k <= m /\ b \in Nat /\ k \in Nat /\ m \in Nat
    BY <1>7, <1>9, <2>3
  <2> HIDE DEF b, m, k
  <2>5. b < m /\ b <= m
    BY <2>4
  <2> QED BY <2>5 DEF b, m
<1>12. Checked(p, id)'
  BY <1>5, <1>6, <1>9, <1>10, <1>11 DEF Checked
<1>13. AcceptanceOK' /\ CheckedOK'
  BY <1>2, <1>4, <1>5, <1>8, <1>12 DEF AcceptanceOK, CheckedOK
<1>14. AgentTypes' /\ RejectingOK'
  BY <1>2, <1>10 DEF AgentIInv, AgentTypes, RejectingOK
<1>15. MarksOK'
  <2>1. proposals[p] # None /\ proposals[p].status # "invalid"
    BY <1>3 DEF Committing
  <2> QED BY <1>10, <2>1 DEF AgentIInv, MarksOK, Unsaved, AcceptedMeansApplied, InvalidIsNeverApplied
<1> QED BY <1>13, <1>14, <1>15 DEF AgentIInv

\* Each statement of update_resume, in the session of the agent.
LEMMA AcceptUpdateStep == ASSUME AgentIInv, AcceptUpdate PROVE AgentIInv'
<1> DEFINE r == req[Agent]
<1>1. /\ IInv /\ Agent \in Requests /\ r \in Request /\ accepting # None /\ accepting.stage = "loaded"
      /\ UNCHANGED <<proposals, rejecting>>
  BY AgentAssumption DEF AgentIInv, IInv, SessionsOK, AcceptUpdate
<1>2. r.pc \in Updating /\ r.kind \in {"update", None}
  BY <1>1 DEF AgentIInv, AcceptanceOK, Committing
<1>3. CASE \/ MigrateCommit(Agent) \/ MigrateRefresh(Agent) \/ Commit(Agent)
           \/ Refresh(Agent) \/ NumberSnapshot(Agent) \/ InsertSnapshot(Agent)
           \/ Refuse(Agent) \/ RowGone(Agent)
  <2>1. IInv'
    BY <1>1, <1>3, HandlerIInv DEF Handler
  <2>2. CASE accepting' = None
    BY <1>1, <2>1, <2>2, CommitmentEnds DEF AcceptUpdate
  <2>3. CASE /\ InsertSnapshot(Agent) /\ UNCHANGED accepting
             /\ applied' = [applied EXCEPT ![accepting.proposal] = @ + 1]
    BY <1>1, <2>1, <2>3, UpdateInserts
  <2>4. CASE /\ \/ MigrateCommit(Agent) \/ MigrateRefresh(Agent)
                \/ Commit(Agent) \/ Refresh(Agent) \/ NumberSnapshot(Agent)
             /\ UNCHANGED <<accepting, applied>>
    <3>1. UNCHANGED <<accepting, applied>>
      BY <2>4
    <3>2. ASSUME UNCHANGED revisions, NEW s, req' = [req EXCEPT ![Agent] = s],
                 s.pc \in Updating \ {"serialize"}, s.id = r.id, s.kind \in {"update", None},
                 s.pc = "numbered" => \A id \in Ids : id = s.id => s.num = LatestRevision(id) + 1
          PROVE  AgentIInv'
      BY <1>1, <2>1, <3>1, <3>2, UpdateMoves
    <3>3. CASE MigrateCommit(Agent)
      <4> DEFINE s == [r EXCEPT !.pc = "migrated"]
      <4>1. s.pc = "migrated" /\ s.id = r.id /\ s.kind = r.kind
        BY <1>1 DEF Request
      <4>2. req' = [req EXCEPT ![Agent] = s] /\ UNCHANGED revisions
        BY <1>1, <3>3 DEF MigrateCommit, IInv, SessionsOK
      <4> HIDE DEF s
      <4> QED BY <1>2, <3>2, <4>1, <4>2 DEF Updating
    <3>4. CASE MigrateRefresh(Agent)
      <4> DEFINE s == [r EXCEPT !.pc = IF r.kind = "move" THEN "check" ELSE "ready", !.row = resumes[r.id]]
      <4>1. r.kind # "move"
        BY <1>2, ConstantsAssumption DEF AllKinds
      <4>2. s.pc = "ready" /\ s.id = r.id /\ s.kind = r.kind
        BY <1>1, <4>1 DEF Request
      <4>3. req' = [req EXCEPT ![Agent] = s] /\ UNCHANGED revisions
        BY <1>1, <3>4 DEF MigrateRefresh, IInv, SessionsOK
      <4> HIDE DEF s
      <4> QED BY <1>2, <3>2, <4>2, <4>3 DEF Updating
    <3>5. CASE Commit(Agent)
      <4> DEFINE s == Writing(r.id, r.row)
      <4>1. s.pc = "committed" /\ s.id = r.id /\ s.kind = None
        BY DEF Writing, Idle
      <4>2. req' = [req EXCEPT ![Agent] = s] /\ UNCHANGED revisions
        BY <3>5 DEF Commit
      <4> HIDE DEF s
      <4> QED BY <3>2, <4>1, <4>2 DEF Updating
    <3>6. CASE Refresh(Agent)
      <4> DEFINE s == [r EXCEPT !.pc = "fresh", !.row = resumes[r.id]]
      <4>1. s.pc = "fresh" /\ s.id = r.id /\ s.kind = r.kind
        BY <1>1 DEF Request
      <4>2. req' = [req EXCEPT ![Agent] = s] /\ UNCHANGED revisions
        BY <1>1, <3>6 DEF Refresh, IInv, SessionsOK
      <4> HIDE DEF s
      <4> QED BY <1>2, <3>2, <4>1, <4>2 DEF Updating
    <3>7. CASE NumberSnapshot(Agent)
      <4> DEFINE s == [r EXCEPT !.pc = "numbered", !.num = LatestRevision(r.id) + 1]
      <4>1. s.pc = "numbered" /\ s.id = r.id /\ s.kind = r.kind /\ s.num = LatestRevision(r.id) + 1
        BY <1>1 DEF Request
      <4>2. req' = [req EXCEPT ![Agent] = s] /\ UNCHANGED revisions
        BY <1>1, <3>7 DEF NumberSnapshot, IInv, SessionsOK
      <4> HIDE DEF s
      <4> QED BY <1>2, <3>2, <4>1, <4>2 DEF Updating
    <3> QED BY <2>4, <3>3, <3>4, <3>5, <3>6, <3>7
  <2> QED BY <2>2, <2>3, <2>4 DEF AcceptUpdate
<1> QED BY <1>3 DEF AcceptUpdate

\* Marking a proposal: its revision is there, and newer than its source.
LEMMA AcceptFinishStep == ASSUME AgentIInv, AcceptFinish PROVE AgentIInv'
<1>1. /\ accepting \in Commitment /\ req[Agent].pc = "serialize" /\ accepting' = None
      /\ UNCHANGED <<resumes, revisions, req, rejecting, applied>>
  BY DEF AgentIInv, AgentTypes, AcceptFinish
<1>2. IInv /\ IInv' /\ AgentTypes
  BY <1>1, StoreKept DEF AgentIInv
<1>3. PICK p \in ProposalIds : p = accepting.proposal
  BY <1>1 DEF Commitment
<1>4. Committing(accepting, proposals[p], req[Agent]) /\ proposals[p] \in Proposal
  BY <1>2, <1>3 DEF AgentIInv, AgentTypes, AcceptanceOK, Committing, AcceptFinish
<1>5. PICK id \in Ids : id = proposals[p].resume
  BY <1>4 DEF Proposal
<1> DEFINE n == LatestRevision(id)
           new == [proposals[p] EXCEPT !.status = "accepted", !.created = n]
<1>6. proposals' = [proposals EXCEPT ![p] = new]
  BY <1>2, <1>3, <1>4, <1>5 DEF AcceptFinish, AgentTypes, Proposal
<1>7. n \in Nat
  BY <1>2, LatestTyped
<1>8. /\ new \in Proposal /\ new.status = "accepted" /\ new.created = n
      /\ new.source = proposals[p].source
  BY <1>4, <1>7 DEF Proposal
<1>9. proposals[p].source < n /\ applied[p] > 0
  <2>1. accepting.stage # "read"
    BY <1>1, <1>4 DEF Committing
  <2>2. Checked(p, id)
    BY <1>3, <1>5, <2>1, <1>1 DEF AgentIInv, CheckedOK, AcceptFinish
  <2> QED BY <1>1, <2>2 DEF Checked
<1>10. new # None /\ new.created > new.source
  <2>1. new.created > new.source
    <3> DEFINE k == proposals[p].source
    <3>1. k \in Nat /\ k < n
      BY <1>4, <1>9 DEF Proposal
    <3>2. n > k
      <4> HIDE DEF n, k
      <4> QED BY <1>7, <3>1
    <3> QED BY <1>8, <3>2
  <2> QED BY <1>8, <2>1, ProposalAssumption
<1> HIDE DEF new, n
<1>11. proposals'[p] = new /\ \A other \in ProposalIds \ {p} : proposals'[other] = proposals[other]
  BY <1>2, <1>6 DEF AgentTypes
<1>12. AgentTypes'
  BY <1>1, <1>2, <1>6, <1>8 DEF AgentTypes
<1>13. RejectingOK'
  BY <1>1, <1>8, <1>10, <1>11 DEF AgentIInv, RejectingOK
<1>14. MarksOK'
  BY <1>1, <1>8, <1>9, <1>10, <1>11 DEF AgentIInv, MarksOK, Unsaved, AcceptedMeansApplied, InvalidIsNeverApplied
<1> QED BY <1>1, <1>2, <1>12, <1>13, <1>14 DEF AgentIInv, AcceptanceOK, CheckedOK

\* The answer is a step of the store outside any commitment.
LEMMA AcceptAnswerStep == ASSUME AgentIInv, AcceptAnswer PROVE AgentIInv'
<1>1. IInv'
  BY AgentAssumption, HandlerIInv DEF AcceptAnswer, Handler, AgentIInv
<1> QED BY <1>1, StoreOnly DEF AcceptAnswer

\* A rejection may lose against an acceptance, but never touches an invalid proposal.
LEMMA RejectStep ==
  ASSUME AgentIInv, NEW q \in Requests \ {Agent},
         RejectCommit(q) \/ \E p \in ProposalIds : RejectRead(q, p)
  PROVE  AgentIInv'
<1>1. UNCHANGED <<resumes, revisions, req, accepting, applied>>
  BY DEF RejectCommit, RejectRead
<1>2. IInv /\ IInv' /\ AgentTypes
  BY <1>1, StoreKept DEF AgentIInv
<1>3. ASSUME NEW p \in ProposalIds, RejectRead(q, p)
      PROVE  AgentIInv'
  <2>1. UNCHANGED proposals /\ rejecting' = [rejecting EXCEPT ![q] = p]
        /\ proposals[p] # None /\ proposals[p].status = "pending"
    BY <1>3 DEF RejectRead
  <2>2. AgentTypes' /\ RejectingOK'
    BY <1>1, <1>2, <2>1 DEF AgentIInv, AgentTypes, RejectingOK
  <2>3. AcceptanceOK' /\ MarksOK'
    BY <1>1, <2>1 DEF AgentIInv, AcceptanceOK, MarksOK, Unsaved, AcceptedMeansApplied, InvalidIsNeverApplied
  <2>4. CheckedOK'
    BY <1>1, <2>1, SameHistory DEF AgentIInv, CheckedOK, Checked
  <2> QED BY <1>2, <2>2, <2>3, <2>4 DEF AgentIInv
<1>4. CASE RejectCommit(q)
  <2>1. PICK p \in ProposalIds : p = rejecting[q]
    BY <1>2, <1>4 DEF AgentTypes, RejectCommit
  <2> DEFINE new == [proposals[p] EXCEPT !.status = "rejected"]
  <2>2. proposals[p] # None /\ proposals[p].status # "invalid" /\ proposals[p] \in Proposal
    BY <1>2, <1>4, <2>1 DEF AgentIInv, AgentTypes, RejectingOK, RejectCommit
  <2>3. proposals' = [proposals EXCEPT ![p] = new] /\ rejecting' = [rejecting EXCEPT ![q] = None]
    BY <1>2, <1>4, <2>1 DEF RejectCommit, AgentTypes
  <2>4. new \in Proposal /\ new.status = "rejected" /\ new.resume = proposals[p].resume
        /\ new.source = proposals[p].source /\ new.base = proposals[p].base
    BY <2>2 DEF Proposal
  <2>5. new # None
    BY <2>4, ProposalAssumption
  <2> HIDE DEF new
  <2>6. proposals'[p] = new /\ \A other \in ProposalIds \ {p} : proposals'[other] = proposals[other]
    BY <1>2, <2>3 DEF AgentTypes
  <2>7. AgentTypes'
    BY <1>1, <1>2, <2>3, <2>4 DEF AgentTypes
  <2>8. RejectingOK'
    <3> SUFFICES ASSUME NEW k \in Requests, NEW other \in ProposalIds, rejecting'[k] # None, rejecting'[k] = other
                 PROVE  proposals'[other] # None /\ proposals'[other].status # "invalid"
      BY DEF RejectingOK
    <3>1. rejecting[k] # None /\ rejecting[k] = other
      BY <1>2, <2>3 DEF AgentTypes
    <3>2. proposals[other] # None /\ proposals[other].status # "invalid"
      BY <3>1 DEF AgentIInv, RejectingOK
    <3> QED BY <2>4, <2>5, <2>6, <3>2
  <2>9. AcceptanceOK'
    <3> SUFFICES ASSUME accepting # None
                 PROVE  Committing(accepting, proposals'[accepting.proposal], req[Agent])
      BY <1>1 DEF AcceptanceOK
    <3>1. accepting.proposal \in ProposalIds /\ Committing(accepting, proposals[accepting.proposal], req[Agent])
      BY <1>2 DEF AgentIInv, AgentTypes, AcceptanceOK, Commitment
    <3> QED BY <2>4, <2>5, <2>6, <3>1 DEF Committing
  <2>10. CheckedOK'
    <3> SUFFICES ASSUME NEW other \in ProposalIds, NEW id \in Ids, accepting # None,
                        accepting.proposal = other, accepting.stage # "read", proposals'[other].resume = id
                 PROVE  Checked(other, id)'
      BY <1>1 DEF CheckedOK
    <3>1. /\ proposals'[other].resume = proposals[other].resume
          /\ proposals'[other].source = proposals[other].source /\ proposals'[other].base = proposals[other].base
      BY <2>4, <2>6
    <3>2. Checked(other, id) /\ LatestRevision(id)' = LatestRevision(id)
      BY <1>1, <3>1, SameHistory DEF AgentIInv, CheckedOK
    <3> QED BY <1>1, <3>1, <3>2 DEF Checked
  <2>11. MarksOK'
    BY <1>1, <2>2, <2>4, <2>5, <2>6 DEF AgentIInv, MarksOK, Unsaved, AcceptedMeansApplied, InvalidIsNeverApplied
  <2> QED BY <1>2, <2>7, <2>8, <2>9, <2>10, <2>11 DEF AgentIInv
<1> QED BY <1>3, <1>4

\* The other routes leave the agent's session alone and purge nothing under it.
LEMMA RouteStep == ASSUME AgentIInv, NEW q \in Requests \ {Agent}, Route(q) PROVE AgentIInv'
<1>1. IInv /\ Handler(q) /\ UNCHANGED agentVars /\ (accepting # None => ~ Purge(q)) /\ Agent \in Requests
  BY AgentAssumption DEF AgentIInv, Route
<1>2. IInv' /\ req'[Agent] = req[Agent]
  BY <1>1, HandlerIInv, OthersUntouched
<1>3. accepting # None =>
        \A id \in Ids : LatestRevision(id)' \in Nat /\ LatestRevision(id)' >= LatestRevision(id)
  BY <1>1, LatestGrows
<1> QED BY <1>1, <1>2, <1>3, StoreOnly

\* A kill ends the commitment and the rejections under way.
LEMMA RestartStep == ASSUME AgentIInv, Restart PROVE AgentIInv'
<1>1. IInv'
  BY CrashStep DEF AgentIInv, Restart
<1>2. accepting' = None /\ UNCHANGED <<proposals, applied>> /\ rejecting' = [q \in Requests |-> None]
  BY DEF Restart
<1>3. RejectingOK'
  BY <1>2 DEF RejectingOK
<1> QED BY <1>1, <1>2, <1>3 DEF AgentIInv, AgentTypes, AcceptanceOK, CheckedOK, MarksOK, Unsaved,
           AcceptedMeansApplied, InvalidIsNeverApplied

-----------------------------------------------------------------------------
(* What holds in every behaviour *)

\* Initially there is no proposal, no commitment and no rejection.
LEMMA AgentInitIInv == AgentInit => AgentIInv
<1> SUFFICES ASSUME AgentInit PROVE AgentIInv
  OBVIOUS
<1>1. IInv
  BY InitIInv DEF AgentInit
<1> QED BY <1>1 DEF AgentInit, AgentIInv, AgentTypes, AcceptanceOK, RejectingOK, CheckedOK, MarksOK,
           Unsaved, AcceptedMeansApplied, InvalidIsNeverApplied

\* Every step of the routes, the agent and the person keeps the invariant.
LEMMA AgentNextIInv == AgentIInv /\ [AgentNext]_allVars => AgentIInv'
<1> SUFFICES ASSUME AgentIInv, [AgentNext]_allVars PROVE AgentIInv'
  OBVIOUS
<1>1. CASE \E p \in ProposalIds, id \in Ids : \E source \in Numbers(id), valid \in BOOLEAN :
             SaveProposal(p, id, source, valid)
  BY <1>1, SaveProposalStep
<1>2. CASE AcceptCheck \/ \E p \in ProposalIds, base \in 1..MaxRevision : AcceptRead(p, base)
  BY <1>2, AcceptCheckStep
<1>3. CASE AcceptLoad \/ AcceptUpdate \/ AcceptFinish \/ AcceptAnswer
  BY <1>3, AcceptLoadStep, AcceptUpdateStep, AcceptFinishStep, AcceptAnswerStep
<1>4. ASSUME NEW q \in Requests \ {Agent},
             Route(q) \/ RejectCommit(q) \/ \E p \in ProposalIds : RejectRead(q, p)
      PROVE  AgentIInv'
  BY <1>4, RouteStep, RejectStep
<1>5. CASE Restart
  BY <1>5, RestartStep
<1>6. CASE UNCHANGED allVars
  <2>1. IInv' /\ UNCHANGED <<resumes, revisions, req>> /\ UNCHANGED agentVars
    BY <1>6, StoreKept DEF allVars, agentVars, AgentIInv
  <2>2. \A id \in Ids : LatestRevision(id)' \in Nat /\ LatestRevision(id)' >= LatestRevision(id)
    <3> SUFFICES ASSUME NEW id \in Ids
                 PROVE  LatestRevision(id)' \in Nat /\ LatestRevision(id)' >= LatestRevision(id)
      OBVIOUS
    <3>1. LatestRevision(id)' = LatestRevision(id) /\ LatestRevision(id) \in Nat
      BY <2>1, SameHistory, LatestTyped DEF AgentIInv
    <3> QED BY <3>1
  <2> QED BY <2>1, <2>2, StoreOnly
<1> QED BY <1>1, <1>2, <1>3, <1>4, <1>5, <1>6 DEF AgentNext

\* The agent's invariant holds in every behaviour.
THEOREM AgentInductive == AgentSpec => []AgentIInv
  BY AgentInitIInv, AgentNextIInv, PTL DEF AgentSpec

\* The proposals, the acceptance under way and the rejections keep their types.
THEOREM AgentTypeCorrect == AgentSpec => []AgentTypeOK
<1>1. AgentIInv => AgentTypeOK
  BY IInvParts DEF AgentIInv, AgentTypes, AgentTypeOK
<1> QED BY <1>1, AgentInductive, PTL

\* With agents writing into the library too, every stored document still resolves.
THEOREM ProposalsKeepDocuments == AgentSpec => []DocumentsResolve
<1>1. AgentIInv => DocumentsResolve
  BY IInvParts DEF AgentIInv
<1> QED BY <1>1, AgentInductive, PTL

\* An accepted proposal did make a revision, newer than the one it was computed from,
\* whatever edits, deletions, rejections, purges and crashes race with its commit.
THEOREM AcceptedProposalsAreApplied == AgentSpec => []AcceptedMeansApplied
<1>1. AgentIInv => AcceptedMeansApplied
  BY DEF AgentIInv, MarksOK
<1> QED BY <1>1, AgentInductive, PTL

\* A proposal found invalid when it was saved never makes a revision.
THEOREM InvalidProposalsNeverApply == AgentSpec => []InvalidIsNeverApplied
<1>1. AgentIInv => InvalidIsNeverApplied
  BY DEF AgentIInv, MarksOK
<1> QED BY <1>1, AgentInductive, PTL

-----------------------------------------------------------------------------
(* At most one revision per proposal *)

\* A commitment that has passed the revision check and not yet inserted its revision.
Uninserted(p) ==
  /\ accepting # None /\ accepting.proposal = p /\ accepting.stage # "read"
  /\ req[Agent].pc # "serialize"

\* A proposal whose revision was made has a base the resume has left behind, so the
\* check refuses it from then on, and what passes the check has made none.
OnceOK ==
  \A p \in ProposalIds :
    /\ applied[p] <= 1
    /\ Uninserted(p) => applied[p] = 0
    /\ \A id \in Ids :
         applied[p] > 0 /\ proposals[p].resume = id => proposals[p].base < LatestRevision(id)

\* No step takes a revision number back if none purges the history.
LEMMA HistoryOnlyGrows ==
  ASSUME "purge" \notin Kinds, AgentIInv, [AgentNext]_allVars, NEW id \in Ids
  PROVE  LatestRevision(id)' \in Nat /\ LatestRevision(id)' >= LatestRevision(id)
<1>1. IInv /\ Agent \in Requests
  BY AgentAssumption DEF AgentIInv
<1>2. ASSUME UNCHANGED revisions
      PROVE  LatestRevision(id)' \in Nat /\ LatestRevision(id)' >= LatestRevision(id)
  <2>1. LatestRevision(id)' = LatestRevision(id) /\ LatestRevision(id) \in Nat
    BY <1>1, <1>2, SameHistory, LatestTyped
  <2> QED BY <2>1
<1>3. ASSUME NEW q \in Requests, Handler(q)
      PROVE  LatestRevision(id)' \in Nat /\ LatestRevision(id)' >= LatestRevision(id)
  <2>1. ~ Purge(q)
    BY DEF Purge
  <2> QED BY <1>1, <1>3, <2>1, LatestGrows
<1>4. CASE AcceptUpdate \/ AcceptAnswer
  <2>1. Handler(Agent)
    BY <1>4 DEF AcceptUpdate, AcceptAnswer, Handler
  <2> QED BY <1>1, <1>3, <2>1
<1>5. CASE \E q \in Requests \ {Agent} : Route(q)
  BY <1>3, <1>5 DEF Route
<1>6. CASE UNCHANGED revisions
  BY <1>2, <1>6
<1>7. \/ UNCHANGED revisions \/ AcceptUpdate \/ AcceptAnswer
      \/ \E q \in Requests \ {Agent} : Route(q)
  BY DEF AgentNext, SaveProposal, AcceptRead, AcceptCheck, AcceptLoad, AcceptFinish, RejectRead,
         RejectCommit, Restart, Crash, allVars
<1> QED BY <1>4, <1>5, <1>6, <1>7

\* A saved proposal keeps its resume and its base.
LEMMA BasesKept ==
  ASSUME AgentIInv, [AgentNext]_allVars, NEW p \in ProposalIds, proposals[p] # None
  PROVE  proposals'[p].resume = proposals[p].resume /\ proposals'[p].base = proposals[p].base
<1>1. proposals \in [ProposalIds -> Proposal \union {None}] /\ proposals[p] \in Proposal
  BY DEF AgentIInv, AgentTypes
<1>2. CASE \E k \in ProposalIds, id \in Ids : \E source \in Numbers(id), valid \in BOOLEAN :
             SaveProposal(k, id, source, valid)
  BY <1>1, <1>2 DEF SaveProposal
<1>3. CASE AcceptFinish
  <2>1. PICK k \in ProposalIds : k = accepting.proposal
    BY <1>3 DEF AgentIInv, AgentTypes, AcceptFinish, Commitment
  <2>2. CASE k = p
    BY <1>1, <1>3, <2>1, <2>2 DEF AcceptFinish, Proposal
  <2>3. CASE k # p
    BY <1>1, <1>3, <2>1, <2>3 DEF AcceptFinish
  <2> QED BY <2>2, <2>3
<1>4. ASSUME NEW q \in Requests \ {Agent}, RejectCommit(q)
      PROVE  proposals'[p].resume = proposals[p].resume /\ proposals'[p].base = proposals[p].base
  BY <1>1, <1>4 DEF RejectCommit, Proposal
<1>5. CASE UNCHANGED proposals
  BY <1>5
<1>6. \/ UNCHANGED proposals \/ AcceptFinish \/ \E q \in Requests \ {Agent} : RejectCommit(q)
      \/ \E k \in ProposalIds, id \in Ids : \E source \in Numbers(id), valid \in BOOLEAN :
           SaveProposal(k, id, source, valid)
  BY DEF AgentNext, AcceptRead, AcceptCheck, AcceptLoad, AcceptUpdate, AcceptAnswer, RejectRead,
         Route, Restart, Crash, agentVars, allVars
<1> QED BY <1>2, <1>3, <1>4, <1>5, <1>6

\* Steps that insert no revision for a proposal and pass no check.
LEMMA OnceKept ==
  ASSUME "purge" \notin Kinds, AgentIInv, [AgentNext]_allVars, OnceOK, UNCHANGED applied,
         \A p \in ProposalIds : Uninserted(p)' => Uninserted(p) \/ applied[p] = 0
  PROVE  OnceOK'
<1> SUFFICES ASSUME NEW p \in ProposalIds
             PROVE  /\ Uninserted(p)' => applied[p] = 0
                    /\ \A id \in Ids :
                         applied[p] > 0 /\ proposals'[p].resume = id
                           => proposals'[p].base < LatestRevision(id)'
  BY DEF OnceOK
<1>1. Uninserted(p)' => applied[p] = 0
  BY DEF OnceOK
<1>2. ASSUME NEW id \in Ids, applied[p] > 0, proposals'[p].resume = id
      PROVE  proposals'[p].base < LatestRevision(id)'
  <2>1. proposals[p] # None /\ proposals[p] \in Proposal
    BY <1>2 DEF AgentIInv, AgentTypes, MarksOK, Unsaved
  <2>2. proposals[p].resume = id /\ proposals'[p].base = proposals[p].base
    BY <1>2, <2>1, BasesKept
  <2> DEFINE b == proposals[p].base
             n == LatestRevision(id)
             m == LatestRevision(id)'
  <2>3. b < n /\ b \in Nat /\ n \in Nat /\ m \in Nat /\ m >= n
    BY <1>2, <2>1, <2>2, HistoryOnlyGrows, LatestTyped DEF OnceOK, AgentIInv, Proposal
  <2>4. b < m
    <3> HIDE DEF b, n, m
    <3> QED BY <2>3
  <2> QED BY <2>2, <2>4
<1> QED BY <1>1, <1>2

\* What passes the revision check has left no revision behind.
LEMMA OnceChecked ==
  ASSUME "purge" \notin Kinds, AgentIInv, OnceOK, AcceptCheck
  PROVE  OnceOK'
<1>1. UNCHANGED <<req, applied>> /\ accepting \in Commitment
  BY DEF AcceptCheck, AgentIInv, AgentTypes
<1>2. ASSUME NEW p \in ProposalIds, Uninserted(p)' PROVE applied[p] = 0
  <2>1. /\ accepting' # None /\ accepting'.proposal = p
        /\ accepting' = [accepting EXCEPT !.stage = "checked"]
    BY <1>2 DEF Uninserted, AcceptCheck
  <2>2. p = accepting.proposal
    BY <1>1, <2>1 DEF Commitment
  <2>3. proposals[p] \in Proposal
    BY <2>2 DEF AcceptCheck, AgentIInv, AgentTypes, AcceptanceOK, Committing
  <2>4. PICK id \in Ids : id = proposals[p].resume
    BY <2>3 DEF Proposal
  <2>5. proposals[p].base = LatestRevision(id)
    BY <2>1, <2>2, <2>4 DEF AcceptCheck
  <2> DEFINE n == LatestRevision(id)
  <2>6. n \in Nat /\ applied[p] \in Nat
    BY LatestTyped DEF AgentIInv, AgentTypes
  <2>7. applied[p] > 0 => n < n
    BY <2>4, <2>5 DEF OnceOK
  <2>8. ~ (n < n)
    <3> HIDE DEF n
    <3> QED BY <2>6
  <2>9. ~ (applied[p] > 0)
    BY <2>7, <2>8
  <2> QED BY <2>6, <2>9
<1> QED BY <1>1, <1>2, OnceKept DEF AgentNext

\* The one insertion leaves the base behind and the commitment no longer open.
LEMMA OnceInserted ==
  ASSUME "purge" \notin Kinds, AgentIInv, AgentIInv', OnceOK, AcceptUpdate, InsertSnapshot(Agent),
         applied' = [applied EXCEPT ![accepting.proposal] = @ + 1], UNCHANGED accepting
  PROVE  OnceOK'
<1>1. PICK p \in ProposalIds : p = accepting.proposal
  BY DEF AcceptUpdate, AgentIInv, AgentTypes, Commitment
<1>2. accepting # None /\ accepting.stage = "loaded" /\ req[Agent].pc = "numbered" /\ UNCHANGED proposals
  BY DEF AcceptUpdate, InsertSnapshot
<1>3. applied[p] = 0 /\ applied \in [ProposalIds -> Nat]
  BY <1>1, <1>2 DEF OnceOK, Uninserted, AgentIInv, AgentTypes
<1>4. applied'[p] = 1 /\ \A other \in ProposalIds \ {p} : applied'[other] = applied[other]
  BY <1>1, <1>3
<1>5. req'[Agent].pc = "serialize"
  <2>1. req \in [Requests -> Request] /\ Agent \in Requests /\ req[Agent].kind \in {"update", None}
    BY <1>2, AgentAssumption DEF AgentIInv, IInv, SessionsOK, AcceptanceOK, Committing
  <2>2. req[Agent].kind # "snapshot"
    BY <2>1, ConstantsAssumption DEF AllKinds
  <2> QED BY <2>1, <2>2 DEF InsertSnapshot, Request
<1>6. ASSUME NEW id \in Ids, proposals[p].resume = id PROVE proposals[p].base < LatestRevision(id)'
  BY <1>1, <1>2, <1>5, <1>6 DEF AgentIInv, CheckedOK, Checked
<1>7. ASSUME NEW other \in ProposalIds \ {p}, NEW id \in Ids, applied[other] > 0, proposals[other].resume = id
      PROVE  proposals[other].base < LatestRevision(id)'
  <2>1. proposals[other] \in Proposal
    BY <1>7 DEF AgentIInv, AgentTypes, MarksOK, Unsaved
  <2> DEFINE b == proposals[other].base
             n == LatestRevision(id)
             m == LatestRevision(id)'
  <2>2. b < n /\ b \in Nat /\ n \in Nat /\ m \in Nat /\ m >= n
    BY <1>7, <2>1, HistoryOnlyGrows, LatestTyped DEF OnceOK, AgentIInv, AgentNext, Proposal
  <2>3. b < m
    <3> HIDE DEF b, n, m
    <3> QED BY <2>2
  <2> QED BY <2>3
<1>8. \A k \in ProposalIds : ~ Uninserted(k)'
  BY <1>5 DEF Uninserted
<1>9. \A k \in ProposalIds : applied'[k] <= 1
  BY <1>4 DEF OnceOK
<1> QED BY <1>2, <1>4, <1>6, <1>7, <1>8, <1>9 DEF OnceOK

\* Every step keeps it.
LEMMA NextOnce ==
  ASSUME "purge" \notin Kinds
  PROVE  AgentIInv /\ OnceOK /\ [AgentNext]_allVars => OnceOK'
<1> SUFFICES ASSUME AgentIInv, OnceOK, [AgentNext]_allVars PROVE OnceOK'
  OBVIOUS
<1>1. AgentIInv' /\ IInv /\ Agent \in Requests
  BY AgentNextIInv, AgentAssumption DEF AgentIInv
<1>2. ASSUME UNCHANGED applied, \A p \in ProposalIds : Uninserted(p)' => Uninserted(p)
      PROVE  OnceOK'
  BY <1>2, OnceKept
<1>3. CASE AcceptUpdate
  <2>1. CASE accepting' = None
    BY <1>2, <1>3, <2>1 DEF Uninserted, AcceptUpdate
  <2>2. CASE /\ InsertSnapshot(Agent) /\ UNCHANGED accepting
             /\ applied' = [applied EXCEPT ![accepting.proposal] = @ + 1]
    BY <1>1, <1>3, <2>2, OnceInserted
  <2>3. CASE /\ \/ MigrateCommit(Agent) \/ MigrateRefresh(Agent)
                \/ Commit(Agent) \/ Refresh(Agent) \/ NumberSnapshot(Agent)
             /\ UNCHANGED <<accepting, applied>>
    <3>1. req[Agent].pc # "serialize"
      BY <2>3 DEF MigrateCommit, MigrateRefresh, Commit, Refresh, NumberSnapshot
    <3> QED BY <1>2, <2>3, <3>1 DEF Uninserted
  <2> QED BY <1>3, <2>1, <2>2, <2>3 DEF AcceptUpdate
<1>4. CASE AcceptCheck
  BY <1>4, OnceChecked
<1>5. CASE AcceptLoad
  <2>1. accepting # None /\ accepting \in Commitment /\ accepting.stage = "checked" /\ req[Agent].pc = "idle"
    BY <1>5 DEF AcceptLoad, AgentIInv, AgentTypes, AcceptanceOK, Committing
  <2>2. accepting' = None \/ accepting' = [accepting EXCEPT !.stage = "loaded"]
    BY <1>5 DEF AcceptLoad
  <2>3. accepting' # None => accepting'.proposal = accepting.proposal
    BY <2>1, <2>2 DEF Commitment
  <2> QED BY <1>2, <1>5, <2>1, <2>3 DEF AcceptLoad, Uninserted
<1>6. CASE \E p \in ProposalIds, base \in 1..MaxRevision : AcceptRead(p, base)
  BY <1>2, <1>6 DEF AcceptRead, Uninserted
<1>7. CASE AcceptFinish \/ Restart
  BY <1>2, <1>7 DEF AcceptFinish, Restart, Uninserted
<1>8. CASE AcceptAnswer
  BY <1>2, <1>8 DEF AcceptAnswer, Uninserted, agentVars
<1>9. ASSUME NEW q \in Requests \ {Agent}, Route(q) PROVE OnceOK'
  <2>1. req'[Agent] = req[Agent] /\ UNCHANGED <<accepting, applied>>
    BY <1>1, <1>9, OthersUntouched DEF Route, agentVars
  <2> QED BY <1>2, <2>1 DEF Uninserted
<1>10. CASE UNCHANGED <<req, accepting, applied>>
  BY <1>2, <1>10 DEF Uninserted
<1>11. \/ UNCHANGED <<req, accepting, applied>> \/ AcceptUpdate \/ AcceptCheck \/ AcceptLoad
       \/ AcceptFinish \/ Restart \/ AcceptAnswer
       \/ \E p \in ProposalIds, base \in 1..MaxRevision : AcceptRead(p, base)
       \/ \E q \in Requests \ {Agent} : Route(q)
  BY DEF AgentNext, SaveProposal, RejectRead, RejectCommit, allVars
<1> QED BY <1>3, <1>4, <1>5, <1>6, <1>7, <1>8, <1>9, <1>10, <1>11

\* As long as the history is not purged a proposal makes at most one revision, however
\* often the gateway is killed between the revision and the mark, and whatever races
\* with its commit: the base revision check is what makes the commit safe to repeat.
THEOREM ProposalsApplyOnce ==
  ASSUME "purge" \notin Kinds
  PROVE  AgentSpec => []AppliedAtMostOnce
<1>1. AgentInit => OnceOK
  BY DEF AgentInit, OnceOK, Uninserted
<1>2. AgentIInv /\ OnceOK /\ [AgentNext]_allVars => OnceOK'
  BY NextOnce
<1>3. OnceOK => AppliedAtMostOnce
  BY DEF OnceOK, AppliedAtMostOnce
<1> QED BY <1>1, <1>2, <1>3, AgentInductive, PTL DEF AgentSpec

=============================================================================
