---------------------------- MODULE ResumeStore ----------------------------
(***************************************************************************)
(* The resume library of the API gateway: multilingual resume rows, their  *)
(* numbered snapshots, and the request handlers that read a row into their *)
(* own session, rewrite it and append a snapshot.                          *)
(*                                                                         *)
(* The handlers are synchronous FastAPI routes, so they run in a thread    *)
(* pool: every statement that reads or commits is a step of its own and    *)
(* the steps of different requests interleave.  A session keeps the row it *)
(* loaded until it refreshes it (expire_on_commit is False) and an UPDATE  *)
(* writes only the columns whose value differs from the loaded one.        *)
(***************************************************************************)
EXTENDS Integers, Sequences, FiniteSetsExt

CONSTANTS
  Requests,     \* request handlers that may be in flight together
  Locales,      \* the supported locales of this instance
  Contents,     \* what a locale variant may hold (profile, sections, ...)
  Kinds,        \* the routes this instance exercises
  MaxId,        \* bound: row identifiers are 1..MaxId
  MaxRevision,  \* bound: no request starts that could number past this
  MaxSnapshots, \* bound: nor one that could insert more rows than this
  AllowCrash,   \* whether the gateway process may be killed and restarted
  Other,        \* a locale code outside the supported ones
  None          \* absent row, absent variant, omitted argument

AllKinds == {"create", "duplicate", "get", "update", "rename", "move", "restore",
             "snapshot", "addLocale", "activate", "dropLocale", "delete", "purge"}

ASSUME ConstantsAssumption ==
  /\ MaxId \in Nat \ {0} /\ MaxRevision \in Nat /\ MaxSnapshots \in Nat
  /\ AllowCrash \in BOOLEAN
  /\ Kinds \subseteq AllKinds
  /\ None \notin Locales /\ None \notin Contents /\ None # Other /\ None \notin AllKinds
  /\ Other \notin Locales

VARIABLES
  resumes,    \* the resumerecord table: id -> row or None
  revisions,  \* the resumerevisionrecord table, in insertion order
  req         \* the session and the progress of every request handler

vars == <<resumes, revisions, req>>

Ids == 1..MaxId
Steps == {"idle", "migrate", "migrated", "check", "ready", "committed",
          "fresh", "numbered", "serialize"}

\* data_json: the variants by locale, the default and the active locale.
\* A legacy document has no multilingual block yet and a single variant.
Data == [variants: [Locales -> Contents \union {None}],
         default: Locales, active: Locales, legacy: BOOLEAN]
Row == [data: Data, locale: Locales \union {Other}]
Revision == [resume: Ids, revision: Nat, data: Data]

ASSUME NoneAssumption == None \notin Row /\ None \notin Data

LocaleArg == Locales \union {Other, None}
Input == [content: Contents \union {None}, target: LocaleArg, locale: LocaleArg, base: Nat]
NoInput == [content |-> None, target |-> None, locale |-> None, base |-> 0]

Request == [pc: Steps, kind: AllKinds \union {None}, id: Ids \union {None},
            in: Input, row: Row \union {None}, work: Data \union {None},
            snap: Data \union {None}, num: Nat]
Idle == [pc |-> "idle", kind |-> None, id |-> None, in |-> NoInput, row |-> None,
         work |-> None, snap |-> None, num |-> 0]

-----------------------------------------------------------------------------
(* Documents *)

Available(d) == {l \in Locales : d.variants[l] # None}

Sole(l, c) == [m \in Locales |-> IF m = l THEN c ELSE None]

Document(l, c) == [variants |-> Sole(l, c), default |-> l, active |-> l, legacy |-> FALSE]

\* _active_resume_payload: a legacy document becomes one default variant.
Migrated(d) == [d EXCEPT !.legacy = FALSE]

Normalize(locale, fallback) == IF locale \in Locales THEN locale ELSE fallback

\* Mutant: an omitted locale is written as such.
OrElseUnguarded(value, fallback) == value

OrElse(value, fallback) == IF value = None THEN fallback ELSE value

\* update_resume with cv_data: the variant it edits, whether it refuses, and
\* the document it composes.
EditTarget(in, d) == Normalize(OrElse(in.target, d.active), d.default)
EditAccepted(in, d) == in.target = None \/ EditTarget(in, d) \in Available(d)
Edited(in, d) ==
  [d EXCEPT
     !.variants = [@ EXCEPT ![EditTarget(in, d)] = in.content],
     !.active = IF in.target # None THEN EditTarget(in, d)
                ELSE IF in.locale \in Available(d) THEN in.locale ELSE d.active]

\* restore_resume_revision_route calls update_resume without a target locale.
RestoreInput(snap) ==
  [NoInput EXCEPT !.content = snap.variants[snap.active], !.locale = snap.active]

VariantSource(in, d) == Normalize(OrElse(in.target, d.active), d.default)
AddAccepted(in, d) == in.locale \notin Available(d) /\ VariantSource(in, d) \in Available(d)
WithVariant(in, d) ==
  [d EXCEPT !.variants = [@ EXCEPT ![in.locale] = d.variants[VariantSource(in, d)]],
            !.active = in.locale]

SwitchTarget(in, d) == Normalize(in.locale, d.default)
SwitchAccepted(in, d) == SwitchTarget(in, d) \in Available(d)
\* Mutant: switching also makes the locale the default one.
SwitchedAsDefault(in, d) ==
  [d EXCEPT !.active = SwitchTarget(in, d), !.default = SwitchTarget(in, d)]
Switched(in, d) == [d EXCEPT !.active = SwitchTarget(in, d)]

DropAccepted(in, d) ==
  /\ SwitchTarget(in, d) \in Available(d)
  /\ Available(d) # {SwitchTarget(in, d)}
  /\ SwitchTarget(in, d) # d.default
\* Mutant: the active locale is not moved off the removed variant.
WithoutVariantStillActive(in, d) ==
  [d EXCEPT !.variants = [@ EXCEPT ![SwitchTarget(in, d)] = None]]
WithoutVariant(in, d) ==
  [d EXCEPT !.variants = [@ EXCEPT ![SwitchTarget(in, d)] = None],
            !.active = IF @ = SwitchTarget(in, d) THEN d.default ELSE @]

\* What each route writes into the row it loaded, and when it answers 4xx/5xx
\* instead.
Accepted(r) ==
  CASE r.kind = "update" -> EditAccepted(r.in, r.work)
    [] r.kind = "addLocale" -> AddAccepted(r.in, r.work)
    [] r.kind = "activate" -> SwitchAccepted(r.in, r.work)
    [] r.kind = "dropLocale" -> DropAccepted(r.in, r.work)
    [] OTHER -> TRUE

NewData(r) ==
  CASE r.kind \in {"update", "move"} -> Edited(r.in, r.work)
    [] r.kind = "restore" -> Edited(RestoreInput(r.snap), r.work)
    [] r.kind = "addLocale" -> WithVariant(r.in, r.work)
    [] r.kind = "activate" -> Switched(r.in, r.work)
    [] r.kind = "dropLocale" -> WithoutVariant(r.in, r.work)
    [] OTHER -> r.row.data

NewLocale(r) ==
  CASE r.kind \in {"update", "move", "restore"} -> r.work.default
    [] r.kind = "rename" -> OrElse(r.in.locale, r.row.locale)
    [] OTHER -> r.row.locale

\* An UPDATE carries only the columns that differ from what the session loaded.
Flushed(new, loaded, stored) ==
  [data   |-> IF new.data # loaded.data THEN new.data ELSE stored.data,
   locale |-> IF new.locale # loaded.locale THEN new.locale ELSE stored.locale]

MigratedRow(r) == [data |-> Migrated(r.row.data), locale |-> r.row.data.default]

-----------------------------------------------------------------------------
(* Rows and snapshots *)

Stored(id) == id \in Ids /\ resumes[id] # None

\* INTEGER PRIMARY KEY without AUTOINCREMENT: one past the largest live id.
NextId == 1 + Max({0} \union {i \in Ids : resumes[i] # None})

Numbers(id) == {revisions[i].revision : i \in {j \in 1..Len(revisions) : revisions[j].resume = id}}

\* Mutants: the newest number is the count of rows, or the query lost its order.
LatestByCount(id) == Cardinality({i \in 1..Len(revisions) : revisions[i].resume = id})
LatestUnordered(id) == IF Numbers(id) = {} THEN 0 ELSE Min(Numbers(id))

LatestRevision(id) == Max({0} \union Numbers(id))

Snapshots(id, n) ==
  {revisions[i].data : i \in {j \in 1..Len(revisions) :
                                 revisions[j].resume = id /\ revisions[j].revision = n}}

\* The bounds: every request in flight may still insert one snapshot.
Room(id) ==
  LET inFlight == Cardinality({q \in Requests : req[q].pc # "idle"}) IN
  LatestRevision(id) + inFlight < MaxRevision /\ Len(revisions) + inFlight < MaxSnapshots

-----------------------------------------------------------------------------
(* Request handlers *)

Migrating == {"update", "restore", "addLocale", "activate", "dropLocale", "move"}

\* The arguments a client may send, route by route.
Arguments == [content: Contents \union {None}, target: LocaleArg, locale: LocaleArg,
              base: 0..MaxRevision]
EditInputs == {i \in Arguments : i.content # None /\ None \in {i.target, i.locale} /\ i.base = 0}
MoveInputs == {i \in Arguments : i.content # None /\ i.target = None /\ i.locale = None /\ i.base > 0}
RestoreInputs == {[NoInput EXCEPT !.base = b] : b \in 1..MaxRevision}
VariantInputs ==
  {i \in Arguments : i.content = None /\ i.target # Other /\ i.locale \in Locales /\ i.base = 0}
LocaleInputs == {[NoInput EXCEPT !.locale = l] : l \in LocaleArg}

Inputs(kind) ==
  CASE kind = "update" -> EditInputs
    [] kind = "move" -> MoveInputs
    [] kind = "restore" -> RestoreInputs
    [] kind = "addLocale" -> VariantInputs
    [] kind = "rename" -> LocaleInputs
    [] kind \in {"activate", "dropLocale"} -> {i \in LocaleInputs : i.locale # None}
    [] OTHER -> {NoInput}

FirstStep(kind, d) ==
  CASE kind = "get" -> "serialize"
    [] kind = "snapshot" -> "fresh"
    [] kind \in Migrating /\ d.legacy -> "migrate"
    [] kind = "move" /\ ~ d.legacy -> "check"
    [] OTHER -> "ready"

\* session.get: the session keeps this row until it refreshes it.
Open(q, kind, id, in) ==
  /\ req[q].pc = "idle"
  /\ kind \in Kinds \ {"create", "purge"}
  /\ Stored(id)
  /\ kind \in {"get", "delete"} \/ Room(id)
  /\ kind = "duplicate" => NextId \in Ids /\ Room(NextId)
  /\ \E snap \in IF kind = "restore" THEN Snapshots(id, in.base) ELSE {None} :
       req' = [req EXCEPT ![q] =
                 [pc |-> FirstStep(kind, resumes[id].data), kind |-> kind, id |-> id, in |-> in,
                  row |-> resumes[id],
                  work |-> IF kind \in Migrating \union {"duplicate"}
                           THEN Migrated(resumes[id].data) ELSE None,
                  snap |-> snap,
                  num |-> 0]]
  /\ UNCHANGED <<resumes, revisions>>

\* _persist_lazy_resume_migration: the first half commits, the second refreshes.
MigrateCommit(q) ==
  /\ req[q].pc = "migrate"
  /\ Stored(req[q].id)
  /\ resumes' = [resumes EXCEPT ![req[q].id] = Flushed(MigratedRow(req[q]), req[q].row, @)]
  /\ req' = [req EXCEPT ![q].pc = "migrated"]
  /\ UNCHANGED revisions

MigrateRefresh(q) ==
  /\ req[q].pc = "migrated"
  /\ Stored(req[q].id)
  /\ req' = [req EXCEPT ![q].pc = IF req[q].kind = "move" THEN "check" ELSE "ready",
                        ![q].row = resumes[req[q].id]]
  /\ UNCHANGED <<resumes, revisions>>

\* move_resume_section_route compares the client's base_revision once.
CheckBaseRevision(q) ==
  /\ req[q].pc = "check"
  /\ req' = [req EXCEPT ![q] = IF LatestRevision(@.id) = @.in.base
                                THEN [@ EXCEPT !.pc = "ready"] ELSE Idle]
  /\ UNCHANGED <<resumes, revisions>>

Rewriting == {"update", "rename", "move", "restore", "addLocale", "activate", "dropLocale"}

\* A handler that has committed its row: its arguments no longer matter.
Writing(id, row) == [Idle EXCEPT !.pc = "committed", !.id = id, !.row = row]

Refuse(q) ==
  /\ req[q].pc = "ready" /\ req[q].kind \in Rewriting
  /\ ~ Accepted(req[q])
  /\ req' = [req EXCEPT ![q] = Idle]
  /\ UNCHANGED <<resumes, revisions>>

Commit(q) ==
  LET r == req[q] IN
  /\ r.pc = "ready" /\ r.kind \in Rewriting
  /\ Accepted(r)
  /\ Stored(r.id)
  /\ resumes' = [resumes EXCEPT ![r.id] =
                   Flushed([data |-> NewData(r), locale |-> NewLocale(r)], r.row, @)]
  /\ req' = [req EXCEPT ![q] = Writing(r.id, r.row)]
  /\ UNCHANGED revisions

\* A row deleted meanwhile: the UPDATE matches nothing, or the refresh fails.
RowGone(q) ==
  /\ \/ req[q].pc \in {"migrate", "migrated", "committed"}
     \/ req[q].pc = "ready" /\ req[q].kind \in Rewriting /\ Accepted(req[q])
     \/ req[q].pc = "serialize" /\ req[q].row.data.legacy
  /\ ~ Stored(req[q].id)
  /\ req' = [req EXCEPT ![q] = Idle]
  /\ UNCHANGED <<resumes, revisions>>

\* Mutant: the snapshot is taken from the row as it was before the commit.
RefreshSkipped(q) ==
  /\ req[q].pc = "committed"
  /\ Stored(req[q].id)
  /\ req' = [req EXCEPT ![q].pc = "fresh"]
  /\ UNCHANGED <<resumes, revisions>>

Refresh(q) ==
  /\ req[q].pc = "committed"
  /\ Stored(req[q].id)
  /\ req' = [req EXCEPT ![q].pc = "fresh", ![q].row = resumes[req[q].id]]
  /\ UNCHANGED <<resumes, revisions>>

\* Mutant: a new resume starts without a snapshot.
InsertUnrecorded(q, doc) ==
  /\ NextId \in Ids
  /\ resumes' = [resumes EXCEPT ![NextId] = [data |-> doc, locale |-> doc.default]]
  /\ req' = [req EXCEPT ![q] = Idle]
  /\ UNCHANGED revisions

\* create_resume and duplicate_resume_route insert a row of their own.
Insert(q, doc) ==
  /\ NextId \in Ids
  /\ resumes' = [resumes EXCEPT ![NextId] = [data |-> doc, locale |-> doc.default]]
  /\ req' = [req EXCEPT ![q] = Writing(NextId, [data |-> doc, locale |-> doc.default])]
  /\ UNCHANGED revisions

Create(q) ==
  /\ "create" \in Kinds
  /\ req[q].pc = "idle"
  /\ Room(NextId)
  /\ \E l \in Locales, c \in Contents : Insert(q, Document(l, c))

Duplicate(q) ==
  /\ req[q].pc = "ready" /\ req[q].kind = "duplicate"
  /\ Insert(q, req[q].work)

Delete(q) ==
  /\ req[q].pc = "ready" /\ req[q].kind = "delete"
  /\ resumes' = [resumes EXCEPT ![req[q].id] = None]
  /\ req' = [req EXCEPT ![q] = Idle]
  /\ UNCHANGED revisions

\* create_resume_revision: read the highest number, then insert and commit.
NumberSnapshot(q) ==
  /\ req[q].pc = "fresh"
  /\ req' = [req EXCEPT ![q].pc = "numbered", ![q].num = LatestRevision(req[q].id) + 1]
  /\ UNCHANGED <<resumes, revisions>>

InsertSnapshot(q) ==
  LET r == req[q] IN
  /\ r.pc = "numbered"
  /\ revisions' = Append(revisions, [resume |-> r.id, revision |-> r.num, data |-> r.row.data])
  /\ req' = [req EXCEPT ![q] = IF r.kind = "snapshot" THEN Idle ELSE [r EXCEPT !.pc = "serialize", !.num = 0]]
  /\ UNCHANGED resumes

\* serialize_resume migrates a legacy row it still holds, then answers.
Serialize(q) ==
  LET r == req[q] IN
  /\ r.pc = "serialize"
  /\ IF r.row.data.legacy
     THEN /\ Stored(r.id)
          /\ resumes' = [resumes EXCEPT ![r.id] = Flushed(MigratedRow(r), r.row, @)]
     ELSE UNCHANGED resumes
  /\ req' = [req EXCEPT ![q] = Idle]
  /\ UNCHANGED revisions

\* clear_history_ledger runs on the event loop and commits once.
Purge(q) ==
  /\ "purge" \in Kinds
  /\ req[q].pc = "idle"
  /\ revisions' = <<>>
  /\ UNCHANGED <<resumes, req>>

\* The gateway is killed: every session is lost, what was committed stays.
Crash ==
  /\ AllowCrash
  /\ req' = [q \in Requests |-> Idle]
  /\ UNCHANGED <<resumes, revisions>>

-----------------------------------------------------------------------------
LegacyRows ==
  {[data |-> [Document(l, c) EXCEPT !.legacy = TRUE], locale |-> r] :
      l \in Locales, c \in Contents, r \in Locales}

Init ==
  /\ \E row \in LegacyRows \union {None} :
       resumes = [id \in Ids |-> IF id = 1 THEN row ELSE None]
  /\ revisions = <<>>
  /\ req = [q \in Requests |-> Idle]

Handler(q) ==
  \/ \E kind \in Kinds, id \in Ids : \E in \in Inputs(kind) : Open(q, kind, id, in)
  \/ MigrateCommit(q) \/ MigrateRefresh(q) \/ CheckBaseRevision(q)
  \/ Refuse(q) \/ Commit(q) \/ RowGone(q) \/ Refresh(q)
  \/ Create(q) \/ Duplicate(q) \/ Delete(q)
  \/ NumberSnapshot(q) \/ InsertSnapshot(q) \/ Serialize(q) \/ Purge(q)

Next == Crash \/ \E q \in Requests : Handler(q)

Spec == Init /\ [][Next]_vars

-----------------------------------------------------------------------------
(* Properties *)

\* The tables and the sessions hold values of their types.
TypeOK ==
  /\ resumes \in [Ids -> Row \union {None}]
  /\ revisions \in Seq(Revision)
  /\ req \in [Requests -> Request]

WellFormed(d) == d.default \in Available(d) /\ d.active \in Available(d)

\* Whatever the interleaving of handlers, every stored document and every
\* snapshot names a default and an active locale that it really holds, so a
\* resume can always be resolved, exported and snapshotted (resolve_resume_variant
\* never fails on a stored row).
DocumentsResolve ==
  /\ \A id \in Ids : resumes[id] # None => WellFormed(resumes[id].data)
  /\ \A i \in 1..Len(revisions) : WellFormed(revisions[i].data)

\* What a handler carries from one step to the next: the row it loaded, the
\* document it is about to rewrite, the snapshot it restores, its arguments.
Carries(r) ==
  /\ r.pc # "idle" => r.id \in Ids /\ r.row \in Row /\ WellFormed(r.row.data)
  /\ r.kind \in Migrating \union {"duplicate"} => r.work \in Data /\ WellFormed(r.work)
  /\ r.kind = "restore" => r.snap \in Data /\ WellFormed(r.snap)
  /\ r.kind \in {"update", "move"} => r.in.content \in Contents
  /\ r.kind = "move" => r.in.target = None
  /\ r.kind = "addLocale" => r.in.locale \in Locales

\* However stale the copies a handler works on, they resolve, so what it writes
\* back can (the session's row in resumes.py is a document that was stored once).
SessionsResolve == \A q \in Requests : Carries(req[q])

\* Every resume's snapshots have a highest number (an insertion keeps one).
SomeHighest ==
  \A id \in Ids : \E n \in {0} \union Numbers(id) : \A m \in Numbers(id) : m <= n

\* The numbers of a resume's snapshots have no hole: although two handlers may
\* take the same number, none is ever skipped (create_resume_revision).
NumbersContiguous ==
  \A id \in Ids : Numbers(id) = 1..LatestRevision(id)

\* With one handler at a time a revision number names one snapshot.
NumbersUnique ==
  \A i, j \in 1..Len(revisions) :
     revisions[i].resume = revisions[j].resume /\ revisions[i].revision = revisions[j].revision
       => i = j

\* With one handler at a time and no crash, a resume that has a history is what
\* its newest snapshot says (up to the lazy migration): no route changes the
\* document without recording it.
HeadIsCurrent ==
  \A id \in Ids :
     /\ resumes[id] # None /\ Numbers(id) # {}
     /\ \A q \in Requests : req[q].pc = "idle"
     => \E d \in Snapshots(id, LatestRevision(id)) : Migrated(d) = Migrated(resumes[id].data)

Changed(d, e) == {l \in Locales : d.variants[l] # e.variants[l]}

\* With one handler at a time a step changes at most one locale variant of a
\* stored resume, and never its default locale.
OneVariantAtATime ==
  [][\A id \in Ids :
       resumes[id] # None /\ resumes'[id] # None
         => /\ Cardinality(Changed(resumes[id].data, resumes'[id].data)) <= 1
            /\ resumes'[id].data.default = resumes[id].data.default]_vars

\* A document without the mark of the legacy ones, which the next read migrates.
Resolved(d) == [variants |-> d.variants, default |-> d.default, active |-> d.active]

\* A handler that has written its row, or is asked for a snapshot, and has not recorded it.
Recording == {"committed", "fresh", "numbered"}

\* The resumes that are stored, and the snapshots with those that are about to be inserted.
StoredResumes == [id \in Ids |-> IF resumes[id] = None THEN None ELSE Resolved(resumes[id].data)]
Record(id, n, d) == [resume |-> id, revision |-> n, data |-> Resolved(d)]
Records ==
  {Record(revisions[i].resume, revisions[i].revision, revisions[i].data) : i \in 1..Len(revisions)}
    \union {Record(req[q].id, LatestRevision(req[q].id) + 1, resumes[req[q].id].data) :
              q \in {p \in Requests : req[p].pc \in Recording}}

Library == INSTANCE ResumeLibrary WITH library <- StoredResumes, history <- Records

\* No resume of the library is taken for none.
ASSUME LibraryAssumption == None \notin Library!Resumes

\* With one handler at a time and no crash the store is the library of ResumeLibrary:
\* no route leaves a change half done, unrecorded or recorded under another number.
ImplementsLibrary == Library!Spec

\* A request that holds a deleted resume writes into the one that got its identifier.
HeldAlike(id) ==
  \A q \in Requests : req[q].id = id
    => /\ req[q].row # None => req[q].row.data.default = resumes[id].data.default
       /\ req[q].work # None => req[q].work.default = resumes[id].data.default

\* No handler, however stale the row it holds, moves the default locale of a
\* resume, unless a session still holds a deleted resume with that identifier.
DefaultNeverMoves ==
  [][\A id \in Ids :
       resumes[id] # None /\ resumes'[id] # None /\ HeldAlike(id)
         => resumes'[id].data.default = resumes[id].data.default]_vars
=============================================================================
