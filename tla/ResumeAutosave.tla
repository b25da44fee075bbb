--------------------------- MODULE ResumeAutosave ---------------------------
(***************************************************************************)
(* The web client's resume store and its debounced save: one slot for a    *)
(* patch that waits for its timer, saves in flight that may overlap, the   *)
(* last failed save, and the calls whose answer replaces the local copies. *)
(*                                                                         *)
(* The store is single-threaded: a step runs to its next await.  The       *)
(* gateway is taken at its word: it applies a patch to the document it     *)
(* has, counts a revision and answers with the document.                   *)
(***************************************************************************)
EXTENDS Integers, FiniteSets

CONSTANTS
  Resumes,      \* the resumes of the library
  MaxRevision,  \* bound: resumeSaveRevision is never above it
  MaxNumber,    \* bound: no move starts when the gateway has counted this many revisions
  Scenarios,    \* per scenario: what the user does, the largest resumeSaveRevision, and
                \* whether the network keeps the order of saves
  None

Acts == {"edit", "rename", "switch", "retry", "move", "load"}

ASSUME AutosaveAssumption ==
  /\ MaxRevision \in Nat /\ MaxNumber \in Nat /\ None \notin Nat
  /\ \A s \in Scenarios : s.acts \subseteq Acts /\ s.ordered \in BOOLEAN /\ s.revisions \in 0..MaxRevision

VARIABLES
  local,       \* resumes: the copies the user sees (cvData is the active one's content)
  active,      \* activeResumeId
  status,      \* resumeSaveStatus
  pending,     \* pendingResumeSave; its timer runs exactly while it is there
  lastFailed,  \* lastFailedResumeSave
  revision,    \* resumeSaveRevision
  calls,       \* requests in flight, answered by the gateway or not yet
  move,        \* moveResumeSection: its step, and the save it awaits
  stored,      \* the gateway's documents
  typed,       \* history: the text the user has typed last into each resume
  scenario     \* what this behaviour exercises: never changes

client == <<local, active, status, pending, lastFailed, revision, move, typed>>
vars == <<local, active, status, pending, lastFailed, revision, calls, move, stored, typed, scenario>>

\* Texts and names are named after the save revision they were entered with.
Versions == 0..MaxRevision
Document == [name: Versions, text: Versions, moved: BOOLEAN, number: Nat]
Patch == [name: Versions, text: Versions \union {None}, moved: BOOLEAN]
Snapshot == [resume: Resumes, patch: Patch, revision: Versions]
Call == [kind: {"save", "move", "load"}, snapshot: Snapshot \union {None}, resume: Resumes,
         base: Nat, reply: {"none", "refused", "done"}, docs: [Resumes -> Document \union {None}]]

\* None stands for an empty slot, never for a patch that waits in it.
ASSUME NoneAssumption == None \notin Snapshot

NoMove == [step |-> "none", awaits |-> 0]

Does(act) == act \in scenario.acts

-----------------------------------------------------------------------------
(* What the user does *)

\* schedulePersistResume: the only slot is overwritten, whatever waits in it.
Schedule(r, patch) ==
  /\ revision' = revision + 1
  /\ pending' = [resume |-> r, patch |-> patch, revision |-> revision + 1]
  /\ lastFailed' = None
  /\ status' = "dirty"

\* syncActiveResume: an edit sends the name and the whole content.
Edit ==
  /\ Does("edit") /\ revision < scenario.revisions
  /\ local' = [local EXCEPT ![active].text = revision + 1]
  /\ typed' = [typed EXCEPT ![active] = revision + 1]
  /\ Schedule(active, [name |-> local[active].name, text |-> revision + 1, moved |-> local[active].moved])
  /\ UNCHANGED <<active, calls, move, stored, scenario>>

\* renameResume sends the name alone.
Rename(r) ==
  /\ Does("rename") /\ revision < scenario.revisions
  /\ local' = [local EXCEPT ![r].name = revision + 1]
  /\ Schedule(r, [name |-> revision + 1, text |-> None, moved |-> FALSE])
  /\ UNCHANGED <<active, calls, move, stored, typed, scenario>>

SetActive(r) ==
  /\ Does("switch") /\ r # active
  /\ active' = r
  /\ UNCHANGED <<local, status, pending, lastFailed, revision, calls, move, stored, typed, scenario>>

-----------------------------------------------------------------------------
(* Saving *)

Request(kind, snapshot, r, base) ==
  [kind |-> kind, snapshot |-> snapshot, resume |-> r, base |-> base,
   reply |-> "none", docs |-> [x \in Resumes |-> None]]

\* saveResumeSnapshot, up to its await.
Send(s) == calls' = calls \union {Request("save", s, s.resume, 0)} /\ status' = "saving"

\* Mutant: only the active resume is saved.
FlushActive ==
  /\ pending # None /\ pending.resume = active
  /\ Send(pending)
  /\ pending' = None
  /\ UNCHANGED <<local, active, lastFailed, revision, move, stored, typed, scenario>>

\* flushPendingResumeSave, by its timer or before an export.
Flush ==
  /\ pending # None
  /\ Send(pending)
  /\ pending' = None
  /\ UNCHANGED <<local, active, lastFailed, revision, move, stored, typed, scenario>>

\* retryLastResumeSave: the dashboard and the builder call it after an error only.
Retry ==
  /\ Does("retry") /\ status = "error"
  /\ pending = None /\ lastFailed # None /\ revision < scenario.revisions
  /\ revision' = revision + 1
  /\ Send([lastFailed EXCEPT !.revision = revision + 1])
  /\ lastFailed' = None
  /\ UNCHANGED <<local, active, pending, move, stored, typed, scenario>>

-----------------------------------------------------------------------------
(* Calls that replace the local copies *)

\* moveResumeSection flushes first and awaits that save, which never throws.
BeginMove ==
  /\ Does("move") /\ move = NoMove /\ \A r \in Resumes : stored[r].number < MaxNumber
  /\ IF pending = None
     THEN move' = [step |-> "flushing", awaits |-> 0] /\ UNCHANGED <<status, pending, calls>>
     ELSE move' = [step |-> "flushing", awaits |-> pending.revision] /\ Send(pending) /\ pending' = None
  /\ UNCHANGED <<local, active, lastFailed, revision, stored, typed, scenario>>

Awaited == \E c \in calls : c.kind = "save" /\ c.snapshot.revision = move.awaits

\* Then it posts the revision number of the copy that is active by now.
PostMove ==
  /\ move.step = "flushing" /\ ~ Awaited
  /\ move' = [step |-> "posted", awaits |-> 0]
  /\ calls' = calls \union {Request("move", None, active, local[active].number)}
  /\ UNCHANGED <<local, active, status, pending, lastFailed, revision, stored, typed, scenario>>

Load ==
  /\ Does("load") /\ \A c \in calls : c.kind # "load"
  /\ calls' = calls \union {Request("load", None, active, 0)}
  /\ UNCHANGED <<client, stored, scenario>>

-----------------------------------------------------------------------------
(* The gateway and the network *)

Older(c) == {d \in calls : c.kind = "save" /\ d.kind = "save" /\ d.snapshot.revision < c.snapshot.revision}
InTurn(c) == scenario.ordered => Older(c) = {}

Patched(doc, p) ==
  IF p.text = None THEN [doc EXCEPT !.name = p.name, !.number = @ + 1]
  ELSE [name |-> p.name, text |-> p.text, moved |-> p.moved, number |-> doc.number + 1]

Served(c) ==
  CASE c.kind = "save" -> Patched(stored[c.resume], c.snapshot.patch)
    [] c.kind = "move" -> [stored[c.resume] EXCEPT !.moved = ~ @, !.number = @ + 1]
    [] OTHER -> stored[c.resume]

\* The gateway handles a call; it refuses a move whose base is not its newest revision.
Serve(c) ==
  /\ c.reply = "none" /\ InTurn(c)
  /\ IF c.kind = "move" /\ c.base # stored[c.resume].number
     THEN /\ calls' = (calls \ {c}) \union {[c EXCEPT !.reply = "refused"]}
          /\ UNCHANGED stored
     ELSE LET doc == Served(c) IN
          /\ stored' = [stored EXCEPT ![c.resume] = doc]
          /\ calls' = (calls \ {c}) \union
               {[c EXCEPT !.reply = "done",
                          !.docs = IF c.kind = "load" THEN stored ELSE [@ EXCEPT ![c.resume] = doc]]}
  /\ UNCHANGED <<client, scenario>>

\* Mutant: the answer of a superseded save is applied too.
SaveAnsweredAlways(c) ==
  /\ local' = [local EXCEPT ![c.resume] = c.docs[c.resume]]
  /\ status' = "saved"
  /\ UNCHANGED <<active, pending, lastFailed, revision, move, typed>>

\* The answer of a save counts only if no later save was scheduled.
SaveAnswered(c) ==
  /\ IF c.snapshot.revision = revision
     THEN local' = [local EXCEPT ![c.resume] = c.docs[c.resume]] /\ status' = "saved"
     ELSE UNCHANGED <<local, status>>
  /\ UNCHANGED <<active, pending, lastFailed, revision, move, typed>>

\* Mutant: a refused move is not told from a done one, and its missing document is applied.
MoveAnsweredUnchecked(c) ==
  /\ move' = NoMove
  /\ local' = [local EXCEPT ![c.resume] = c.docs[c.resume]] /\ status' = "saved"
  /\ UNCHANGED <<active, pending, lastFailed, revision, typed>>

MoveAnswered(c) ==
  /\ move' = NoMove
  /\ IF c.reply = "done"
     THEN local' = [local EXCEPT ![c.resume] = c.docs[c.resume]] /\ status' = "saved"
     ELSE UNCHANGED <<local, status>>
  /\ UNCHANGED <<active, pending, lastFailed, revision, typed>>

\* loadResumes keeps the active resume and discards the local copies.
LoadAnswered(c) ==
  /\ local' = c.docs
  /\ status' = "idle"
  /\ UNCHANGED <<active, pending, lastFailed, revision, move, typed>>

Answer(c) ==
  /\ c.reply # "none" /\ InTurn(c)
  /\ calls' = calls \ {c}
  /\ CASE c.kind = "save" -> SaveAnswered(c)
       [] c.kind = "move" -> MoveAnswered(c)
       [] OTHER -> LoadAnswered(c)
  /\ UNCHANGED <<stored, scenario>>

\* Mutant: the first failed save is remembered, not the last.
RememberFirst(s) == lastFailed' = IF lastFailed = None THEN s ELSE lastFailed
\* Mutant: a failed save is not remembered.
RememberNothing(s) == lastFailed' = lastFailed

Remember(s) == lastFailed' = s

\* A call fails, before or after the gateway has handled it.
Fail(c) ==
  /\ InTurn(c)
  /\ calls' = calls \ {c}
  /\ IF c.kind = "save"
     THEN /\ Remember(c.snapshot)
          /\ status' = IF c.snapshot.revision = revision THEN "error" ELSE status
     ELSE UNCHANGED <<lastFailed, status>>
  /\ move' = IF c.kind = "move" THEN NoMove ELSE move
  /\ UNCHANGED <<local, active, pending, revision, stored, typed, scenario>>

-----------------------------------------------------------------------------
Init ==
  /\ local = [r \in Resumes |-> [name |-> 0, text |-> 0, moved |-> FALSE, number |-> 1]]
  /\ stored = local
  /\ active \in Resumes
  /\ status = "idle"
  /\ pending = None /\ lastFailed = None /\ revision = 0
  /\ calls = {} /\ move = NoMove
  /\ typed = [r \in Resumes |-> 0]
  /\ scenario \in Scenarios

Outcome(kind) == \E c \in calls : c.kind = kind /\ (Serve(c) \/ Answer(c) \/ Fail(c))

Next ==
  \/ Edit \/ Flush \/ Retry \/ BeginMove \/ PostMove \/ Load
  \/ \E r \in Resumes : Rename(r) \/ SetActive(r)
  \/ \E kind \in {"save", "move", "load"} : Outcome(kind)

\* The user pauses long enough for the timer, and every save in flight ends.
Fairness == WF_vars(Flush) /\ WF_vars(Outcome("save"))

Spec == Init /\ [][Next]_vars /\ Fairness

-----------------------------------------------------------------------------
(* Properties *)

\* The copies, the slots and the calls have their types.
TypeOK ==
  /\ local \in [Resumes -> Document] /\ stored \in [Resumes -> Document]
  /\ active \in Resumes /\ revision \in Versions
  /\ status \in {"idle", "dirty", "saving", "saved", "error"}
  /\ pending \in Snapshot \union {None} /\ lastFailed \in Snapshot \union {None}
  /\ move \in [step: {"none", "flushing", "posted"}, awaits: Versions]

\* An error that is shown can be retried: the failed save, or a newer patch, is
\* there to be sent (the status and the slots are set by different handlers).
ErrorCanBeRetried == status = "error" => pending # None \/ lastFailed # None

OneAtATime == scenario.ordered /\ scenario.acts \subseteq {"edit", "retry"}
NothingReplaces == scenario.acts \subseteq {"edit", "switch"}

\* While the user only types, switches, and retries what is shown as failed, no
\* answer or failure, however late, changes the text that is on the screen.  (A
\* network that reorders is allowed as long as nothing is retried.)
TypingIsKept ==
  [][OneAtATime \/ NothingReplaces
       => \A r \in Resumes : local'[r].text # local[r].text => typed'[r] # typed[r]]_vars

\* Over a network that keeps order, a client at rest that shows "saved" has stored
\* the text that was typed last, whatever failed and was retried before.
SavedMeansStored ==
  OneAtATime /\ status = "saved" /\ pending = None /\ calls = {}
    => stored[active].text = typed[active] /\ local[active].text = typed[active]

\* A change that waits or is being saved ends as saved, failed or reloaded; the
\* status never says "saving" for ever.
SavesSettle == status \in {"dirty", "saving"} ~> status \in {"saved", "error", "idle"}
=============================================================================
