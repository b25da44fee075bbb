------------------------ MODULE ResumeAutosaveProofs ------------------------
(***************************************************************************)
(* The client's save queue, for any number of resumes, edits and moves: a  *)
(* shown error can be retried, no late answer touches what is being typed, *)
(* and over an ordered network "saved" means stored.                       *)
(***************************************************************************)
EXTENDS ResumeAutosave, TLAPS

-----------------------------------------------------------------------------
(* Types, and the error that can be retried: in every scenario *)

\* A call that was answered with a document carries one.
CallOK(c) ==
  /\ c.kind = "save" => c.snapshot \in Snapshot /\ c.snapshot.resume = c.resume
  /\ c.kind # "move" => c.reply # "refused"
  /\ c.reply = "done" => c.docs[c.resume] \in Document
  /\ c.reply = "done" /\ c.kind = "load" => c.docs \in [Resumes -> Document]

TypeIInv ==
  /\ TypeOK
  /\ typed \in [Resumes -> Versions]
  /\ scenario \in Scenarios
  /\ calls \subseteq Call
  /\ \A c \in calls : CallOK(c)
  /\ ErrorCanBeRetried

-----------------------------------------------------------------------------
(* What is typed stays: in the scenarios of TypingIsKept *)

Calm == OneAtATime \/ NothingReplaces

\* The newest patch, wherever it is, holds the text on the screen; no patch and no
\* text is newer than the counter; every call is a save.
TextIInv == Calm =>
  /\ move = NoMove
  /\ \A r \in Resumes : typed[r] <= revision
  /\ pending # None =>
       pending.revision = revision /\ pending.patch.text = local[pending.resume].text
  /\ lastFailed # None =>
       /\ lastFailed.patch.text # None
       /\ lastFailed.revision = revision => lastFailed.patch.text = local[lastFailed.resume].text
  /\ \A c \in calls :
       /\ c.kind = "save" /\ c.snapshot.revision <= revision /\ c.snapshot.patch.text # None
       /\ c.snapshot.revision = revision => c.snapshot.patch.text = local[c.resume].text
       /\ c.reply = "done" => c.docs[c.resume].text = c.snapshot.patch.text

-----------------------------------------------------------------------------
(* Saved means stored: one save after the other, over a network that keeps order *)

\* Saves in flight have different numbers, below that of the patch that waits; one
\* that was handled has none before it, and if it is the newest one it is stored.
OrderIInv == OneAtATime =>
  /\ local[active].text = typed[active]
  /\ pending # None => pending.resume = active
  /\ lastFailed # None => lastFailed.resume = active
  /\ \A c \in calls :
       /\ c.resume = active
       /\ pending # None => c.snapshot.revision < revision
       /\ \A d \in calls : d.snapshot.revision = c.snapshot.revision => d = c
       /\ c.reply # "none" => \A d \in calls : c.snapshot.revision <= d.snapshot.revision
       /\ c.reply = "done" /\ c.snapshot.revision = revision =>
            stored[active].text = c.snapshot.patch.text
  /\ status = "error" => calls = {} /\ lastFailed # None /\ lastFailed.revision = revision
  /\ status = "saved" => calls = {} /\ pending = None /\ stored[active].text = local[active].text

AutosaveIInv == TypeIInv /\ TextIInv /\ OrderIInv

-----------------------------------------------------------------------------
(* Types *)

\* The scenario's bound leaves room for the number of the next save.
LEMMA NextVersion ==
  ASSUME TypeIInv, revision < scenario.revisions
  PROVE  revision + 1 \in Versions /\ revision \in Nat
<1>1. scenario.revisions \in 0..MaxRevision /\ MaxRevision \in Nat
  BY AutosaveAssumption DEF TypeIInv
<1>2. revision \in 0..MaxRevision
  BY DEF TypeIInv, TypeOK, Versions
<1>. QED  BY <1>1, <1>2 DEF Versions

\* A request has no answer yet, so it carries no document.
LEMMA RequestTyped ==
  ASSUME NEW kind \in {"save", "move", "load"}, NEW snapshot \in Snapshot \union {None},
         NEW r \in Resumes, NEW base \in Nat,
         kind = "save" => snapshot \in Snapshot /\ snapshot.resume = r
  PROVE  Request(kind, snapshot, r, base) \in Call /\ CallOK(Request(kind, snapshot, r, base))
  BY DEF Request, Call, CallOK

\* Calls that are all well formed stay so when one is added, or taken away.
LEMMA SendTyped ==
  ASSUME TypeIInv, NEW s \in Snapshot, Send(s)
  PROVE  calls' \subseteq Call /\ \A c \in calls' : CallOK(c)
<1>1. Request("save", s, s.resume, 0) \in Call /\ CallOK(Request("save", s, s.resume, 0))
  BY RequestTyped DEF Snapshot
<1>. QED  BY <1>1 DEF TypeIInv, Send

\* At the start nothing waits.
LEMMA InitTypes == ASSUME Init PROVE TypeIInv
<1>1. 0 \in Versions
  BY AutosaveAssumption DEF Versions
<1>. QED  BY <1>1 DEF Init, TypeIInv, TypeOK, Document, NoMove, ErrorCanBeRetried

\* An edit takes the pending slot and a number of its own.
LEMMA EditTypes == ASSUME TypeIInv, Edit PROVE TypeIInv'
<1>1. revision + 1 \in Versions
  BY NextVersion DEF Edit
<1>. DEFINE patch == [name |-> local[active].name, text |-> revision + 1, moved |-> local[active].moved]
<1>2. patch \in Patch /\ active \in Resumes
  BY <1>1 DEF TypeIInv, TypeOK, Document, Patch
<1>3. pending' = [resume |-> active, patch |-> patch, revision |-> revision + 1]
  BY DEF Edit, Schedule
<1>. HIDE DEF patch
<1>4. pending' \in Snapshot
  BY <1>1, <1>2, <1>3 DEF Snapshot
<1>5. local' \in [Resumes -> Document] /\ typed' \in [Resumes -> Versions]
  BY <1>1, <1>2 DEF Edit, TypeIInv, TypeOK, Document
<1>. QED  BY <1>1, <1>4, <1>5 DEF Edit, Schedule, TypeIInv, TypeOK, ErrorCanBeRetried

\* So does a rename.
LEMMA RenameTypes == ASSUME TypeIInv, NEW r \in Resumes, Rename(r) PROVE TypeIInv'
<1>1. revision + 1 \in Versions
  BY NextVersion DEF Rename
<1>. DEFINE patch == [name |-> revision + 1, text |-> None, moved |-> FALSE]
<1>2. patch \in Patch
  BY <1>1 DEF Patch
<1>3. pending' = [resume |-> r, patch |-> patch, revision |-> revision + 1]
  BY DEF Rename, Schedule
<1>. HIDE DEF patch
<1>4. pending' \in Snapshot
  BY <1>1, <1>2, <1>3 DEF Snapshot
<1>5. local' \in [Resumes -> Document]
  BY <1>1 DEF Rename, TypeIInv, TypeOK, Document
<1>. QED  BY <1>1, <1>4, <1>5 DEF Rename, Schedule, TypeIInv, TypeOK, ErrorCanBeRetried

\* A switch changes the active resume only.
LEMMA SetActiveTypes == ASSUME TypeIInv, NEW r \in Resumes, SetActive(r) PROVE TypeIInv'
  BY DEF SetActive, TypeIInv, TypeOK, ErrorCanBeRetried

\* The pending save is sent as it stands.
LEMMA FlushTypes == ASSUME TypeIInv, Flush PROVE TypeIInv'
<1>1. pending \in Snapshot /\ Send(pending)
  BY DEF Flush, TypeIInv, TypeOK
<1>2. calls' \subseteq Call /\ \A c \in calls' : CallOK(c)
  BY <1>1, SendTyped
<1>. QED  BY <1>2 DEF Flush, Send, TypeIInv, TypeOK, ErrorCanBeRetried

\* The last failed save is sent again, and is no longer the failed one.
LEMMA RetryTypes == ASSUME TypeIInv, Retry PROVE TypeIInv'
<1>1. revision + 1 \in Versions
  BY NextVersion DEF Retry
<1>. DEFINE s == [lastFailed EXCEPT !.revision = revision + 1]
<1>2. s \in Snapshot /\ Send(s)
  BY <1>1 DEF Retry, TypeIInv, TypeOK, Snapshot
<1>. HIDE DEF s
<1>3. calls' \subseteq Call /\ \A c \in calls' : CallOK(c)
  BY <1>2, SendTyped
<1>4. status' = "saving"
  BY DEF Retry, Send
<1>. QED  BY <1>1, <1>3, <1>4 DEF Retry, TypeIInv, TypeOK, ErrorCanBeRetried

\* A move saves what is pending first,
LEMMA BeginMoveTypes == ASSUME TypeIInv, BeginMove PROVE TypeIInv'
<1>1. 0 \in Versions
  BY AutosaveAssumption DEF Versions
<1>2. CASE pending = None
  BY <1>1, <1>2 DEF BeginMove, TypeIInv, TypeOK, ErrorCanBeRetried
<1>3. CASE pending # None
  <2>1. pending \in Snapshot /\ Send(pending)
    BY <1>3 DEF BeginMove, TypeIInv, TypeOK
  <2>2. calls' \subseteq Call /\ \A c \in calls' : CallOK(c)
    BY <2>1, SendTyped
  <2>3. status' = "saving"
    BY <2>1 DEF Send
  <2>4. move' = [step |-> "flushing", awaits |-> pending.revision] /\ pending.revision \in Versions
    BY <1>3, <2>1 DEF BeginMove, Snapshot
  <2>. QED  BY <1>3, <2>2, <2>3, <2>4 DEF BeginMove, TypeIInv, TypeOK, ErrorCanBeRetried
<1>. QED  BY <1>2, <1>3

\* then posts the move.
LEMMA PostMoveTypes == ASSUME TypeIInv, PostMove PROVE TypeIInv'
<1>1. 0 \in Versions
  BY AutosaveAssumption DEF Versions
<1>. DEFINE c == Request("move", None, active, local[active].number)
<1>2. c \in Call /\ CallOK(c)
  BY RequestTyped DEF TypeIInv, TypeOK, Document
<1>3. calls' = calls \union {c}
  BY DEF PostMove
<1>. HIDE DEF c
<1>. QED  BY <1>1, <1>2, <1>3 DEF PostMove, TypeIInv, TypeOK, ErrorCanBeRetried

\* A reload sends its read.
LEMMA LoadTypes == ASSUME TypeIInv, Load PROVE TypeIInv'
<1>. DEFINE c == Request("load", None, active, 0)
<1>1. c \in Call /\ CallOK(c)
  BY RequestTyped DEF TypeIInv, TypeOK
<1>2. calls' = calls \union {c}
  BY DEF Load
<1>. HIDE DEF c
<1>. QED  BY <1>1, <1>2 DEF Load, client, TypeIInv, TypeOK, ErrorCanBeRetried

\* A patch, with or without a text, makes a document of a document.
LEMMA PatchedTyped ==
  ASSUME NEW doc \in Document, NEW p \in Patch
  PROVE  Patched(doc, p) \in Document
<1>. DEFINE n == doc.number + 1
<1>1. n \in Nat
  BY DEF Document
<1>2. /\ p.name \in Versions /\ p.text \in Versions \union {None} /\ p.moved \in BOOLEAN
  BY DEF Patch
<1>3. Patched(doc, p) = IF p.text = None THEN [doc EXCEPT !.name = p.name, !.number = n]
                        ELSE [name |-> p.name, text |-> p.text, moved |-> p.moved, number |-> n]
  BY DEF Patched
<1>. HIDE DEF n
<1>4. CASE p.text = None
  BY <1>1, <1>2, <1>3, <1>4 DEF Document
<1>5. CASE p.text # None
  <2>1. p.text \in Versions
    BY <1>2, <1>5
  <2>2. Patched(doc, p) = [name |-> p.name, text |-> p.text, moved |-> p.moved, number |-> n]
    BY <1>3, <1>5
  <2>3. ASSUME NEW name \in Versions, NEW text \in Versions, NEW moved \in BOOLEAN, NEW number \in Nat
        PROVE  [name |-> name, text |-> text, moved |-> moved, number |-> number] \in Document
    BY Zenon DEF Document
  <2>. QED  BY <1>1, <1>2, <2>1, <2>2, <2>3, Zenon
<1>. QED  BY <1>4, <1>5

\* What the gateway makes of a call is a document.
LEMMA ServedTyped ==
  ASSUME TypeIInv, NEW c \in calls
  PROVE  Served(c) \in Document
<1>. DEFINE doc == stored[c.resume]
<1>1. doc \in Document
  BY DEF TypeIInv, TypeOK, Call
<1>2. CASE c.kind = "save"
  <2>1. c.snapshot.patch \in Patch
    BY <1>2 DEF TypeIInv, CallOK, Snapshot
  <2>2. Served(c) = Patched(doc, c.snapshot.patch)
    BY <1>2 DEF Served
  <2>. QED  BY <1>1, <2>1, <2>2, PatchedTyped
<1>3. CASE c.kind = "move"
  <2>. DEFINE m == ~ doc.moved
              n == doc.number + 1
  <2>1. n \in Nat
    BY <1>1 DEF Document
  <2>2. m \in BOOLEAN
    OBVIOUS
  <2>3. Served(c) = [doc EXCEPT !.moved = m, !.number = n]
    BY <1>3 DEF Served
  <2>. HIDE DEF m, n, doc
  <2>4. [doc EXCEPT !.moved = m, !.number = n] \in Document
    BY <1>1, <2>1, <2>2 DEF Document
  <2>. QED  BY <2>3, <2>4
<1>4. CASE c.kind \notin {"save", "move"}
  BY <1>1, <1>4 DEF Served
<1>. QED  BY <1>2, <1>3, <1>4

\* The gateway stores what a save carries, or answers with what it holds.
LEMMA ServeTypes == ASSUME TypeIInv, NEW c \in calls, Serve(c) PROVE TypeIInv'
<1>1. c \in Call /\ CallOK(c) /\ c.resume \in Resumes
  BY DEF TypeIInv, Call
<1>2. CASE c.kind = "move" /\ c.base # stored[c.resume].number
  <2>. DEFINE d == [c EXCEPT !.reply = "refused"]
  <2>1. d \in Call /\ CallOK(d)
    BY <1>1, <1>2 DEF Call, CallOK
  <2>2. calls' = (calls \ {c}) \union {d} /\ UNCHANGED stored
    BY <1>2 DEF Serve
  <2>. HIDE DEF d
  <2>. QED  BY <2>1, <2>2 DEF Serve, client, TypeIInv, TypeOK, ErrorCanBeRetried
<1>3. CASE ~ (c.kind = "move" /\ c.base # stored[c.resume].number)
  <2>. DEFINE doc == Served(c)
              docs == IF c.kind = "load" THEN stored ELSE [c.docs EXCEPT ![c.resume] = doc]
              d == [c EXCEPT !.reply = "done", !.docs = docs]
  <2>1. doc \in Document
    BY ServedTyped
  <2>2. /\ stored' = [stored EXCEPT ![c.resume] = doc]
        /\ calls' = (calls \ {c}) \union {d}
    BY <1>3 DEF Serve
  <2>. HIDE DEF doc
  <2>3. stored' \in [Resumes -> Document]
    BY <1>1, <2>1, <2>2 DEF TypeIInv, TypeOK
  <2>4. /\ docs \in [Resumes -> Document \union {None}] /\ docs[c.resume] \in Document
        /\ c.kind = "load" => docs \in [Resumes -> Document]
    BY <1>1, <2>1 DEF TypeIInv, TypeOK, Call
  <2>. HIDE DEF docs
  <2>5. d \in Call /\ CallOK(d)
    BY <1>1, <2>4 DEF Call, CallOK
  <2>. HIDE DEF d
  <2>. QED  BY <2>2, <2>3, <2>5 DEF Serve, client, TypeIInv, TypeOK, ErrorCanBeRetried
<1>. QED  BY <1>2, <1>3

\* An answer changes copies and the status, to another than an error.
LEMMA AnswerTypes == ASSUME TypeIInv, NEW c \in calls, Answer(c) PROVE TypeIInv'
<1>1. c \in Call /\ CallOK(c) /\ c.resume \in Resumes /\ c.reply \in {"refused", "done"}
  BY DEF TypeIInv, Call, Answer
<1>2. 0 \in Versions
  BY AutosaveAssumption DEF Versions
<1>3. CASE c.kind = "save"
  <2>1. SaveAnswered(c)
    BY <1>3 DEF Answer
  <2>2. c.docs[c.resume] \in Document
    BY <1>1, <1>3 DEF CallOK
  <2>3. local' \in [Resumes -> Document]
    BY <1>1, <2>1, <2>2 DEF SaveAnswered, TypeIInv, TypeOK
  <2>. QED  BY <2>1, <2>3 DEF Answer, SaveAnswered, TypeIInv, TypeOK, ErrorCanBeRetried
<1>4. CASE c.kind = "move"
  <2>1. MoveAnswered(c)
    BY <1>4 DEF Answer
  <2>2. local' \in [Resumes -> Document]
    BY <1>1, <2>1 DEF MoveAnswered, CallOK, TypeIInv, TypeOK
  <2>. QED  BY <1>2, <2>1, <2>2 DEF Answer, MoveAnswered, NoMove, TypeIInv, TypeOK, ErrorCanBeRetried
<1>5. CASE c.kind = "load"
  <2>1. LoadAnswered(c)
    BY <1>5 DEF Answer
  <2>2. local' \in [Resumes -> Document]
    BY <1>1, <1>5, <2>1 DEF LoadAnswered, CallOK
  <2>. QED  BY <2>1, <2>2 DEF Answer, LoadAnswered, TypeIInv, TypeOK, ErrorCanBeRetried
<1>. QED  BY <1>1, <1>3, <1>4, <1>5 DEF Call

\* A failure records the save it was, so that it can be retried.
LEMMA FailTypes == ASSUME TypeIInv, NEW c \in calls, Fail(c) PROVE TypeIInv'
<1>1. c \in Call /\ CallOK(c)
  BY DEF TypeIInv
<1>2. 0 \in Versions
  BY AutosaveAssumption DEF Versions
<1>3. move' \in [step: {"none", "flushing", "posted"}, awaits: Versions]
  BY <1>2 DEF Fail, NoMove, TypeIInv, TypeOK
<1>4. CASE c.kind = "save"
  <2>1. lastFailed' = c.snapshot /\ c.snapshot \in Snapshot
    BY <1>1, <1>4 DEF Fail, Remember, CallOK
  <2>2. lastFailed' # None
    BY <2>1, NoneAssumption
  <2>. QED  BY <1>3, <1>4, <2>1, <2>2 DEF Fail, TypeIInv, TypeOK, ErrorCanBeRetried
<1>5. CASE c.kind # "save"
  BY <1>3, <1>5 DEF Fail, TypeIInv, TypeOK, ErrorCanBeRetried
<1>. QED  BY <1>4, <1>5

\* Together, one case per action.
LEMMA NextTypes == ASSUME TypeIInv, [Next]_vars PROVE TypeIInv'
<1>1. CASE Edit  BY <1>1, EditTypes
<1>2. CASE Flush  BY <1>2, FlushTypes
<1>3. CASE Retry  BY <1>3, RetryTypes
<1>4. CASE BeginMove  BY <1>4, BeginMoveTypes
<1>5. CASE PostMove  BY <1>5, PostMoveTypes
<1>6. CASE Load  BY <1>6, LoadTypes
<1>7. ASSUME NEW r \in Resumes, Rename(r) \/ SetActive(r) PROVE TypeIInv'
  BY <1>7, RenameTypes, SetActiveTypes
<1>8. ASSUME NEW kind \in {"save", "move", "load"}, Outcome(kind) PROVE TypeIInv'
  BY <1>8, ServeTypes, AnswerTypes, FailTypes DEF Outcome
<1>9. CASE UNCHANGED vars
  BY <1>9 DEF vars, TypeIInv, TypeOK, ErrorCanBeRetried
<1>. QED  BY <1>1, <1>2, <1>3, <1>4, <1>5, <1>6, <1>7, <1>8, <1>9 DEF Next

\* The copies, the slots and every call keep their types, whatever the user does
\* and whatever order the network delivers in.
THEOREM AutosaveInductive == Spec => []TypeIInv
  BY InitTypes, NextTypes, PTL DEF Spec

\* No answer, however late or refused, puts something else than a document on the screen.
THEOREM AutosaveTypeOK == Spec => []TypeOK
<1>1. TypeIInv => TypeOK
  BY DEF TypeIInv
<1>. QED  BY <1>1, AutosaveInductive, PTL

\* A save that failed is kept until it is retried or replaced by a newer patch.
THEOREM ErrorsCanBeRetried == Spec => []ErrorCanBeRetried
<1>1. TypeIInv => ErrorCanBeRetried
  BY DEF TypeIInv
<1>. QED  BY <1>1, AutosaveInductive, PTL

-----------------------------------------------------------------------------
(* The text on the screen *)

\* The step changes no text that is not being typed.
OnlyTyped == Calm => \A r \in Resumes : local'[r].text # local[r].text => typed'[r] # typed[r]

\* A call that is sent carries the snapshot and has no answer.
LEMMA Sent ==
  ASSUME NEW s, Send(s)
  PROVE  \E n : /\ calls' = calls \union {n}
                /\ n.kind = "save" /\ n.snapshot = s /\ n.resume = s.resume /\ n.reply = "none"
<1>. WITNESS Request("save", s, s.resume, 0)
<1>. QED  BY DEF Send, Request

\* A save with a text stores that text, and its answer shows it.
LEMMA ServedSave ==
  ASSUME TypeIInv, NEW c \in calls, c.kind = "save", c.snapshot.patch.text # None, Serve(c)
  PROVE  /\ \E d : /\ calls' = (calls \ {c}) \union {d}
                   /\ d.kind = "save" /\ d.snapshot = c.snapshot /\ d.resume = c.resume
                   /\ d.reply = "done" /\ d.docs[d.resume].text = c.snapshot.patch.text
         /\ stored'[c.resume].text = c.snapshot.patch.text
         /\ UNCHANGED client /\ UNCHANGED scenario
<1>1. c \in Call /\ c.resume \in Resumes
  BY DEF TypeIInv, Call
<1>. DEFINE doc == Served(c)
            d == [c EXCEPT !.reply = "done", !.docs = [c.docs EXCEPT ![c.resume] = doc]]
<1>2. doc.text = c.snapshot.patch.text
  BY DEF Served, Patched
<1>3. /\ stored' = [stored EXCEPT ![c.resume] = doc]
      /\ calls' = (calls \ {c}) \union {d}
  BY DEF Serve
<1>. HIDE DEF doc
<1>4. stored'[c.resume] = doc
  BY <1>1, <1>3 DEF TypeIInv, TypeOK
<1>5. /\ d.kind = "save" /\ d.snapshot = c.snapshot /\ d.resume = c.resume /\ d.reply = "done"
      /\ d.docs[d.resume] = doc
  BY <1>1 DEF Call
<1>. HIDE DEF d
<1>. QED  BY <1>2, <1>3, <1>4, <1>5 DEF Serve

\* The numbers of the saves in flight, and what a network that keeps order allows.
LEMMA Numbers ==
  ASSUME AutosaveIInv, Calm, NEW c \in calls
  PROVE  /\ c \in Call /\ CallOK(c) /\ c.kind = "save" /\ c.resume \in Resumes
         /\ c.snapshot \in Snapshot /\ c.snapshot.revision \in Nat /\ revision \in Nat
         /\ c.snapshot.resume = c.resume
         /\ scenario.ordered /\ InTurn(c) =>
              \A d \in calls : c.snapshot.revision <= d.snapshot.revision
<1>1. \A d \in calls : d \in Call /\ CallOK(d) /\ d.kind = "save"
  BY DEF AutosaveIInv, TypeIInv, TextIInv
<1>2. \A d \in calls : d.snapshot \in Snapshot /\ d.snapshot.revision \in Nat /\ d.snapshot.resume = d.resume
  BY <1>1, AutosaveAssumption DEF CallOK, Snapshot, Versions
<1>3. c.resume \in Resumes
  BY <1>1 DEF Call
<1>4. revision \in Nat
  BY AutosaveAssumption DEF AutosaveIInv, TypeIInv, TypeOK, Versions
<1>5. ASSUME scenario.ordered, InTurn(c), NEW d \in calls
      PROVE  c.snapshot.revision <= d.snapshot.revision
  BY <1>1, <1>2, <1>5 DEF InTurn, Older
<1>. QED  BY <1>1, <1>2, <1>3, <1>4, <1>5

\* Nothing is typed or sent.
LEMMA InitText == ASSUME Init PROVE TextIInv /\ OrderIInv
<1>1. TextIInv
  BY DEF Init, TextIInv
<1>2. OrderIInv
  BY DEF Init, OrderIInv
<1>. QED  BY <1>1, <1>2

\* An edit changes the text, which is what typing is.
LEMMA EditText == ASSUME AutosaveIInv, Calm, Edit PROVE TextIInv' /\ OnlyTyped
<1>. DEFINE new == revision + 1
<1>1. /\ pending' = [resume |-> active, patch |-> [name |-> local[active].name, text |-> new,
                                                   moved |-> local[active].moved],
                     revision |-> new]
      /\ revision' = new /\ lastFailed' = None
      /\ local' = [local EXCEPT ![active].text = new] /\ typed' = [typed EXCEPT ![active] = new]
      /\ UNCHANGED <<active, calls, move, stored, scenario>>
  BY DEF Edit, Schedule
<1>2. revision \in Nat /\ active \in Resumes /\ new \in Nat
      /\ local \in [Resumes -> Document] /\ typed \in [Resumes -> Versions]
  BY AutosaveAssumption DEF AutosaveIInv, TypeIInv, TypeOK, Versions
<1>3. \A r \in Resumes : typed[r] <= revision /\ typed[r] \in Nat
  BY <1>2, AutosaveAssumption DEF AutosaveIInv, TextIInv, Versions
<1>4. local'[active].text = new /\ \A r \in Resumes \ {active} : local'[r] = local[r]
  BY <1>1, <1>2 DEF Document
<1>5. typed'[active] = new /\ \A r \in Resumes \ {active} : typed'[r] = typed[r]
  BY <1>1, <1>2
<1>6. OnlyTyped
  BY <1>2, <1>3, <1>4, <1>5 DEF OnlyTyped
<1>7. \A r \in Resumes : typed'[r] <= revision'
  BY <1>1, <1>2, <1>3, <1>5
<1>8. pending'.revision = revision' /\ pending'.patch.text = local'[pending'.resume].text
  BY <1>1, <1>4
<1>9. \A c \in calls' :
        /\ c.kind = "save" /\ c.snapshot.revision < revision' /\ c.snapshot.patch.text # None
        /\ c.reply = "done" => c.docs[c.resume].text = c.snapshot.patch.text
  BY <1>1, <1>2, Numbers DEF AutosaveIInv, TextIInv
<1>10. \A c \in calls' : c.snapshot.revision \in Nat
  BY <1>1, Numbers
<1>. HIDE DEF new
<1>11. move' = NoMove
  BY <1>1 DEF AutosaveIInv, TextIInv, NoMove
<1>. QED  BY <1>1, <1>2, <1>6, <1>7, <1>8, <1>9, <1>10, <1>11 DEF TextIInv

\* A save that is sent carries the text of its slot.
LEMMA FlushText == ASSUME AutosaveIInv, Calm, Flush PROVE TextIInv' /\ OnlyTyped
<1>1. PICK n : /\ calls' = calls \union {n}
               /\ n.kind = "save" /\ n.snapshot = pending /\ n.resume = pending.resume
               /\ n.reply = "none"
  BY Sent DEF Flush
<1>2. /\ pending.revision = revision /\ pending.patch.text = local[pending.resume].text
      /\ revision \in Nat
  BY AutosaveAssumption DEF AutosaveIInv, TextIInv, Flush, TypeIInv, TypeOK, Versions
<1>3. pending.patch.text # None
  BY <1>2, AutosaveAssumption DEF AutosaveIInv, TypeIInv, TypeOK, Flush, Snapshot, Document, Versions
<1>4. pending' = None /\ UNCHANGED <<local, active, lastFailed, revision, move, stored, typed, scenario>>
  BY DEF Flush
<1>. QED  BY <1>1, <1>2, <1>3, <1>4 DEF AutosaveIInv, TextIInv, OnlyTyped, NoMove

\* A retry sends the text that is on the screen: what failed was the newest save.
LEMMA RetryText == ASSUME AutosaveIInv, Calm, Retry PROVE TextIInv' /\ OnlyTyped
<1>. DEFINE s == [lastFailed EXCEPT !.revision = revision + 1]
<1>1. OneAtATime
  BY DEF Calm, NothingReplaces, Retry, Does
<1>2. /\ lastFailed \in Snapshot /\ lastFailed.revision = revision /\ revision \in Nat
      /\ lastFailed.patch.text # None /\ lastFailed.patch.text = local[lastFailed.resume].text
  BY <1>1, AutosaveAssumption
     DEF AutosaveIInv, TypeIInv, TypeOK, TextIInv, OrderIInv, Retry, Versions
<1>3. s.resume = lastFailed.resume /\ s.patch = lastFailed.patch /\ s.revision = revision + 1
  BY <1>2 DEF Snapshot
<1>4. PICK n : /\ calls' = calls \union {n}
               /\ n.kind = "save" /\ n.snapshot = s /\ n.resume = s.resume /\ n.reply = "none"
  BY Sent DEF Retry
<1>. HIDE DEF s
<1>5. \A c \in calls : c.snapshot.revision \in Nat
  BY Numbers
<1>6. /\ revision' = revision + 1 /\ lastFailed' = None /\ pending = None
      /\ UNCHANGED <<local, active, pending, move, stored, typed, scenario>>
  BY DEF Retry
<1>7. \A r \in Resumes : typed[r] \in Nat
  BY AutosaveAssumption DEF AutosaveIInv, TypeIInv, Versions
<1>. QED  BY <1>2, <1>3, <1>4, <1>5, <1>6, <1>7 DEF AutosaveIInv, TextIInv, OnlyTyped, NoMove

\* The gateway stores text and answers with it; the browser keeps its own.
LEMMA ServeText ==
  ASSUME AutosaveIInv, Calm, NEW c \in calls, Serve(c)
  PROVE  TextIInv' /\ OnlyTyped
<1>1. c.kind = "save" /\ c.snapshot.patch.text # None
  BY DEF AutosaveIInv, TextIInv
<1>2. UNCHANGED client /\ UNCHANGED scenario
  BY DEF Serve
<1>3. PICK d : /\ calls' = (calls \ {c}) \union {d}
               /\ d.kind = "save" /\ d.snapshot = c.snapshot /\ d.resume = c.resume
               /\ d.reply = "done" /\ d.docs[d.resume].text = c.snapshot.patch.text
  BY <1>1, ServedSave DEF AutosaveIInv
<1>. QED  BY <1>1, <1>2, <1>3 DEF AutosaveIInv, TextIInv, OnlyTyped, NoMove, client

\* The answer of the newest save brings back the text that is on the screen.
LEMMA AnswerText ==
  ASSUME AutosaveIInv, Calm, NEW c \in calls, Answer(c)
  PROVE  TextIInv' /\ OnlyTyped
<1>1. /\ c \in Call /\ c.kind = "save" /\ c.reply = "done" /\ c.resume \in Resumes
      /\ c.docs[c.resume].text = c.snapshot.patch.text
  BY Numbers DEF AutosaveIInv, TextIInv, CallOK, Call, Answer
<1>2. SaveAnswered(c) /\ calls' = calls \ {c} /\ UNCHANGED <<stored, scenario>>
  BY <1>1 DEF Answer
<1>3. \A r \in Resumes : local'[r].text = local[r].text
  <2>1. CASE c.snapshot.revision = revision
    <3>1. local' = [local EXCEPT ![c.resume] = c.docs[c.resume]]
      BY <1>2, <2>1 DEF SaveAnswered
    <3>2. c.docs[c.resume].text = local[c.resume].text
      BY <1>1, <2>1 DEF AutosaveIInv, TextIInv
    <3>. QED  BY <1>1, <3>1, <3>2 DEF AutosaveIInv, TypeIInv, TypeOK
  <2>2. CASE c.snapshot.revision # revision
    BY <1>2, <2>2 DEF SaveAnswered
  <2>. QED  BY <2>1, <2>2
<1>4. UNCHANGED <<active, pending, lastFailed, revision, move, typed>>
  BY <1>2 DEF SaveAnswered
<1>5. /\ pending # None => pending.resume \in Resumes
      /\ lastFailed # None => lastFailed.resume \in Resumes
      /\ \A d \in calls : d.resume \in Resumes
  BY DEF AutosaveIInv, TypeIInv, TypeOK, Snapshot, Call
<1>. QED  BY <1>2, <1>3, <1>4, <1>5 DEF AutosaveIInv, TextIInv, OnlyTyped, NoMove

\* A failure changes no text.
LEMMA FailText ==
  ASSUME AutosaveIInv, Calm, NEW c \in calls, Fail(c)
  PROVE  TextIInv' /\ OnlyTyped
<1>1. c.kind = "save" /\ c.snapshot.resume = c.resume
  BY Numbers
<1>2. /\ calls' = calls \ {c} /\ lastFailed' = c.snapshot /\ move' = move
      /\ UNCHANGED <<local, active, pending, revision, stored, typed, scenario>>
  BY <1>1 DEF Fail, Remember
<1>. QED  BY <1>1, <1>2 DEF AutosaveIInv, TextIInv, OnlyTyped, NoMove

-----------------------------------------------------------------------------
(* The order of the saves *)

\* One save after the other is one of the two calm regimes.
LEMMA OneAtATimeIsCalm == OneAtATime => Calm
  BY DEF Calm

\* An edit is newer than all that was sent.
LEMMA EditOrder == ASSUME AutosaveIInv, OneAtATime, Edit PROVE OrderIInv'
<1>1. /\ pending'.resume = active /\ revision' = revision + 1 /\ lastFailed' = None /\ status' = "dirty"
      /\ local' = [local EXCEPT ![active].text = revision + 1]
      /\ typed' = [typed EXCEPT ![active] = revision + 1]
      /\ UNCHANGED <<active, calls, move, stored, scenario>>
  BY DEF Edit, Schedule
<1>2. active \in Resumes /\ local \in [Resumes -> Document] /\ typed \in [Resumes -> Versions]
  BY DEF AutosaveIInv, TypeIInv, TypeOK
<1>3. local'[active].text = typed'[active]
  BY <1>1, <1>2 DEF Document
<1>4. \A c \in calls : c.snapshot.revision \in Nat /\ c.snapshot.revision < revision'
  <2>1. \A c \in calls : c.snapshot.revision <= revision
    BY OneAtATimeIsCalm DEF AutosaveIInv, TextIInv
  <2>. QED  BY <1>1, <2>1, Numbers, OneAtATimeIsCalm
<1>5. \A c \in calls' : c.snapshot.revision # revision' /\ c.snapshot.revision < revision'
  BY <1>1, <1>4
<1>. QED  BY <1>1, <1>3, <1>5 DEF AutosaveIInv, OrderIInv

\* Saves are sent in the order of their numbers.
LEMMA FlushOrder == ASSUME AutosaveIInv, OneAtATime, Flush PROVE OrderIInv'
<1>1. PICK n : /\ calls' = calls \union {n}
               /\ n.kind = "save" /\ n.snapshot = pending /\ n.resume = pending.resume
               /\ n.reply = "none"
  BY Sent DEF Flush
<1>2. /\ pending # None /\ pending' = None /\ status' = "saving"
      /\ UNCHANGED <<local, active, lastFailed, revision, move, stored, typed, scenario>>
  BY DEF Flush, Send
<1>3. pending.revision = revision /\ pending.resume = active /\ revision \in Nat
  BY <1>2, OneAtATimeIsCalm, AutosaveAssumption
     DEF AutosaveIInv, TextIInv, OrderIInv, TypeIInv, TypeOK, Versions
<1>4. \A c \in calls : c.snapshot.revision \in Nat /\ c.snapshot.revision < revision
  BY <1>2, Numbers, OneAtATimeIsCalm DEF AutosaveIInv, OrderIInv
<1>5. \A c, d \in calls' : d.snapshot.revision = c.snapshot.revision => d = c
  BY <1>1, <1>3, <1>4 DEF AutosaveIInv, OrderIInv
<1>6. \A c \in calls' : c.reply # "none" => \A d \in calls' : c.snapshot.revision <= d.snapshot.revision
  BY <1>1, <1>3, <1>4 DEF AutosaveIInv, OrderIInv
<1>7. \A c \in calls' : c.resume = active' /\ (c.reply = "done" => c.snapshot.revision # revision')
  BY <1>1, <1>2, <1>3, <1>4 DEF AutosaveIInv, OrderIInv
<1>. QED  BY <1>2, <1>5, <1>6, <1>7 DEF AutosaveIInv, OrderIInv

\* A retry is sent when no save is under way.
LEMMA RetryOrder == ASSUME AutosaveIInv, OneAtATime, Retry PROVE OrderIInv'
<1>. DEFINE s == [lastFailed EXCEPT !.revision = revision + 1]
<1>1. calls = {} /\ lastFailed \in Snapshot /\ lastFailed.resume = active
  BY DEF AutosaveIInv, OrderIInv, Retry, TypeIInv, TypeOK
<1>2. s.resume = active
  BY <1>1 DEF Snapshot
<1>3. PICK n : /\ calls' = calls \union {n}
               /\ n.kind = "save" /\ n.snapshot = s /\ n.resume = s.resume /\ n.reply = "none"
  BY Sent DEF Retry
<1>. HIDE DEF s
<1>4. /\ pending' = None /\ lastFailed' = None /\ status' = "saving"
      /\ UNCHANGED <<local, active, stored, typed, scenario>>
  BY DEF Retry, Send
<1>. QED  BY <1>1, <1>2, <1>3, <1>4 DEF AutosaveIInv, OrderIInv

\* The gateway handles the oldest save: nothing handled before it is still in flight.
LEMMA ServeOrder ==
  ASSUME AutosaveIInv, OneAtATime, NEW c \in calls, Serve(c)
  PROVE  OrderIInv'
<1>1. c.kind = "save" /\ c.snapshot.patch.text # None
  BY OneAtATimeIsCalm DEF AutosaveIInv, TextIInv
<1>2. PICK d : /\ calls' = (calls \ {c}) \union {d}
               /\ d.kind = "save" /\ d.snapshot = c.snapshot /\ d.resume = c.resume
               /\ d.reply = "done" /\ d.docs[d.resume].text = c.snapshot.patch.text
  BY <1>1, ServedSave DEF AutosaveIInv
<1>3. stored'[c.resume].text = c.snapshot.patch.text /\ c.resume = active
  BY <1>1, ServedSave DEF AutosaveIInv, OrderIInv
<1>4. UNCHANGED <<local, active, status, pending, lastFailed, revision, move, typed, scenario>>
  BY DEF Serve, client
<1>5. c.reply = "none" /\ scenario.ordered /\ InTurn(c)
  BY DEF Serve, OneAtATime
<1>6. \A e \in calls : c.snapshot.revision <= e.snapshot.revision
  BY <1>5, Numbers, OneAtATimeIsCalm
<1>7. \A e \in calls : e.snapshot.revision \in Nat
  BY Numbers, OneAtATimeIsCalm
<1>8. \A e \in calls : e.reply # "none" => e = c
  BY <1>6, <1>7 DEF AutosaveIInv, OrderIInv
<1>9. \A e \in calls' : e = d \/ (e \in calls /\ e # c /\ e.reply = "none")
  BY <1>2, <1>8
<1>10. status # "error" /\ status # "saved"
  BY DEF AutosaveIInv, OrderIInv
<1>11. \A e, f \in calls' : e.snapshot.revision = f.snapshot.revision => e = f
  BY <1>2, <1>9 DEF AutosaveIInv, OrderIInv
<1>12. \A e \in calls' : e.reply # "none" => \A f \in calls' : e.snapshot.revision <= f.snapshot.revision
  BY <1>2, <1>6, <1>7, <1>9
<1>. QED  BY <1>2, <1>3, <1>4, <1>9, <1>10, <1>11, <1>12 DEF AutosaveIInv, OrderIInv

\* An answer comes for the oldest save; if it is also the newest, it is the last one.
LEMMA LastInFlight ==
  ASSUME AutosaveIInv, OneAtATime, NEW c \in calls, InTurn(c), c.snapshot.revision = revision
  PROVE  calls = {c} /\ pending = None
<1>1. \A e \in calls : c.snapshot.revision <= e.snapshot.revision /\ e.snapshot.revision \in Nat
  BY Numbers, OneAtATimeIsCalm DEF OneAtATime
<1>2. \A e \in calls : e.snapshot.revision <= revision /\ revision \in Nat
  BY Numbers, OneAtATimeIsCalm DEF AutosaveIInv, TextIInv
<1>3. \A e \in calls : e.snapshot.revision = c.snapshot.revision
  BY <1>1, <1>2
<1>4. \A e \in calls : e = c
  BY <1>3 DEF AutosaveIInv, OrderIInv
<1>5. pending = None
  BY <1>2 DEF AutosaveIInv, OrderIInv
<1>. QED  BY <1>4, <1>5

\* An answer to the newest save comes when no other is under way, and its text is stored.
LEMMA AnswerOrder ==
  ASSUME AutosaveIInv, OneAtATime, NEW c \in calls, Answer(c)
  PROVE  OrderIInv'
<1>1. /\ c \in Call /\ c.kind = "save" /\ c.reply = "done" /\ c.resume \in Resumes
      /\ c.docs[c.resume].text = c.snapshot.patch.text /\ InTurn(c) /\ c.resume = active
  BY Numbers, OneAtATimeIsCalm DEF AutosaveIInv, TextIInv, OrderIInv, CallOK, Call, Answer
<1>2. SaveAnswered(c) /\ calls' = calls \ {c} /\ UNCHANGED <<stored, scenario>>
  BY <1>1 DEF Answer
<1>3. UNCHANGED <<active, pending, lastFailed, revision, typed>>
  BY <1>2 DEF SaveAnswered
<1>4. CASE c.snapshot.revision = revision
  <2>1. calls' = {} /\ pending = None
    BY <1>1, <1>2, <1>4, LastInFlight
  <2>2. local' = [local EXCEPT ![active] = c.docs[c.resume]] /\ status' = "saved"
    BY <1>1, <1>2, <1>4 DEF SaveAnswered
  <2>3. /\ local'[active].text = c.snapshot.patch.text
        /\ local[active].text = c.snapshot.patch.text
        /\ stored[active].text = c.snapshot.patch.text
    BY <1>1, <1>4, <2>2, OneAtATimeIsCalm
       DEF AutosaveIInv, TextIInv, OrderIInv, TypeIInv, TypeOK
  <2>. QED  BY <1>2, <1>3, <2>1, <2>2, <2>3 DEF AutosaveIInv, OrderIInv
<1>5. CASE c.snapshot.revision # revision
  BY <1>2, <1>3, <1>5 DEF SaveAnswered, AutosaveIInv, OrderIInv
<1>. QED  BY <1>4, <1>5

\* The failure of the newest save leaves none under way.
LEMMA FailOrder ==
  ASSUME AutosaveIInv, OneAtATime, NEW c \in calls, Fail(c)
  PROVE  OrderIInv'
<1>1. c.kind = "save" /\ c.snapshot.resume = c.resume /\ c.resume = active /\ InTurn(c)
      /\ c.snapshot \in Snapshot
  BY Numbers, OneAtATimeIsCalm DEF AutosaveIInv, OrderIInv, Fail
<1>2. /\ calls' = calls \ {c} /\ lastFailed' = c.snapshot
      /\ status' = IF c.snapshot.revision = revision THEN "error" ELSE status
      /\ UNCHANGED <<local, active, pending, revision, stored, typed, scenario>>
  BY <1>1 DEF Fail, Remember
<1>3. status # "error" /\ status # "saved"
  BY DEF AutosaveIInv, OrderIInv
<1>4. c.snapshot.revision = revision => calls' = {}
  BY <1>1, <1>2, LastInFlight
<1>5. lastFailed' # None
  BY <1>1, <1>2, NoneAssumption
<1>. QED  BY <1>1, <1>2, <1>3, <1>4, <1>5 DEF AutosaveIInv, OrderIInv

\* Together, one case per action of the two regimes.
LEMMA NextCalm ==
  ASSUME AutosaveIInv, [Next]_vars
  PROVE  TextIInv' /\ OrderIInv' /\ OnlyTyped
<1>1. CASE ~ Calm
  <2>1. ~ OneAtATime
    BY <1>1, OneAtATimeIsCalm
  <2>2. UNCHANGED scenario
    BY DEF Next, vars, Edit, Flush, Retry, BeginMove, PostMove, Load, Rename, SetActive, Outcome,
           Serve, Answer, Fail
  <2>3. (~ Calm)' /\ (~ OneAtATime)'
    BY <1>1, <2>1, <2>2 DEF Calm, OneAtATime, NothingReplaces
  <2>. QED  BY <1>1, <2>3 DEF TextIInv, OrderIInv, OnlyTyped
<1>2. CASE Calm
  <2>. USE <1>2
  <2>1. CASE Edit  BY <2>1, EditText, EditOrder DEF OrderIInv, Edit, OneAtATime
  <2>2. CASE Flush  BY <2>2, FlushText, FlushOrder DEF OrderIInv, Flush, OneAtATime
  <2>3. CASE Retry  BY <2>3, RetryText, RetryOrder DEF OrderIInv, Retry, OneAtATime
  <2>4. ASSUME NEW c \in calls, Serve(c) PROVE TextIInv' /\ OrderIInv' /\ OnlyTyped
    BY <2>4, ServeText, ServeOrder DEF OrderIInv, Serve, OneAtATime
  <2>5. ASSUME NEW c \in calls, Answer(c) PROVE TextIInv' /\ OrderIInv' /\ OnlyTyped
    BY <2>5, AnswerText, AnswerOrder DEF OrderIInv, Answer, OneAtATime
  <2>6. ASSUME NEW c \in calls, Fail(c) PROVE TextIInv' /\ OrderIInv' /\ OnlyTyped
    BY <2>6, FailText, FailOrder DEF OrderIInv, Fail, OneAtATime
  <2>7. ASSUME NEW r \in Resumes, SetActive(r) PROVE TextIInv' /\ OrderIInv' /\ OnlyTyped
    <3>1. ~ OneAtATime
      BY <2>7 DEF SetActive, Does, OneAtATime
    <3>2. UNCHANGED <<local, status, pending, lastFailed, revision, calls, move, stored, typed, scenario>>
      BY <2>7 DEF SetActive
    <3>3. (~ OneAtATime)'
      BY <3>1, <3>2 DEF OneAtATime
    <3>4. OrderIInv'
      BY <3>3 DEF OrderIInv
    <3>. QED  BY <3>2, <3>4 DEF AutosaveIInv, TextIInv, OnlyTyped, Calm, OneAtATime,
                                NothingReplaces, NoMove
  <2>8. ASSUME NEW r \in Resumes, Rename(r) PROVE FALSE
    BY <2>8 DEF Rename, Does, Calm, OneAtATime, NothingReplaces
  <2>9. CASE BeginMove \/ PostMove \/ Load
    BY <2>9 DEF BeginMove, PostMove, Load, Does, Calm, OneAtATime, NothingReplaces,
                AutosaveIInv, TextIInv, NoMove
  <2>10. CASE UNCHANGED vars
    BY <2>10 DEF vars, AutosaveIInv, TextIInv, OrderIInv, OnlyTyped, Calm, OneAtATime,
                 NothingReplaces, NoMove
  <2>. QED  BY <2>1, <2>2, <2>3, <2>4, <2>5, <2>6, <2>7, <2>8, <2>9, <2>10 DEF Next, Outcome
<1>. QED  BY <1>1, <1>2

\* What the text and order properties follow from.
LEMMA CalmInductive == Spec => []AutosaveIInv
<1>1. Init => AutosaveIInv
  BY InitTypes, InitText DEF AutosaveIInv
<1>2. AutosaveIInv /\ [Next]_vars => AutosaveIInv'
  BY NextTypes, NextCalm DEF AutosaveIInv
<1>. QED  BY <1>1, <1>2, PTL DEF Spec

\* While the user only types and switches, or types and retries over a network that
\* keeps order, no late answer and no failure changes the text on the screen.
THEOREM AnswersKeepTyping == Spec => TypingIsKept
<1>1. AutosaveIInv /\ [Next]_vars => OnlyTyped
  BY NextCalm
<1>2. AutosaveIInv /\ [Next]_vars =>
        [OneAtATime \/ NothingReplaces
           => \A r \in Resumes : local'[r].text # local[r].text => typed'[r] # typed[r]]_vars
  BY <1>1 DEF OnlyTyped, Calm
<1>. QED  BY <1>2, CalmInductive, PTL DEF Spec, TypingIsKept

\* Over a network that keeps order, a client at rest that shows "saved" has stored
\* the text that was typed last, for any number of failures and retries before it.
THEOREM SavedIsStored == Spec => []SavedMeansStored
<1>1. AutosaveIInv => SavedMeansStored
  BY DEF AutosaveIInv, OrderIInv, SavedMeansStored
<1>. QED  BY <1>1, CalmInductive, PTL

=============================================================================
