--------------------------- MODULE ResumeLibrary ---------------------------
(***************************************************************************)
(* What the resume store promises to one user who is not interrupted: a    *)
(* library of resumes and the history of each, where every change of a     *)
(* resume is one step that also records what it becomes, under the next    *)
(* number of its history.                                                  *)
(***************************************************************************)
EXTENDS Integers, FiniteSetsExt

CONSTANTS
  Ids,       \* the identifiers of resumes
  Locales,   \* the supported locales
  Contents,  \* what a locale variant may hold
  None       \* absent resume, absent variant

VARIABLES
  library,   \* the resume of each identifier
  history    \* what was recorded of all of them

Available(d) == {l \in Locales : d.variants[l] # None}

\* A resume: its default and its active variant are there.
Resumes ==
  {d \in [variants: [Locales -> Contents \union {None}], default: Locales, active: Locales] :
     {d.default, d.active} \subseteq Available(d)}

Numbers(id) == {record.revision : record \in {r \in history : r.resume = id}}

Latest(id) == Max({0} \union Numbers(id))

\* The resume becomes d, which is recorded.
Save(id, d) ==
  /\ library' = [library EXCEPT ![id] = d]
  /\ history' = history \union {[resume |-> id, revision |-> Latest(id) + 1, data |-> d]}

Create(id) ==
  /\ library[id] = None
  /\ \E l \in Locales, c \in Contents :
       Save(id, [variants |-> [m \in Locales |-> IF m = l THEN c ELSE None], default |-> l, active |-> l])

Duplicate(id, source) == library[id] = None /\ library[source] # None /\ Save(id, library[source])

\* An edit, a restore, a section move, a snapshot, or a variant added, activated or dropped: one
\* variant is written, and one activated; the others and the default locale stay.
Write(id) ==
  LET old == library[id] IN
  /\ old # None
  /\ \E l, active \in Locales, c \in Contents \union {None} :
       LET new == [variants |-> [old.variants EXCEPT ![l] = c], default |-> old.default, active |-> active]
       IN new \in Resumes /\ Save(id, new)

\* The history of a deleted resume stays.
Delete(id) ==
  /\ library[id] # None
  /\ library' = [library EXCEPT ![id] = None]
  /\ UNCHANGED history

Purge == history' = {} /\ UNCHANGED library

Init == library \in [Ids -> Resumes \union {None}] /\ history = {}

Next ==
  \/ \E id \in Ids : Create(id) \/ Write(id) \/ Delete(id)
  \/ \E id, source \in Ids : Duplicate(id, source)
  \/ Purge

Spec == Init /\ [][Next]_<<library, history>>
=============================================================================
