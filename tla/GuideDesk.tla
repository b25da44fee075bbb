----------------------------- MODULE GuideDesk -----------------------------
(***************************************************************************)
(* The guide: the checklists of its sections, ticked by the user, kept in  *)
(* a draft that is read when the page opens and written at every tick.     *)
(***************************************************************************)
EXTENDS Network

VARIABLES
  guideProgress,    \* the draft of the gateway: the items done, or None
  completed,        \* the items ticked on the page
  isProgressLoaded,
  activePath        \* the path of the guide that is shown

guideVars == <<guideProgress, completed, isProgressLoaded, activePath>>

\* The items of the sections of a path: a section may be in two paths.
Paths == [first |-> {"privacy", "build"}, tailor |-> {"build", "review"}]

-----------------------------------------------------------------------------

GetDraft(k) == Waiting(k, "loadDraft") /\ Reply(k, [done |-> guideProgress]) /\ UNCHANGED guideVars

\* The draft is replaced whole, in the order the requests are served.
PutDraft(k) ==
  /\ Waiting(k, "saveDraft") /\ Reply(k, Ok)
  /\ guideProgress' = calls[k].arg.done
  /\ UNCHANGED <<completed, isProgressLoaded, activePath>>

\* Progress of an earlier visit replaces what was ticked while it was read.
ProgressLoaded(k, fine) ==
  /\ Answered(k, "loadDraft", fine) /\ Done(k)
  /\ completed' = IF fine /\ calls[k].reply.done # None THEN calls[k].reply.done ELSE completed
  /\ isProgressLoaded' = TRUE
  /\ UNCHANGED <<guideProgress, activePath>>

\* Nobody waits for the draft to be saved.
DraftSaved(k, fine) == Answered(k, "saveDraft", fine) /\ Done(k) /\ UNCHANGED guideVars

SelectPath(path) ==
  /\ activePath # path
  /\ Edit
  /\ activePath' = path
  /\ UNCHANGED <<guideProgress, completed, isProgressLoaded>>

ToggleChecklist(item) ==
  /\ item \in Paths[activePath]
  /\ completed' = SymDiff(completed, {item})
  /\ Ask("saveDraft", [done |-> completed'])
  /\ UNCHANGED <<guideProgress, isProgressLoaded, activePath>>

-----------------------------------------------------------------------------

Effects == <<Call("loadDraft", None)>>

PageInit ==
  /\ guideProgress \in {None, {"review"}}
  /\ completed = {} /\ isProgressLoaded = FALSE /\ activePath = "first"

Answers ==
  \E k \in DOMAIN calls : GetDraft(k) \/ PutDraft(k) \/ \E fine \in BOOLEAN : ProgressLoaded(k, fine) \/ DraftSaved(k, fine)

Next ==
  \/ \E path \in DOMAIN Paths : SelectPath(path) \/ \E item \in Paths[path] : ToggleChecklist(item)
  \/ Answers

Busy == ~ isProgressLoaded

=============================================================================
