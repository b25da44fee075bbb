---------------------------- MODULE WorkflowDesk ----------------------------
(***************************************************************************)
(* The page of the application workflow: the opportunities, the artifacts  *)
(* offered for the selected one, and the actions on it, each followed by a *)
(* reload of everything.  The routes are those of OpportunityWorkflow, one *)
(* step each here.                                                         *)
(***************************************************************************)
EXTENDS Network

VARIABLES
  opportunities, \* the gateway's: job, links and readiness of each
  artifacts,     \* its resumes, reports, letters and tracker entries: the job of each
  shown,         \* what the page loaded, or None
  loading,
  busyAction,    \* the one action whose button is off, or None
  selectedId,
  fields,        \* the identifiers in the selects of the panel
  form           \* the creation form: empty, job or manual

workflowVars == <<opportunities, artifacts, shown, loading, busyAction, selectedId, fields, form>>
gatewayVars == <<opportunities, artifacts>>
pageVars == <<shown, loading, busyAction, selectedId, fields, form>>

Kinds == {"resume", "ats", "letter", "application"}
Unlinked == [kind \in Kinds |-> None]

-----------------------------------------------------------------------------
(* The gateway *)

ListAll(k) ==
  /\ Waiting(k, "load")
  /\ Reply(k, [opportunities |-> opportunities, artifacts |-> artifacts])
  /\ UNCHANGED workflowVars

Commit(k) == Reply(k, Ok) /\ UNCHANGED pageVars

Aligned(job, other) == job = other \/ None \in {job, other}
JobOf(kind, id) == artifacts[kind][id]
OrElse(value, fallback) == IF value = None THEN fallback ELSE value

\* A report or a letter of another job is refused; a tracker entry takes the job when it has none.
LinkArtifact(k) ==
  LET opportunity == calls[k].arg.opportunity
      kind == calls[k].arg.kind
      id == calls[k].arg.id
  IN /\ Waiting(k, "link") /\ id \in DOMAIN artifacts[kind]
     /\ kind \in {"ats", "letter"} => Aligned(opportunities[opportunity].job, JobOf(kind, id))
     /\ opportunities' = [opportunities EXCEPT ![opportunity].links[kind] = id, ![opportunity].ready = FALSE]
     /\ artifacts' = IF kind = "application"
                     THEN [artifacts EXCEPT !.application[id] = OrElse(@, opportunities[opportunity].job)]
                     ELSE artifacts
     /\ Commit(k)

CreateTracker(k) ==
  LET opportunity == calls[k].arg.opportunity IN
  /\ Waiting(k, "tracker-create")
  /\ artifacts' = [artifacts EXCEPT !.application = Append(@, opportunities[opportunity].job)]
  /\ opportunities' = [opportunities EXCEPT ![opportunity].links.application = Len(artifacts.application) + 1,
                                            ![opportunity].ready = FALSE]
  /\ Commit(k)

Missing(o, kind) == o.links[kind] # None /\ o.links[kind] \notin DOMAIN artifacts[kind]

MarkReadyToApply(k) ==
  LET o == opportunities[calls[k].arg.opportunity] IN
  /\ Waiting(k, "ready")
  /\ \A kind \in Kinds : o.links[kind] # None /\ ~ Missing(o, kind) /\ Aligned(o.job, JobOf(kind, o.links[kind]))
  /\ opportunities' = [opportunities EXCEPT ![calls[k].arg.opportunity].ready = TRUE]
  /\ UNCHANGED artifacts /\ Commit(k)

\* detach_missing_application
RepairOpportunity(k) ==
  /\ Waiting(k, "repair") /\ Missing(opportunities[calls[k].arg.opportunity], "application")
  /\ opportunities' = [opportunities EXCEPT ![calls[k].arg.opportunity].links.application = None,
                                            ![calls[k].arg.opportunity].ready = FALSE]
  /\ UNCHANGED artifacts /\ Commit(k)

CreateOpportunity(k) ==
  /\ Waiting(k, "create")
  /\ opportunities' = Append(opportunities, [job |-> calls[k].arg.job, links |-> Unlinked, ready |-> FALSE])
  /\ UNCHANGED artifacts /\ Commit(k)

ReadLetter(k) == Waiting(k, "open") /\ calls[k].arg.id \in DOMAIN artifacts.letter /\ Reply(k, Ok) /\ UNCHANGED workflowVars

Gateway(k) ==
  \/ ListAll(k) \/ LinkArtifact(k) \/ CreateTracker(k) \/ MarkReadyToApply(k) \/ RepairOpportunity(k)
  \/ CreateOpportunity(k) \/ ReadLetter(k)

-----------------------------------------------------------------------------
(* The page *)

Selected == shown.opportunities[selectedId]
Detail == shown # None /\ UNCHANGED gatewayVars

\* What the select of a kind offers: of the reports, letters and entries, those of the selected job.
Offered(kind) ==
  {id \in DOMAIN shown.artifacts[kind] :
     kind = "resume" \/ Selected.job = None \/ shown.artifacts[kind][id] = Selected.job}

\* The fields are the links of the selected opportunity, each time it is another or is loaded anew.
FieldsOf(opportunity) == opportunity.links

Choose(kind, id) ==
  /\ Detail /\ id \in Offered(kind) /\ fields[kind] # id
  /\ Edit
  /\ fields' = [fields EXCEPT ![kind] = id]
  /\ UNCHANGED <<shown, loading, busyAction, selectedId, form>>

\* Mutant: the choices made for the opportunity that is left stay.
SelectKeepingFields(id) ==
  /\ Detail /\ ~ loading /\ id \in DOMAIN shown.opportunities \ {selectedId}
  /\ Edit
  /\ selectedId' = id
  /\ UNCHANGED <<shown, loading, busyAction, fields, form>>

\* The list is hidden while it loads.
SelectOpportunity(id) ==
  /\ Detail /\ ~ loading /\ id \in DOMAIN shown.opportunities \ {selectedId}
  /\ Edit
  /\ selectedId' = id /\ fields' = FieldsOf(shown.opportunities[id])
  /\ UNCHANGED <<shown, loading, busyAction, form>>

\* runAction: one action is remembered, the last one started.  Its button is off.
RunAction(action, op, arg) ==
  /\ busyAction # action
  /\ Ask(op, arg)
  /\ busyAction' = action
  /\ UNCHANGED <<gatewayVars, shown, loading, selectedId, fields, form>>

\* The four panels.
Link(kind) ==
  /\ Detail /\ fields[kind] # None
  /\ RunAction(kind, "link", [opportunity |-> selectedId, kind |-> kind, id |-> fields[kind]])

CreateTrackerEntry == Detail /\ RunAction("tracker-create", "tracker-create", [opportunity |-> selectedId])

\* The journal of transitions, and its button.
MarkReady == Detail /\ RunAction("ready", "ready", [opportunity |-> selectedId])

\* The repairs the integrity report of the gateway advertises.
Repair ==
  /\ Detail /\ Selected.links.application # None
  /\ Selected.links.application \notin DOMAIN shown.artifacts.application
  /\ RunAction("repair", "repair", [opportunity |-> selectedId])

Fill(choice) ==
  /\ form # choice
  /\ Edit
  /\ form' = choice
  /\ UNCHANGED <<gatewayVars, shown, loading, busyAction, selectedId, fields>>

CreateWorkflow ==
  /\ form # "empty"
  /\ RunAction("create", "create", [job |-> IF form = "job" THEN "job1" ELSE None])

\* openActiveCoverLetter: the letter chosen or linked, handed over to the editor.
OpenActiveCoverLetter ==
  /\ Detail /\ OrElse(fields.letter, Selected.links.letter) # None
  /\ Ask("open", [id |-> OrElse(fields.letter, Selected.links.letter)])
  /\ UNCHANGED pageVars

-----------------------------------------------------------------------------
(* The answers *)

\* The selection stays while it is listed; else the first is selected, the last one updated: any.
Kept(answer) == IF selectedId \in DOMAIN answer.opportunities THEN {selectedId} ELSE DOMAIN answer.opportunities

\* load, alone or at the end of an action.
Loaded(k, fine) ==
  /\ Answered(k, "load", fine) /\ Done(k)
  /\ loading' = FALSE
  /\ busyAction' = IF calls[k].arg.origin = "action" THEN None ELSE busyAction
  /\ IF fine
     THEN /\ shown' = calls[k].reply
          /\ selectedId' \in Kept(calls[k].reply)
          /\ fields' = FieldsOf(shown'.opportunities[selectedId'])
     ELSE UNCHANGED <<shown, selectedId, fields>>
  /\ UNCHANGED <<gatewayVars, form>>

\* The slot of the button is freed whatever action holds it by now.
ActionHeard(k, fine) ==
  /\ \E op \in {"link", "tracker-create", "ready", "repair", "create"} : Answered(k, op, fine)
  /\ IF fine THEN Then(k, "load", [origin |-> "action"]) /\ loading' = TRUE /\ UNCHANGED busyAction
             ELSE Done(k) /\ busyAction' = None /\ UNCHANGED loading
  /\ form' = IF fine /\ calls[k].op = "create" THEN "empty" ELSE form
  /\ UNCHANGED <<gatewayVars, shown, selectedId, fields>>

LetterHeard(k, fine) == Answered(k, "open", fine) /\ Done(k) /\ UNCHANGED workflowVars

-----------------------------------------------------------------------------

Effects == <<Call("load", [origin |-> "open"])>>

\* Three opportunities: one without a job, one with a tracker entry that was deleted.
PageInit ==
  /\ opportunities = <<[job |-> "job1", links |-> [Unlinked EXCEPT !.resume = 1, !.ats = 1, !.letter = 1], ready |-> FALSE],
                       [job |-> "job2", links |-> [Unlinked EXCEPT !.application = 9], ready |-> FALSE],
                       [job |-> None, links |-> Unlinked, ready |-> FALSE]>>
  /\ artifacts = [resume |-> <<None>>, ats |-> <<"job1", "job2">>, letter |-> <<"job1", "job2">>, application |-> <<"job2", None>>]
  /\ shown = None /\ loading = TRUE /\ busyAction = None
  /\ selectedId = None /\ fields = Unlinked /\ form = "empty"

Answers == \E k \in DOMAIN calls : Gateway(k) \/ \E fine \in BOOLEAN : Loaded(k, fine) \/ ActionHeard(k, fine) \/ LetterHeard(k, fine)

Next ==
  \/ CreateTrackerEntry \/ MarkReady \/ Repair \/ CreateWorkflow \/ OpenActiveCoverLetter
  \/ (\E id \in 1..(3 + MaxActs) : SelectOpportunity(id)) \/ (\E choice \in {"job", "manual"} : Fill(choice))
  \/ (\E kind \in Kinds : Link(kind) \/ \E id \in 1..(2 + MaxActs) : Choose(kind, id))
  \/ Answers

Busy == loading \/ busyAction # None

\* Whatever is chosen, reloaded and selected meanwhile, what an opportunity is linked to is of its job, until a
\* new tracker entry takes the identifier of one that was deleted under a link.
LinksFitTheJob ==
  \A n \in DOMAIN opportunities, kind \in Kinds :
    LET o == opportunities[n] IN
    o.links[kind] # None /\ ~ Missing(o, kind) => Aligned(o.job, JobOf(kind, o.links[kind]))

=============================================================================
