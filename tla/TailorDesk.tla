----------------------------- MODULE TailorDesk -----------------------------
(***************************************************************************)
(* The resume builder around its editor: runs of the optimisation pipeline *)
(* read in the ghost pane, the insights they give, the score of the resume *)
(* for the offer, the cover letter dialog and the import of a PDF.         *)
(* The pipeline itself is OptimizePipeline, the editor CvDesign, and the   *)
(* dialog that may come before a provider is called that of PrivacyGate.   *)
(***************************************************************************)
EXTENDS Network

VARIABLES
  builder,     \* the page: [job, ghost, panel, modal]; panel is 0 or tells one opening from the next
  flags,       \* [optimizing, scoring, uploading, generating]
  insights,    \* the store: [run, company, scored], or None
  active,      \* the active resume, None until the library is loaded
  progress,    \* how far the events of each run were taken from its queue
  navigated    \* whether the page was left for the letter

tailorVars == <<builder, flags, insights, active, progress, navigated>>

Runs == 1..MaxActs
Library == {1, 2}

OnPage == ~ navigated /\ ~ builder.modal

\* The resumes, the parsers and the providers keep nothing that matters here: they are served
\* when they are answered.
Heard(k, op) == calls[k].op = op

-----------------------------------------------------------------------------
(* Runs *)

\* Mutant: the stream is not aborted.
StillRead(requests) == requests

\* The effect of the ghost pane on the job it reads is cleaned up.
Aborted(requests) == Only(requests, {k \in DOMAIN requests : requests[k].op # "stream"})

\* The pane reads the job it is given while it is mounted, and reads anew when either changes.
Read(requests, job, ghost) ==
  /\ builder' = [builder EXCEPT !.job = job, !.ghost = ghost]
  /\ calls' = IF job = builder.job /\ ghost = builder.ghost THEN requests
              ELSE Aborted(requests) \o (IF ghost /\ job # None THEN <<Call("stream", job)>> ELSE <<>>)

\* handleOptimize: the button is off during a run, but not the Enter key in the field of the offer.
Optimize ==
  /\ OnPage /\ Act
  /\ Read(Append(calls, Call("optimize", [run |-> acts + 1, resume |-> active])), None, TRUE)
  /\ flags' = [flags EXCEPT !.optimizing = TRUE]
  /\ UNCHANGED <<insights, active, progress, navigated>>

\* The last answer decides which run is read.
Started(k, fine) ==
  /\ Heard(k, "optimize")
  /\ IF fine THEN Read(RemoveAt(calls, k), calls[k].arg, builder.ghost) /\ UNCHANGED flags
     ELSE Read(RemoveAt(calls, k), builder.job, FALSE) /\ flags' = [flags EXCEPT !.optimizing = FALSE]
  /\ UNCHANGED <<acts, insights, active, progress, navigated>>

ToggleGhost ==
  /\ OnPage /\ Act
  /\ Read(calls, builder.job, ~ builder.ghost)
  /\ UNCHANGED <<flags, insights, active, progress, navigated>>

\* Events of a run, in their order: up to two results for the offer, one on the company, the end.
Event(run, to) == progress[run] < to /\ progress' = [progress EXCEPT ![run] = to]

\* handleJobResult, for a run without a resume of the library: another gives no result.
JobResult(k) ==
  LET job == calls[k].arg IN
  /\ Heard(k, "stream") /\ job.resume = None
  /\ \E to \in {1, 2} : progress[job.run] = to - 1 /\ Event(job.run, to)
  /\ insights' = [run |-> job.run, company |-> FALSE, scored |-> FALSE]
  /\ builder' = [builder EXCEPT !.panel = IF @ = 0 THEN acts + 1 ELSE @]
  /\ UNCHANGED <<calls, acts, flags, active, navigated>>

\* handleCompanyResult
CompanyResult(k) ==
  LET job == calls[k].arg IN
  /\ Heard(k, "stream") /\ progress[job.run] > 0 /\ Event(job.run, 3)
  /\ insights' = IF insights = None THEN None ELSE [insights EXCEPT !.company = TRUE]
  /\ UNCHANGED <<calls, acts, builder, flags, active, navigated>>

\* An event that is taken for a reader that was aborted is lost.
EventLost ==
  /\ ~ navigated /\ ~ builder.ghost /\ builder.job # None /\ builder.job.resume = None
  /\ progress[builder.job.run] < 3 /\ Event(builder.job.run, progress[builder.job.run] + 1)
  /\ UNCHANGED <<calls, acts, builder, flags, insights, active, navigated>>

\* handleGhostDone
RunDone(k) ==
  LET job == calls[k].arg IN
  /\ Heard(k, "stream") /\ progress[job.run] > 0 /\ Event(job.run, 4)
  /\ Read(RemoveAt(calls, k), builder.job, FALSE)
  /\ flags' = [flags EXCEPT !.optimizing = FALSE]
  /\ UNCHANGED <<acts, insights, active, navigated>>

\* Mutant: a run that failed is not over for the page.
RunFailsUnheard(k) == Heard(k, "stream") /\ Done(k) /\ UNCHANGED tailorVars

\* handleGhostError: the run failed, is not known any more or its stream broke.  A stream that closed
\* without an event would not come here, but event_bus.py ends each of them with one.
RunFails(k) ==
  /\ Heard(k, "stream") /\ Done(k)
  /\ flags' = [flags EXCEPT !.optimizing = FALSE]
  /\ UNCHANGED <<builder, insights, active, progress, navigated>>

-----------------------------------------------------------------------------
(* Insights *)

\* A panel that is closed takes its flag along.
TogglePanel ==
  /\ OnPage /\ Edit
  /\ builder' = [builder EXCEPT !.panel = IF @ = 0 THEN acts + 1 ELSE 0]
  /\ flags' = [flags EXCEPT !.scoring = FALSE]
  /\ UNCHANGED <<insights, active, progress, navigated>>

\* calculateAtsScore
Score ==
  /\ OnPage /\ builder.panel # 0 /\ insights # None /\ ~ flags.scoring
  /\ Ask("score", [insights |-> insights, panel |-> builder.panel])
  /\ flags' = [flags EXCEPT !.scoring = TRUE]
  /\ UNCHANGED <<builder, insights, active, progress, navigated>>

\* The insights that were scored are shown again with their score, whatever is shown by now.
Scored(k, fine) ==
  /\ Heard(k, "score") /\ Done(k)
  /\ insights' = IF fine THEN [calls[k].arg.insights EXCEPT !.scored = TRUE] ELSE insights
  /\ flags' = [flags EXCEPT !.scoring = @ /\ calls[k].arg.panel # builder.panel]
  /\ UNCHANGED <<builder, active, progress, navigated>>

ClearInsights ==
  /\ OnPage /\ builder.panel # 0 /\ insights # None /\ Edit
  /\ insights' = None
  /\ UNCHANGED <<builder, flags, active, progress, navigated>>

-----------------------------------------------------------------------------
(* Resumes *)

\* setActiveResume
SelectResume(id) ==
  /\ OnPage /\ active # None /\ Edit
  /\ active' = id /\ insights' = None
  /\ UNCHANGED <<builder, flags, progress, navigated>>

\* loadResumes
ResumesLoaded(k, fine) ==
  /\ Heard(k, "load") /\ Done(k)
  /\ IF fine THEN active' \in Library /\ insights' = None ELSE UNCHANGED <<active, insights>>
  /\ UNCHANGED <<builder, flags, progress, navigated>>

\* Mutant: the entry of the menu stays on during an import.
UploadPdfAgain ==
  /\ OnPage /\ Ask("upload", None)
  /\ flags' = [flags EXCEPT !.uploading = TRUE]
  /\ UNCHANGED <<builder, insights, active, progress, navigated>>

\* handlePdfUpload
UploadPdf ==
  /\ OnPage /\ ~ flags.uploading /\ Ask("upload", None)
  /\ flags' = [flags EXCEPT !.uploading = TRUE]
  /\ UNCHANGED <<builder, insights, active, progress, navigated>>

Uploaded(k) ==
  /\ Heard(k, "upload") /\ Done(k)
  /\ flags' = [flags EXCEPT !.uploading = FALSE]
  /\ UNCHANGED <<builder, insights, active, progress, navigated>>

-----------------------------------------------------------------------------
(* CoverLetterModal covers the page; closed, it goes on with what it began *)

OpenModal ==
  /\ OnPage /\ Edit
  /\ builder' = [builder EXCEPT !.modal = TRUE]
  /\ UNCHANGED <<flags, insights, active, progress, navigated>>

CloseModal ==
  /\ ~ navigated /\ builder.modal /\ Edit
  /\ builder' = [builder EXCEPT !.modal = FALSE]
  /\ UNCHANGED <<flags, insights, active, progress, navigated>>

\* handleGenerate
Generate ==
  /\ ~ navigated /\ builder.modal /\ ~ flags.generating
  /\ Ask("letter", None)
  /\ flags' = [flags EXCEPT !.generating = TRUE]
  /\ UNCHANGED <<builder, insights, active, progress, navigated>>

LetterHeard(k, fine) ==
  /\ Heard(k, "letter")
  /\ IF fine THEN Then(k, "draft", None) /\ UNCHANGED flags
             ELSE Done(k) /\ flags' = [flags EXCEPT !.generating = FALSE]
  /\ UNCHANGED <<builder, insights, active, progress, navigated>>

\* With its draft kept the letter is opened on its page: only the calls of the store go on.
DraftSaved(k, fine) ==
  /\ Heard(k, "draft")
  /\ flags' = [flags EXCEPT !.generating = FALSE]
  /\ IF fine THEN /\ calls' = Only(calls, Pending("load") \cup Pending("score"))
                  /\ navigated' = TRUE /\ builder' = [builder EXCEPT !.modal = FALSE] /\ UNCHANGED acts
             ELSE Done(k) /\ UNCHANGED <<builder, navigated>>
  /\ UNCHANGED <<insights, active, progress>>

-----------------------------------------------------------------------------

Effects == <<Call("load", None)>>

PageInit ==
  /\ builder = [job |-> None, ghost |-> FALSE, panel |-> 0, modal |-> FALSE]
  /\ flags = [optimizing |-> FALSE, scoring |-> FALSE, uploading |-> FALSE, generating |-> FALSE]
  /\ insights = None /\ active = None
  /\ progress = [run \in Runs |-> 0]
  /\ navigated = FALSE

Answers ==
  \/ EventLost
  \/ \E k \in DOMAIN calls :
       \/ JobResult(k) \/ CompanyResult(k) \/ RunDone(k) \/ RunFails(k) \/ Uploaded(k)
       \/ \E fine \in BOOLEAN :
            Started(k, fine) \/ Scored(k, fine) \/ ResumesLoaded(k, fine) \/ LetterHeard(k, fine) \/ DraftSaved(k, fine)

Next ==
  \/ Optimize \/ ToggleGhost \/ TogglePanel \/ Score \/ ClearInsights \/ UploadPdf
  \/ OpenModal \/ CloseModal \/ Generate
  \/ (\E id \in Library : SelectResume(id))
  \/ Answers

\* A run is heard of only while the ghost pane is shown.
Busy ==
  ~ navigated /\ ((flags.optimizing /\ builder.ghost) \/ flags.scoring \/ flags.uploading \/ flags.generating)

SentOnce == \A ops \in {{"upload"}, {"letter", "draft"}} : Cardinality({k \in DOMAIN calls : calls[k].op \in ops}) <= 1

\* One stream is read at most, and it is the one of the run that was answered last: though runs
\* are started over each other and the pane is hidden and shown, no event of another run comes in.
OneRunIsRead ==
  /\ Cardinality(Pending("stream")) <= 1
  /\ \A k \in Pending("stream") : builder.ghost /\ calls[k].arg = builder.job

=============================================================================
