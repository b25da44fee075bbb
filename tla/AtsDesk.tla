------------------------------ MODULE AtsDesk ------------------------------
(***************************************************************************)
(* The page that scores a resume for an offer: a run of the pipeline, its  *)
(* stream, the scoring request the stream triggers, the draft of the last  *)
(* report, and the zone where a resume is imported.                        *)
(***************************************************************************)
EXTENDS PrivacyGate

VARIABLES
  reportDraft, \* the gateway's draft: the run it reports on, or None
  report,      \* the report shown, or None while the form is
  isAnalyzing,
  cvLoaded,
  zone,        \* the import zone on the page, a new one each time the form is shown
  isUploading, \* its flag
  runs         \* runs asked so far

pageVars == <<reportDraft, report, isAnalyzing, cvLoaded, zone, isUploading, runs>>
atsVars == <<gateVars, pageVars>>

-----------------------------------------------------------------------------
(* Analysis *)

\* handleAnalyze
Analyze ==
  /\ dialog = None /\ report = None /\ ~ isAnalyzing /\ cvLoaded
  /\ Ask("start", [run |-> runs + 1])
  /\ runs' = runs + 1 /\ isAnalyzing' = TRUE
  /\ UNCHANGED <<gateVars, reportDraft, report, cvLoaded, zone, isUploading>>

\* A run that started has a stream, of which the page knows if it gave the offer.
Started(k, fine) ==
  /\ Settled(k, "start", fine)
  /\ IF fine THEN Then(k, "stream", [run |-> calls[k].arg.run, offer |-> FALSE]) /\ UNCHANGED isAnalyzing
             ELSE Done(k) /\ isAnalyzing' = FALSE
  /\ UNCHANGED <<gateVars, reportDraft, report, cvLoaded, zone, isUploading, runs>>

\* job_result: the resume is scored, while the stream goes on.
JobResult(k) ==
  /\ Waiting(k, "stream") /\ ~ calls[k].arg.offer
  /\ calls' = Append([calls EXCEPT ![k].arg.offer = TRUE], Call("score", [run |-> calls[k].arg.run]))
  /\ UNCHANGED <<acts, atsVars>>

\* The stream reports a failure, or breaks, at any time.
StreamFails(k) ==
  /\ Waiting(k, "stream") /\ Done(k)
  /\ isAnalyzing' = FALSE
  /\ UNCHANGED <<gateVars, reportDraft, report, cvLoaded, zone, isUploading, runs>>

\* "done" means nothing to the page.  A stream ends with it or with a failure: event_bus.py emits one of
\* them before it closes a stream, and one that closed without either would not be heard of.
StreamEnds(k) == Waiting(k, "stream") /\ calls[k].arg.offer /\ Done(k) /\ UNCHANGED atsVars

\* The last step of the handler: the stream of the run is aborted.
Abort(k) ==
  LET run == calls[k].arg.run
      others == {n \in DOMAIN calls \ {k} : ~ (calls[n].op = "stream" /\ calls[n].arg.run = run)}
  IN calls' = Only(calls, others) /\ UNCHANGED acts

\* A form that gives way to a report takes its import zone along.
Scored(k, fine) ==
  /\ Settled(k, "score", fine)
  /\ IF fine THEN /\ Then(k, "saveDraft", [run |-> calls[k].arg.run])
                  /\ report' = calls[k].arg.run /\ isUploading' = FALSE /\ UNCHANGED isAnalyzing
             ELSE Abort(k) /\ isAnalyzing' = FALSE /\ UNCHANGED <<report, isUploading>>
  /\ UNCHANGED <<gateVars, reportDraft, cvLoaded, zone, runs>>

PutDraft(k) ==
  /\ Waiting(k, "saveDraft") /\ Reply(k, Ok)
  /\ reportDraft' = calls[k].arg.run
  /\ UNCHANGED <<gateVars, report, isAnalyzing, cvLoaded, zone, isUploading, runs>>

DraftSaved(k, fine) ==
  /\ Answered(k, "saveDraft", fine) /\ Abort(k)
  /\ isAnalyzing' = FALSE
  /\ UNCHANGED <<gateVars, reportDraft, report, cvLoaded, zone, isUploading, runs>>

GetDraft(k) == Waiting(k, "loadDraft") /\ Reply(k, [run |-> reportDraft]) /\ UNCHANGED atsVars

\* The draft is shown when it comes, whatever was started meanwhile.
DraftShown(k, fine) ==
  /\ Answered(k, "loadDraft", fine) /\ Done(k)
  /\ LET shown == IF fine THEN calls[k].reply.run ELSE None IN
       IF shown # None THEN report' = shown /\ isUploading' = FALSE ELSE UNCHANGED <<report, isUploading>>
  /\ UNCHANGED <<gateVars, reportDraft, isAnalyzing, cvLoaded, zone, runs>>

NewAnalysis ==
  /\ dialog = None /\ report # None
  /\ Edit
  /\ report' = None /\ zone' = zone + 1 /\ isUploading' = FALSE
  /\ UNCHANGED <<gateVars, reportDraft, isAnalyzing, cvLoaded, runs>>

-----------------------------------------------------------------------------
(* CVUploadZone *)

UseCurrentCV ==
  /\ dialog = None /\ report = None /\ ~ cvLoaded
  /\ Edit
  /\ cvLoaded' = TRUE
  /\ UNCHANGED <<gateVars, reportDraft, report, isAnalyzing, zone, isUploading, runs>>

\* handleJson: the resume of the file is kept by the gateway, then used.
LoadJson ==
  /\ dialog = None /\ report = None /\ ~ cvLoaded
  /\ Ask("json", None)
  /\ UNCHANGED atsVars

\* handlePdf
UploadPdf ==
  /\ dialog = None /\ report = None /\ ~ isUploading
  /\ Ask("upload", [run |-> zone])
  /\ isUploading' = TRUE
  /\ UNCHANGED <<gateVars, reportDraft, report, isAnalyzing, cvLoaded, zone, runs>>

\* The flag is the one of the zone that uploaded.
Flag(k) == isUploading' = (isUploading /\ calls[k].arg.run # zone)

Uploaded(k, fine) ==
  /\ Settled(k, "upload", fine)
  /\ IF fine THEN Then(k, "keep", [run |-> calls[k].arg.run]) /\ UNCHANGED isUploading
             ELSE Done(k) /\ Flag(k)
  /\ UNCHANGED <<gateVars, reportDraft, report, isAnalyzing, cvLoaded, zone, runs>>

KeepCurrent(k) == (Waiting(k, "keep") \/ Waiting(k, "json")) /\ Reply(k, Ok) /\ UNCHANGED atsVars

\* A resume that the gateway did not keep is used all the same, when it comes from a PDF.
CvKept(k, fine) ==
  /\ \/ Answered(k, "keep", fine) /\ cvLoaded' = TRUE /\ Flag(k)
     \/ Answered(k, "json", fine) /\ cvLoaded' = (cvLoaded \/ fine) /\ UNCHANGED isUploading
  /\ Done(k)
  /\ UNCHANGED <<gateVars, reportDraft, report, isAnalyzing, zone, runs>>

-----------------------------------------------------------------------------

Effects == <<Call("loadDraft", None)>>

\* The page opens with or without a resume in the store and a report of an earlier visit.
PageInit ==
  /\ GateInit
  /\ cvLoaded \in BOOLEAN /\ reportDraft = IF cvLoaded THEN 0 ELSE None
  /\ report = None /\ isAnalyzing = FALSE /\ isUploading = FALSE
  /\ zone = 1 /\ runs = 0

Answers ==
  \E k \in DOMAIN calls :
    \/ GateAnswers(k) /\ UNCHANGED pageVars
    \/ JobResult(k) \/ StreamFails(k) \/ StreamEnds(k) \/ PutDraft(k) \/ GetDraft(k) \/ KeepCurrent(k)
    \/ \E fine \in BOOLEAN :
         \/ Started(k, fine) \/ Scored(k, fine) \/ DraftSaved(k, fine) \/ DraftShown(k, fine)
         \/ Uploaded(k, fine) \/ CvKept(k, fine)

Next ==
  \/ Analyze \/ NewAnalysis \/ UseCurrentCV \/ LoadJson \/ UploadPdf
  \/ GateActs /\ UNCHANGED pageVars
  \/ Answers

\* Work in progress that a dialog nobody can answer any more does not hold up.
Busy == (isAnalyzing \/ isUploading \/ drawer.loading \/ drawer.saving) /\ ~ Replaced

\* A provider is called only for the scopes of dialogs the user continued, and no more once the gateway
\* has heard of a revocation ("Révoquer interdit les futurs appels pour le scope concerné", docs/privacy.md).
NoCallWithoutAYes ==
  [][\A k \in DOMAIN calls :
       calls[k].op \in Guarded /\ calls[k].reply = None /\ calls' = [calls EXCEPT ![k].reply = Ok]
         => Needs[calls[k].op] \X {mode} \subseteq agreed]_<<calls, gateVars>>

=============================================================================
