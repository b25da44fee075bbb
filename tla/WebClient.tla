----------------------------- MODULE WebClient -----------------------------
(***************************************************************************)
(* The web client: one page at a time over the gateway, each a module of   *)
(* its own.  A page that is left is unmounted and its answers go nowhere,  *)
(* so a behaviour stays on the page it opens; what the pages share is      *)
(* their network.                                                          *)
(***************************************************************************)
EXTENDS WebDesign, Naturals, Sequences, FiniteSets

CONSTANTS
  Acts,      \* bound: actions of the user, per page
  Ok

VARIABLES
  page,      \* the page that is open
  calls, acts,
  applications, reminders, columns, boardLoading, boardError, query, draft, isSubmitting, expandedIds, reminderDrafts,
  desk, letters, markdownDraft, ledger, editor, preview,
  mode, consents, agreed, dialog, drawer, reportDraft, report, isAnalyzing, cvLoaded, zone, isUploading, runs,
  opportunities, artifacts, shown, loading, busyAction, selectedId, fields, form,
  guideProgress, completed, isProgressLoaded, activePath,
  services, probes, isChecking,
  resumes, revisions, library, versions, importing, left,
  builder, flags, insights, active, progress, navigated

Pages == {"design", "tracker", "letters", "ats", "workflow", "guide", "startup", "library", "tailor"}

Tracker == INSTANCE TrackerBoard WITH MaxActs <- Acts.tracker
Letters == INSTANCE LetterDesk WITH MaxActs <- Acts.letters
Ats == INSTANCE AtsDesk WITH MaxActs <- Acts.ats
Workflow == INSTANCE WorkflowDesk WITH MaxActs <- Acts.workflow
Guide == INSTANCE GuideDesk WITH MaxActs <- Acts.guide
Startup == INSTANCE StartupGate WITH MaxActs <- Acts.startup
Library == INSTANCE LibraryDesk WITH MaxActs <- Acts.library
Tailor == INSTANCE TailorDesk WITH MaxActs <- Acts.tailor

\* No identifier of the gateway is taken for none.
ASSUME NoneAssumption == None \notin Nat

\* An answer that nobody reads is told from none, from a refusal and from the demand for a consent.
ASSUME AnswersAssumption ==
  /\ Ok \notin {None, Ats!Refused}
  /\ \A op \in Ats!Guarded : \A task \in Ats!Needs[op], mark \in Ats!Modes : Ok # [task |-> task, mode |-> mark]

network == <<calls, acts>>
trackerVars == <<applications, reminders, columns, boardLoading, boardError, query, draft, isSubmitting, expandedIds,
                 reminderDrafts>>
letterVars == <<desk, letters, markdownDraft, ledger, editor, preview>>
atsVars == <<mode, consents, agreed, dialog, drawer, reportDraft, report, isAnalyzing, cvLoaded, zone, isUploading, runs>>
workflowVars == <<opportunities, artifacts, shown, loading, busyAction, selectedId, fields, form>>
guideVars == <<guideProgress, completed, isProgressLoaded, activePath>>
startupVars == <<services, probes, isChecking>>
libraryVars == <<resumes, revisions, library, versions, importing, left>>
tailorVars == <<builder, flags, insights, active, progress, navigated>>
vars ==
  <<page, network, designVars, trackerVars, letterVars, atsVars, workflowVars, guideVars, startupVars, libraryVars,
    tailorVars>>

\* The pages that are not open keep their state, and the editor of the design has calls of its own.
Alone ==
  /\ UNCHANGED page
  /\ IF page = "design" THEN UNCHANGED network ELSE UNCHANGED designVars
  /\ IF page = "tracker" THEN TRUE ELSE UNCHANGED trackerVars
  /\ IF page = "letters" THEN TRUE ELSE UNCHANGED letterVars
  /\ IF page = "ats" THEN TRUE ELSE UNCHANGED atsVars
  /\ IF page = "workflow" THEN TRUE ELSE UNCHANGED workflowVars
  /\ IF page = "guide" THEN TRUE ELSE UNCHANGED guideVars
  /\ IF page = "startup" THEN TRUE ELSE UNCHANGED startupVars
  /\ IF page = "library" THEN TRUE ELSE UNCHANGED libraryVars
  /\ IF page = "tailor" THEN TRUE ELSE UNCHANGED tailorVars

DesignNext == page = "design" /\ Design!Next /\ Alone
TrackerNext == page = "tracker" /\ Tracker!Next /\ Alone
LettersNext == page = "letters" /\ Letters!Next /\ Alone
AtsNext == page = "ats" /\ Ats!Next /\ Alone
WorkflowNext == page = "workflow" /\ Workflow!Next /\ Alone
GuideNext == page = "guide" /\ Guide!Next /\ Alone
StartupNext == page = "startup" /\ Startup!Next /\ Alone
LibraryNext == page = "library" /\ Library!Next /\ Alone
TailorNext == page = "tailor" /\ Tailor!Next /\ Alone

Next == DesignNext \/ TrackerNext \/ LettersNext \/ AtsNext \/ WorkflowNext \/ GuideNext \/ StartupNext
        \/ LibraryNext \/ TailorNext

\* The state of a page that is not open does not matter: one of its initial states will do.
Init ==
  /\ page \in Pages
  /\ Design!Init /\ (page # "design" => Design!Closed)
  /\ Tracker!PageInit
  /\ Letters!PageInit /\ (page # "letters" => desk = "history")
  /\ Ats!PageInit /\ (page # "ats" => mode = "full" /\ cvLoaded /\ ~ drawer.open)
  /\ Workflow!PageInit
  /\ Guide!PageInit /\ (page # "guide" => guideProgress = None)
  /\ Startup!PageInit /\ (page # "startup" => Startup!Open /\ ~ Startup!Down)
  /\ Library!PageInit /\ (page # "library" => resumes = {})
  /\ Tailor!PageInit
  /\ acts = 0
  /\ calls = CASE page = "tracker" -> Tracker!Effects
               [] page = "letters" -> Letters!Effects
               [] page = "ats" -> Ats!Effects
               [] page = "workflow" -> Workflow!Effects
               [] page = "guide" -> Guide!Effects
               [] page = "library" -> Library!Effects
               [] page = "tailor" -> Tailor!Effects
               [] OTHER -> <<>>

\* What goes on without the user: the gateway serves, requests are answered, timers end, dialogs are answered.
Answers ==
  /\ \/ page = "tracker" /\ Tracker!Answers
     \/ page = "letters" /\ Letters!Answers
     \/ page = "ats" /\ Ats!Answers
     \/ page = "workflow" /\ Workflow!Answers
     \/ page = "guide" /\ Guide!Answers
     \/ page = "startup" /\ Startup!Answers
     \/ page = "library" /\ Library!Answers
     \/ page = "tailor" /\ Tailor!Answers
  /\ Alone

Spec == Init /\ [][Next]_vars /\ WF_vars(Answers)

-----------------------------------------------------------------------------
(* What the pages promise *)

Busy ==
  \/ page = "tracker" /\ Tracker!Busy
  \/ page = "letters" /\ Letters!Busy
  \/ page = "ats" /\ Ats!Busy
  \/ page = "workflow" /\ Workflow!Busy
  \/ page = "guide" /\ Guide!Busy
  \/ page = "startup" /\ Startup!Busy
  \/ page = "library" /\ Library!Busy
  \/ page = "tailor" /\ Tailor!Busy

\* No page waits for ever: whatever fails and in whatever order the answers come, the flags
\* that disable its buttons and hide its lists come down, and the gate opens on services that are ready.
EveryRequestEnds == Busy ~> ~ Busy

\* A creation, a deletion of the history, a version, an export, a PDF import, a letter is not sent while the
\* same one is under way, though other actions of the page come and go meanwhile; and of the runs of the
\* pipeline, which may be started over each other, one is read, the one answered last.
SentOnce ==
  /\ page = "tracker" => Tracker!SentOnce
  /\ page = "letters" => Letters!SentOnce
  /\ page = "library" => Library!SentOnce
  /\ page = "tailor" => Tailor!SentOnce /\ Tailor!OneRunIsRead

\* A cloud provider is called for a task only in a privacy mode for which the user said yes to that task,
\* and has not revoked it since: whatever is asked, saved in the drawer or sent again meanwhile.
NoCallWithoutAYes == Ats!NoCallWithoutAYes

\* What the gateway keeps for the pages stays consistent under their races: a reminder has its
\* application, and what an opportunity is linked to is of the job of the opportunity,
\* and the active resume is one the library lists.
RecordsStayLinked == Tracker!RemindersHaveTheirApplication /\ Workflow!LinksFitTheJob /\ Library!ActiveIsListed

\* The board of sections shows the page that is rendered (see CvDesign).
PanelShowsThePage == page = "design" => Design!PanelShowsThePage

\* Every row of the resume is printed once (see CvDesign).
EveryRowIsPrinted == page = "design" => Design!EveryRowIsPrinted

\* The one-page option takes the photo and nothing else off the page (see CvDesign).
OnePageTakesOnlyThePhoto == page = "design" => Design!OnePageTakesOnlyThePhoto

\* A section moves to where the board was asked to put it (see CvDesign).
MovesLandWhereAsked == Design!MovesLandWhereAsked

=============================================================================
