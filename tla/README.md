# Mindris AI: formal models

TLA+ models of the parts of Mindris AI whose correctness depends on the order in which things
happen: the resume library and its snapshots, agent proposals that change a resume, the
application workflow and its repairs, the optimisation pipeline with its event streams, the
renderer with its pool of browser pages, the web client's automatic save, and the pages of the
web client over the gateway they call. `src/` below is the repository root; paths are relative
to it.

    tlasany M.tla                        parse a module
    tlc -workers 2 -config X.cfg M       model-check one run (the runs are in PROJECT.json)
    tlapm M.tla                          check the proofs of a module M, one of
        ResumeStoreProofs OpportunityWorkflowProofs OptimizePipelineProofs ResumeAutosaveProofs
        RenderServiceProofs CvDesignProofs WebPagesProofs WebClientProofs

## 1. Inventory of the system

| Component | State it keeps | Operations | Status |
|---|---|---|---|
| Resume store (`services/api-gateway/persistence_domain/resumes.py`, `routers/resumes.py`) | `resumerecord` rows with a multilingual JSON document; `resumerevisionrecord` snapshots | create, read with lazy migration, update, rename, move section, restore, snapshot, add / activate / drop a locale, duplicate, delete | partly: the diff of two snapshots, which changes nothing, is left out |
| Agent proposals (`resume_agent_tools.py`, `routers/resume_agents.py`) | `resumeagentproposalrecord` rows with a status | save, commit (accept), reject | partly: read-only tools left out |
| Opportunity workflow (`routers/workflows.py`, `persistence_domain/opportunities.py`, `opportunity_repairs.py`) | one row per opportunity with five links and a state; transitions | create, link resume / report / letter, create or attach tracker entry, mark ready, nine repairs | modelled |
| Optimisation pipeline (`routers/optimize.py`, `intelligence/workflow.py`, `intelligence/event_bus.py`) | an in-memory registry of event queues; a coroutine and a thread per run | submit, run, stream, evict | modelled |
| Application tracker (`routers/tracker.py`) | applications with status and position, reminders | board, create, move, edit flags, delete with cascade, reminders | modelled |
| History and artifacts (`routers/history.py`, `artifacts.py`, `routers/cv.py`) | jobs, reports, letters | list, create, patch, delete, purge, versions of a letter | partly |
| Outbound privacy (`intelligence/privacy*.py`, `provider_privacy.py`) | consent decisions, audit rows, the privacy mode | decide, revoke, refuse, prepare, call, audit | partly: redaction and audit rows left out |
| Runtime configuration (`packages/utils/runtime_config.py`, `routers/system.py`) | two JSON files | load, save | partly: the privacy mode only |
| Drafts (`routers/drafts.py`, `persistence_domain/drafts.py`) | one row per name | put, get, delete | partly, behind the three pages that use them |
| Renderer (`services/renderer/src`) | a browser, a launch in flight, a count of pages, a chain of log writes, counters | every route, acquire, launch, render, release, disconnect, log | modelled |
| Template engine (`services/renderer/src/templates`) | none | sections, columns, fields, tokens, sanitised style sheet, page manifest | partly: markup left out |
| Web resume store (`apps/web/src/store`) | the library, the edited resume, one pending save, the last failed save | edit, rename, switch, flush, retry, move, load, create, duplicate, import, delete | partly: a locale change has no action of its own |
| Editor and design panel (`apps/web/src/components/Editor.tsx`, `StylePanel.tsx`, `style-panel/`) | the settings and rows of the edited resume, answers under way | every tab of the panel, presets, templates, photo, section moves by drag, shift and keyboard, rows added and removed | partly: text of the rows |
| Pages of the web client (`apps/web/src/app`, `components/`) | what each page loaded, its flags, its forms, its requests in flight | see section 2 | partly |
| Command line (`scripts/mindris_cli`) | storage directory, rollback copy, process file | backup, restore, start, stop | not modelled (section 6) |
| Schema migrations, vector store (`packages/database`) | schema version; chunks | migrate; index, query | not modelled (section 6) |
| Scraper, model registry and discovery, agents and prompts | caches | scrape, list, generate | not modelled: their outcome is an input of the pipeline |

How they interact. The web client calls the API gateway over HTTP. The gateway's synchronous
routes run in a thread pool and its asynchronous ones on one event loop, so two requests
interleave at every statement that touches the database, while asynchronous routes without an
`await` do not interleave with each other. All of them share one SQLite database without
enforced foreign keys: a link is a number in a column, it may dangle, and SQLite gives the
identifier of a deleted newest row to the next row. Sessions are created with
`expire_on_commit=False`, so a handler keeps what it loaded; an UPDATE names only the columns
whose value differs from the loaded one. The pipeline calls models and the scraper, hands its
workflow to an executor thread and reports through an `asyncio.Queue` that server-sent event
streams drain. The gateway asks the renderer, a service of its own around one headless Chromium,
for pages and PDF files. In the browser each page sends requests from its handlers and effects
and goes on when an answer comes, by which time the user may have done something else.

What is hard in it: handlers that read, decide and write a whole document back; a row and its
snapshot committed separately; a proposal marked accepted after the resume was changed; links
that outlive or outnumber what they point to; a state recomputed from those links; a thread that
outlives the timeout of the coroutine waiting for it; two streams on one queue; clients that
leave at any time; a browser that dies between its launch, the check and its use; slots that must
come back on every path; and pages whose flags, lists and forms are written by answers in an order
nobody chose. PROJECT.json lists each hazard at its line, with the properties that cover it or
the reason why none does.

## 2. Modules

### ResumeLibrary and ResumeStore

`resumes` and `revisions` are the two tables; `req` holds, for each request handler, the step it
is at, its arguments, the row its session loaded, and the document or number it computed. A
document is abstracted to its variants (one content per locale), the default and the active
locale, and whether it still is in the legacy single-language form; what a variant says is a model
value, because no property depends on it. One action stands for one statement that reads or
commits:

| Action | Code |
|---|---|
| `Open` | the route reads the row (and, for a restore, the snapshot), 404s are simply not taken |
| `MigrateCommit`, `MigrateRefresh` | `_persist_lazy_resume_migration` commits, then reloads |
| `CheckBaseRevision` | the optimistic check of `move_resume_section_route` |
| `Commit`, `Refuse`, `RowGone` | `update_resume` and the locale routes: the commit, a 4xx, a StaleDataError |
| `Refresh`, `NumberSnapshot`, `InsertSnapshot` | `session.refresh`, then the read and the insert of `create_resume_revision` |
| `Create`, `Duplicate`, `Delete`, `Serialize` | the other routes and the migration that `serialize_resume` may commit |
| `Purge`, `Crash` | `clear_history_ledger` for revisions; the gateway killed between two statements |

`Flushed(new, loaded, stored)` is the UPDATE that writes only changed columns, which is why a
stale handler overwrites the document and not the locale column, or the other way round.

ResumeLibrary is what the store promises to a user who is not interrupted: `library`, the resume of
each identifier, and `history`, what was recorded of them. Its operations are atomic (`Create`,
`Duplicate`, `Write`, `Delete`, `Purge`), and all that change a resume go through `Save`, which
writes it and records it under the next number. The refinement mapping is at the end of
ResumeStore: a resume is its stored document without the mark of the legacy ones (`Resolved`), so a
lazy migration changes nothing; and `Records` adds to the stored snapshots the one that a handler
between its commit and its insertion is `Recording`, so a write takes effect at its commit, and a
snapshot when its route reads the row. `ImplementsLibrary` is ResumeLibrary's specification under
that mapping.

### AgentProposals

Extends ResumeStore with the proposals. A commit drives the session of the distinguished request
`Agent` through ResumeStore's own steps, because `_commit_revision` calls `update_resume`;
`AcceptRead`, `AcceptCheck`, `AcceptLoad` and `AcceptFinish` are its reads before and its mark
after. Commits run on the event loop and do not interleave with each other or with the purge;
rejections and all other routes do. `applied` is a history variable: the snapshots that each
proposal's commits made.

### OpportunityWorkflow

One opportunity, the tables it links to, the newest transition and the sessions of the workflow
handlers. `Advertised` is `_opportunity_integrity` with its issues grouped by link;
`RepairAccepted`, `Repaired` and `Synced` are `apply_opportunity_repair`; `Recomputed` is
`_recompute_opportunity_state`. A handler loads the opportunity, decides against the tables as
they are then, and commits; every neighbour that can invalidate a link (delete a job or a
resume, edit a resume, drop a variant, rewrite a tracker entry, purge the history) is an action.
`scenario` is chosen in the initial state and never changes: it selects which routes are called,
so that one run explores several combinations instead of their product.

### OptimizePipeline

`pipe` is the coroutine `run_intelligence_pipeline`, between its awaits; `worker` the executor
thread, split where a node emits its start and its end; `registered` and `queue` the registry
entry and the queue object, which lives on while a stream holds it; `streams` the connections.
Events are numbers into `emitted`, the history of everything emitted, dropped events included;
`delivered` is the order in which streams handed them out. A `node_start` and the end of a node
before it that no await separates are emitted in one step. `fault` records whether a call failed
or timed out: it tells an error with a cause from one without.

### ResumeAutosave

The other end of the resume routes. `pending` is the only slot of `schedulePersistResume` (its
timer runs exactly while it is there), `revision` is `resumeSaveRevision`, `lastFailed` the save
kept for a retry, `local` the copies on the screen, and `calls` the requests in flight, which the
network delays, reorders or loses. JavaScript runs to its next `await`, so an action is the code
between two awaits: `Flush` sends, `SaveAnswered` and `Fail` continue after the answer. The
gateway is reduced to what the client can see of it, a patch applied to a document and a counted
revision (`Served`); its inner steps are ResumeStore's business. A text is named after the save
revision with which it was typed; `typed` is the history of what the user typed last. `scenario`
says what the user does and whether the network keeps the order of saves. One section move is in
flight at a time. A locale change awaits and replaces the copy exactly as a move does, and has no
action of its own.

### PagePool and RenderService

PagePool is what the browser manager promises: a set `held` of callers, at most `MaxPages`, each
of which gives its slot back. RenderService is the renderer as it is. `call` holds, per request,
the step its handler is at (`slot`, `launch`, `open`, `work`, `close`, then `failed` and `log`, the
writes that the answer waits for); `activePages`, `browser` and `launching` are the fields of
`BrowserManager`; `connected` the Chromium processes that run, which may die at any moment and
whose `disconnected` event comes later; `pending` the chain of promises of `RendererLogger`;
`metrics` the counters of the monitor. `Holders`, the requests between the check of the slot and
the `finally` block, is the refinement mapping: `ImplementsPool` is PagePool's specification,
fairness included, with `held <- Holders`.

An action is one turn of the event loop. The check of the slot and the increment are awaited one
after the other but nothing that suspends for a timer or for I/O stands between them, so they are
one turn; this relies on the runtime draining its microtasks between two timers. Puppeteer is
external: each of its calls works or fails. A log line that cannot be written throws out of the
handler, and the framework answers 500. The validation of the JSON body is not modelled.

### CvRendering and CvDesign

CvRendering is the template engine, as operators on a document (settings, number of rows per part,
profile): which section blocks are printed, in which column and order, with which fields, page
breaks and rows (`RenderDocument`), the design tokens, the sanitised rules of the style sheet, and
the manifest of the pages. CvDesign is the editor above it: one action per control of the design panel and
of the forms, with the requests that apply a template, upload a photo or move a section answered
later, after other edits; and `normalize` of the gateway between the two. The board of sections
(`SectionsTab`) is an operator, so that what it shows can be compared with what CvRendering prints.

### Network, the pages and WebClient

Network is what all pages share: `calls`, the requests in flight with their replies, and `acts`,
the bound on what the user does. A request is served by the gateway in any order, and answered or
failed, before or after it was served, in any order. Each page is a module over it:

| Module | Pages and code | State |
|---|---|---|
| TrackerBoard | `app/tracker/page.tsx`, `routers/tracker.py` | the gateway's applications and reminders; the board shown, search, form, flags |
| LetterDesk | `app/history/page.tsx`, the Markdown editor and its hooks, `routers/drafts.py`, `routers/markdown.py` | letters, the shared server draft, the history shown, the editor, the preview timer |
| PrivacyGate | `components/privacy/`, `ConfigurationDrawer.tsx`, `lib/api.ts`, the consent routes | mode, consents, the dialog, the drawer; the request sent again after a yes |
| AtsDesk | the ATS page and the import zone; extends PrivacyGate | the draft of the last report, the report shown, the flags, the runs |
| WorkflowDesk | the workflow page and its panels | opportunities and artifacts of the gateway, what is shown, the single `busyAction`, the forms |
| GuideDesk | the guide | its draft, the ticks, the path |
| StartupGate | `RuntimeGate.tsx` | the services, the probes |
| LibraryDesk | the dashboard and the list of the store | resumes and revision counts, the list, the versions shown, an import |
| TailorDesk | the builder around its editor: ghost pane, insights panel, cover letter dialog | the page, its flags, the insights in the store, the queue of each run |

WebDesign is the page of the design editor as the web client opens it: its variables, CvDesign over
them, and the assumptions on templates, catalogue and rows. WebClient adds the other pages: `page` is
the page a behaviour opens, each page is an INSTANCE over the shared network, and the variables of
the other pages do not move. A page that is left is
unmounted, so nothing but the store and the gateway survives it; what does survive and matters is
inside the module of the page (LibraryDesk goes on after a resume is opened, LetterDesk holds both
ends of the draft). Routes that another module has in detail are one step here.

### MC modules and proofs

`MCResumeStore`, `MCAgentProposals`, `MCOpportunityWorkflow`, `MCOptimizePipeline`,
`MCResumeAutosave`, `MCRenderService` and `MCWebClient` hold scenario constants, symmetry sets, and
the statements of the documents that the code does not keep. The lemmas and theorems about a
component are in a module that extends its own: `ResumeStoreProofs` (the store, then the proposals
over it), `OpportunityWorkflowProofs`, `OptimizePipelineProofs`, `ResumeAutosaveProofs` and
`RenderServiceProofs`. The web client has three: `WebPagesProofs`, the steps of the pages over their
network; `CvDesignProofs`, the operators and the steps of the design editor, which extends
`WebDesign` only; and `WebClientProofs`, the invariants of the client and the theorems. A definition introduced by the comment
`Mutant:` is a plausible slip of the definition it precedes: replacing the one by the other makes
a property fail, which shows that the property depends on that code.

## 3. Runs

| Run | What it explores | What it shows |
|---|---|---|
| ResumeStoreSerial | 1 handler, 2 rows (reused after deletes), 2 locales, 2 contents, up to 3 snapshots, every route but rename and the bare snapshot, no kill | `NumbersUnique`; `HeadIsCurrent`: an idle resume with a history equals its newest snapshot; `ImplementsLibrary`: each change of a resume is one operation of ResumeLibrary, with its record, and the other steps are invisible there |
| ResumeStoreConcurrent | 2 handlers, 1 row (deleted under a handler and reused), 2 locales, 1 content, up to 3 snapshots, kills | `TypeOK`; `DocumentsResolve`: each stored document and snapshot has its default and active variants; `NumbersContiguous`; `DefaultNeverMoves` while no session holds a deleted resume of that identifier |
| AgentProposals | the agent and one other handler, 1 proposal, kills, deletes | `AppliedAtMostOnce`, `AcceptedMeansApplied`, `InvalidIsNeverApplied`, `AgentTypeOK` |
| AgentOverwrite | violation | an edit committed after the revision check is lost to the proposal |
| OpportunityWorkflow | 1 handler, three scenarios with up to 2 jobs and letters | `ReadyHasItsLinks`, `LastTransitionIsTheState`, `AdvertisedRepairsAreAccepted`, `RepairsMakeProgress`, `TypeOK` |
| OpportunityReady | violation | synchronising the tracker makes an opportunity with a stale report ready |
| OptimizePipeline | 2 streams, 2 iterations | `OrderedAndOnce`, `SoleReaderMissesNothing`, `OneOutcome`, `EndedStreamsLeaveNoQueue`, `TypeOK`, and under fairness `OutcomeIsAnnounced`, `QueuesAreReclaimed` |
| OptimizeNominal | violation | a run with a saved resume ends with an error although nothing failed |
| ResumeAutosave | 2 resumes, four scenarios of up to 4 save revisions over a failing network | `TypingIsKept`: no late answer or failure changes typed text while the user types, switches and retries; `SavedMeansStored`; `ErrorCanBeRetried`; `TypeOK`; under fairness `SavesSettle` |
| AutosaveRename | 1 resume, violation | an edit followed by a rename is shown as saved and never sent |
| RenderService | 3 requests of any kind, 2 slots, 2 browsers, 1 failing log write | `ImplementsPool`: the manager is a pool that loses no slot; `NoBrowserForgotten`; `LogFaultsStayLocal`; under fairness `EveryRequestIsAnswered` |
| WebClient | the nine pages, one per behaviour, each with its own number of user actions | `EveryRequestEnds` (under fairness: no flag stays up for ever), `SentOnce`, `NoCallWithoutAYes`, `RecordsStayLinked`, and for the design editor `PanelShowsThePage`, `MovesLandWhereAsked`, `EveryRowIsPrinted`, `OnePageTakesOnlyThePhoto` |

### Bounds and why they are enough

Two handlers are the smallest number that race, and every race found in this code is between a
handler and one other. Two locales give a default and another; one of them is dropped, switched
to and added in every order. Two contents tell a written variant from an untouched one; the
concurrent run has one, because its properties compare locales and numbers and never contents.
Two rows let a duplicate exist beside its source, and one row with deletes makes an identifier
come back. Snapshots are bounded by `Room`, in the guard that starts a request, so that nothing
is cut off in the middle of a handler. One proposal can be accepted, rejected and retried; a
second one would only repeat it on another base. In the workflow two jobs and two letters are what
it takes for two links to disagree. For the automatic save, four save revisions on one slot give
an edit that fails, its retry, and an edit under way while either is answered; the scenarios with
two resumes, moves and reloads need two. `MaxNumber` stops new moves once a document has counted
two revisions. Two streams compete for a queue and two iterations make the workflow loop once.

In the renderer, three requests over two slots make one wait while the two others share or lose a
launch, and two browsers give a death, the relaunch and the late event of the first; one failing
log write has others before and after it in the chain. For the pages, `Acts` counts the actions of
the user on each: two requests that cross are enough for the races met here, and the pages where a
request needs an earlier action to be possible (a card created before it is moved, a job chosen
before it is submitted, a run started before the panel opens) have three. The ATS page may open with
the drawer of the shell open since the page before, so that its two actions can be a revocation and
the request that crosses it. The design editor has
two edits over `MCTemplates`, one template of two columns, one of one column and one with a
ledger, a catalogue of four section types and a resume whose part of experience is longer than a page and which
holds parts that no stored section names.

### Fairness

OptimizePipeline, ResumeAutosave, RenderService and WebClient state fairness; they end when nothing
is left to do, so their configurations do not check deadlock. The others do.

In the client the timer of the automatic save fires once the user pauses (`Flush` is weakly fair;
the bounded number of edits stands for the pause), and a `fetch` that saves ends with an answer or
an error; nothing is assumed of moves, reloads or the user. For the pages, `Answers` is weakly
fair: requests are served, each ends with an answer or a failure, timers end, and the user answers
a dialog that is open. Nothing is assumed of what the user does otherwise. That every request ends
includes the streams: `connectApiEventStream` (`api.ts:160-174`) calls its `onError` only when a
read throws, so a stream that closed without a `done` or an `error` event would leave `isAnalyzing`
of the ATS page, or `isOptimizing` of the builder, up for good. `stream_events` (`event_bus.py`)
yields one of the two before it returns, also for an unknown run and at its deadline; a proxy or a
shutdown of the gateway that closes the body cleanly in between is outside `EveryRequestEnds`.

In the pipeline, the coroutine is weakly fair: the event loop runs what is
ready; the awaits on the scraper, the analysis, the company lookup and the workflow carry a
timeout of their own, and the ingestion, which has none, is assumed to return. The eviction is
weakly fair: `_queue_cleanup_loop` wakes every 300 seconds for as long as the gateway lives, and
the age limit is abstracted to "sooner or later". A stream's own step is weakly fair, since its
loop has a deadline. Nothing is assumed of the thread, which may hang, or of clients, which may
neither connect nor leave.

In the renderer, each handler's step is weakly fair: the poll of a slot repeats every 25 ms, and
the calls of Puppeteer carry limits (`RENDERER_RENDER_TIMEOUT_MS`, its own launch limit), so they
return or throw. A launch under way resolves or rejects, and the write at the head of the log ends.
Weak fairness of `TakeSlot` suffices since a request is used once: when the others are done, a
waiter finds a slot for good. Deaths of browsers are not fair.

## 4. Where the code departs from its documents

Each of these is a run that TLC refutes, and a finding in PROJECT.json:

- *No agent may silently overwrite a resume* (`docs/adr/030`): the revision is compared before
  `update_resume`, which writes back a document loaded earlier (AgentOverwrite).
- *A degraded opportunity cannot be marked ready* (`docs/workflow-beta.md`): the route refuses, but
  the recomputation after a repair looks at links only (OpportunityReady).
- *The nominal path* (`docs/scope-b-resume-agents.md`): `retrieve_context` reads `results`, which
  is assigned only in the branch without a resume snapshot, so the thread raises (OptimizeNominal).
  In the model the proposal sink of the pipeline is therefore never reached.
- *Automatic save of the active resumes* (`docs/mvp1-status.md:18`): a rename within 900 ms of an
  edit takes the only pending slot (AutosaveRename). The JSON import of the builder does both in a
  row.

Others were met while reading and are visible in the models, without a run of their own; the
properties name the cases they leave out.

Gateway: restoring a snapshot writes its content to whichever locale is active now; a section move
has the same window between check and commit as a proposal; an unsupported `target_locale` falls
back to the default one; a PATCH with only a locale changes the row's locale and not the document's
default; a new resume inherits the snapshots of a deleted one with its identifier; activating a
locale writes the whole loaded document; a rejection can be overwritten by the acceptance under
way; `detach_missing_job` is advertised and not supported, which is why the workflow properties
except it; with two workflow handlers a transition can name a state that the UPDATE left out; two
first writes of a draft can meet its unique key; positions in a column of the tracker may tie.

Automatic save: an edit of another resume within the debounce drops the first one's patch; the
answers of moves, locale changes and reloads replace text typed meanwhile, and a reload hides that
a patch still waits; an older save that fails after a newer one takes its place in `lastFailed`, so
that the retry resends the older text and its answer replaces the newer one. `TypingIsKept` and
`SavedMeansStored` name the scenarios without these.

Renderer: two PDF files asked in the same millisecond share a file name.

Design editor: with a template of one column the board still shows two, and a move between them
lands elsewhere or is refused; a swap across columns goes to the wrong place; a stored list of
sections that is not complete, as an import may bring, drops the parts it does not name; the late
answer of a template, a photo or a move replaces newer edits and rows typed meanwhile; late answers
of the two previews replace newer ones; the accent on links is
overridden, the density option changes nothing (`tokens.ts:129`), and the example rule of the
catalogue is dropped by the sanitiser.

The one-page option is offered as one that "ajuste la densité sans supprimer de contenu"
(`LayoutTab.tsx:81`), and `schemas_domain/cv.py:395-398` disables the photo with it. What is true is
`OnePageTakesOnlyThePhoto`: the rest of the page, header, columns, fields, styles and rules, is
that of the page without the option. Nor does the option undo itself: once an answer of the gateway
has come back, the photo and the larger sizes are gone from the settings, and switching the option
off does not bring them back.

Tracker: a late load of the board shows an older one or clears another call's error; what is typed
while an application is being created is wiped; a move sends an index of the column it leaves
(`tracker/page.tsx:543`). History and Markdown: the answer for an older filter shows under a newer
one; the notice that the history was cleared is never seen (`history/page.tsx:91`, `:170`); the
answer of a saved version sets the identifier of a letter opened since (`:281`); a late draft
replaces typed text, and a late deletion of the draft removes a newer one. Drawer: its settings stay
old after "use local". ATS page: an error of the pipeline after its result lets a second analysis
start while the first one scores, whose answer then lowers the flag of both; a late draft hides
the form. Workflow page: `busyAction` has one slot, so a second action frees the first button; a
reload forgets choices; the checklist shows a deleted tracker entry as done. Guide: the draft that
is read replaces earlier ticks, and two writes may be served in the other order. Startup gate: a
slow check that failed closes a workspace that a later check opened. Dashboard: of two resumes
deleted at once the list may be left without its replacement; versions of one resume can show under
another; two clicks create two resumes. Builder: Enter in the field of the job starts a second run;
`isOptimizing` outlives the page and a hidden ghost pane; a late result or score puts another
resume's insights back; the answer of a PDF import replaces whichever resume is active; a letter
being generated when its dialog is closed still saves its draft and navigates; reopening the
insights panel forgets what is under way.

## 5. Proofs

Every theorem is checked for every value of the constants. "Alone" means that the theorem supposes
`OneHandler`, a single handler, as the run of the property does; with two the property is false and
section 4 says how.

| Theorem | Module | Statement |
|---|---|---|
| `Inductive`, `TypeCorrect`, `SessionsAlwaysResolve` | ResumeStoreProofs | `IInv`, `TypeOK` and `SessionsResolve` are invariants |
| `DocumentsAlwaysResolve` | ResumeStoreProofs | `Spec => []DocumentsResolve` |
| `DefaultsNeverMove` | ResumeStoreProofs | `Spec => DefaultNeverMoves` |
| `HistoryHasNoHoles` | ResumeStoreProofs | without the purge, `Spec => []NumbersContiguous` |
| `LoneHandlerNumbersUniquely` | ResumeStoreProofs | alone, `Spec => []NumbersUnique` |
| `LoneHandlerEditsOneVariant` | ResumeStoreProofs | alone, `Spec => OneVariantAtATime` |
| `LoneHandlerRecordsItsWrites` | ResumeStoreProofs | alone and never killed, `Spec => []HeadIsCurrent` |
| `LoneHandlerIsALibrary` | ResumeStoreProofs | alone and never killed, `Spec => ImplementsLibrary` |
| `AgentInductive`, `AgentTypeCorrect` | ResumeStoreProofs | `AgentIInv` and `AgentTypeOK` are invariants of `AgentSpec` |
| `ProposalsKeepDocuments` | ResumeStoreProofs | `AgentSpec => []DocumentsResolve` |
| `AcceptedProposalsAreApplied` | ResumeStoreProofs | `AgentSpec => []AcceptedMeansApplied` |
| `InvalidProposalsNeverApply` | ResumeStoreProofs | `AgentSpec => []InvalidIsNeverApplied` |
| `ProposalsApplyOnce` | ResumeStoreProofs | without the purge, `AgentSpec => []AppliedAtMostOnce` |
| `WorkflowInductive`, `WorkflowTypeOK` | OpportunityWorkflowProofs | `IInv` and `TypeOK` are invariants |
| `LoneHandlerReadyHasItsLinks` | OpportunityWorkflowProofs | alone, `Spec => []ReadyHasItsLinks` |
| `LoneHandlerLastTransition` | OpportunityWorkflowProofs | alone, `Spec => []LastTransitionIsTheState` |
| `AdvertisedIsAccepted` | OpportunityWorkflowProofs | `Spec => []AdvertisedRepairsAreAccepted` |
| `RepairingTerminates` | OpportunityWorkflowProofs | `Spec => []RepairsMakeProgress` |
| `PipelineInductive`, `PipelineTypeOK` | OptimizePipelineProofs | `IInv` and `TypeOK` are invariants |
| `PipelineOrderedAndOnce` | OptimizePipelineProofs | `Spec => []OrderedAndOnce` |
| `PipelineSoleReaderMissesNothing` | OptimizePipelineProofs | `Spec => []SoleReaderMissesNothing` |
| `PipelineOneOutcome` | OptimizePipelineProofs | `Spec => []OneOutcome` |
| `PipelineEndedStreamsLeaveNoQueue` | OptimizePipelineProofs | `Spec => []EndedStreamsLeaveNoQueue` |
| `AutosaveInductive`, `AutosaveTypeOK` | ResumeAutosaveProofs | `TypeIInv` and `TypeOK` are invariants |
| `ErrorsCanBeRetried` | ResumeAutosaveProofs | `Spec => []ErrorCanBeRetried` |
| `AnswersKeepTyping` | ResumeAutosaveProofs | `Spec => TypingIsKept` |
| `SavedIsStored` | ResumeAutosaveProofs | `Spec => []SavedMeansStored` |
| `RenderInductive` | RenderServiceProofs | `Spec => []IInv` |
| `BrowsersAreKnown` | RenderServiceProofs | `Spec => []NoBrowserForgotten` |
| `LostLinesAreCounted` | RenderServiceProofs | `Spec => []LogFaultsStayLocal` |
| `SlotsAreBounded` | RenderServiceProofs | `Spec => [](Cardinality(Holders) <= MaxPages)` |
| `ManagerIsAPool` | RenderServiceProofs | `Spec => Pool!Init /\ [][Pool!Next]_Holders` |
| `WebInductive`, `WorkflowPageInductive` | WebClientProofs | `WebIInv` and `WorkflowIInv` are invariants |
| `CallsAreAgreed` | WebClientProofs | `Spec => NoCallWithoutAYes` |
| `PagesSendOnce` | WebClientProofs | `Spec => []SentOnce` |
| `RemindersStayLinked`, `ActiveResumeIsListed` | WebClientProofs | two of the three parts of `RecordsStayLinked`, without hypothesis |
| `RecordsAreLinked` | WebClientProofs | `Spec => [](NotReused(artifacts) => RecordsStayLinked)` |
| `DesignInductive` | WebClientProofs | `Spec => []DesignIInv` |
| `BoardInductive` | WebClientProofs | `Spec => []BoardIInv` |
| `BoardIsThePage` | WebClientProofs | `Spec => []PanelShowsThePage` |
| `RowsArePrintedOnce` | WebClientProofs | `Spec => []EveryRowIsPrinted` |
| `MovesLand` | WebClientProofs | `Spec => MovesLandWhereAsked` |

### Resume store

For any set of handlers, locales and contents, any routes and bounds, with or without kills.
`ConstantsAssumption` says that bounds are naturals and that the markers `None` and `Other` are
distinct from the values they stand beside, `NoneAssumption` that `None` is no row and no
document. Neither asks that `Requests`, `Locales` or `Contents` be finite.

`DocumentsResolve` is not inductive: a handler writes back a copy that it loaded many steps ago,
so nothing about the tables alone says that what it writes resolves. `IInv` adds
`SessionsResolve`, that the row, the working document and the restored snapshot that a session
carries resolve on their own, by the step and route it is at; and `SomeHighest`, that each history
has a highest number, without which the next number of a snapshot is not known to be a natural.
The argument is that no route needs two copies to agree: each rewrites one resolvable document
into another. The first part of the module proves that for each rewriting (edit, add, switch,
drop); the second lifts it to handlers; the third has one lemma per action of `Next`; and
`NextIInv` puts them together. The conjuncts of `IInv` are grouped by the variable they speak of,
so that an action that leaves a table alone keeps its part by one lemma.

`DefaultNeverMoves` follows from `IInv` step by step, since its statement sets aside the one way a
default moves, the row of a deleted resume written over one that took its identifier.
`NumbersContiguous` needs that the number a handler has taken is at most one more than the highest
(other handlers only raise it), and no purge, which restarts the numbers under a handler. For a lone
handler, `Alone` says that what it carries agrees with the table up to migration, `Ahead` that
the number it took is above all stored ones; `HeadIsCurrent` adds, for each step between a
commit and its snapshot, what the snapshot will hold. It supposes no kill, which may fall between
the two.

The refinement of ResumeLibrary has no liveness part, so `LoneHandlerIsALibrary` is all of
`ImplementsLibrary`. `LibraryIInv` adds to `AloneIInv` that a document being duplicated is the one
stored under the identifier it came from (`Copied`), and that the number a handler has taken is
still the next one when its snapshot is inserted (`NextNumber`); without the latter the insertion
would record something else than the commit promised. A rewrite is a `Write` because the document
it composes is one variant apart from the stored one, the lemma behind `OneVariantAtATime` (which
no run checks: it is what `Write` says of the variants).
`LibraryAssumption` says that `None` is no resume of the library, as `NoneAssumption` does for rows.

### Agent proposals

`AgentIInv` takes over the invariant of the store, whose lemmas it cites: the acceptance writes
through the routes of the store, so one lemma (`HandlerIInv`) gives the store's part for all of
them. `AcceptanceOK` and `CheckedOK` follow the acceptance under way: what its session carries at
each stage, and that the base it has checked is older than the revision it makes. `MarksOK`, that accepted proposals are
applied and invalid ones are not, holds with kills and purges. `AppliedAtMostOnce` is the property of a window: between the revision and the mark the
gateway may be killed, and the proposal is then still pending. What refuses its second acceptance
is that its base is no longer the latest revision; `OnceOK` ties the revisions made for a proposal
to numbers above its base. With the purge the theorem is false, as TLC shows: the purge
(`routers/history.py:520`) deletes revisions and no proposals, so that numbers come back, and an
old proposal killed in its window fits its base again. Hence the hypothesis, which is that of the run.
`ProposalAssumption` keeps `None` apart from proposals and acceptances.

### Opportunity workflow

The types need one care: a flush mixes the fields of three rows (stored, loaded, new), so the
invariant speaks of the rows that sessions hold. The two properties of a lone handler need that
its copy is the stored row until it commits (`Alone`), which is what a second handler breaks.
`AdvertisedRepairsAreAccepted` needs no invariant: the report and the route read the same tables,
and one lemma per repair compares their tests. `RepairsMakeProgress` says that each repair lowers
`Debt`; the proof takes it apart into links, locale and tracker entries, and shows for each repair
which part it lowers by more than it raises the others.

### Optimisation pipeline

`IInv` has four parts: what was handed out and what is queued are increasing, the queued ones
newer (`BusOK`); the queue of a run that only one client has ever heard of holds the rest
(`ReadersOK`), which is why a sole reader misses nothing; before the submission there is nothing
(`FreshOK`); and after an outcome the coroutine is over and, after a success, the thread too
(`OutcomeOK`), which is why a thread that outlives its timeout cannot add a second outcome. Emission is one lemma
over the sequence of kinds a step emits, so that each action of the coroutine and of the thread
is a few lines.

### Automatic save

`TypeIInv` holds in every scenario: what an answer carries is a document, and an error is shown
only with something to retry. For `TypingIsKept`, `TextIInv` says that the newest patch, wherever
it is (waiting, in flight, served or failed), holds the text on the screen: the answer that is
applied is the answer to the newest, so it changes no text. For `SavedMeansStored`, `OrderIInv`
says that saves in flight have distinct numbers and that an answered one has none before it; it is
what an ordered network gives, and the property supposes it.

### Renderer

For any finite set of requests and any numbers of slots, browsers and failures
(`RenderAssumption`). The bound on holders says nothing about the counter that the code tests, so
`IInv` ties them: `Slots` has `activePages` equal to the number of holders, which makes
`Max({0, activePages - 1})` an exact release and the test of `TakeSlot` a test on holders.
`Browsers` adds to `NoBrowserForgotten` that while a launch is under way no browser runs: that is
why a launch cannot leave one behind. `Lines` says that the log holds at most one line of each
request, that such a request waits for it, and that a lost request is done, so that a failing
write adds one request to the lost ones and takes it from no other. The lemmas are grouped
accordingly: one per action for each of the three groups, after lemmas on the cardinality of a set
of requests that gains or loses one and on the tail of a sequence without repetitions.
`ManagerIsAPool` is the safety half of `ImplementsPool`: each action maps to `Acquire`, `Release`
or a stutter of PagePool.

### Web client

For any number of actions of the user on each page. The pages share one sequence of requests in
flight; the first part of `WebPagesProofs` says what a step makes of it (a reply is put, a request is
sent, one is heard of, one is followed by another, some are dropped) and the second what that does
to `Watched(calls, kinds, up)`: of each kind that a flag of the page guards at most one request is
in flight, and only while the flag is up. `SentOnce` alone is not inductive, since it does not say
that the flag is up, which is the guard of the next request. `AtsIInv` says that every consent the gateway keeps, and every one under way
to it, is one the user gave and that no revocation has withdrawn since; `NoCallWithoutAYes` follows
although the mode is saved, and consents are given and revoked, meanwhile. `agreed`, a variable of
the model only, loses a scope when the gateway hears of its revocation, unless another yes for it is
on its way (`Coming`), since the gateway goes by the decision that arrives last (`GateForgets`).
`AnswersAssumption` keeps the acknowledgement of an answer that nobody reads apart from `None`,
from a refusal and from a demand for consent; `NoneAssumption` keeps `None` out of the identifiers.

The links of an opportunity are set by requests that carry what the page was shown, possibly
before a tracker entry or a job was deleted. `WorkflowIInv` says that each artefact the page was
shown keeps its job in the gateway, and that each request in flight links only such artefacts.
That supposes `NotReused`: no new tracker entry has taken the identifier of the deleted one, which
is the last identifier of the model (`Gone`). SQLite reuses identifiers, so this is a condition
on the history and not a fact: once it fails, the stale link points to an entry of another job, and
`LinksFitTheJob` fails with it. The bound of the run stays below it.

### Design editor

`DesignIInv` says that the settings of the editor, and those that each call under way was made
with, have one shape, a template of the renderer and sizes that are numbers. `NormalizedFields` says what
the normalisation of the gateway leaves in each field of such a document; every proof about the page
starts from it. `TemplatesAssumption` says that the templates offered are templates
of the renderer, as `template_catalogue.py` and `contracts.ts` have them.

The three properties proved of it compare lists that the web client, the gateway and the renderer each
build in a way of their own, so none of them is inductive. `BoardIInv` is what they share: the
stored sections, and those of every document under way, are of types of the catalogue, no two of
one type, those of a new resume among them, each with its type for identifier; there are rows only
of types of the catalogue; and a move under way asks for a section of the catalogue. Two
assumptions on constants make it hold at the start: `CatalogueAssumption` (the catalogue lists
types of the renderer, each once, starts with the two types `customization-catalogue.ts` starts
with, and has the types that no new resume names in the order of `renderFallbackSections`) and
`RowsAssumption` (a resume has rows of those types). Without the order, the panel would show the
unlisted sections in another order than the page prints them; it is a fact about two tables, in
`customization-catalogue.ts` and `engine.ts`, that nothing in the code ties together.

- *Lists.* `Those(list, kept)`, the items of a list that are in a set, stands for every filter of
  the code. `FlatConcat`, `ThoseConcat`, `ThoseTwice`, `SpreadConcat` and `SpreadFlat` say how
  filters, flattening and concatenation commute. `FlattenSeq` is recursive, and what it returns is
  found without induction over data: `SumsExist` builds the history of its partial results by
  induction over a number, and `FlatIsTheLastSum` shows by another that the function which the
  definition chooses agrees with it.
- *`BoardIsThePage`.* `Merged` says that the merge of the panel is the stored sections followed by
  `Added`, the cards of the catalogue that are missing. `ColumnPrints` and `FallbackPrints` say
  that what the renderer prints of each part is what those cards print, spread over the column;
  `PageColumns` joins them, and `BoardLanes` finds the same list on the board.
- *`RowsArePrintedOnce`.* Each card is in one column (`TimesOnThePage`) and prints what
  `PrintsOnce` says; a type without a card has no rows. `ManifestFacts` adds that the manifest has
  one entry per block and that each starts on a page of the document, since a block takes at least
  a row (`BlocksEndInside`).
- *`MovesLand`.* `MoveIsAccepted`: with two columns and every section stored, the move route has
  no reason to refuse. `InsertFacts` splits the other sections where the moved one comes, with as
  many of its lane before it as was asked (`PlaceOfRank`), and `HeldIndex` reads its place back.
  No step other than the answer ends a move (`OnlyAnswersEndMoves`), so the settings it was asked
  for are those the answer starts from.

### How the proofs shaped the models

A definition that the prover cannot read, or that leaves room for a case the code excludes, was
rewritten with the same meaning: overlapping `CASE`s became guards or `IF`s (`FirstStep`, the
issues of the integrity report); `Network!Only` and `Network!With` replace `SelectSeq` and the
function override where requests are dropped and replies built, and `NormalizeCatalogue` is a
function over the parts of the catalogue. `Those` replaces `SelectSeq`, which hides its test in an
operator that no lemma can name, in the merge, the moves and the fallback sections; `Insert` finds
the place of a section in the set of the positions of its lane instead of sorting them; `Top` adds
the heights of a column from its start; `Numbered` lists its fields. Induction over naturals is stated as the existence of a
least element, since the library's induction theorems take an operator as a parameter.

### What only TLC checks

- Liveness, which the proof system does not handle under fairness: `OutcomeIsAnnounced`,
  `QueuesAreReclaimed`, `SavesSettle`, `EveryRequestEnds`, `EveryRequestIsAnswered`, and the half
  of `ImplementsPool` that says slots come back.
- `OnePageTakesOnlyThePhoto`, which compares two tables of limits, in the gateway and the renderer:
  the sizes TLC reaches are on both sides of the limits, but for the vertical margin.
- The four runs that TLC refutes.

## 6. Not modelled, and why

In all modules. The text of documents, prompts, model answers, HTML and PDF layout, logging and
the authentication of requests have no bearing on the order of steps. Time is abstracted: a timeout may
happen whenever the code waits. Pings of a stream change nothing and are not events. A database
write that fails for reasons outside the program (full disk, locked file) is a kill. Only one
opportunity is in OpportunityWorkflow, since its routes never look at another one. Reading routes
without effects are no actions. The section reordering of a move is an edit with an unspecified
result in the resume store, and a list of sections in CvDesign.

In the renderer: `BrowserManager.close`, which only tests call, and the markup, style sheets and
Markdown of the engine.

Steps that the models merge, none of which a property tells apart: a restore reads the row and the
revision at once (`routers/resumes.py:409-410`), a move of a legacy row keeps the document prepared
before the refresh (`:435`), and a resume is created with one locale, though an import may bring
several; the workflow's creation of an application is one commit and not two or three, and a
transition whose tracker entry was deleted meanwhile is committed although the code would fail as a
whole; the two progress events around a score of the pipeline are one, and a preflight asks for
two tasks instead of four. On the ATS page a stream brings one `job_result`, and the drop target
of the import zone honours the flag of its button, which in the code it does not; the list of
resumes holds a resume once, where a load that crosses a creation can list it twice until the next
load; and a second save of a letter's draft, sent before the editor opens, is given up with the page.

In the web client. A behaviour stays on the page it opens. Tabs, panes, layout, translations and
wording, the landing and the help pages have no requests. Zero-delay timers are part of the step
that sets them. The six reads of a load of the workflow page, and the three of the drawer, are one
request, and the loss of a read is its failure. The first opportunity or resume of a list is any
one. The locale in the link of a resume is left out; opening a letter from the workflow page is a
read. Tasks that need a consent are reduced to three (job, ats, parse), the provider is a cloud
one, preparation and call of a provider are one step, and the ledger of activity is not kept. The
drawer's secrets and its list of models are left out. A readiness probe of a ready service is
assumed to be answered before its limit. The design editor, whose only flags belong to answers that
replace newer edits, is not part of `EveryRequestEnds`, nor is a consent dialog replaced by a
second one (`Replaced`), whose first request really never ends. Of the builder, the mode of the
interface, the upload of a JSON file, the exports and the drag of skills and bullets within a row
are left out; so are the preview and the acceptance of proposals in the insights panel, which a run
with a saved resume never reaches (section 4), and the consent dialogs of its calls, which AtsDesk
has. The forms are followed by the number of rows they leave and not by their text or order.

Whole components:

- *Model registry and discovery*: a dictionary behind a lock and HTTP queries, no protocol.
- *Agents, company analysis, scraper*: sequential calls with retries; their outcome, an answer, a
  poor answer or a failure, is an input of OptimizePipeline.
- *Redaction and audit rows*: no step of the program reads them back.
- *Runtime configuration*: concurrent saves of the JSON file can lose each other's keys; the models
  have one key, the privacy mode, for which a lost write is a reordered one.
- *Migrations and vector store*: migrations run once, before any request; whether one may run
  twice after a kill depends on its SQL. The vector store is an external service behind two calls.
- *Command line*: one user at a time on one machine. The hazard of a kill between the two renames
  of a restore is read off two lines of `backup.py` and listed.
- *Patch operators* rewrite text, which no model here holds.

## 7. What could come next

- That each action of a page leaves the flag of every request it has sent up, the safety half of
  `EveryRequestEnds`.
- For the renderer, that the counters of the monitor agree with the answers, beside the pool.
