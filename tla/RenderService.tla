---------------------------- MODULE RenderService ----------------------------
(***************************************************************************)
(* The renderer: its HTTP handlers, the browser manager they share, the    *)
(* browsers it launches, the monitor and the serialised log writer.        *)
(*                                                                         *)
(* A step is one turn of the event loop, from one await to the next.  The  *)
(* check of the slot and its increment are one turn: the continuations     *)
(* between them are microtasks of the timer or of the request that woke    *)
(* the handler.  Puppeteer, which is external, answers or fails in time    *)
(* (its own launch limit and RENDERER_RENDER_TIMEOUT_MS).                  *)
(***************************************************************************)
EXTENDS Integers, SequencesExt, FiniteSetsExt

CONSTANTS
  Requests,     \* HTTP requests, each used once
  MaxPages,     \* RENDERER_MAX_CONCURRENT_PAGES
  MaxBrowsers,  \* bound: browsers that are ever launched
  MaxLogFaults, \* bound: log writes that fail
  None

ASSUME RenderAssumption ==
  IsFiniteSet(Requests) /\ MaxPages \in Nat \ {0} /\ MaxBrowsers \in Nat /\ MaxLogFaults \in Nat

VARIABLES
  call,        \* per request: its step, browser, outcome and answer
  activePages, \* BrowserManager.activePages
  browser,     \* BrowserManager.browser
  launching,   \* BrowserManager.launchPromise is pending
  connected,   \* the browsers that run
  launched,    \* number of browsers launched so far
  pending,     \* RendererLogger.pending: the writes not yet done, in order
  faults,      \* number of log writes that failed
  metrics      \* RendererMonitor: requests, errors and render failures

vars == <<call, activePages, browser, launching, connected, launched, pending, faults, metrics>>
manager == <<activePages, browser, launching>>
world == <<connected, launched>>
logs == <<pending, faults>>

Steps == {"idle", "slot", "launch", "open", "work", "close", "failed", "log", "done"}

\* The calls of the API: the routes, and the answer modes of /render/pdf.
CvCalls == {"pdf", "pdf_buffer", "pdf_manifest", "pdf_manifest_buffer", "html", "html_manifest", "manifest"}
Calls == CvCalls \cup {"markdown", "preview", "probe"}

\* What the body asks for: a document, one outside the template contract, or one
\* on which the template engine or the Markdown parser throws.
Bodies == {"ok", "contract", "throws"}

Idle == [pc |-> "idle", browser |-> None, status |-> 0, sent |-> 0, lost |-> FALSE]

Moved(r, pc) == call' = [call EXCEPT ![r].pc = pc]

\* A request has its browser; its work ends with a status.
Opened(c, b) == [c EXCEPT !.pc = "open", !.browser = b]
Ended(c, status) == [c EXCEPT !.pc = "close", !.status = status]

-----------------------------------------------------------------------------
(* RendererMonitor and RendererLogger *)

\* recordRequest
Recorded(m, status) == [m EXCEPT !.requests = @ + 1, !.errors = @ + IF status >= 400 THEN 1 ELSE 0]

\* completeRequest: count the answer, queue its log line, wait for the write.
Complete(r, status) ==
  /\ call' = [call EXCEPT ![r] = [Idle EXCEPT !.pc = "log", !.status = status]]
  /\ metrics' = Recorded(metrics, status)
  /\ pending' = Append(pending, r)

\* logRouteError: count the failure, queue its log line, wait for the write.
RouteError(r, status) ==
  /\ call' = [call EXCEPT ![r] = [Idle EXCEPT !.pc = "failed", !.status = status]]
  /\ metrics' = [metrics EXCEPT !.failures = @ + 1]
  /\ pending' = Append(pending, r)

\* The answer that goes with an error line waits for a second write; a write that
\* throws leaves the handler, and the framework answers 500.
AfterWrite(r, worked) ==
  LET c == call[r] IN
    CASE ~ worked -> /\ call' = [call EXCEPT ![r].pc = "done", ![r].sent = 500, ![r].lost = TRUE]
                     /\ UNCHANGED metrics /\ pending' = Tail(pending)
      [] worked /\ c.pc = "failed" ->
                     /\ Moved(r, "log")
                     /\ metrics' = Recorded(metrics, c.status)
                     /\ pending' = Append(Tail(pending), r)
      [] OTHER    -> /\ call' = [call EXCEPT ![r].pc = "done", ![r].sent = c.status]
                     /\ UNCHANGED metrics /\ pending' = Tail(pending)

\* Mutant: a failed write rejects the whole chain.
WriteUncaught ==
  /\ pending # <<>>
  /\ \/ faults = 0 /\ AfterWrite(Head(pending), TRUE) /\ UNCHANGED faults
     \/ faults + 1 <= MaxLogFaults /\ AfterWrite(Head(pending), FALSE) /\ faults' = faults + 1
     \/ faults > 0 /\ AfterWrite(Head(pending), FALSE) /\ UNCHANGED faults
  /\ UNCHANGED <<manager, world>>

\* log: one write at a time, after the rotation of the files; the next one does not
\* mind that this one failed.
Write ==
  /\ pending # <<>>
  /\ \/ AfterWrite(Head(pending), TRUE) /\ UNCHANGED faults
     \/ faults < MaxLogFaults /\ AfterWrite(Head(pending), FALSE) /\ faults' = faults + 1
  /\ UNCHANGED <<manager, world>>

-----------------------------------------------------------------------------
(* The handlers, up to their first await *)

\* GET routes: health, readiness, metrics, contracts and documentation.
Probe(r) ==
  /\ call[r].pc = "idle"
  /\ Complete(r, 200)
  /\ UNCHANGED <<manager, world, faults>>

\* POST /render/pdf and POST /render/manifest up to the browser.
RenderCv(r, route, body) ==
  /\ call[r].pc = "idle"
  /\ CASE body = "contract"             -> RouteError(r, 422)
       [] body = "throws"               -> RouteError(r, 500)
       [] body = "ok" /\ route = "pdf_manifest_buffer" -> Complete(r, 422)
       [] body = "ok" /\ route = "html" -> Complete(r, 200)
       [] OTHER -> /\ call' = [call EXCEPT ![r] = [Idle EXCEPT !.pc = "slot"]]
                   /\ UNCHANGED <<metrics, pending>>
  /\ UNCHANGED <<manager, world, faults>>

\* POST /render/markdown/preview and POST /render/markdown: errors are 500.
RenderMarkdown(r, route, body) ==
  /\ call[r].pc = "idle"
  /\ CASE body = "throws"    -> RouteError(r, 500)
       [] body = "ok" /\ route = "preview" -> Complete(r, 200)
       [] OTHER -> /\ call' = [call EXCEPT ![r] = [Idle EXCEPT !.pc = "slot"]]
                   /\ UNCHANGED <<metrics, pending>>
  /\ UNCHANGED <<manager, world, faults>>

-----------------------------------------------------------------------------
(* BrowserManager.withPage *)

\* getBrowser up to its await: the browser at hand, the launch under way or a new one.
GetBrowser(r) ==
  IF browser \in connected
  THEN call' = [call EXCEPT ![r] = Opened(@, browser)] /\ UNCHANGED launching
  ELSE Moved(r, "launch") /\ launching' = TRUE

\* Mutant: one page too many is let in.
TakeSlotLate(r) ==
  /\ call[r].pc = "slot"
  /\ activePages <= MaxPages
  /\ activePages' = activePages + 1
  /\ GetBrowser(r)
  /\ UNCHANGED <<browser, world, logs, metrics>>

\* waitForPageSlot, polled every 25 ms, then the increment.
TakeSlot(r) ==
  /\ call[r].pc = "slot"
  /\ activePages < MaxPages
  /\ activePages' = activePages + 1
  /\ GetBrowser(r)
  /\ UNCHANGED <<browser, world, logs, metrics>>

Waiters == {r \in Requests : call[r].pc = "launch"}

\* The launch promise resolves: its browser is kept and all its waiters have it.
Launched ==
  /\ launching /\ launched < MaxBrowsers
  /\ launched' = launched + 1
  /\ connected' = connected \cup {launched + 1}
  /\ browser' = launched + 1
  /\ launching' = FALSE
  /\ call' = [r \in Requests |-> IF r \in Waiters THEN Opened(call[r], launched + 1) ELSE call[r]]
  /\ UNCHANGED <<activePages, logs, metrics>>

\* The launch promise rejects: the next caller launches again.
LaunchFailed ==
  /\ launching
  /\ browser' = None
  /\ launching' = FALSE
  /\ call' = [r \in Requests |-> IF r \in Waiters THEN Ended(call[r], 500) ELSE call[r]]
  /\ UNCHANGED <<activePages, world, logs, metrics>>

\* browser.newPage: fails when the browser is gone, or on its own.
OpenPage(r) ==
  /\ call[r].pc = "open"
  /\ \/ call[r].browser \in connected /\ Moved(r, "work")
     \/ call' = [call EXCEPT ![r] = Ended(@, 500)]
  /\ UNCHANGED <<manager, world, logs, metrics>>

\* generatePDF, inspectRenderedHtml, generatePDFWithManifest: load, measure, print;
\* any of them may throw or time out.
UsePage(r) ==
  /\ call[r].pc = "work"
  /\ \/ call[r].browser \in connected /\ call' = [call EXCEPT ![r] = Ended(@, 200)]
     \/ call' = [call EXCEPT ![r] = Ended(@, 500)]
  /\ UNCHANGED <<manager, world, logs, metrics>>

\* Mutant: the slot comes back only when there was a page to close.
ClosePageOfOpen(r) ==
  /\ call[r].pc = "close"
  /\ activePages' = IF call[r].browser = None THEN activePages ELSE activePages - 1
  /\ IF call[r].status = 200 THEN Complete(r, 200)
                             ELSE RouteError(r, 500)
  /\ UNCHANGED <<browser, launching, world, faults>>

\* The finally block, whose own failure is ignored, and the rest of the handler.
ClosePage(r) ==
  /\ call[r].pc = "close"
  /\ activePages' = Max({0, activePages - 1})
  /\ IF call[r].status = 200 THEN Complete(r, 200)
                             ELSE RouteError(r, 500)
  /\ UNCHANGED <<browser, launching, world, faults>>

\* A browser process ends: it is not connected from then on.
BrowserDies(b) ==
  /\ b \in connected
  /\ connected' = connected \ {b}
  /\ UNCHANGED <<call, manager, launched, logs, metrics>>

\* Mutant: the event of any browser forgets the current one.
DisconnectedAny(b) ==
  /\ b \notin connected
  /\ browser # None /\ browser' = None
  /\ UNCHANGED <<call, activePages, launching, world, logs, metrics>>

\* The "disconnected" event of a browser, some time after its end.
Disconnected(b) ==
  /\ b \notin connected
  /\ browser = b /\ browser' = None
  /\ UNCHANGED <<call, activePages, launching, world, logs, metrics>>

-----------------------------------------------------------------------------

Init ==
  /\ call = [r \in Requests |-> Idle]
  /\ activePages = 0 /\ browser = None /\ launching = FALSE
  /\ connected = {} /\ launched = 0
  /\ pending = <<>> /\ faults = 0
  /\ metrics = [requests |-> 0, errors |-> 0, failures |-> 0]

Work(r) == TakeSlot(r) \/ OpenPage(r) \/ UsePage(r) \/ ClosePage(r)

Next ==
  \/ Write \/ Launched \/ LaunchFailed
  \/ \E r \in Requests :
       \/ Probe(r) \/ Work(r)
       \/ \E body \in Bodies :
            \/ \E route \in CvCalls : RenderCv(r, route, body)
            \/ body # "contract" /\ \E route \in {"preview", "markdown"} : RenderMarkdown(r, route, body)
  \/ \E b \in 1..launched : BrowserDies(b) \/ Disconnected(b)

\* The event loop runs what is ready, and Puppeteer answers or fails in time.
Spec ==
  /\ Init /\ [][Next]_vars
  /\ WF_vars(Write) /\ WF_vars(Launched \/ LaunchFailed)
  /\ \A r \in Requests : WF_vars(TakeSlot(r)) /\ WF_vars(OpenPage(r) \/ UsePage(r) \/ ClosePage(r))

-----------------------------------------------------------------------------
(* What the renderer promises *)

Holders == {r \in Requests : call[r].pc \in {"launch", "open", "work", "close"}}

Pool == INSTANCE PagePool WITH held <- Holders

\* The browser manager is a pool of MaxPages slots: it never lets in one caller more,
\* and no failed launch, lost browser or failed page keeps a slot for ever
\* (README.md of the renderer: "limite de pages concurrentes").
ImplementsPool == Pool!Spec

\* A browser that runs is the one the manager knows: no interleaving of shared
\* launches, deaths and late events leaves a Chromium process behind.
NoBrowserForgotten == connected \subseteq {browser}

\* Every request that came in is answered, with any mixture of callers, failures of
\* the browser and failures of the log file.
EveryRequestIsAnswered == \A r \in Requests : call[r].pc # "idle" ~> call[r].pc = "done"

\* A log write that fails takes the answer of its own request and of no other, though
\* all writes go through one chain of promises.
LogFaultsStayLocal == Cardinality({r \in Requests : call[r].lost}) = faults

=============================================================================
