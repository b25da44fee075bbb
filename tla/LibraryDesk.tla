---------------------------- MODULE LibraryDesk ----------------------------
(***************************************************************************)
(* The dashboard: the library of resumes of the store, the versions of the *)
(* active one, and the imports.  The store goes on after a resume is       *)
(* opened, when the page is left.                                          *)
(* The name of a resume and its autosave are those of ResumeAutosave.      *)
(***************************************************************************)
EXTENDS Network

VARIABLES
  resumes,     \* the gateway's resumes: their ids
  revisions,   \* the number of revisions of each id; they outlive the resume
  library,     \* the store: [list, active, loading]
  versions,    \* the page: [items, loading, compared, comparing]
  importing,   \* isImportingPdf
  left         \* whether a resume was opened

libraryVars == <<resumes, revisions, library, versions, importing, left>>

Ids == 1..(2 + MaxActs)

-----------------------------------------------------------------------------
(* The gateway *)

Server(k, op) == Waiting(k, op) /\ UNCHANGED <<library, versions, importing, left>>

\* SQLite gives the id of the last resume again once it is deleted.
NextId == Max(resumes \cup {0}) + 1

ListResumes(k) == Server(k, "load") /\ Reply(k, [ids |-> resumes]) /\ UNCHANGED <<resumes, revisions>>

\* create, import-json and duplicate: a new resume and its first revision.
CreateResume(k) ==
  /\ Server(k, "create") /\ calls[k].arg.source \in resumes \cup {None}
  /\ Reply(k, [id |-> NextId])
  /\ resumes' = resumes \cup {NextId} /\ revisions' = [revisions EXCEPT ![NextId] = @ + 1]

DeleteResume(k) ==
  /\ Server(k, "delete") /\ calls[k].arg.id \in resumes
  /\ Reply(k, Ok)
  /\ resumes' = resumes \ {calls[k].arg.id} /\ UNCHANGED revisions

ListRevisions(k) ==
  /\ Server(k, "revisions") /\ calls[k].arg.id \in resumes
  /\ Reply(k, [items |-> revisions[calls[k].arg.id]])
  /\ UNCHANGED <<resumes, revisions>>

\* A snapshot, or an older revision written as a new one.
AddRevision(k) ==
  /\ \E op \in {"snapshot", "restore"} : Server(k, op)
  /\ calls[k].arg.id \in resumes
  /\ Reply(k, Ok)
  /\ revisions' = [revisions EXCEPT ![calls[k].arg.id] = @ + 1] /\ UNCHANGED resumes

\* The parser, the current resume, the comparisons, the gallery and the downloads keep nothing that
\* matters here: they are served when they are answered.
Heard(k, op) == calls[k].op = op

Gateway(k) ==
  \/ ListResumes(k) \/ CreateResume(k) \/ DeleteResume(k) \/ ListRevisions(k) \/ AddRevision(k)

-----------------------------------------------------------------------------
(* The store *)

Page == UNCHANGED <<resumes, revisions>>

\* The list and the active resume.  The page reads the versions of an active resume that is another one.
Hold(rest, list, active, loading) ==
  /\ library' = [list |-> list, active |-> active, loading |-> loading]
  /\ IF active # library.active /\ ~ left
     THEN calls' = Append(rest, Call("revisions", [id |-> active])) /\ versions' = [versions EXCEPT !.loading = TRUE]
     ELSE calls' = rest /\ UNCHANGED versions

\* What goes on when the page is left: the calls that only the page waits for go nowhere.
Outlasting(rest) == Only(rest, {k \in DOMAIN rest : rest[k].op \notin {"revisions", "compare", "download"}})

\* Mutant: the active resume stays.
StaysActive(list) == {library.active}

\* The active resume stays while it is listed; else the first of the list is active: any.
Kept(list) == IF library.active \in list THEN {library.active} ELSE list

\* loadResumes: a library that is empty gets a first resume.
ResumesLoaded(k, fine) ==
  /\ Answered(k, "load", fine)
  /\ IF ~ fine THEN Done(k) /\ library' = [library EXCEPT !.loading = FALSE] /\ UNCHANGED versions
     ELSE IF calls[k].reply.ids = {} THEN Then(k, "create", [source |-> None, by |-> "load"]) /\ UNCHANGED <<library, versions>>
     ELSE /\ \E active \in Kept(calls[k].reply.ids) : Hold(RemoveAt(calls, k), calls[k].reply.ids, active, FALSE)
          /\ UNCHANGED acts
  /\ Page /\ UNCHANGED <<importing, left>>

\* deleteResume: of a list it would empty, the handler fails and the resume stays listed.
ResumeDeleted(k, fine) ==
  LET list == library.list \ {calls[k].arg.id} IN
  /\ Answered(k, "delete", fine)
  /\ IF fine /\ list # {}
     THEN (\E active \in Kept(list) : Hold(RemoveAt(calls, k), list, active, library.loading)) /\ UNCHANGED acts
     ELSE Done(k) /\ UNCHANGED <<library, versions>>
  /\ Page /\ UNCHANGED <<importing, left>>

\* createResume, importResume and duplicateResume: the new resume is listed and active.  The page
\* then opens it, unless it is a copy or the first; for a JSON import, once the current resume is replaced.
ResumeAdded(k, fine) ==
  LET by == calls[k].arg.by
      id == calls[k].reply.id
      rest == RemoveAt(calls, k)
      loading == library.loading /\ by # "load"
  IN /\ Answered(k, "create", fine)
     /\ IF ~ fine
        THEN calls' = rest /\ library' = [library EXCEPT !.loading = loading] /\ UNCHANGED <<versions, left>>
        ELSE IF by \in {"template", "pdf"}
        THEN /\ library' = [list |-> library.list \cup {id}, active |-> id, loading |-> loading]
             /\ left' = TRUE /\ calls' = Outlasting(rest) /\ UNCHANGED versions
        ELSE /\ Hold(IF by = "json" THEN Append(rest, Call("current", [id |-> id])) ELSE rest,
                     library.list \cup {id}, id, loading)
             /\ UNCHANGED left
     /\ importing' = (importing /\ by # "pdf")
     /\ Page /\ UNCHANGED acts

-----------------------------------------------------------------------------
(* The page *)

OnPage == ~ left /\ Page

\* openResume, of a resume that is still listed.  What only the page waits for goes nowhere.
Open(id, rest) ==
  /\ library' = [library EXCEPT !.active = IF id \in library.list THEN id ELSE @]
  /\ left' = TRUE /\ UNCHANGED <<versions, importing>>
  /\ calls' = Outlasting(rest)

OpenResume(id) == OnPage /\ id \in library.list /\ Act /\ Open(id, calls)

CurrentReplaced(k) == Heard(k, "current") /\ Open(calls[k].arg.id, RemoveAt(calls, k)) /\ UNCHANGED acts /\ Page

Send(op, arg) == OnPage /\ Ask(op, arg) /\ UNCHANGED <<library, left>>

\* createFromTemplate: nothing keeps a second click from a second resume.
CreateFromTemplate == Send("create", [source |-> None, by |-> "template"]) /\ UNCHANGED <<versions, importing>>

DuplicateResume(id) ==
  /\ id \in library.list \ {None}
  /\ Send("create", [source |-> id, by |-> "copy"]) /\ UNCHANGED <<versions, importing>>

\* The button is off for the only resume of the list.
Delete(id) ==
  /\ id \in library.list /\ Cardinality(library.list) > 1
  /\ Send("delete", [id |-> id]) /\ UNCHANGED <<versions, importing>>

JsonImport == Send("create", [source |-> None, by |-> "json"]) /\ UNCHANGED <<versions, importing>>

\* Mutant: the button stays on during an import.
PdfImportAgain == Send("parse", None) /\ importing' = TRUE /\ UNCHANGED <<versions>>

PdfImport == ~ importing /\ Send("parse", None) /\ importing' = TRUE /\ UNCHANGED <<versions>>

PdfParsed(k, fine) ==
  /\ Heard(k, "parse")
  /\ IF fine THEN Then(k, "create", [source |-> None, by |-> "pdf"]) /\ UNCHANGED importing
             ELSE Done(k) /\ importing' = FALSE
  /\ Page /\ UNCHANGED <<library, versions, left>>

TemplateImport == Send("package", None) /\ UNCHANGED <<versions, importing>>

\* The resumes, the template and its preview are only read.
Download == Send("download", None) /\ UNCHANGED <<versions, importing>>

\* What is installed, downloaded or shown of it is not kept here.
Downloaded(k) == (Heard(k, "download") \/ Heard(k, "package")) /\ Done(k) /\ UNCHANGED libraryVars

\* The versions of whatever resume was active when they were asked for.
RevisionsLoaded(k, fine) ==
  /\ Answered(k, "revisions", fine) /\ Done(k)
  /\ versions' = [versions EXCEPT !.items = IF fine THEN calls[k].reply.items ELSE 0, !.loading = FALSE]
  /\ Page /\ UNCHANGED <<library, importing, left>>

Persisted == library.active # None

CreateSnapshot == Persisted /\ Send("snapshot", [id |-> library.active]) /\ UNCHANGED <<versions, importing>>

\* The snapshot is put before the versions shown by then.
SnapshotTaken(k, fine) ==
  /\ Answered(k, "snapshot", fine) /\ Done(k)
  /\ versions' = [versions EXCEPT !.items = IF fine THEN @ + 1 ELSE @]
  /\ Page /\ UNCHANGED <<library, importing, left>>

RestoreRevision ==
  /\ Persisted /\ versions.items > 0
  /\ Send("restore", [id |-> library.active]) /\ UNCHANGED <<versions, importing>>

\* The resumes are loaded anew; the versions are not.
RevisionRestored(k, fine) ==
  /\ Answered(k, "restore", fine)
  /\ IF fine THEN Then(k, "load", None) /\ library' = [library EXCEPT !.loading = TRUE] ELSE Done(k) /\ UNCHANGED library
  /\ Page /\ UNCHANGED <<versions, importing, left>>

CompareRevision ==
  /\ Persisted /\ versions.items > 1
  /\ Send("compare", [id |-> library.active])
  /\ versions' = [versions EXCEPT !.comparing = TRUE] /\ UNCHANGED <<importing>>

RevisionsCompared(k, fine) ==
  /\ Heard(k, "compare") /\ Done(k)
  /\ versions' = [versions EXCEPT !.compared = fine, !.comparing = FALSE]
  /\ Page /\ UNCHANGED <<library, importing, left>>

ClearComparison ==
  /\ OnPage /\ versions.compared /\ Edit
  /\ versions' = [versions EXCEPT !.compared = FALSE] /\ UNCHANGED <<library, importing, left>>

-----------------------------------------------------------------------------

\* The resume of the store is one no gateway knows until the library is loaded.
PageInit ==
  /\ resumes \in {{}, {1, 2}} /\ revisions = [id \in Ids |-> IF id \in resumes THEN 2 ELSE 0]
  /\ library = [list |-> {None}, active |-> None, loading |-> TRUE]
  /\ versions = [items |-> 0, loading |-> FALSE, compared |-> FALSE, comparing |-> FALSE]
  /\ importing = FALSE /\ left = FALSE

Effects == <<Call("load", None)>>

OnAnswer(k, fine) ==
  \/ ResumesLoaded(k, fine) \/ ResumeAdded(k, fine) \/ ResumeDeleted(k, fine) \/ PdfParsed(k, fine)
  \/ RevisionsLoaded(k, fine)
  \/ SnapshotTaken(k, fine) \/ RevisionRestored(k, fine) \/ RevisionsCompared(k, fine)

Answers == \E k \in DOMAIN calls : Gateway(k) \/ CurrentReplaced(k) \/ Downloaded(k) \/ \E fine \in BOOLEAN : OnAnswer(k, fine)

Next ==
  \/ CreateFromTemplate \/ JsonImport \/ PdfImport \/ TemplateImport \/ Download
  \/ CreateSnapshot \/ RestoreRevision \/ CompareRevision \/ ClearComparison
  \/ (\E id \in library.list : OpenResume(id) \/ DuplicateResume(id) \/ Delete(id))
  \/ Answers

Busy == ~ left /\ (library.loading \/ versions.loading \/ versions.comparing \/ importing)

SentOnce == Cardinality({k \in DOMAIN calls : calls[k].op = "parse" \/ (calls[k].op = "create" /\ calls[k].arg.by = "pdf")}) <= 1

\* However loads, copies and deletions cross, the active resume is one the library lists.
ActiveIsListed == library.active \in library.list

=============================================================================
