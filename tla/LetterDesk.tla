----------------------------- MODULE LetterDesk -----------------------------
(***************************************************************************)
(* Two pages that share a server draft: the history, whose letters can be  *)
(* opened in the Markdown editor, and the editor itself, with its preview, *)
(* its exports and the versions it saves.                                  *)
(***************************************************************************)
EXTENDS Network

VARIABLES
  desk,        \* the page shown: history or markdown
  letters,     \* the gateway's letters: the job of each
  markdownDraft, \* the letter handed over to the editor, or None
  ledger,      \* the history shown: [items, loading, clearing, error, subject, selected]
  editor,      \* the editor: [text, id, job, loading, saving, exporting, list]
  preview      \* [due, loading]: due while the timer runs

deskVars == <<desk, letters, markdownDraft, ledger, editor, preview>>

\* A text is one made from a letter, from a template, or None when it is empty.
Template == 0

Server(k, op) == Waiting(k, op) /\ UNCHANGED <<desk, ledger, editor, preview>>
OnHistory == desk = "history" /\ UNCHANGED <<desk, letters, markdownDraft, editor, preview>>
OnMarkdown == desk = "markdown" /\ UNCHANGED <<desk, letters, markdownDraft, ledger>>

-----------------------------------------------------------------------------
(* The gateway *)

Letter(id) == [id |-> id, job |-> letters[id]]

\* The activity of a filter: the letters, or also one run, which no filter on letters shows.
ListLedger(k) ==
  /\ Server(k, "ledger") /\ UNCHANGED <<letters, markdownDraft>>
  /\ Reply(k, [items |-> DOMAIN letters \cup (IF calls[k].arg.subject = "all" /\ letters # <<>> THEN {0} ELSE {})])

ClearLedger(k) == Server(k, "clear") /\ letters' = <<>> /\ UNCHANGED markdownDraft /\ Reply(k, Ok)

GetLetter(k) ==
  /\ calls[k].op \in {"open", "letter"} /\ Server(k, calls[k].op) /\ calls[k].arg.id \in DOMAIN letters
  /\ Reply(k, Letter(calls[k].arg.id))
  /\ UNCHANGED <<letters, markdownDraft>>

ListLetters(k) == Server(k, "letters") /\ Reply(k, [list |-> letters]) /\ UNCHANGED <<letters, markdownDraft>>

PutDraft(k) == Server(k, "saveDraft") /\ markdownDraft' = calls[k].arg /\ Reply(k, Ok) /\ UNCHANGED letters

GetDraft(k) == Server(k, "loadDraft") /\ Reply(k, [draft |-> markdownDraft]) /\ UNCHANGED <<letters, markdownDraft>>

DeleteDraft(k) == Server(k, "deleteDraft") /\ markdownDraft' = None /\ Reply(k, Ok) /\ UNCHANGED letters

\* A version of a letter is a letter of the same job.
SaveVersion(k) ==
  /\ Server(k, "version") /\ calls[k].arg.id \in DOMAIN letters
  /\ LET id == Len(letters) + 1 IN
       /\ letters' = Append(letters, calls[k].arg.job)
       /\ Reply(k, [id |-> id, job |-> calls[k].arg.job])
  /\ UNCHANGED markdownDraft

\* The renderer and the exporters keep nothing: their answer and what the page does with it are one step.
Pure == {"preview", "pdf", "docx"}
Rendered(k, op) == Waiting(k, op) /\ Done(k)

Gateway(k) ==
  \/ ListLedger(k) \/ ClearLedger(k) \/ GetLetter(k) \/ ListLetters(k) \/ PutDraft(k) \/ GetDraft(k)
  \/ DeleteDraft(k) \/ SaveVersion(k)

-----------------------------------------------------------------------------
(* The history page *)

\* A filter loads its items.  Two loads may be under way.
Filter(subject) ==
  /\ OnHistory /\ ledger.subject # subject
  /\ Ask("ledger", [subject |-> subject])
  /\ ledger' = [ledger EXCEPT !.subject = subject, !.loading = TRUE, !.error = FALSE]

LedgerLoaded(k, fine) ==
  /\ OnHistory /\ Answered(k, "ledger", fine)
  /\ Done(k)
  /\ ledger' = IF fine THEN [ledger EXCEPT !.items = calls[k].reply.items, !.loading = FALSE,
                                              !.clearing = @ /\ ~ ("after" \in DOMAIN calls[k].arg)]
                          ELSE [ledger EXCEPT !.error = TRUE, !.loading = FALSE,
                                              !.clearing = @ /\ ~ ("after" \in DOMAIN calls[k].arg)]

\* clearHistory, once the user confirmed.
ClearHistory ==
  /\ OnHistory /\ ~ ledger.clearing /\ ~ ledger.loading /\ ledger.items # {}
  /\ Ask("clear", [subject |-> ledger.subject])
  /\ ledger' = [ledger EXCEPT !.clearing = TRUE, !.error = FALSE]

\* Its load is the one of the filter the button was pressed under.
HistoryCleared(k, fine) ==
  /\ OnHistory /\ Answered(k, "clear", fine)
  /\ IF fine THEN /\ Then(k, "ledger", [subject |-> calls[k].arg.subject, after |-> "clear"])
                     /\ ledger' = [ledger EXCEPT !.items = {}, !.selected = None, !.loading = TRUE, !.error = FALSE]
                ELSE Done(k) /\ ledger' = [ledger EXCEPT !.error = TRUE, !.clearing = FALSE]

\* The list and its cards, which are hidden while it loads.
Select(id) ==
  /\ OnHistory /\ ~ ledger.loading /\ id \in ledger.items /\ ledger.selected # id
  /\ Edit
  /\ ledger' = [ledger EXCEPT !.selected = id]

\* selectedItem: the one that was picked, as long as it is listed, or the first.
SelectedItem ==
  IF ledger.selected \in ledger.items THEN ledger.selected ELSE IF ledger.items = {} THEN None ELSE Max(ledger.items)

OpenInMarkdown ==
  /\ OnHistory /\ SelectedItem \notin {None, 0}
  /\ Ask("open", [id |-> SelectedItem])
  /\ UNCHANGED ledger

\* openCoverLetterInMarkdown: the letter is read, then handed over as a draft.
LetterRead(k, fine) ==
  /\ OnHistory /\ Answered(k, "open", fine)
  /\ IF fine THEN Then(k, "saveDraft", calls[k].reply) /\ UNCHANGED ledger
                ELSE Done(k) /\ ledger' = [ledger EXCEPT !.error = TRUE]

\* The list and the draft, when the editor opens.
EditorEffects == <<Call("letters", [origin |-> "open"]), Call("loadDraft", [origin |-> "open"])>>

\* Then the editor opens.  A deletion that is under way goes on; other answers go nowhere.
EditorOpens(k, fine) ==
  /\ desk = "history" /\ Answered(k, "saveDraft", fine)
  /\ IF fine THEN /\ desk' = "markdown" /\ UNCHANGED <<ledger, acts>>
                     /\ calls' = Only(calls, Pending("clear")) \o EditorEffects
                ELSE Done(k) /\ ledger' = [ledger EXCEPT !.error = TRUE] /\ UNCHANGED desk
  /\ UNCHANGED <<letters, markdownDraft, editor, preview>>

-----------------------------------------------------------------------------
(* The Markdown editor *)

\* A change of the text starts the timer of the preview again.
TypeText ==
  /\ OnMarkdown /\ (~ preview.due \/ editor.text = None)
  /\ Edit
  /\ editor' = [editor EXCEPT !.text = IF @ = None THEN Template ELSE @]
  /\ preview' = [preview EXCEPT !.due = TRUE]

\* applyTemplate
ApplyTemplate(text) ==
  /\ OnMarkdown
  /\ Edit
  /\ editor' = [editor EXCEPT !.text = text, !.id = None, !.job = None]
  /\ preview' = [preview EXCEPT !.due = TRUE]

\* sameJobLetters
SameJobLetters == {id \in DOMAIN editor.list : editor.job # None /\ editor.list[id] = editor.job}

\* handleOpenCoverLetter: from the list, closed while one loads, or from the versions of the job, if several.
OpenLetter(id) ==
  /\ OnMarkdown /\ id \in DOMAIN editor.list
  /\ ~ editor.loading \/ (editor.id # None /\ id \in SameJobLetters /\ Cardinality(SameJobLetters) > 1)
  /\ Ask("letter", [id |-> id])
  /\ editor' = [editor EXCEPT !.loading = TRUE]
  /\ UNCHANGED preview

LetterOpened(k, fine) ==
  /\ OnMarkdown /\ Answered(k, "letter", fine)
  /\ Done(k)
  /\ IF fine THEN /\ editor' = [editor EXCEPT !.text = calls[k].reply.id, !.id = calls[k].reply.id,
                                                 !.job = calls[k].reply.job, !.loading = FALSE]
                     /\ preview' = [preview EXCEPT !.due = TRUE]
                ELSE editor' = [editor EXCEPT !.loading = FALSE] /\ UNCHANGED preview

\* The draft is shown whatever was typed meanwhile, and then deleted.
DraftLoaded(k, fine) ==
  /\ OnMarkdown /\ Answered(k, "loadDraft", fine)
  /\ IF fine /\ calls[k].reply.draft # None
     THEN LET letter == calls[k].reply.draft IN
            /\ Then(k, "deleteDraft", [id |-> letter.id])
            /\ editor' = [editor EXCEPT !.text = letter.id, !.id = letter.id, !.job = letter.job]
            /\ preview' = [preview EXCEPT !.due = TRUE]
     ELSE Done(k) /\ UNCHANGED <<editor, preview>>

DraftDeleted(k, fine) ==
  /\ OnMarkdown /\ (Answered(k, "deleteDraft", fine) \/ Answered(k, "clear", fine))
  /\ Done(k)
  /\ UNCHANGED <<editor, preview>>

\* refreshCoverLetters, alone or at the end of a save.
LettersListed(k, fine) ==
  /\ OnMarkdown /\ Answered(k, "letters", fine)
  /\ Done(k)
  /\ editor' = [editor EXCEPT !.list = IF fine THEN calls[k].reply.list ELSE @,
                              !.saving = @ /\ calls[k].arg.origin # "save"]
  /\ UNCHANGED preview

\* fetchPreview, when the timer ends; an empty text empties it.
PreviewDue ==
  /\ OnMarkdown /\ preview.due
  /\ IF editor.text = None
     THEN preview' = [preview EXCEPT !.due = FALSE] /\ UNCHANGED calls
     ELSE preview' = [preview EXCEPT !.due = FALSE, !.loading = TRUE] /\ calls' = Append(calls, Call("preview", None))
  /\ UNCHANGED <<editor, acts>>

PreviewShown(k) ==
  /\ OnMarkdown /\ Rendered(k, "preview")
  /\ preview' = [preview EXCEPT !.loading = FALSE]
  /\ UNCHANGED editor

\* handleExport and handleExportDocx: a button is off while its export runs.
Export(kind) ==
  /\ OnMarkdown /\ kind \notin editor.exporting /\ editor.text # None
  /\ Ask(kind, None)
  /\ editor' = [editor EXCEPT !.exporting = @ \cup {kind}]
  /\ UNCHANGED preview

Exported(k) ==
  /\ OnMarkdown /\ (Rendered(k, "pdf") \/ Rendered(k, "docx"))
  /\ editor' = [editor EXCEPT !.exporting = @ \ {calls[k].op}]
  /\ UNCHANGED preview

\* Mutant: the button stays on while the version is saved.
SaveAgain ==
  /\ OnMarkdown /\ editor.id # None /\ editor.text # None
  /\ Ask("version", [id |-> editor.id, job |-> editor.job])
  /\ editor' = [editor EXCEPT !.saving = TRUE]
  /\ UNCHANGED preview

\* handleSaveCoverLetterVersion
SaveCoverLetterVersion ==
  /\ OnMarkdown /\ editor.id # None /\ ~ editor.saving /\ editor.text # None
  /\ Ask("version", [id |-> editor.id, job |-> editor.job])
  /\ editor' = [editor EXCEPT !.saving = TRUE]
  /\ UNCHANGED preview

\* The version becomes the letter of the editor, whatever was opened meanwhile.
VersionSaved(k, fine) ==
  /\ OnMarkdown /\ Answered(k, "version", fine)
  /\ IF fine THEN /\ Then(k, "letters", [origin |-> "save"])
                     /\ editor' = [editor EXCEPT !.id = calls[k].reply.id, !.job = calls[k].reply.job]
                ELSE Done(k) /\ editor' = [editor EXCEPT !.saving = FALSE]
  /\ UNCHANGED preview

-----------------------------------------------------------------------------

Effects == IF desk = "history" THEN <<Call("ledger", [subject |-> "all"])>> ELSE EditorEffects

\* Either page, with a letter another page handed over or none.
PageInit ==
  /\ letters = <<"job1", "job2">>
  /\ \/ desk = "history" /\ markdownDraft = None
     \/ desk = "markdown" /\ markdownDraft = Letter(1)
  /\ ledger = [items |-> {}, loading |-> TRUE, clearing |-> FALSE, error |-> FALSE, subject |-> "all", selected |-> None]
  /\ editor = [text |-> Template, id |-> None, job |-> None, loading |-> FALSE, saving |-> FALSE,
               exporting |-> {}, list |-> <<>>]
  /\ preview = [due |-> TRUE, loading |-> FALSE]

OnAnswer(k, fine) ==
  \/ LedgerLoaded(k, fine) \/ HistoryCleared(k, fine) \/ LetterRead(k, fine) \/ EditorOpens(k, fine)
  \/ LetterOpened(k, fine) \/ DraftLoaded(k, fine) \/ DraftDeleted(k, fine) \/ LettersListed(k, fine)
  \/ VersionSaved(k, fine)

Answers ==
  \/ PreviewDue
  \/ \E k \in DOMAIN calls : Gateway(k) \/ PreviewShown(k) \/ Exported(k) \/ \E fine \in BOOLEAN : OnAnswer(k, fine)

Next ==
  \/ (\E subject \in {"all", "cover_letter"} : Filter(subject)) \/ ClearHistory \/ OpenInMarkdown
  \/ (\E id \in 0..2 : Select(id))
  \/ TypeText \/ ApplyTemplate(Template) \/ ApplyTemplate(None) \/ SaveCoverLetterVersion
  \/ (\E id \in 1..3 : OpenLetter(id)) \/ (\E kind \in {"pdf", "docx"} : Export(kind))
  \/ Answers

Busy ==
  IF desk = "history" THEN ledger.loading \/ ledger.clearing
  ELSE editor.loading \/ editor.saving \/ editor.exporting # {} \/ preview.loading

SentOnce == \A op \in {"clear", "version", "pdf", "docx"} : Cardinality(Pending(op)) <= 1

=============================================================================
