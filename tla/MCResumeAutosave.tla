-------------------------- MODULE MCResumeAutosave --------------------------
(***************************************************************************)
(* Instances of ResumeAutosave for TLC, and what the documents say of      *)
(* automatic saving that the single pending slot does not keep.            *)
(***************************************************************************)
EXTENDS ResumeAutosave

Typing == [acts |-> {"edit", "retry"}, revisions |-> 4, ordered |-> TRUE]
Switching == [acts |-> {"edit", "switch"}, revisions |-> 3, ordered |-> FALSE]
Rearranging == [acts |-> {"edit", "rename", "retry", "move"}, revisions |-> 2, ordered |-> FALSE]
Reloading == [acts |-> {"edit", "retry", "move", "load", "switch"}, revisions |-> 2, ordered |-> FALSE]
AllScenarios == {Typing, Switching, Rearranging, Reloading}

Renaming == [acts |-> {"edit", "rename"}, revisions |-> 2, ordered |-> TRUE]
RenameScenarios == {Renaming}

\* "Backend autosave of the active resumes": a client at rest whose save is
\* reported done has stored the text typed last into the active resume.
AutosaveStoresEdits ==
  status = "saved" /\ pending = None /\ calls = {} => stored[active].text = typed[active]
=============================================================================
