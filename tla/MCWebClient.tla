---------------------------- MODULE MCWebClient ----------------------------
(***************************************************************************)
(* The instance of WebClient for TLC.                                      *)
(***************************************************************************)
EXTENDS WebClient, Integers

\* A template of two columns, one of one column, one with a ledger.
MCTemplates == {"modern", "ats", "ledger"}
MCCatalogue == <<"experience", "education", "certifications", "custom">>

\* A resume longer than a page, with parts that no stored section names.
MCRows ==
  {[type \in {"experience", "education", "projects", "skills", "languages", "certifications", "volunteering",
              "interests", "publications", "references", "custom"} |->
      CASE type = "experience" -> 7 [] type = "certifications" -> 2 [] type \in {"education", "custom"} -> 1 [] OTHER -> 0]}

Rule(selectors, declarations) == [formed |-> TRUE, selectors |-> selectors, declarations |-> declarations]
MCCssTexts == {<<Rule(<<"host">>, <<"plain">>)>>, <<Rule(<<"attribute", "other">>, <<"plain", "blocked">>)>>}

\* Two crossing requests, after the action that prepares one of them where a page needs it.
MCActs == [tracker |-> 3, letters |-> 2, ats |-> 2, workflow |-> 3, guide |-> 2, startup |-> 2, library |-> 2,
           tailor |-> 3]
=============================================================================
