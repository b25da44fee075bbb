----------------------------- MODULE WebDesign -----------------------------
(***************************************************************************)
(* The editor of the design as the web client opens it: the state of its   *)
(* page, and what the templates, the catalogue and the contents of the     *)
(* resumes it is given are.                                                *)
(***************************************************************************)
EXTENDS Naturals, Sequences, FiniteSets

CONSTANTS
  Templates, Catalogue, Rows, CssTexts, MaxEdits, None  \* see CvDesign

VARIABLES
  catalogue, uiMode, rows, profile, local, applying, uploading, moving, edits

Design == INSTANCE CvDesign

\* The templates offered are templates of the renderer.
ASSUME TemplatesAssumption == Templates \subseteq Design!TemplateIds

\* The catalogue lists types of section of the renderer, each once, first the two that a new resume has, and
\* the others in the order in which the renderer prints what no section names.
ASSUME CatalogueAssumption ==
  /\ Catalogue \in Seq(DOMAIN Design!Weight) /\ \A m, n \in DOMAIN Catalogue : Catalogue[m] = Catalogue[n] => m = n
  /\ Len(Catalogue) >= 2 /\ Catalogue[1] = "experience" /\ Catalogue[2] = "education"
  /\ LET kinds == {Catalogue[n] : n \in DOMAIN Catalogue}
         others == {Design!FallbackTypes[n] : n \in DOMAIN Design!FallbackTypes}
     IN Design!Those(Catalogue, others) = Design!Those(Design!FallbackTypes, kinds)

\* A resume has rows of the types of the catalogue.
ASSUME RowsAssumption ==
  \A content \in Rows :
    /\ content \in [DOMAIN Design!Weight -> Nat]
    /\ \A type \in DOMAIN content : content[type] > 0 => \E n \in DOMAIN Catalogue : Catalogue[n] = type

designVars == <<catalogue, uiMode, rows, profile, local, applying, uploading, moving, edits>>

=============================================================================
