SPECIFICATION Spec
CONSTANTS
  Templates <- MCTemplates
  Catalogue <- MCCatalogue
  Rows <- MCRows
  CssTexts <- MCCssTexts
  Acts <- MCActs
  MaxEdits = 2
  None = None
  Ok = Ok
CHECK_DEADLOCK FALSE
INVARIANTS SentOnce RecordsStayLinked PanelShowsThePage EveryRowIsPrinted OnePageTakesOnlyThePhoto
PROPERTIES EveryRequestEnds NoCallWithoutAYes MovesLandWhereAsked
