------------------------------ MODULE CvDesign ------------------------------
(***************************************************************************)
(* The editor of a resume: its forms edit the rows and the profile, the    *)
(* tabs of its design panel the settings, all kept in the browser; the     *)
(* gateway applies templates and moves sections, and the page is what the  *)
(* gateway's normalisation and the renderer make of the document.  Answers *)
(* of the gateway come late, after other edits.                            *)
(***************************************************************************)
EXTENDS CvRendering

CONSTANTS
  Templates,   \* the templates offered
  Catalogue,   \* the section types of the customization catalogue, in order
  Rows,        \* the possible contents: rows per section type
  CssTexts,    \* the style sheets a user may type, as sequences of rules
  MaxEdits,    \* bound: edits and calls of the user
  None

VARIABLES
  catalogue, \* the options the panel offers
  uiMode,    \* simple, normal or advanced
  rows,      \* the rows of the document
  profile,   \* its profile
  local,     \* global_settings of the store
  applying,  \* the template being applied, with the settings it was asked for
  uploading, \* the photo being uploaded, with the settings of that moment
  moving,    \* the section move under way, with the document it was asked for
  edits

vars == <<catalogue, uiMode, rows, profile, local, applying, uploading, moving, edits>>
calls == <<applying, uploading, moving>>

-----------------------------------------------------------------------------
(* Settings of the panel *)

\* The options built in the web client, as far as the page depends on them.  A template
\* card names the columns it supports.
FallbackCatalogue ==
  [columns |-> {1, 2}, sidebars |-> {"none", "left", "right"}, densities |-> {"compact", "senior"},
   marginRange |-> [min |-> 160, max |-> 960], types |-> Catalogue, placements |-> <<"main", "sidebar">>,
   accents |-> {"headings", "links"}, cssModes |-> {"off", "tokens", "css_patch"},
   templates |-> [id \in Templates |-> IF id \in {"ats", "student", "ledger", "scholar"} THEN {1} ELSE {1, 2}]]

\* normalizeCustomizationCatalogue: a part the gateway leaves out is the built-in one.
NormalizeCatalogue(answer) ==
  [part \in DOMAIN FallbackCatalogue |-> IF part \in DOMAIN answer THEN answer[part] ELSE FallbackCatalogue[part]]

\* fetchCustomizationCatalogue: any answer, down to an error, gives a whole catalogue.
FetchedCatalogue == {NormalizeCatalogue(Restrict(FallbackCatalogue, parts)) : parts \in {{}, {"types"}, DOMAIN FallbackCatalogue}}

\* The two placements of the catalogue are read as those of its first two sections.
DefaultSection(n) ==
  Section(catalogue.types[n], IF n \in DOMAIN catalogue.placements THEN catalogue.placements[n] ELSE "main")

\* Mutant: the sections that are not stored yet come first.
MergeUnseenFirst(settings) ==
  LET seen == {section.type : section \in ToSet(settings.sections)}
      defaults == [n \in DOMAIN catalogue.types |-> DefaultSection(n)]
  IN Those(defaults, {section \in ToSet(defaults) : section.type \notin seen}) \o settings.sections

\* mergeSections: the stored sections, then the other types of the catalogue.
MergeSections(settings) ==
  LET stored == ToSet(settings.sections)
      defaults == [n \in DOMAIN catalogue.types |-> DefaultSection(n)]
  IN Those(settings.sections, {section \in stored : section.type \in ToSet(catalogue.types)})
       \o Those(defaults, {section \in ToSet(defaults) : section.type \notin {one.type : one \in stored}})

\* resolveSettings: what the panel shows, and stores as a whole with every change.
Resolved(settings) == [settings EXCEPT !.sections = MergeSections(settings)]

Blank ==
  [template |-> "modern", columns |-> 2, sidebar |-> "right", density |-> "normal", photo |-> FALSE,
   onePage |-> FALSE, fontSize |-> 130, marginH |-> 640, marginV |-> 480, spacing |-> 200,
   accents |-> {"title", "headings", "links", "skills"}, linkColor |-> "accent",
   css |-> [enabled |-> FALSE, mode |-> "off", rules |-> <<>>, contract |-> "1"], sections |-> <<>>]

\* buildTemplateCards, for the columns of a card; a template without a card has two.
CompatibleLayouts(id) == IF id \in DOMAIN catalogue.templates THEN catalogue.templates[id] ELSE {1, 2}

VisibleTabs(mode) ==
  CASE mode = "simple" -> {"template", "colors"}
    [] mode = "normal" -> {"document", "template", "layout", "typography", "spacing", "colors", "sections"}
    [] OTHER -> {"document", "template", "layout", "typography", "spacing", "colors", "photo",
                 "header", "links", "sections", "advanced"}

Offered(tab) == tab \in VisibleTabs(uiMode)

-----------------------------------------------------------------------------
(* The gateway *)

\* The preset of a template, which wins over the document when it is applied.
Preset(settings, id) ==
  [settings EXCEPT !.template = id,
     !.columns = IF id \in SingleColumn THEN 1 ELSE 2,
     !.sidebar = CASE id \in SingleColumn -> "none"
                   [] id \in {"creative", "atlas-sidebar"} -> "left"
                   [] OTHER -> "right",
     !.density = IF id \in {"compact", "ats", "signal"} THEN "compact" ELSE "normal",
     !.fontSize = IF id = "compact" THEN 110 ELSE IF id = "ats" THEN 120 ELSE 130]

\* The last normalisation of every document the gateway resolves or stores.
Normalized(settings) ==
  LET single == settings.template = "ats"
      s == [settings EXCEPT !.columns = IF single THEN 1 ELSE @, !.sidebar = IF single THEN "none" ELSE @,
                            !.photo = @ /\ ~ single]
  IN IF ~ s.onePage THEN s
     ELSE [s EXCEPT !.density = "compact", !.photo = FALSE, !.fontSize = SmallerSize(@, 115),
                    !.marginH = SmallerSize(@, 360), !.marginV = SmallerSize(@, 280),
                    !.spacing = SmallerSize(@, 100)]

IndexOf(sections, id) == SelectInSeq(sections, LAMBDA section : section.id = id)

Without(sections, id) == Those(sections, {section \in ToSet(sections) : section.id # id})

Lane(sections, placement) == Those(sections, {section \in ToSet(sections) : section.placement = placement})

\* Mutant: the lane is counted with the section that leaves it.
InsertCountingItself(sections, section, index) ==
  LET rest == Without(sections, section.id)
      lane == SetToSortSeq({n \in DOMAIN sections : sections[n].placement = section.placement}, <)
      at == CASE index < Len(lane) -> lane[index + 1]
              [] index >= Len(lane) /\ lane # <<>> -> Last(lane) + 1
              [] OTHER -> Len(rest) + 1
  IN InsertAt(rest, Min({at, Len(rest) + 1}), section)

\* The list without the section, and the section before the one that holds its
\* place in the lane, or after the last of the lane, or last.
Insert(sections, section, index) ==
  LET rest == Without(sections, section.id)
      lane == {n \in DOMAIN rest : rest[n].placement = section.placement}
      at == CASE index < Cardinality(lane) -> CHOOSE n \in lane : Cardinality({m \in lane : m < n}) = index
              [] index >= Cardinality(lane) /\ lane # {} -> Max(lane) + 1
              [] OTHER -> Len(rest) + 1
  IN InsertAt(rest, at, section)

\* apply_section_move.  An index left out is the end of the lane.
AppliedMove(sections, move) ==
  LET from == IndexOf(sections, move.id) IN
    IF move.op = "swap"
    THEN LET to == IndexOf(sections, move.target) IN
           [sections EXCEPT ![from] = sections[to], ![to] = sections[from]]
    ELSE Insert(sections, [sections[from] EXCEPT !.placement = move.placement], move.index)

\* The checks of the move route.
MoveRefused(settings, move) ==
  \/ move.op = "move" /\ move.placement = "sidebar" /\ ~ Contract(settings.template).sidebar
  \/ IndexOf(settings.sections, move.id) = 0
  \/ move.op = "swap" /\ IndexOf(settings.sections, move.target) = 0

-----------------------------------------------------------------------------
(* Edits of the panel: each stores the resolved settings with one change *)

\* update
Update(settings) ==
  /\ edits < MaxEdits /\ edits' = edits + 1
  /\ local' = settings
  /\ UNCHANGED <<catalogue, uiMode, rows, profile, calls>>

Shown == Resolved(local)

\* LayoutTab, for the page.
EditDocument ==
  /\ Offered("document")
  /\ Update([Shown EXCEPT !.onePage = ~ @])

\* LayoutTab, for the margins and the rhythm.
EditSpacing ==
  /\ Offered("spacing")
  /\ \/ Update([Shown EXCEPT !.marginH = catalogue.marginRange.min])
     \/ Update([Shown EXCEPT !.marginV = catalogue.marginRange.max])
     \/ Update([Shown EXCEPT !.spacing = 40])

\* LayoutTab, for the columns: whatever the template.
EditLayout ==
  /\ Offered("layout")
  /\ \/ \E columns \in catalogue.columns : Update([Shown EXCEPT !.columns = columns])
     \/ \E sidebar \in catalogue.sidebars : Update([Shown EXCEPT !.sidebar = sidebar])

\* The density, which the simple mode offers with the colours.
EditDensity ==
  /\ Offered("layout") \/ uiMode = "simple"
  /\ \E density \in catalogue.densities : Update([Shown EXCEPT !.density = density])

EditTypography == Offered("typography") /\ Update([Shown EXCEPT !.fontSize = 110])

\* toggleAccentTarget
ToggleAccent(target) ==
  /\ Offered("colors") /\ uiMode # "simple"
  /\ Update([Shown EXCEPT !.accents = IF target \in @ THEN @ \ {target} ELSE @ \cup {target}])

EditLinks == Offered("links") /\ Update([Shown EXCEPT !.linkColor = IF @ = "accent" THEN "inherit" ELSE "accent"])

\* PhotoTab: the switch is there once there is a photo.
TogglePhoto ==
  /\ Offered("photo") /\ profile.photo # "none"
  /\ Update([Shown EXCEPT !.photo = ~ @])

RemovePhoto ==
  /\ Offered("photo") /\ profile.photo # "none" /\ edits < MaxEdits
  /\ edits' = edits + 1
  /\ profile' = [profile EXCEPT !.photo = "none"]
  /\ local' = [Shown EXCEPT !.photo = FALSE]
  /\ UNCHANGED <<catalogue, uiMode, rows, calls>>

\* AdvancedCssPanel: the switch and the mode go together.
EnableCss ==
  /\ Offered("advanced")
  /\ LET css == Shown.css IN
       Update([Shown EXCEPT !.css = [css EXCEPT
         !.enabled = ~ @, !.mode = IF local.css.enabled THEN "off" ELSE IF @ = "off" THEN "tokens" ELSE @]])

CssMode(mode) ==
  /\ Offered("advanced")
  /\ Update([Shown EXCEPT !.css = [@ EXCEPT !.mode = mode, !.enabled = mode # "off"]])

TypeCss(text) == Offered("advanced") /\ Update([Shown EXCEPT !.css.rules = text])

RestoreCss ==
  /\ Offered("advanced")
  /\ Update([Shown EXCEPT !.css = [@ EXCEPT !.enabled = FALSE, !.mode = "off", !.rules = <<>>]])

\* The reset of the expert tab.
ResetSettings == Offered("advanced") /\ Update(Resolved(Blank))

\* SectionCard: the switches of a card.  Only entries with dates and places offer theirs.
EditSection(n) ==
  /\ Offered("sections") /\ n \in DOMAIN Shown.sections
  /\ \/ Update([Shown EXCEPT !.sections[n].visible = ~ @])
     \/ Update([Shown EXCEPT !.sections[n].pageBreak = ~ @])
     \/ /\ Shown.sections[n].type \in {"experience", "education"}
        /\ \/ Update([Shown EXCEPT !.sections[n].dates = ~ @])
           \/ Update([Shown EXCEPT !.sections[n].locations = ~ @])
           \/ Update([Shown EXCEPT !.sections[n].subtitleFirst = ~ @])

-----------------------------------------------------------------------------
(* Edits of the forms.  What is typed in a row is not followed, nor the    *)
(* order of the rows, which the renderer keeps.                            *)

\* syncActiveResume, with rows added to a part or removed from it.
SyncRows(part, count) ==
  /\ edits < MaxEdits /\ edits' = edits + 1
  /\ rows' = [rows EXCEPT ![part] = count]
  /\ UNCHANGED <<catalogue, uiMode, profile, local, calls>>

\* The button of a form, whatever the ui mode, and the cross of each of its rows: there
\* is a form for every type of section the catalogue has.
EditRows(part) ==
  /\ part \in ToSet(Catalogue)
  /\ \/ SyncRows(part, rows[part] + 1)
     \/ rows[part] > 0 /\ SyncRows(part, rows[part] - 1)

EditMainSections ==
  \E part \in {"experience", "education", "skills", "projects", "languages", "interests"} : EditRows(part)

EditAdvancedSections == \E part \in {"certifications", "volunteering", "publications", "references"} : EditRows(part)

EditCustomSections == EditRows("custom")

\* setProfile: a field is filled in or emptied, a link added or removed.
EditProfile ==
  /\ edits < MaxEdits /\ edits' = edits + 1
  /\ \/ \E field \in {"email", "phone", "city", "summary"} :
          profile' = [profile EXCEPT !.filled = IF field \in @ THEN @ \ {field} ELSE @ \cup {field}]
     \/ profile' = [profile EXCEPT !.socials = @ + 1]
     \/ profile.socials > 0 /\ profile' = [profile EXCEPT !.socials = @ - 1]
  /\ UNCHANGED <<catalogue, uiMode, rows, local, calls>>

-----------------------------------------------------------------------------
(* Calls of the panel *)

\* updateTemplate: no other template while one is applied.
ApplyTemplate(id) ==
  /\ Offered("template") /\ applying = None /\ edits < MaxEdits
  /\ edits' = edits + 1
  /\ applying' = [id |-> id, settings |-> local]
  /\ UNCHANGED <<catalogue, uiMode, rows, profile, local, uploading, moving>>

\* The answer replaces the settings; an error leaves them.
TemplateApplied ==
  /\ applying # None
  /\ applying' = None
  /\ local' \in {Normalized(Preset(applying.settings, applying.id)), local}
  /\ UNCHANGED <<catalogue, uiMode, rows, profile, uploading, moving, edits>>

\* upload
UploadPhoto ==
  /\ Offered("photo") /\ uploading = None /\ edits < MaxEdits
  /\ edits' = edits + 1
  /\ uploading' = [settings |-> Shown]
  /\ UNCHANGED <<catalogue, uiMode, rows, profile, local, applying, moving>>

PhotoUploaded ==
  /\ uploading # None
  /\ uploading' = None
  /\ \/ /\ profile' = [profile EXCEPT !.photo = "embedded"]
        /\ local' = [uploading.settings EXCEPT !.photo = TRUE]
     \/ UNCHANGED <<profile, local>>
  /\ UNCHANGED <<catalogue, uiMode, rows, applying, moving, edits>>

-----------------------------------------------------------------------------
(* The board of the sections tab *)

\* twoColumns
TwoColumnBoard(settings) ==
  2 \in CompatibleLayouts(settings.template) /\ settings.columns = 2 /\ settings.sidebar # "none"

\* SectionPlacementBoard
Board(settings) ==
  IF TwoColumnBoard(settings)
  THEN [main |-> Lane(settings.sections, "main"), sidebar |-> Lane(settings.sections, "sidebar")]
  ELSE [main |-> settings.sections, sidebar |-> <<>>]

\* The lane of the board a card is in, as renderCard counts it.
CardLane(section) == IF TwoColumnBoard(Shown) THEN Lane(Shown.sections, section.placement) ELSE Shown.sections

Other(placement) == IF placement = "main" THEN "sidebar" ELSE "main"

MoveTo(id, placement, index) == [op |-> "move", id |-> id, placement |-> placement, index |-> index, target |-> id]

EndOfLane == 99

\* persistMove and moveResumeSection: the pending edits are saved first.
Movable == Offered("sections") /\ moving = None /\ edits < MaxEdits

PersistMove(move) ==
  /\ Movable
  /\ edits' = edits + 1
  /\ moving' = [move |-> move, settings |-> local, rows |-> rows, profile |-> profile]
  /\ UNCHANGED <<catalogue, uiMode, rows, profile, local, applying, uploading>>

\* The buttons of a card: to the other column, one up, one down.
Transfer(section) ==
  TwoColumnBoard(Shown) /\ PersistMove(MoveTo(section.id, Other(section.placement), EndOfLane))

MoveByOne(section, delta) ==
  LET at == IndexOf(CardLane(section), section.id) - 1 IN
    /\ at + delta \in 0..(Len(CardLane(section)) - 1)
    /\ PersistMove(MoveTo(section.id, section.placement, at + delta))

\* handleDragEnd over another card: before or after it, or an exchange with the shift key.
DropOnCard(section, over, after) ==
  LET placement == IF TwoColumnBoard(Shown) THEN over.placement ELSE section.placement
      lane == Without(Lane(Shown.sections, placement), section.id)
      at == IndexOf(lane, over.id)
  IN /\ over.id # section.id
     /\ PersistMove(MoveTo(section.id, placement,
          IF at > 0 THEN at - 1 + IF after THEN 1 ELSE 0 ELSE Len(lane)))

DropWithShift(section, over) ==
  /\ over.id # section.id
  /\ PersistMove([op |-> "swap", id |-> section.id, placement |-> section.placement, index |-> 0, target |-> over.id])

\* handleDragEnd over a lane: at its end.
DropOnLane(section, placement) ==
  LET target == IF TwoColumnBoard(Shown) THEN placement ELSE section.placement IN
    PersistMove(MoveTo(section.id, target, Len(Without(Lane(Shown.sections, target), section.id))))

\* sectionKeyboardCoordinates: the arrow keys aim at a card of a lane, itself counted.
KeyboardDrop(section, placement, index) ==
  /\ index < Len(Lane(Shown.sections, placement))
  /\ PersistMove(MoveTo(section.id, IF TwoColumnBoard(Shown) THEN placement ELSE section.placement, index))

MoveSection ==
  /\ Movable
  /\ \E section \in ToSet(Shown.sections) :
       \/ Transfer(section)
       \/ \E delta \in {-1, 1} : MoveByOne(section, delta)
       \/ \E over \in ToSet(Shown.sections) : \/ DropWithShift(section, over)
                                              \/ \E after \in BOOLEAN : DropOnCard(section, over, after)
       \/ \E placement \in {"main", "sidebar"} :
            \/ DropOnLane(section, placement)
            \/ \E index \in 0..(Len(Catalogue) - 1) : KeyboardDrop(section, placement, index)

\* The answer of the gateway replaces the document, whatever was edited meanwhile; a
\* refusal is shown on the board.
SectionMoved ==
  /\ moving # None
  /\ moving' = None
  /\ \/ /\ MoveRefused(moving.settings, moving.move)
        /\ UNCHANGED <<local, rows, profile>>
     \/ /\ ~ MoveRefused(moving.settings, moving.move)
        /\ local' = Normalized([moving.settings EXCEPT !.sections = AppliedMove(@, moving.move)])
        /\ rows' = moving.rows /\ profile' = moving.profile
  /\ UNCHANGED <<catalogue, uiMode, applying, uploading, edits>>

-----------------------------------------------------------------------------

\* The sections of a new resume, before and after a first edit of the panel.
NewSections == Those(DefaultSections, {section \in ToSet(DefaultSections) : section.type \in ToSet(Catalogue)})

Init ==
  /\ catalogue \in FetchedCatalogue
  /\ uiMode \in {"simple", "normal", "advanced"}
  /\ rows \in Rows
  /\ profile = [photo |-> "none", filled |-> {"email", "summary"}, socials |-> 1]
  /\ \E id \in Templates : LET new == Normalized([Preset(Blank, id) EXCEPT !.sections = NewSections]) IN
       local \in {new, Resolved(new)}
  /\ applying = None /\ uploading = None /\ moving = None
  /\ edits = 0

\* One initial state, for a resume that is not open.
Closed == catalogue = FallbackCatalogue /\ uiMode = "simple" /\ local.template = "modern" /\ local.sections = NewSections

Answers == TemplateApplied \/ PhotoUploaded \/ SectionMoved

Next ==
  \/ EditDocument \/ EditSpacing \/ EditLayout \/ EditDensity \/ EditTypography \/ EditLinks
  \/ \E target \in catalogue.accents : ToggleAccent(target)
  \/ EditMainSections \/ EditAdvancedSections \/ EditCustomSections \/ EditProfile
  \/ TogglePhoto \/ RemovePhoto \/ UploadPhoto
  \/ EnableCss \/ (\E mode \in catalogue.cssModes : CssMode(mode))
  \/ (\E text \in CssTexts : TypeCss(text)) \/ RestoreCss \/ ResetSettings
  \/ \E n \in DOMAIN Catalogue : EditSection(n)
  \/ \E id \in Templates : ApplyTemplate(id)
  \/ MoveSection
  \/ Answers

-----------------------------------------------------------------------------
(* What the design panel promises *)

PageOf(settings) == RenderDocument(rows, profile, Normalized(settings))

Types(blocks) == [n \in DOMAIN blocks |-> blocks[n].type]

\* What the cards of a lane print, a custom section at a time.
Printing(lane) ==
  FlattenSeq([n \in DOMAIN lane |->
    LET type == lane[n].type IN
      IF ~ lane[n].visible \/ rows[type] = 0 THEN <<>>
      ELSE [row \in 1..(IF type = "custom" THEN rows[type] ELSE 1) |-> type]])

\* The board and the page agree: each lane of the board is a column of the page, with
\* the same sections in the same order, though the board works from its own merge of
\* the stored list and its own table of templates, and the page from the renderer's,
\* which accepts the document.
PanelShowsThePage ==
  LET board == Board(Shown)
      page == PageOf(local).columns
  IN /\ Compatible(Normalized(local))
     /\ \A column \in {"main", "sidebar"} : Types(page[column]) = Printing(board[column])

\* What the user typed is in the manifest of the page once, on a page that the document
\* has, unless its section is hidden, each custom section as one of its own: whatever
\* the template, the columns and the moves, no part of the resume is lost or doubled.
EveryRowIsPrinted ==
  LET document == PageOf(local)
      entries == Manifest(document)
      Times(type) == Cardinality({n \in DOMAIN entries : entries[n].type = type})
      cards == Shown.sections
      hidden == {cards[n].type : n \in {m \in DOMAIN cards : ~ cards[m].visible}}
  IN /\ \A type \in DOMAIN rows : Times(type) = CASE type \in hidden -> 0
                                                  [] type = "custom" /\ type \notin hidden -> rows[type]
                                                  [] OTHER -> Min({rows[type], 1})
     /\ \A n \in DOMAIN entries : entries[n].page <= PageCount(document)

\* The one-page option "ajuste la densité sans supprimer de contenu" (LayoutTab.tsx): all of the
\* resume but the photo, which the gateway disables with it, is printed as without it, and no
\* size grows.  The gateway and the renderer both tighten, each with limits of its own: the
\* page has the sizes of the document that the gateway keeps.
OnePageTakesOnlyThePhoto ==
  LET kept == Normalized([local EXCEPT !.onePage = TRUE])
      on == RenderDocument(rows, profile, kept)
      off == PageOf([local EXCEPT !.onePage = FALSE])
      Unsized(document) == [document EXCEPT !.tokens.sizes = None, !.warnings = {},
                                            !.header = Those(@, ToSet(@) \ {"photo"})]
  IN /\ Unsized(on) = Unsized(off)
     /\ off.warnings \subseteq on.warnings
     /\ on.tokens.sizes = [font |-> kept.fontSize, marginH |-> kept.marginH, marginV |-> kept.marginV,
                           spacing |-> kept.spacing]
     /\ \A size \in DOMAIN on.tokens.sizes : on.tokens.sizes[size] <= off.tokens.sizes[size]

\* A move that the gateway accepts puts the card where the board was asked to put it:
\* in a two-column board whose sections are all stored, the lane gets it at that index
\* and every other card stays in its lane and order.
MovesLandWhereAsked ==
  [][LET m == moving.move
         before == Lane(Without(moving.settings.sections, m.id), m.placement)
         at == Min({m.index, Len(before)}) + 1
     IN (/\ moving # None /\ moving' = None
         /\ m.op = "move" /\ TwoColumnBoard(moving.settings)
         /\ MergeSections(moving.settings) = moving.settings.sections)
        => /\ Without(local'.sections, m.id) = Without(moving.settings.sections, m.id)
           /\ IndexOf(Lane(local'.sections, m.placement), m.id) = at]_vars

=============================================================================
