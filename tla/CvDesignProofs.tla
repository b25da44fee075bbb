--------------------------- MODULE CvDesignProofs ---------------------------
(***************************************************************************)
(* The editor of the design, for any templates, catalogue, rows, style     *)
(* sheets and number of edits: the one-page option drops nothing of the    *)
(* page and enlarges nothing, the board of the sections shows the page,    *)
(* every row is in the manifest of the page once, and a section moves to   *)
(* where the board was asked to put it.  One invariant gives the settings  *)
(* the shape that the panel, the gateway and the renderer share, another   *)
(* the arrangement of the sections; the rest is what the merge of the      *)
(* panel, the normalisation and the moves of the gateway and the columns   *)
(* and the manifest of the renderer make of them, over lists of any        *)
(* length.                                                                 *)
(***************************************************************************)
EXTENDS WebDesign, Integers, Sequences, SequenceTheorems, FiniteSetTheorems, WellFoundedInduction, TLAPS

-----------------------------------------------------------------------------
(* Settings *)

Fields == {"template", "columns", "sidebar", "density", "photo", "onePage", "fontSize", "marginH", "marginV", "spacing",
           "accents", "linkColor", "css", "sections"}

\* The style sheet of the user, for the only contract of selectors there is.
Styled(css) == css = [enabled |-> css.enabled, mode |-> css.mode, rules |-> css.rules, contract |-> "1"]

\* Settings as the panel, the gateway and the renderer share them.
Settled(s) ==
  /\ s = [field \in Fields |-> s[field]]
  /\ s.template \in Design!TemplateIds
  /\ {s.fontSize, s.marginH, s.marginV, s.spacing} \subseteq Int
  /\ Styled(s.css)

\* The style sheet, with another switch, mode or text.
LEMMA StyledByField ==
  ASSUME NEW css, Styled(css), NEW value
  PROVE  /\ Styled([css EXCEPT !.enabled = value]) /\ Styled([css EXCEPT !.mode = value])
         /\ Styled([css EXCEPT !.rules = value])
<1>1. Styled([css EXCEPT !.enabled = value])
  BY DEF Styled
<1>2. Styled([css EXCEPT !.mode = value])
  BY DEF Styled
<1>3. Styled([css EXCEPT !.rules = value])
  BY DEF Styled
<1> QED BY <1>1, <1>2, <1>3

\* A field is written.
LEMMA SettledByField ==
  ASSUME NEW s, Settled(s), NEW field \in Fields, NEW value,
         field = "template" => value \in Design!TemplateIds,
         field \in {"fontSize", "marginH", "marginV", "spacing"} => value \in Int,
         field = "css" => Styled(value)
  PROVE  Settled([s EXCEPT ![field] = value])
<1> DEFINE r == [s EXCEPT ![field] = value]
<1>1. /\ r = [f \in Fields |-> r[f]]
      /\ r[field] = value /\ \A f \in Fields : f # field => r[f] = s[f]
  BY DEF Settled
<1> HIDE DEF r
<1>2. {"template", "fontSize", "marginH", "marginV", "spacing", "css"} \subseteq Fields
  BY DEF Fields
<1>3. r.template \in Design!TemplateIds
  BY <1>1, <1>2 DEF Settled
<1>4. {r.fontSize, r.marginH, r.marginV, r.spacing} \subseteq Int
  BY <1>1, <1>2 DEF Settled
<1>5. Styled(r.css)
  <2>1. CASE field = "css"
    BY <1>1, <2>1
  <2>2. CASE field # "css"
    <3>1. r.css = s.css
      BY <1>1, <1>2, <2>2
    <3> QED BY <3>1 DEF Settled
  <2> QED BY <2>1, <2>2
<1> QED BY <1>1, <1>3, <1>4, <1>5 DEF Settled, r

\* Of several fields, one after the other.
LEMMA PlainFields ==
  ASSUME NEW s, Settled(s), NEW value
  PROVE  /\ Settled([s EXCEPT !.sections = value]) /\ Settled([s EXCEPT !.photo = value]) /\ Settled([s EXCEPT !.onePage = value])
         /\ Settled([s EXCEPT !.columns = value]) /\ Settled([s EXCEPT !.sidebar = value]) /\ Settled([s EXCEPT !.density = value])
         /\ Settled([s EXCEPT !.accents = value]) /\ Settled([s EXCEPT !.linkColor = value])
<1>1. {"sections", "photo", "onePage", "columns", "sidebar", "density", "accents", "linkColor"} \subseteq Fields
  BY DEF Fields
<1> QED BY <1>1, SettledByField

\* The settings with another value of each of the sizes.
LEMMA SizedFields ==
  ASSUME NEW s, Settled(s), NEW value \in Int
  PROVE  /\ Settled([s EXCEPT !.fontSize = value]) /\ Settled([s EXCEPT !.marginH = value])
         /\ Settled([s EXCEPT !.marginV = value]) /\ Settled([s EXCEPT !.spacing = value])
<1>1. {"fontSize", "marginH", "marginV", "spacing"} \subseteq Fields
  BY DEF Fields
<1> QED BY <1>1, SettledByField

\* mergeSections rewrites the list of sections only.
LEMMA ResolvedSettles ==
  ASSUME NEW s, Settled(s)
  PROVE  Settled(Design!Resolved(s))
  BY PlainFields DEF Design!Resolved

\* The settings of a new resume.
LEMMA BlankSettles == Settled(Design!Blank)
<1> DEFINE b == Design!Blank
<1>1. b = [field \in Fields |-> b[field]]
  BY DEF Design!Blank, Fields
<1>2. /\ b.template \in Design!TemplateIds /\ {b.fontSize, b.marginH, b.marginV, b.spacing} \subseteq Int
      /\ b.css = [enabled |-> FALSE, mode |-> "off", rules |-> <<>>, contract |-> "1"]
  BY DEF Design!Blank, Design!TemplateIds
<1> HIDE DEF b
<1>3. Styled(b.css)
  BY <1>2 DEF Styled
<1> QED BY <1>1, <1>2, <1>3 DEF Settled, b

\* The preset of a template.
LEMMA PresetSettles ==
  ASSUME NEW s, Settled(s), NEW id \in Design!TemplateIds
  PROVE  Settled(Design!Preset(s, id))
<1> DEFINE cols == IF id \in Design!SingleColumn THEN 1 ELSE 2
           side == CASE id \in Design!SingleColumn -> "none"
                        [] id \in {"creative", "atlas-sidebar"} -> "left"
                        [] OTHER -> "right"
           density == IF id \in {"compact", "ats", "signal"} THEN "compact" ELSE "normal"
           size == IF id = "compact" THEN 110 ELSE IF id = "ats" THEN 120 ELSE 130
           t1 == [s EXCEPT !.template = id]
           t2 == [t1 EXCEPT !.columns = cols]
           t3 == [t2 EXCEPT !.sidebar = side]
           t4 == [t3 EXCEPT !.density = density]
           t5 == [t4 EXCEPT !.fontSize = size]
<1>1. Design!Preset(s, id) = t5
  BY DEF Design!Preset
<1>2. size \in Int
  OBVIOUS
<1>3. Settled(t1)
  <2>1. "template" \in Fields
    BY DEF Fields
  <2> QED BY <2>1, SettledByField
<1> HIDE DEF cols, side, density, size, t1
<1>4. Settled(t2)
  BY <1>3, PlainFields
<1> HIDE DEF t2
<1>5. Settled(t3)
  BY <1>4, PlainFields
<1> HIDE DEF t3
<1>6. Settled(t4)
  BY <1>5, PlainFields
<1> HIDE DEF t4
<1>7. Settled(t5)
  BY <1>2, <1>6, SizedFields
<1> QED BY <1>1, <1>7

\* Small as the one-page option asks for.
LEMMA SmallerIsSmall ==
  ASSUME NEW current \in Int, NEW limit \in Int
  PROVE  /\ Design!SmallerSize(current, limit) \in Int
         /\ Design!SmallerSize(current, limit) <= current /\ Design!SmallerSize(current, limit) <= limit
         /\ Design!SmallerSize(current, limit) \in {current, limit}
  BY DEF Design!SmallerSize

\* The last normalisation of the gateway, field by field.
LEMMA NormalizedFields ==
  ASSUME NEW s, Settled(s), NEW n, n = Design!Normalized(s)
  PROVE  /\ n.sections = s.sections /\ n.template = s.template /\ n.onePage = s.onePage
         /\ n.columns = (IF s.template = "ats" THEN 1 ELSE s.columns)
         /\ n.sidebar = (IF s.template = "ats" THEN "none" ELSE s.sidebar)
         /\ s.onePage => /\ n.fontSize = Design!SmallerSize(s.fontSize, 115) /\ n.marginH = Design!SmallerSize(s.marginH, 360)
                         /\ n.marginV = Design!SmallerSize(s.marginV, 280) /\ n.spacing = Design!SmallerSize(s.spacing, 100)
         /\ ~ s.onePage => n.fontSize = s.fontSize /\ n.marginH = s.marginH /\ n.marginV = s.marginV /\ n.spacing = s.spacing
         /\ Settled(n)
<1> DEFINE cols == IF s.template = "ats" THEN 1 ELSE s.columns
           side == IF s.template = "ats" THEN "none" ELSE s.sidebar
           shot == s.photo /\ ~ s.template = "ats"
           t1 == [s EXCEPT !.columns = cols]
           t2 == [t1 EXCEPT !.sidebar = side]
           t3 == [t2 EXCEPT !.photo = shot]
           font == Design!SmallerSize(s.fontSize, 115)
           wide == Design!SmallerSize(s.marginH, 360)
           high == Design!SmallerSize(s.marginV, 280)
           space == Design!SmallerSize(s.spacing, 100)
           t4 == [t3 EXCEPT !.density = "compact"]
           t5 == [t4 EXCEPT !.photo = FALSE]
           t6 == [t5 EXCEPT !.fontSize = font]
           t7 == [t6 EXCEPT !.marginH = wide]
           t8 == [t7 EXCEPT !.marginV = high]
           t9 == [t8 EXCEPT !.spacing = space]
<1>1. s = [field \in Fields |-> s[field]]
  BY DEF Settled
<1>2. {font, wide, high, space} \subseteq Int
  BY SmallerIsSmall DEF Settled
<1>3. /\ t3.columns = cols /\ t3.sidebar = side /\ t3.onePage = s.onePage /\ t3.template = s.template
      /\ t3.sections = s.sections /\ t3.fontSize = s.fontSize /\ t3.marginH = s.marginH /\ t3.marginV = s.marginV
      /\ t3.spacing = s.spacing
  <2> HIDE DEF cols, side, shot
  <2> QED BY <1>1 DEF Fields
<1>4. Settled(t3)
  <2> HIDE DEF cols, side, shot
  <2>1. Settled(t1)
    BY PlainFields
  <2> HIDE DEF t1
  <2>2. Settled(t2)
    BY <2>1, PlainFields
  <2> HIDE DEF t2
  <2> QED BY <2>2, PlainFields
<1>5. n = IF ~ s.onePage THEN t3 ELSE t9
  <2>1. n = IF ~ t3.onePage THEN t3
            ELSE [t3 EXCEPT !.density = "compact", !.photo = FALSE, !.fontSize = Design!SmallerSize(@, 115),
                    !.marginH = Design!SmallerSize(@, 360), !.marginV = Design!SmallerSize(@, 280),
                    !.spacing = Design!SmallerSize(@, 100)]
    BY DEF Design!Normalized
  <2> HIDE DEF t3
  <2>2. t3 = [field \in Fields |-> t3[field]]
    BY <1>4 DEF Settled
  <2> HIDE DEF font, wide, high, space
  <2>3. [t3 EXCEPT !.density = "compact", !.photo = FALSE, !.fontSize = font, !.marginH = wide, !.marginV = high,
                   !.spacing = space] = t9
    OBVIOUS
  <2> QED BY <1>3, <2>1, <2>3 DEF font, wide, high, space
<1> HIDE DEF font, wide, high, space, t3
<1>6. /\ t9.columns = t3.columns /\ t9.sidebar = t3.sidebar /\ t9.onePage = t3.onePage /\ t9.template = t3.template
      /\ t9.sections = t3.sections /\ t9.fontSize = font /\ t9.marginH = wide /\ t9.marginV = high /\ t9.spacing = space
  <2>1. t3 = [field \in Fields |-> t3[field]]
    BY <1>4 DEF Settled
  <2> QED BY <2>1 DEF Fields
<1>7. Settled(t9)
  <2>1. Settled(t4)
    BY <1>4, PlainFields
  <2> HIDE DEF t4
  <2>2. Settled(t5)
    BY <2>1, PlainFields
  <2> HIDE DEF t5
  <2>3. Settled(t6)
    BY <1>2, <2>2, SizedFields
  <2> HIDE DEF t6
  <2>4. Settled(t7)
    BY <1>2, <2>3, SizedFields
  <2> HIDE DEF t7
  <2>5. Settled(t8)
    BY <1>2, <2>4, SizedFields
  <2> HIDE DEF t8
  <2> QED BY <1>2, <2>5, SizedFields
<1> HIDE DEF t9
<1> QED BY <1>3, <1>4, <1>5, <1>6, <1>7 DEF font, wide, high, space

-----------------------------------------------------------------------------
(* The editor *)

\* What the editor holds, or was sent and may be given back.
DesignIInv ==
  /\ {catalogue.marginRange.min, catalogue.marginRange.max} \subseteq Int
  /\ Settled(local)
  /\ applying # None => applying.id \in Templates /\ Settled(applying.settings)
  /\ uploading # None => Settled(uploading.settings)
  /\ moving # None => Settled(moving.settings)

\* The options of the panel, whatever the gateway answered.
LEMMA CatalogueHasMargins ==
  ASSUME NEW c \in Design!FetchedCatalogue
  PROVE  {c.marginRange.min, c.marginRange.max} \subseteq Int
<1>1. PICK parts \in {{}, {"types"}, DOMAIN Design!FallbackCatalogue} :
        c = Design!NormalizeCatalogue(Design!Restrict(Design!FallbackCatalogue, parts))
  BY DEF Design!FetchedCatalogue
<1>2. Design!FallbackCatalogue.marginRange = [min |-> 160, max |-> 960]
  BY DEF Design!FallbackCatalogue
<1>3. c.marginRange = Design!FallbackCatalogue.marginRange
  BY <1>1 DEF Design!NormalizeCatalogue, Design!Restrict, Design!FallbackCatalogue
<1> QED BY <1>2, <1>3

\* The settings of a new resume, and of one edited once.
LEMMA DesignOpens ==
  ASSUME Design!Init
  PROVE  DesignIInv
<1>1. PICK id \in Templates : LET new == Design!Normalized([Design!Preset(Design!Blank, id) EXCEPT !.sections = Design!NewSections]) IN
                              local \in {new, Design!Resolved(new)}
  BY DEF Design!Init
<1> DEFINE new == Design!Normalized([Design!Preset(Design!Blank, id) EXCEPT !.sections = Design!NewSections])
<1>2. Settled(Design!Preset(Design!Blank, id))
  BY BlankSettles, PresetSettles, TemplatesAssumption
<1>3. Settled([Design!Preset(Design!Blank, id) EXCEPT !.sections = Design!NewSections])
  BY <1>2, PlainFields
<1>4. Settled(new)
  BY <1>3, NormalizedFields
<1> HIDE DEF new
<1>5. Settled(local)
  BY <1>1, <1>4, ResolvedSettles DEF new
<1>6. {catalogue.marginRange.min, catalogue.marginRange.max} \subseteq Int
  BY CatalogueHasMargins DEF Design!Init
<1> QED BY <1>5, <1>6 DEF Design!Init, DesignIInv

\* A control of the panel stores what is shown with one change.
LEMMA UpdateSettles ==
  ASSUME DesignIInv, NEW s, Settled(s), Design!Update(s)
  PROVE  DesignIInv'
  BY DEF DesignIInv, Design!Update, Design!calls

\* The controls of plain fields.
LEMMA PlainEdits ==
  ASSUME DesignIInv,
         \/ Design!EditDocument \/ Design!EditLayout \/ Design!EditDensity \/ Design!EditLinks \/ Design!TogglePhoto
         \/ \E target : Design!ToggleAccent(target)
         \/ \E n : Design!EditSection(n)
  PROVE  DesignIInv'
<1> DEFINE s == Design!Shown
<1>1. Settled(s)
  BY ResolvedSettles DEF DesignIInv, Design!Shown
<1>2. \A value : /\ Settled([s EXCEPT !.sections = value]) /\ Settled([s EXCEPT !.photo = value])
                 /\ Settled([s EXCEPT !.onePage = value]) /\ Settled([s EXCEPT !.columns = value])
                 /\ Settled([s EXCEPT !.sidebar = value]) /\ Settled([s EXCEPT !.density = value])
                 /\ Settled([s EXCEPT !.accents = value]) /\ Settled([s EXCEPT !.linkColor = value])
  BY <1>1, PlainFields
<1>3. CASE Design!EditDocument
  BY <1>2, <1>3, UpdateSettles DEF Design!EditDocument
<1>4. CASE Design!EditLayout
  BY <1>2, <1>4, UpdateSettles DEF Design!EditLayout
<1>5. CASE Design!EditDensity
  BY <1>2, <1>5, UpdateSettles DEF Design!EditDensity
<1>6. CASE Design!EditLinks
  BY <1>2, <1>6, UpdateSettles DEF Design!EditLinks
<1>7. CASE Design!TogglePhoto
  BY <1>2, <1>7, UpdateSettles DEF Design!TogglePhoto
<1>8. CASE \E target : Design!ToggleAccent(target)
  BY <1>2, <1>8, UpdateSettles DEF Design!ToggleAccent
<1>9. CASE \E n : Design!EditSection(n)
  BY <1>2, <1>9, UpdateSettles DEF Design!EditSection
<1> QED BY <1>3, <1>4, <1>5, <1>6, <1>7, <1>8, <1>9

\* The sizes, the style sheet and the reset.
LEMMA OtherEdits ==
  ASSUME DesignIInv,
         \/ Design!EditSpacing \/ Design!EditTypography \/ Design!EnableCss \/ Design!RestoreCss \/ Design!ResetSettings
         \/ \E mark : Design!CssMode(mark)
         \/ \E text : Design!TypeCss(text)
  PROVE  DesignIInv'
<1> DEFINE s == Design!Shown
<1>1. Settled(s) /\ {catalogue.marginRange.min, catalogue.marginRange.max} \subseteq Int
  BY ResolvedSettles DEF DesignIInv, Design!Shown
<1>2. \A value \in Int : /\ Settled([s EXCEPT !.fontSize = value]) /\ Settled([s EXCEPT !.marginH = value])
                         /\ Settled([s EXCEPT !.marginV = value]) /\ Settled([s EXCEPT !.spacing = value])
  BY <1>1, SizedFields
<1>3. ASSUME NEW css, Styled(css) PROVE Settled([s EXCEPT !.css = css])
  <2>1. "css" \in Fields
    BY DEF Fields
  <2> QED BY <1>1, <1>3, <2>1, SettledByField
<1>4. Styled(s.css)
  BY <1>1 DEF Settled
<1>5. CASE Design!EditSpacing
  <2>1. PICK value \in Int : \/ Design!Update([s EXCEPT !.marginH = value])
                              \/ Design!Update([s EXCEPT !.marginV = value])
                              \/ Design!Update([s EXCEPT !.spacing = value])
    <3>1. /\ catalogue.marginRange.min \in Int /\ catalogue.marginRange.max \in Int /\ 40 \in Int
          /\ \/ Design!Update([s EXCEPT !.marginH = catalogue.marginRange.min])
             \/ Design!Update([s EXCEPT !.marginV = catalogue.marginRange.max])
             \/ Design!Update([s EXCEPT !.spacing = 40])
      BY <1>1, <1>5 DEF Design!EditSpacing
    <3> QED BY <3>1, Zenon
  <2> QED BY <1>2, <2>1, UpdateSettles, Zenon
<1>6. CASE Design!EditTypography
  <2>1. 110 \in Int /\ Design!Update([s EXCEPT !.fontSize = 110])
    BY <1>6 DEF Design!EditTypography
  <2> QED BY <1>2, <2>1, UpdateSettles, Zenon
<1>7. CASE Design!ResetSettings
  BY <1>7, BlankSettles, ResolvedSettles, UpdateSettles DEF Design!ResetSettings
<1>8. CASE Design!EnableCss \/ Design!RestoreCss \/ (\E mark : Design!CssMode(mark)) \/ (\E text : Design!TypeCss(text))
  <2>1. \E css : Design!Update([s EXCEPT !.css = css]) /\ Styled(css)
    <3> DEFINE flip == [s.css EXCEPT !.enabled = ~ s.css.enabled,
                                     !.mode = IF local.css.enabled THEN "off" ELSE IF s.css.mode = "off" THEN "tokens" ELSE s.css.mode]
               clear == [s.css EXCEPT !.enabled = FALSE, !.mode = "off", !.rules = <<>>]
               Mode(mark) == [s.css EXCEPT !.mode = mark, !.enabled = mark # "off"]
               Text(rules) == [s.css EXCEPT !.rules = rules]
    <3>1. Styled(flip) /\ Styled(clear) /\ (\A mark : Styled(Mode(mark))) /\ (\A rules : Styled(Text(rules)))
      <4> HIDE DEF s
      <4> QED BY <1>4, StyledByField, Zenon
    <3>2. \/ Design!Update([s EXCEPT !.css = flip]) \/ Design!Update([s EXCEPT !.css = clear])
          \/ \E mark : Design!Update([s EXCEPT !.css = Mode(mark)])
          \/ \E rules : Design!Update([s EXCEPT !.css = Text(rules)])
      BY <1>8, Zenon DEF Design!EnableCss, Design!RestoreCss, Design!CssMode, Design!TypeCss
    <3> HIDE DEF s, flip, clear, Mode, Text
    <3> QED BY <3>1, <3>2, Zenon
  <2> QED BY <1>3, <2>1, UpdateSettles, Zenon
<1> QED BY <1>5, <1>6, <1>7, <1>8

\* The rows and the profile are edited, and the photo removed.
LEMMA FormEdits ==
  ASSUME DesignIInv,
         \/ Design!EditMainSections \/ Design!EditAdvancedSections \/ Design!EditCustomSections
         \/ Design!EditProfile \/ Design!RemovePhoto
  PROVE  DesignIInv'
<1>1. ASSUME NEW part, NEW count, Design!SyncRows(part, count) PROVE DesignIInv'
  BY <1>1 DEF DesignIInv, Design!SyncRows, Design!calls
<1>2. ASSUME NEW part, Design!EditRows(part) PROVE DesignIInv'
  BY <1>1, <1>2 DEF Design!EditRows
<1>3. CASE Design!EditMainSections \/ Design!EditAdvancedSections \/ Design!EditCustomSections
  BY <1>2, <1>3 DEF Design!EditMainSections, Design!EditAdvancedSections, Design!EditCustomSections
<1>4. CASE Design!EditProfile
  BY <1>4 DEF DesignIInv, Design!EditProfile, Design!calls
<1>5. CASE Design!RemovePhoto
  <2>1. Settled(Design!Shown)
    BY ResolvedSettles DEF DesignIInv, Design!Shown
  <2>2. Settled([Design!Shown EXCEPT !.photo = FALSE])
    BY <2>1, PlainFields
  <2>3. Settled(local')
    BY <1>5, <2>2 DEF Design!RemovePhoto
  <2> QED BY <1>5, <2>3 DEF DesignIInv, Design!RemovePhoto, Design!calls
<1> QED BY <1>3, <1>4, <1>5

\* A call is made: it takes the settings of the moment.
LEMMA DesignCalls ==
  ASSUME DesignIInv,
         \/ \E id \in Templates : Design!ApplyTemplate(id)
         \/ Design!UploadPhoto \/ Design!MoveSection
  PROVE  DesignIInv'
<1>1. ASSUME NEW id \in Templates, Design!ApplyTemplate(id) PROVE DesignIInv'
  BY <1>1 DEF DesignIInv, Design!ApplyTemplate
<1>2. CASE Design!UploadPhoto
  <2>1. Settled(Design!Shown)
    BY ResolvedSettles DEF DesignIInv, Design!Shown
  <2> QED BY <1>2, <2>1 DEF DesignIInv, Design!UploadPhoto
<1>3. ASSUME NEW move, Design!PersistMove(move) PROVE DesignIInv'
  BY <1>3 DEF DesignIInv, Design!PersistMove
<1>4. CASE Design!MoveSection
  <2>1. PICK move : Design!PersistMove(move)
    BY <1>4 DEF Design!MoveSection, Design!Transfer, Design!MoveByOne, Design!DropWithShift, Design!DropOnCard,
                Design!DropOnLane, Design!KeyboardDrop
  <2> QED BY <1>3, <2>1
<1> QED BY <1>1, <1>2, <1>4

\* An answer replaces what is stored by what was sent, changed and normalized.
LEMMA DesignAnswers ==
  ASSUME DesignIInv, Design!Answers
  PROVE  DesignIInv'
<1>1. CASE Design!TemplateApplied
  <2>1. applying # None /\ applying.id \in Design!TemplateIds /\ Settled(applying.settings)
    BY <1>1, TemplatesAssumption DEF DesignIInv, Design!TemplateApplied
  <2>2. Settled(Design!Normalized(Design!Preset(applying.settings, applying.id)))
    BY <2>1, PresetSettles, NormalizedFields
  <2>3. Settled(local')
    BY <1>1, <2>2 DEF DesignIInv, Design!TemplateApplied
  <2> QED BY <1>1, <2>3 DEF DesignIInv, Design!TemplateApplied
<1>2. CASE Design!PhotoUploaded
  <2>1. Settled(uploading.settings)
    BY <1>2 DEF DesignIInv, Design!PhotoUploaded
  <2>2. Settled([uploading.settings EXCEPT !.photo = TRUE])
    BY <2>1, PlainFields
  <2>3. Settled(local')
    BY <1>2, <2>2 DEF DesignIInv, Design!PhotoUploaded
  <2> QED BY <1>2, <2>3 DEF DesignIInv, Design!PhotoUploaded
<1>3. CASE Design!SectionMoved
  <2>1. Settled(moving.settings)
    BY <1>3 DEF DesignIInv, Design!SectionMoved
  <2>2. ASSUME NEW value PROVE Settled(Design!Normalized([moving.settings EXCEPT !.sections = value]))
    <3>1. Settled([moving.settings EXCEPT !.sections = value])
      BY <2>1, PlainFields
    <3> QED BY <3>1, NormalizedFields
  <2>3. Settled(local')
    BY <1>3, <2>2 DEF DesignIInv, Design!SectionMoved
  <2> QED BY <1>3, <2>3 DEF DesignIInv, Design!SectionMoved
<1> QED BY <1>1, <1>2, <1>3 DEF Design!Answers

\* Together, one case per action.
LEMMA DesignStep ==
  ASSUME DesignIInv, Design!Next
  PROVE  DesignIInv'
  BY PlainEdits, OtherEdits, FormEdits, DesignCalls, DesignAnswers DEF Design!Next

-----------------------------------------------------------------------------
(* Lists *)

IsList(s) == s \in Seq({s[n] : n \in DOMAIN s})

\* What a list is made of.
LEMMA ListFacts ==
  ASSUME NEW s, IsList(s)
  PROVE  /\ Len(s) \in Nat /\ DOMAIN s = 1..Len(s) /\ s = [n \in 1..Len(s) |-> s[n]]
         /\ \A S : (\A n \in 1..Len(s) : s[n] \in S) => s \in Seq(S)
<1>1. Len(s) \in Nat /\ DOMAIN s = 1..Len(s) /\ s \in [1..Len(s) -> {s[n] : n \in DOMAIN s}]
  BY LenProperties DEF IsList
<1>2. ASSUME NEW S, \A n \in 1..Len(s) : s[n] \in S PROVE s \in Seq(S)
  <2>1. {s[n] : n \in DOMAIN s} \subseteq S
    BY <1>1, <1>2
  <2> QED BY <2>1, SeqMonotonic DEF IsList
<1> QED BY <1>1, <1>2

\* A function on the first numbers is a list.
LEMMA ListMade ==
  ASSUME NEW k \in Nat, NEW s, s = [n \in 1..k |-> s[n]]
  PROVE  IsList(s) /\ Len(s) = k /\ DOMAIN s = 1..k
<1>1. DOMAIN s = 1..k
  OBVIOUS
<1> DEFINE S == {s[n] : n \in DOMAIN s}
<1>2. \A n \in 1..k : s[n] \in S
  BY <1>1
<1> HIDE DEF S
<1>3. s \in [1..k -> S]
  BY <1>2
<1>4. s \in Seq(S)
  BY <1>3
<1>5. Len(s) \in Nat /\ DOMAIN s = 1..Len(s)
  BY <1>4, LenProperties
<1>6. Len(s) = k
  BY <1>1, <1>5
<1> QED BY <1>1, <1>4, <1>6 DEF IsList, S

\* Two lists with the same items are one.
LEMMA ListEqual ==
  ASSUME NEW s, NEW t, IsList(s), IsList(t), Len(s) = Len(t), \A n \in 1..Len(s) : s[n] = t[n]
  PROVE  s = t
  BY ListFacts

\* A list after another.
LEMMA ListConcat ==
  ASSUME NEW s, NEW t, IsList(s), IsList(t)
  PROVE  /\ IsList(s \o t) /\ Len(s \o t) = Len(s) + Len(t)
         /\ \A n \in 1..(Len(s) + Len(t)) : (s \o t)[n] = IF n <= Len(s) THEN s[n] ELSE t[n - Len(s)]
         /\ s \o <<>> = s /\ <<>> \o s = s
<1> DEFINE S == {s[n] : n \in DOMAIN s} \cup {t[n] : n \in DOMAIN t}
<1>1. s \in Seq(S) /\ t \in Seq(S)
  BY SeqMonotonic DEF IsList
<1> HIDE DEF S
<1>2. /\ s \o t \in Seq(S) /\ Len(s \o t) = Len(s) + Len(t)
      /\ \A n \in 1..(Len(s) + Len(t)) : (s \o t)[n] = IF n <= Len(s) THEN s[n] ELSE t[n - Len(s)]
  BY <1>1, ConcatProperties
<1>3. s \o <<>> = s /\ <<>> \o s = s
  BY <1>1, ConcatEmptySeq
<1>4. Len(s \o t) \in Nat /\ s \o t \in [1..Len(s \o t) -> S]
  BY <1>2, LenProperties
<1> DEFINE u == s \o t
<1>5. u = [n \in 1..Len(u) |-> u[n]]
  BY <1>4
<1> HIDE DEF u
<1>6. IsList(u)
  BY <1>4, <1>5, ListMade DEF u
<1> QED BY <1>2, <1>3, <1>6 DEF u

\* Three in a row.
LEMMA ListAssociative ==
  ASSUME NEW s, NEW t, NEW u, IsList(s), IsList(t), IsList(u)
  PROVE  (s \o t) \o u = s \o (t \o u)
<1> DEFINE S == {s[n] : n \in DOMAIN s} \cup {t[n] : n \in DOMAIN t} \cup {u[n] : n \in DOMAIN u}
<1>1. s \in Seq(S) /\ t \in Seq(S) /\ u \in Seq(S)
  BY SeqMonotonic DEF IsList
<1> QED BY <1>1, ConcatAssociative

\* The empty list, and a list of one.
LEMMA ShortLists ==
  /\ IsList(<<>>) /\ Len(<<>>) = 0
  /\ \A x : IsList(<<x>>) /\ Len(<<x>>) = 1 /\ <<x>>[1] = x
<1>1. IsList(<<>>) /\ Len(<<>>) = 0
  BY EmptySeq DEF IsList
<1>2. ASSUME NEW x PROVE IsList(<<x>>) /\ Len(<<x>>) = 1 /\ <<x>>[1] = x
  <2>1. <<x>> \in Seq({x}) /\ Len(<<x>>) = 1 /\ <<x>>[1] = x /\ DOMAIN <<x>> = 1..1
    OBVIOUS
  <2>2. {<<x>>[n] : n \in DOMAIN <<x>>} = {x}
    BY <2>1
  <2> QED BY <2>1, <2>2 DEF IsList
<1> QED BY <1>1, <1>2

\* Counting up to a bound.
LEMMA Counting ==
  ASSUME NEW N \in Nat, NEW S, 0 \in S, \A n \in 1..N : n - 1 \in S => n \in S
  PROVE  \A n \in 0..N : n \in S
<1> DEFINE T == {n \in 0..N : n \notin S}
<1> SUFFICES ASSUME T # {} PROVE FALSE
  OBVIOUS
<1> DEFINE R == OpToRel(<, Nat)
<1>1. \A x, y \in Nat : x < y => <<x, y>> \in R
  BY DEF OpToRel
<1>2. IsWellFoundedOn(R, Nat)
  BY NatLessThanWellFounded
<1>6. T \subseteq Nat /\ \A n : n \in T <=> n \in 0..N /\ n \notin S
  OBVIOUS
<1> HIDE DEF R, T
<1>3. PICK x \in T : \A y \in T : ~ (<<y, x>> \in R)
  BY <1>2, <1>6, WFMin
<1>4. x \in 1..N /\ x - 1 \in Nat /\ x - 1 < x
  BY <1>3, <1>6
<1>5. x - 1 \notin T
  <2>1. <<x - 1, x>> \in R
    <3>1. x \in Nat
      BY <1>4
    <3> QED BY <1>1, <1>4, <3>1
  <2> QED BY <1>3, <2>1
<1> QED BY <1>3, <1>4, <1>5, <1>6

\* A list of lists.
IsNested(ss) == IsList(ss) /\ \A n \in DOMAIN ss : IsList(ss[n])

\* The first lists put one after the other, for each number of them.
SumsTo(g, ss, k) ==
  /\ g = [n \in 0..k |-> g[n]]
  /\ g[0] = <<>> /\ \A n \in 1..k : g[n] = g[n - 1] \o ss[n]
  /\ \A n \in 0..k : IsList(g[n])

Flat(ss) == Design!FlattenSeq(ss)

\* With one more list.
LEMMA OneMoreSum ==
  ASSUME NEW ss, NEW k \in Nat, NEW g, SumsTo(g, ss, k), IsList(ss[k + 1])
  PROVE  \E h : SumsTo(h, ss, k + 1)
<1> DEFINE new == g[k] \o ss[k + 1]
           h == [m \in 0..(k + 1) |-> IF m = k + 1 THEN new ELSE g[m]]
<1>1. IsList(new)
  BY ListConcat DEF SumsTo
<1> HIDE DEF new
<1>2. /\ h = [m \in 0..(k + 1) |-> h[m]]
      /\ h[k + 1] = new /\ \A m \in 0..k : h[m] = g[m]
  OBVIOUS
<1> HIDE DEF h
<1>3. h[0] = <<>>
  BY <1>2 DEF SumsTo
<1>4. ASSUME NEW m \in 1..(k + 1) PROVE h[m] = h[m - 1] \o ss[m]
  <2>1. CASE m = k + 1
    <3>1. m - 1 = k /\ k \in 0..k
      BY <2>1
    <3> QED BY <1>2, <2>1, <3>1 DEF new
  <2>2. CASE m # k + 1
    <3>1. m \in 1..k /\ m \in 0..k /\ m - 1 \in 0..k
      BY <2>2
    <3> QED BY <1>2, <3>1 DEF SumsTo
  <2> QED BY <2>1, <2>2
<1>5. ASSUME NEW m \in 0..(k + 1) PROVE IsList(h[m])
  <2>1. CASE m = k + 1
    BY <1>1, <1>2, <2>1
  <2>2. CASE m # k + 1
    <3>1. m \in 0..k
      BY <2>2
    <3> QED BY <1>2, <3>1 DEF SumsTo
  <2> QED BY <2>1, <2>2
<1> QED BY <1>2, <1>3, <1>4, <1>5 DEF SumsTo

\* There is one such history of a list of lists.
LEMMA SumsExist ==
  ASSUME NEW ss, IsNested(ss)
  PROVE  \E g : SumsTo(g, ss, Len(ss))
<1> DEFINE N == Len(ss)
           S == {k \in 0..N : \E g : SumsTo(g, ss, k)}
<1>1. N \in Nat /\ DOMAIN ss = 1..N
  BY ListFacts DEF IsNested
<1>2. 0 \in S
  <2> DEFINE g == [n \in 0..0 |-> <<>>]
  <2>1. g = [n \in 0..0 |-> g[n]] /\ g[0] = <<>>
    OBVIOUS
  <2> HIDE DEF g
  <2>2. SumsTo(g, ss, 0)
    BY <2>1, ShortLists DEF SumsTo
  <2>3. 0 \in 0..N
    BY <1>1
  <2> QED BY <2>2, <2>3
<1>3. ASSUME NEW n \in 1..N, n - 1 \in S PROVE n \in S
  <2>1. PICK g : SumsTo(g, ss, n - 1)
    BY <1>3
  <2>2. n - 1 \in Nat /\ (n - 1) + 1 = n /\ n \in 0..N /\ IsList(ss[n])
    BY <1>1 DEF IsNested
  <2>3. \E h : SumsTo(h, ss, (n - 1) + 1)
    BY <2>1, <2>2, OneMoreSum
  <2> QED BY <2>2, <2>3
<1> HIDE DEF S
<1>4. \A n \in 0..N : n \in S
  BY <1>1, <1>2, <1>3, Counting
<1>5. N \in S
  BY <1>1, <1>4
<1> QED BY <1>5 DEF S

\* So flattening gives its last value.
LEMMA FlatIsTheLastSum ==
  ASSUME NEW ss, IsNested(ss), NEW h,
         h[0] = <<>>, \A n \in 1..Len(ss) : h[n] = h[n - 1] \o ss[n]
  PROVE  Flat(ss) = h[Len(ss)] /\ \A n \in 0..Len(ss) : IsList(h[n])
<1> DEFINE N == Len(ss)
<1>1. N \in Nat /\ DOMAIN ss = 1..N /\ ss = [n \in 1..N |-> ss[n]]
  BY ListFacts DEF IsNested
<1>2. ASSUME NEW S, 0 \in S, \A n \in 1..N : n - 1 \in S => n \in S PROVE \A n \in 0..N : n \in S
  BY <1>1, <1>2, Counting
<1>3. PICK g : SumsTo(g, ss, N)
  BY SumsExist
<1>4. \A n \in 0..N : h[n] = g[n]
  <2> DEFINE S == {n \in 0..N : h[n] = g[n]}
  <2>1. 0 \in S
    BY <1>1, <1>3 DEF SumsTo
  <2>2. ASSUME NEW n \in 1..N, n - 1 \in S PROVE n \in S
    BY <1>3, <2>2 DEF SumsTo
  <2> HIDE DEF S
  <2>3. \A n \in 0..N : n \in S
    BY <1>2, <2>1, <2>2
  <2> QED BY <2>3 DEF S
<1>5. CASE N = 0
  <2>1. ss = <<>>
    BY <1>5, ShortLists, ListEqual DEF IsNested
  <2>2. Flat(ss) = ss
    BY <1>5 DEF Flat, Design!FlattenSeq
  <2> QED BY <1>3, <1>4, <1>5, <2>1, <2>2 DEF SumsTo
<1>6. CASE N # 0
  <2> DEFINE Step(f) == [n \in 1..N |-> IF n = 1 THEN ss[n] ELSE f[n - 1] \o ss[n]]
             flatten == CHOOSE f : f = Step(f)
             k == [n \in 1..N |-> g[n]]
  <2>1. Flat(ss) = flatten[N]
    BY <1>6 DEF Flat, Design!FlattenSeq
  <2>2. g[1] = ss[1]
    <3>1. 1 \in 1..N
      BY <1>1, <1>6
    <3>3. \A n \in 1..N : g[n] = g[n - 1] \o ss[n]
      BY <1>3, Zenon DEF SumsTo
    <3>4. g[1] = g[1 - 1] \o ss[1]
      BY <3>1, <3>3, Zenon
    <3>5. g[1 - 1] = <<>>
      BY <1>3 DEF SumsTo
    <3>6. IsList(ss[1])
      BY <1>1, <3>1 DEF IsNested
    <3>2. g[1] = <<>> \o ss[1] /\ IsList(ss[1])
      BY <3>4, <3>5, <3>6
    <3> QED BY <3>2, ListConcat
  <2>3. k = Step(k)
    <3>1. ASSUME NEW n \in 1..N PROVE k[n] = IF n = 1 THEN ss[n] ELSE k[n - 1] \o ss[n]
      <4>1. CASE n = 1
        BY <2>2, <4>1
      <4>2. CASE n # 1
        <5>1. n - 1 \in 1..N /\ k[n - 1] = g[n - 1] /\ k[n] = g[n]
          BY <1>1, <4>2
        <5>2. g[n] = g[n - 1] \o ss[n]
          BY <1>3 DEF SumsTo
        <5> QED BY <4>2, <5>1, <5>2
      <4> QED BY <4>1, <4>2
    <3> QED BY <3>1
  <2> HIDE DEF k
  <2>4. flatten = Step(flatten)
    BY <2>3
  <2> HIDE DEF flatten
  <2>5. \A n \in 1..N : flatten[n] = IF n = 1 THEN ss[n] ELSE flatten[n - 1] \o ss[n]
    BY <2>4
  <2> DEFINE S == {n \in 0..N : n # 0 => flatten[n] = g[n]}
  <2>6. 0 \in S
    BY <1>1
  <2>7. ASSUME NEW n \in 1..N, n - 1 \in S PROVE n \in S
    <3>1. CASE n = 1
      BY <2>2, <2>5, <3>1
    <3>2. CASE n # 1
      <4>1. n - 1 # 0 /\ flatten[n - 1] = g[n - 1]
        BY <2>7, <3>2
      <4>2. flatten[n] = g[n - 1] \o ss[n]
        BY <2>5, <3>2, <4>1
      <4>3. g[n] = g[n - 1] \o ss[n]
        BY <1>3 DEF SumsTo
      <4>4. flatten[n] = g[n] /\ n \in 0..N
        BY <1>1, <4>2, <4>3
      <4> QED BY <4>4
    <3> QED BY <3>1, <3>2
  <2> HIDE DEF S
  <2>8. N \in S
    BY <1>1, <1>2, <2>6, <2>7
  <2>9. flatten[N] = g[N]
    BY <1>6, <2>8 DEF S
  <2>10. \A n \in 0..N : IsList(g[n])
    BY <1>3 DEF SumsTo
  <2> QED BY <1>1, <1>4, <2>1, <2>9, <2>10
<1> QED BY <1>3, <1>4, <1>5, <1>6

\* Flattening, one list more each time.
LEMMA FlatGrows ==
  ASSUME NEW ss, IsNested(ss)
  PROVE  \E h : /\ h[0] = <<>> /\ Flat(ss) = h[Len(ss)]
                /\ \A n \in 0..Len(ss) : IsList(h[n])
                /\ \A n \in 1..Len(ss) : h[n] = h[n - 1] \o ss[n]
<1>1. PICK g : SumsTo(g, ss, Len(ss))
  BY SumsExist
<1>2. /\ g[0] = <<>> /\ \A n \in 1..Len(ss) : g[n] = g[n - 1] \o ss[n]
      /\ \A n \in 0..Len(ss) : IsList(g[n])
  BY <1>1, Zenon DEF SumsTo
<1>3. Flat(ss) = g[Len(ss)]
  BY <1>2, FlatIsTheLastSum
<1> QED BY <1>2, <1>3

\* The result is a list; of no list it is empty, of one it is that one.
LEMMA FlatShort ==
  /\ \A ss : IsNested(ss) => IsList(Flat(ss))
  /\ Flat(<<>>) = <<>>
  /\ \A s : IsList(s) => Flat(<<s>>) = s
<1>1. ASSUME NEW ss, IsNested(ss) PROVE IsList(Flat(ss))
  <2>1. PICK h : Flat(ss) = h[Len(ss)] /\ \A n \in 0..Len(ss) : IsList(h[n])
    BY <1>1, FlatGrows
  <2>2. Len(ss) \in 0..Len(ss)
    BY <1>1, ListFacts DEF IsNested
  <2> QED BY <2>1, <2>2
<1>2. Flat(<<>>) = <<>>
  BY ShortLists DEF Flat, Design!FlattenSeq
<1>3. ASSUME NEW s, IsList(s) PROVE Flat(<<s>>) = s
  <2>1. IsList(<<s>>) /\ Len(<<s>>) = 1 /\ <<s>>[1] = s /\ DOMAIN <<s>> = 1..1
    BY ShortLists
  <2>2. IsNested(<<s>>)
    BY <1>3, <2>1 DEF IsNested
  <2> DEFINE ss == <<s>>
             h == [n \in 0..1 |-> IF n = 0 THEN <<>> ELSE s]
  <2>3. h[0] = <<>> /\ h[1] = s /\ s = <<>> \o s
    BY <1>3, ListConcat
  <2> HIDE DEF ss, h
  <2>4. \A n \in 1..Len(ss) : h[n] = h[n - 1] \o ss[n]
    <3>1. \A n \in 1..Len(ss) : n = 1 /\ n - 1 = 0
      BY <2>1 DEF ss
    <3>2. h[1] = h[0] \o ss[1]
      BY <2>1, <2>3 DEF ss
    <3> QED BY <3>1, <3>2
  <2>5. Flat(ss) = h[Len(ss)]
    BY <2>2, <2>3, <2>4, FlatIsTheLastSum DEF ss
  <2> QED BY <2>1, <2>3, <2>5 DEF ss
<1> QED BY <1>1, <1>2, <1>3

\* Lists of lists, one after the other.
LEMMA NestedConcat ==
  ASSUME NEW ss, NEW tt, IsNested(ss), IsNested(tt)
  PROVE  IsNested(ss \o tt)
<1>1. /\ IsList(ss) /\ IsList(tt) /\ Len(ss) \in Nat /\ Len(tt) \in Nat
      /\ DOMAIN ss = 1..Len(ss) /\ DOMAIN tt = 1..Len(tt)
  BY ListFacts DEF IsNested
<1>2. /\ IsList(ss \o tt) /\ Len(ss \o tt) = Len(ss) + Len(tt)
      /\ \A n \in 1..(Len(ss) + Len(tt)) : (ss \o tt)[n] = IF n <= Len(ss) THEN ss[n] ELSE tt[n - Len(ss)]
  BY <1>1, ListConcat
<1>3. DOMAIN (ss \o tt) = 1..(Len(ss) + Len(tt))
  BY <1>2, ListFacts
<1>4. ASSUME NEW n \in 1..(Len(ss) + Len(tt)) PROVE IsList((ss \o tt)[n])
  <2>1. CASE n <= Len(ss)
    BY <1>1, <1>2, <2>1 DEF IsNested
  <2>2. CASE ~ (n <= Len(ss))
    <3>1. n - Len(ss) \in DOMAIN tt
      BY <1>1, <2>2
    <3> QED BY <1>2, <2>2, <3>1 DEF IsNested
  <2> QED BY <2>1, <2>2
<1> QED BY <1>2, <1>3, <1>4 DEF IsNested

\* Their flattenings too.
LEMMA FlatConcat ==
  ASSUME NEW ss, NEW tt, IsNested(ss), IsNested(tt)
  PROVE  Flat(ss \o tt) = Flat(ss) \o Flat(tt)
<1> DEFINE M == Len(ss)
           N == Len(tt)
           all == ss \o tt
<1>1. /\ IsList(ss) /\ IsList(tt) /\ M \in Nat /\ N \in Nat
      /\ DOMAIN ss = 1..M /\ DOMAIN tt = 1..N
  BY ListFacts DEF IsNested
<1>2. /\ IsList(all) /\ Len(all) = M + N
      /\ \A n \in 1..(M + N) : all[n] = IF n <= M THEN ss[n] ELSE tt[n - M]
  BY <1>1, ListConcat
<1>3. IsNested(all)
  BY NestedConcat
<1>4. PICK g : /\ g[0] = <<>> /\ Flat(ss) = g[M] /\ \A n \in 0..M : IsList(g[n])
               /\ \A n \in 1..M : g[n] = g[n - 1] \o ss[n]
  BY FlatGrows
<1>5. PICK k : /\ k[0] = <<>> /\ Flat(tt) = k[N] /\ \A n \in 0..N : IsList(k[n])
               /\ \A n \in 1..N : k[n] = k[n - 1] \o tt[n]
  BY FlatGrows
<1> DEFINE h == [n \in 0..(M + N) |-> IF n <= M THEN g[n] ELSE Flat(ss) \o k[n - M]]
<1>6. /\ \A n \in 0..M : h[n] = g[n]
      /\ \A n \in 0..N : h[M + n] = Flat(ss) \o k[n]
  <2>1. \A n \in 0..M : h[n] = g[n]
    BY <1>1
  <2>2. ASSUME NEW n \in 0..N PROVE h[M + n] = Flat(ss) \o k[n]
    <3>1. CASE n = 0
      <4>1. IsList(g[M]) /\ h[M + n] = g[M]
        BY <1>1, <1>4, <3>1
      <4>2. g[M] \o <<>> = g[M]
        BY <4>1, ListConcat
      <4> QED BY <1>4, <1>5, <3>1, <4>1, <4>2
    <3>2. CASE n # 0
      <4>1. M + n \in 0..(M + N) /\ ~ (M + n <= M) /\ (M + n) - M = n
        BY <1>1, <3>2
      <4> QED BY <4>1
    <3> QED BY <3>1, <3>2
  <2> QED BY <2>1, <2>2
<1> HIDE DEF h
<1>7. h[0] = <<>>
  BY <1>1, <1>4, <1>6
<1>8. ASSUME NEW n \in 1..(M + N) PROVE h[n] = h[n - 1] \o all[n]
  <2>1. CASE n <= M
    <3>1. n \in 1..M /\ n \in 0..M /\ n - 1 \in 0..M
      BY <1>1, <2>1
    <3>2. h[n] = g[n] /\ h[n - 1] = g[n - 1] /\ all[n] = ss[n]
      BY <1>2, <1>6, <2>1, <3>1
    <3> QED BY <1>4, <3>1, <3>2
  <2>2. CASE ~ (n <= M)
    <3> DEFINE j == n - M
    <3>1. j \in 1..N /\ j \in 0..N /\ j - 1 \in 0..N /\ M + j = n /\ M + (j - 1) = n - 1
      BY <1>1, <2>2
    <3>2. all[n] = tt[j]
      BY <1>2, <2>2
    <3> HIDE DEF j
    <3>3. h[n] = Flat(ss) \o k[j] /\ h[n - 1] = Flat(ss) \o k[j - 1]
      BY <1>6, <3>1
    <3>4. k[j] = k[j - 1] \o tt[j] /\ IsList(k[j - 1]) /\ IsList(tt[j]) /\ IsList(Flat(ss))
      BY <1>1, <1>5, <3>1, FlatShort DEF IsNested
    <3>5. Flat(ss) \o (k[j - 1] \o tt[j]) = (Flat(ss) \o k[j - 1]) \o tt[j]
      <4> DEFINE a == Flat(ss)
                 b == k[j - 1]
                 c == tt[j]
      <4>2. IsList(a) /\ IsList(b) /\ IsList(c)
        BY <3>4
      <4> HIDE DEF a, b, c
      <4>3. a \o (b \o c) = (a \o b) \o c
        BY <4>2, ListAssociative
      <4> QED BY <4>3 DEF a, b, c
    <3> QED BY <3>2, <3>3, <3>4, <3>5
  <2> QED BY <2>1, <2>2
<1>9. Flat(all) = h[M + N]
  BY <1>2, <1>3, <1>7, <1>8, FlatIsTheLastSum
<1> QED BY <1>1, <1>5, <1>6, <1>9

\* The types of a list of blocks, then of more.
LEMMA TypesConcat ==
  ASSUME NEW s, NEW t, IsList(s), IsList(t)
  PROVE  /\ IsList(Design!Types(s)) /\ Len(Design!Types(s)) = Len(s)
         /\ Design!Types(s \o t) = Design!Types(s) \o Design!Types(t)
<1>1. \A u : IsList(u) => /\ IsList(Design!Types(u)) /\ Len(Design!Types(u)) = Len(u)
                          /\ \A n \in 1..Len(u) : Design!Types(u)[n] = u[n].type
  <2> SUFFICES ASSUME NEW u, IsList(u)
               PROVE  /\ IsList(Design!Types(u)) /\ Len(Design!Types(u)) = Len(u)
                      /\ \A n \in 1..Len(u) : Design!Types(u)[n] = u[n].type
    OBVIOUS
  <2>1. Len(u) \in Nat /\ DOMAIN u = 1..Len(u)
    BY ListFacts
  <2> DEFINE v == Design!Types(u)
  <2>2. v = [n \in 1..Len(u) |-> v[n]] /\ \A n \in 1..Len(u) : v[n] = u[n].type
    BY <2>1 DEF Design!Types
  <2> HIDE DEF v
  <2>3. IsList(v) /\ Len(v) = Len(u)
    BY <2>1, <2>2, ListMade
  <2> QED BY <2>2, <2>3 DEF v
<1> DEFINE a == Design!Types(s)
           b == Design!Types(t)
           c == Design!Types(s \o t)
<1>2. /\ IsList(s \o t) /\ Len(s \o t) = Len(s) + Len(t)
      /\ \A n \in 1..(Len(s) + Len(t)) : (s \o t)[n] = IF n <= Len(s) THEN s[n] ELSE t[n - Len(s)]
  BY ListConcat
<1> DEFINE st == s \o t
<1>3. /\ IsList(a) /\ Len(a) = Len(s) /\ \A n \in 1..Len(s) : a[n] = s[n].type
      /\ IsList(b) /\ Len(b) = Len(t) /\ \A n \in 1..Len(t) : b[n] = t[n].type
      /\ IsList(c) /\ Len(c) = Len(st) /\ \A n \in 1..Len(st) : c[n] = st[n].type
  BY <1>1, <1>2
<1> HIDE DEF a, b, c, st
<1> DEFINE ab == a \o b
<1>5. Len(s) \in Nat /\ Len(t) \in Nat
  BY ListFacts
<1>4. /\ IsList(ab) /\ Len(ab) = Len(a) + Len(b)
      /\ \A n \in 1..(Len(a) + Len(b)) : ab[n] = IF n <= Len(a) THEN a[n] ELSE b[n - Len(a)]
  <2>1. IsList(a) /\ IsList(b)
    BY <1>3
  <2> QED BY <2>1, ListConcat
<1>6. IsList(ab) /\ Len(ab) = Len(s) + Len(t)
  BY <1>3, <1>4
<1>7. \A n \in 1..(Len(s) + Len(t)) : ab[n] = IF n <= Len(s) THEN a[n] ELSE b[n - Len(s)]
  BY <1>3, <1>4
<1> HIDE DEF ab
<1>8. Len(st) = Len(s) + Len(t) /\ \A n \in 1..(Len(s) + Len(t)) : st[n] = IF n <= Len(s) THEN s[n] ELSE t[n - Len(s)]
  BY <1>2 DEF st
<1>9. ASSUME NEW n \in 1..Len(c) PROVE c[n] = ab[n]
  <2>1. n \in 1..(Len(s) + Len(t)) /\ c[n] = st[n].type
    BY <1>3, <1>8
  <2>2. CASE n <= Len(s)
    BY <1>3, <1>5, <1>7, <1>8, <2>1, <2>2
  <2>3. CASE ~ (n <= Len(s))
    <3>1. n - Len(s) \in 1..Len(t)
      BY <1>5, <2>1, <2>3
    <3> QED BY <1>3, <1>7, <1>8, <2>1, <2>3, <3>1
  <2> QED BY <2>2, <2>3
<1>10. c = ab
  BY <1>3, <1>6, <1>8, <1>9, ListEqual
<1> QED BY <1>3, <1>10 DEF a, b, c, ab, st

\* The types of the blocks of several lists.
LEMMA FlatTypes ==
  ASSUME NEW ss, IsNested(ss)
  PROVE  Design!Types(Flat(ss)) = Flat([n \in DOMAIN ss |-> Design!Types(ss[n])])
<1> DEFINE N == Len(ss)
           tt == [n \in 1..N |-> Design!Types(ss[n])]
<1>1. N \in Nat /\ DOMAIN ss = 1..N /\ \A n \in 1..N : IsList(ss[n])
  BY ListFacts DEF IsNested
<1>2. PICK g : /\ g[0] = <<>> /\ Flat(ss) = g[N] /\ \A n \in 0..N : IsList(g[n])
               /\ \A n \in 1..N : g[n] = g[n - 1] \o ss[n]
  BY FlatGrows
<1>3. tt = [n \in 1..N |-> tt[n]] /\ \A n \in 1..N : tt[n] = Design!Types(ss[n])
  OBVIOUS
<1> HIDE DEF tt
<1>4. IsList(tt) /\ Len(tt) = N /\ DOMAIN tt = 1..N
  BY <1>1, <1>3, ListMade
<1>5. IsNested(tt)
  BY <1>1, <1>3, <1>4, TypesConcat DEF IsNested
<1> DEFINE h == [n \in 0..N |-> Design!Types(g[n])]
<1>6. \A n \in 0..N : h[n] = Design!Types(g[n])
  OBVIOUS
<1> HIDE DEF h
<1>7. h[0] = <<>>
  <2>1. Design!Types(<<>>) = <<>>
    BY DEF Design!Types
  <2> QED BY <1>1, <1>2, <1>6, <2>1
<1>8. ASSUME NEW n \in 1..N PROVE h[n] = h[n - 1] \o tt[n]
  <2>1. n \in 0..N /\ n - 1 \in 0..N
    BY <1>1
  <2> DEFINE a == g[n - 1]
             b == ss[n]
  <2>2. IsList(a) /\ IsList(b) /\ g[n] = a \o b
    BY <1>1, <1>2, <2>1
  <2>3. h[n] = Design!Types(g[n]) /\ h[n - 1] = Design!Types(a) /\ tt[n] = Design!Types(b)
    BY <1>3, <1>6, <2>1
  <2> HIDE DEF a, b
  <2>4. Design!Types(a \o b) = Design!Types(a) \o Design!Types(b)
    BY <2>2, TypesConcat
  <2> QED BY <2>2, <2>3, <2>4
<1>9. Flat(tt) = h[N]
  BY <1>4, <1>5, <1>7, <1>8, FlatIsTheLastSum
<1>10. h[N] = Design!Types(Flat(ss))
  BY <1>1, <1>2, <1>6
<1> QED BY <1>1, <1>9, <1>10 DEF tt

\* What a table makes of the items of a list: a list for each, one after the other.
Mapped(g, s) == [n \in DOMAIN s |-> g[s[n]]]
Spread(g, s) == Flat(Mapped(g, s))
Spreads(g, s) == IsList(s) /\ \A n \in DOMAIN s : IsList(g[s[n]])

\* A list of lists.
LEMMA MappedIsNested ==
  ASSUME NEW g, NEW s, Spreads(g, s)
  PROVE  /\ IsNested(Mapped(g, s)) /\ Len(Mapped(g, s)) = Len(s) /\ DOMAIN Mapped(g, s) = 1..Len(s)
         /\ \A n \in 1..Len(s) : Mapped(g, s)[n] = g[s[n]]
         /\ IsList(Spread(g, s))
<1> DEFINE m == Mapped(g, s)
<1>1. Len(s) \in Nat /\ DOMAIN s = 1..Len(s)
  BY ListFacts DEF Spreads
<1>2. m = [n \in 1..Len(s) |-> m[n]] /\ \A n \in 1..Len(s) : m[n] = g[s[n]]
  BY <1>1 DEF Mapped
<1> HIDE DEF m
<1>3. IsList(m) /\ Len(m) = Len(s) /\ DOMAIN m = 1..Len(s)
  BY <1>1, <1>2, ListMade
<1>4. IsNested(m)
  BY <1>1, <1>2, <1>3 DEF IsNested, Spreads
<1> QED BY <1>2, <1>3, <1>4, FlatShort DEF m, Spread

\* Of short lists.
LEMMA SpreadShort ==
  ASSUME NEW g
  PROVE  /\ Spread(g, <<>>) = <<>>
         /\ \A x : IsList(g[x]) => Spread(g, <<x>>) = g[x]
<1>1. Mapped(g, <<>>) = <<>>
  BY DEF Mapped
<1>2. ASSUME NEW x PROVE Mapped(g, <<x>>) = <<g[x]>>
  BY DEF Mapped
<1> QED BY <1>1, <1>2, FlatShort DEF Spread

\* Of a list after another.
LEMMA SpreadConcat ==
  ASSUME NEW g, NEW s, NEW t, Spreads(g, s), Spreads(g, t)
  PROVE  Spreads(g, s \o t) /\ Spread(g, s \o t) = Spread(g, s) \o Spread(g, t)
<1> DEFINE u == s \o t
           a == Mapped(g, s)
           b == Mapped(g, t)
           c == Mapped(g, u)
<1>1. IsList(s) /\ IsList(t) /\ Len(s) \in Nat /\ Len(t) \in Nat /\ DOMAIN s = 1..Len(s) /\ DOMAIN t = 1..Len(t)
  BY ListFacts DEF Spreads
<1>2. /\ IsList(u) /\ Len(u) = Len(s) + Len(t)
      /\ \A n \in 1..(Len(s) + Len(t)) : u[n] = IF n <= Len(s) THEN s[n] ELSE t[n - Len(s)]
  BY <1>1, ListConcat
<1> HIDE DEF u
<1>3. DOMAIN u = 1..(Len(s) + Len(t))
  BY <1>2, ListFacts
<1>4. \A n \in 1..(Len(s) + Len(t)) : ~ (n <= Len(s)) => n - Len(s) \in 1..Len(t)
  BY <1>1
<1>5. Spreads(g, u)
  BY <1>1, <1>2, <1>3, <1>4 DEF Spreads
<1>6. /\ IsNested(a) /\ Len(a) = Len(s) /\ \A n \in 1..Len(s) : a[n] = g[s[n]]
      /\ IsNested(b) /\ Len(b) = Len(t) /\ \A n \in 1..Len(t) : b[n] = g[t[n]]
      /\ IsNested(c) /\ Len(c) = Len(u) /\ \A n \in 1..Len(u) : c[n] = g[u[n]]
  BY <1>5, MappedIsNested
<1> HIDE DEF a, b, c
<1> DEFINE ab == a \o b
<1>11. /\ IsList(ab) /\ Len(ab) = Len(a) + Len(b)
       /\ \A n \in 1..(Len(a) + Len(b)) : ab[n] = IF n <= Len(a) THEN a[n] ELSE b[n - Len(a)]
  <2>1. IsList(a) /\ IsList(b)
    BY <1>6 DEF IsNested
  <2> QED BY <2>1, ListConcat
<1> HIDE DEF ab
<1>7. /\ IsList(ab) /\ Len(ab) = Len(s) + Len(t)
      /\ \A n \in 1..(Len(s) + Len(t)) : ab[n] = IF n <= Len(s) THEN a[n] ELSE b[n - Len(s)]
  BY <1>6, <1>11
<1>8. ASSUME NEW n \in 1..Len(c) PROVE c[n] = ab[n]
  <2>1. n \in 1..(Len(s) + Len(t)) /\ c[n] = g[u[n]]
    BY <1>2, <1>6
  <2>2. CASE n <= Len(s)
    BY <1>1, <1>2, <1>6, <1>7, <2>1, <2>2
  <2>3. CASE ~ (n <= Len(s))
    <3>1. n - Len(s) \in 1..Len(t)
      BY <1>4, <2>1, <2>3
    <3> QED BY <1>2, <1>6, <1>7, <2>1, <2>3, <3>1
  <2> QED BY <2>2, <2>3
<1>9. c = ab
  BY <1>2, <1>6, <1>7, <1>8, ListEqual DEF IsNested
<1>10. Flat(ab) = Flat(a) \o Flat(b)
  BY <1>6, FlatConcat DEF ab
<1> QED BY <1>5, <1>9, <1>10 DEF a, b, c, u, Spread

\* Of several lists.
LEMMA SpreadFlat ==
  ASSUME NEW g, NEW ss, IsNested(ss), \A n \in DOMAIN ss : Spreads(g, ss[n])
  PROVE  Spread(g, Flat(ss)) = Flat([n \in DOMAIN ss |-> Spread(g, ss[n])])
<1> DEFINE N == Len(ss)
           tt == [n \in 1..N |-> Spread(g, ss[n])]
<1>1. N \in Nat /\ DOMAIN ss = 1..N /\ \A n \in 1..N : IsList(ss[n]) /\ Spreads(g, ss[n])
  BY ListFacts DEF IsNested
<1>2. PICK f : /\ f[0] = <<>> /\ Flat(ss) = f[N] /\ \A n \in 0..N : IsList(f[n])
               /\ \A n \in 1..N : f[n] = f[n - 1] \o ss[n]
  BY FlatGrows
<1>3. tt = [n \in 1..N |-> tt[n]] /\ \A n \in 1..N : tt[n] = Spread(g, ss[n])
  OBVIOUS
<1> HIDE DEF tt
<1>4. IsList(tt) /\ Len(tt) = N /\ DOMAIN tt = 1..N
  BY <1>1, <1>3, ListMade
<1>5. IsNested(tt)
  BY <1>1, <1>3, <1>4, MappedIsNested DEF IsNested
<1>6. ASSUME NEW n \in 1..N, Spreads(g, f[n - 1])
      PROVE  Spreads(g, f[n]) /\ Spread(g, f[n]) = Spread(g, f[n - 1]) \o tt[n]
  <2> DEFINE a == f[n - 1]
             b == ss[n]
  <2>1. Spreads(g, a) /\ Spreads(g, b) /\ f[n] = a \o b /\ tt[n] = Spread(g, b)
    BY <1>1, <1>2, <1>3, <1>6
  <2> HIDE DEF a, b
  <2>2. Spreads(g, a \o b) /\ Spread(g, a \o b) = Spread(g, a) \o Spread(g, b)
    BY <2>1, SpreadConcat
  <2> QED BY <2>1, <2>2 DEF a
<1> DEFINE S == {n \in 0..N : Spreads(g, f[n])}
<1>7. 0 \in S
  <2>1. Spreads(g, <<>>)
    BY ShortLists DEF Spreads
  <2> QED BY <1>1, <1>2, <2>1
<1>8. ASSUME NEW n \in 1..N, n - 1 \in S PROVE n \in S
  <2>1. Spreads(g, f[n - 1])
    BY <1>8
  <2>2. Spreads(g, f[n])
    BY <1>6, <2>1
  <2> QED BY <1>1, <2>2
<1> HIDE DEF S
<1>9. \A n \in 0..N : n \in S
  BY <1>1, <1>7, <1>8, Counting
<1>10. \A n \in 1..N : Spreads(g, f[n - 1])
  BY <1>1, <1>9 DEF S
<1> DEFINE h == [n \in 0..N |-> Spread(g, f[n])]
<1>11. \A n \in 0..N : h[n] = Spread(g, f[n])
  OBVIOUS
<1> HIDE DEF h
<1>12. h[0] = <<>>
  BY <1>1, <1>2, <1>11, SpreadShort
<1>13. ASSUME NEW n \in 1..N PROVE h[n] = h[n - 1] \o tt[n]
  <2>1. n \in 0..N /\ n - 1 \in 0..N
    BY <1>1
  <2>2. Spread(g, f[n]) = Spread(g, f[n - 1]) \o tt[n]
    BY <1>6, <1>10
  <2> QED BY <1>11, <2>1, <2>2
<1>14. Flat(tt) = h[N]
  BY <1>4, <1>5, <1>12, <1>13, FlatIsTheLastSum
<1>15. h[N] = Spread(g, Flat(ss))
  BY <1>1, <1>2, <1>11
<1> QED BY <1>1, <1>14, <1>15 DEF tt

\* The choice of some items, one by one.
Choice(s, kept) == [n \in DOMAIN s |-> Design!Keep(s[n] \in kept, s[n])]

\* Each is there alone or not at all.
LEMMA ChoiceIsNested ==
  ASSUME NEW s, IsList(s), NEW kept
  PROVE  /\ IsNested(Choice(s, kept)) /\ Len(Choice(s, kept)) = Len(s) /\ DOMAIN Choice(s, kept) = DOMAIN s
         /\ \A n \in DOMAIN s : Choice(s, kept)[n] = IF s[n] \in kept THEN <<s[n]>> ELSE <<>>
         /\ Design!Those(s, kept) = Flat(Choice(s, kept)) /\ IsList(Design!Those(s, kept))
<1> DEFINE c == Choice(s, kept)
<1>1. Len(s) \in Nat /\ DOMAIN s = 1..Len(s)
  BY ListFacts
<1>2. c = [n \in 1..Len(s) |-> c[n]] /\ \A n \in DOMAIN s : c[n] = IF s[n] \in kept THEN <<s[n]>> ELSE <<>>
  BY <1>1 DEF Choice, Design!Keep
<1>3. Design!Those(s, kept) = Flat(c)
  BY DEF Design!Those, Flat, Choice
<1> HIDE DEF c
<1>4. IsList(c) /\ Len(c) = Len(s) /\ DOMAIN c = DOMAIN s
  BY <1>1, <1>2, ListMade
<1>5. \A n \in DOMAIN c : IsList(c[n])
  BY <1>2, <1>4, ShortLists
<1>6. IsNested(c)
  BY <1>4, <1>5 DEF IsNested
<1> QED BY <1>2, <1>3, <1>4, <1>6, FlatShort DEF c

\* What a table makes of some items.
LEMMA ThoseSpread ==
  ASSUME NEW s, IsList(s), NEW kept, NEW g, \A n \in DOMAIN s : s[n] \in kept => IsList(g[s[n]])
  PROVE  Spread(g, Design!Those(s, kept)) = Flat([n \in DOMAIN s |-> IF s[n] \in kept THEN g[s[n]] ELSE <<>>])
<1> DEFINE c == Choice(s, kept)
<1>1. /\ IsNested(c) /\ DOMAIN c = DOMAIN s /\ Design!Those(s, kept) = Flat(c)
      /\ \A n \in DOMAIN s : c[n] = IF s[n] \in kept THEN <<s[n]>> ELSE <<>>
  BY ChoiceIsNested
<1> HIDE DEF c
<1>2. ASSUME NEW n \in DOMAIN s
      PROVE  Spreads(g, c[n]) /\ Spread(g, c[n]) = IF s[n] \in kept THEN g[s[n]] ELSE <<>>
  <2>1. CASE s[n] \in kept
    <3>1. c[n] = <<s[n]>> /\ IsList(g[s[n]])
      BY <1>1, <2>1
    <3>2. Spreads(g, <<s[n]>>)
      BY <3>1, ShortLists DEF Spreads
    <3> QED BY <2>1, <3>1, <3>2, SpreadShort
  <2>2. CASE s[n] \notin kept
    <3>1. c[n] = <<>>
      BY <1>1, <2>2
    <3>2. Spreads(g, <<>>)
      BY ShortLists DEF Spreads
    <3> QED BY <2>2, <3>1, <3>2, SpreadShort
  <2> QED BY <2>1, <2>2
<1>3. Spread(g, Flat(c)) = Flat([n \in DOMAIN c |-> Spread(g, c[n])])
  BY <1>1, <1>2, SpreadFlat
<1>4. [n \in DOMAIN c |-> Spread(g, c[n])] = [n \in DOMAIN s |-> IF s[n] \in kept THEN g[s[n]] ELSE <<>>]
  BY <1>1, <1>2
<1> QED BY <1>1, <1>3, <1>4

\* The choice as a table.
LEMMA ThoseIsSpread ==
  ASSUME NEW s, IsList(s), NEW kept, NEW g, \A n \in DOMAIN s : g[s[n]] = IF s[n] \in kept THEN <<s[n]>> ELSE <<>>
  PROVE  Spreads(g, s) /\ Spread(g, s) = Design!Those(s, kept)
<1>1. /\ DOMAIN Choice(s, kept) = DOMAIN s /\ Design!Those(s, kept) = Flat(Choice(s, kept))
      /\ \A n \in DOMAIN s : Choice(s, kept)[n] = g[s[n]]
  <2> DEFINE c == Choice(s, kept)
  <2>1. /\ DOMAIN c = DOMAIN s /\ Design!Those(s, kept) = Flat(c)
        /\ \A n \in DOMAIN s : c[n] = IF s[n] \in kept THEN <<s[n]>> ELSE <<>>
    BY ChoiceIsNested
  <2> HIDE DEF c
  <2>2. \A n \in DOMAIN s : c[n] = g[s[n]]
    BY <2>1
  <2> QED BY <2>1, <2>2 DEF c
<1>2. Choice(s, kept) = Mapped(g, s)
  BY <1>1 DEF Choice, Mapped
<1>3. Spreads(g, s)
  BY ShortLists DEF Spreads
<1> QED BY <1>1, <1>2, <1>3 DEF Spread

\* Of a list after another.
LEMMA ThoseConcat ==
  ASSUME NEW s, NEW t, IsList(s), IsList(t), NEW kept
  PROVE  Design!Those(s \o t, kept) = Design!Those(s, kept) \o Design!Those(t, kept)
<1> DEFINE D == {s[n] : n \in DOMAIN s} \cup {t[n] : n \in DOMAIN t} \cup {(s \o t)[n] : n \in DOMAIN (s \o t)}
           g == [x \in D |-> IF x \in kept THEN <<x>> ELSE <<>>]
<1>1. /\ \A n \in DOMAIN s : s[n] \in D
      /\ \A n \in DOMAIN t : t[n] \in D
      /\ \A n \in DOMAIN (s \o t) : (s \o t)[n] \in D
  OBVIOUS
<1>2. \A x \in D : g[x] = IF x \in kept THEN <<x>> ELSE <<>>
  OBVIOUS
<1> HIDE DEF D, g
<1> DEFINE u == s \o t
<1>3. IsList(u)
  BY ListConcat
<1>4. \A n \in DOMAIN u : u[n] \in D
  BY <1>1
<1> HIDE DEF u
<1>5. /\ Spreads(g, s) /\ Spread(g, s) = Design!Those(s, kept)
      /\ Spreads(g, t) /\ Spread(g, t) = Design!Those(t, kept)
      /\ Spread(g, u) = Design!Those(u, kept)
  BY <1>1, <1>2, <1>3, <1>4, ThoseIsSpread
<1>6. Spread(g, s \o t) = Spread(g, s) \o Spread(g, t)
  BY <1>5, SpreadConcat
<1> QED BY <1>5, <1>6 DEF u

\* A choice that differs on no item.
LEMMA ThoseSame ==
  ASSUME NEW s, NEW kept, NEW other, \A n \in DOMAIN s : s[n] \in kept <=> s[n] \in other
  PROVE  Design!Those(s, kept) = Design!Those(s, other)
<1>1. Choice(s, kept) = Choice(s, other)
  BY DEF Choice, Design!Keep
<1> QED BY <1>1 DEF Design!Those, Choice

\* A choice of a choice.
LEMMA ThoseTwice ==
  ASSUME NEW s, IsList(s), NEW kept, NEW other
  PROVE  Design!Those(Design!Those(s, kept), other) = Design!Those(s, kept \cap other)
<1> DEFINE t == Design!Those(s, kept)
           D == {s[n] : n \in DOMAIN s} \cup {t[n] : n \in DOMAIN t}
           g == [x \in D |-> IF x \in other THEN <<x>> ELSE <<>>]
<1>1. IsList(t)
  BY ChoiceIsNested
<1>2. (\A n \in DOMAIN s : s[n] \in D) /\ (\A n \in DOMAIN t : t[n] \in D)
  OBVIOUS
<1>3. \A x \in D : g[x] = (IF x \in other THEN <<x>> ELSE <<>>) /\ IsList(g[x])
  BY ShortLists
<1> HIDE DEF D, g
<1>4. Spread(g, t) = Flat([n \in DOMAIN s |-> IF s[n] \in kept THEN g[s[n]] ELSE <<>>])
  <2>1. \A n \in DOMAIN s : s[n] \in kept => IsList(g[s[n]])
    BY <1>2, <1>3
  <2> HIDE DEF t
  <2> QED BY <2>1, ThoseSpread DEF t
<1> HIDE DEF t
<1>5. Spread(g, t) = Design!Those(t, other)
  BY <1>1, <1>2, <1>3, ThoseIsSpread
<1>6. [n \in DOMAIN s |-> IF s[n] \in kept THEN g[s[n]] ELSE <<>>] = Choice(s, kept \cap other)
  <2>1. \A n \in DOMAIN s : (IF s[n] \in kept THEN g[s[n]] ELSE <<>>) = Design!Keep(s[n] \in kept \cap other, s[n])
    BY <1>2, <1>3 DEF Design!Keep
  <2> QED BY <2>1 DEF Choice
<1>7. Design!Those(s, kept \cap other) = Flat(Choice(s, kept \cap other))
  BY DEF Design!Those, Flat, Choice
<1> QED BY <1>4, <1>5, <1>6, <1>7 DEF t

\* What is in a list.
Items(s) == {s[n] : n \in DOMAIN s}

\* In one list after another: the items of both, and those of the second only after those of the first.
LEMMA ItemsConcat ==
  ASSUME NEW s, NEW t, IsList(s), IsList(t)
  PROVE  Items(s \o t) = Items(s) \cup Items(t)
<1> DEFINE u == s \o t
<1>1. Len(s) \in Nat /\ DOMAIN s = 1..Len(s) /\ Len(t) \in Nat /\ DOMAIN t = 1..Len(t)
  BY ListFacts
<1>2. /\ IsList(u) /\ Len(u) = Len(s) + Len(t)
      /\ \A n \in 1..(Len(s) + Len(t)) : u[n] = IF n <= Len(s) THEN s[n] ELSE t[n - Len(s)]
  BY ListConcat
<1> HIDE DEF u
<1>3. DOMAIN u = 1..(Len(s) + Len(t))
  BY <1>2, ListFacts
<1>4. ASSUME NEW n \in DOMAIN u PROVE u[n] \in Items(s) \cup Items(t)
  <2>1. CASE n <= Len(s)
    BY <1>1, <1>2, <1>3, <2>1 DEF Items
  <2>2. CASE ~ (n <= Len(s))
    <3>1. n - Len(s) \in DOMAIN t
      BY <1>1, <1>3, <2>2
    <3> QED BY <1>2, <1>3, <2>2, <3>1 DEF Items
  <2> QED BY <2>1, <2>2
<1>5. ASSUME NEW n \in DOMAIN s PROVE s[n] \in Items(u)
  <2>1. n \in DOMAIN u /\ u[n] = s[n]
    BY <1>1, <1>2, <1>3
  <2> QED BY <2>1 DEF Items
<1>6. ASSUME NEW n \in DOMAIN t PROVE t[n] \in Items(u)
  <2>1. Len(s) + n \in DOMAIN u /\ ~ (Len(s) + n <= Len(s)) /\ (Len(s) + n) - Len(s) = n
    BY <1>1, <1>3
  <2>2. u[Len(s) + n] = t[n]
    BY <1>2, <1>3, <2>1
  <2> QED BY <2>1, <2>2 DEF Items
<1> QED BY <1>4, <1>5, <1>6 DEF Items, u

\* The items of all the lists.
LEMMA FlatItems ==
  ASSUME NEW ss, IsNested(ss)
  PROVE  \A x : x \in Items(Flat(ss)) <=> \E n \in DOMAIN ss : x \in Items(ss[n])
<1> DEFINE N == Len(ss)
           Upto(n) == {m \in 1..N : m <= n}
<1>1. N \in Nat /\ DOMAIN ss = 1..N /\ \A n \in 1..N : IsList(ss[n])
  BY ListFacts DEF IsNested
<1>2. PICK f : /\ f[0] = <<>> /\ Flat(ss) = f[N] /\ \A n \in 0..N : IsList(f[n])
               /\ \A n \in 1..N : f[n] = f[n - 1] \o ss[n]
  BY FlatGrows
<1> DEFINE S == {n \in 0..N : Items(f[n]) = UNION {Items(ss[m]) : m \in Upto(n)}}
<1>3. 0 \in S
  <2>1. Upto(0) = {}
    OBVIOUS
  <2>2. Items(<<>>) = {}
    BY DEF Items
  <2> QED BY <1>1, <1>2, <2>1, <2>2
<1>4. ASSUME NEW n \in 1..N, n - 1 \in S PROVE n \in S
  <2> DEFINE a == f[n - 1]
             b == ss[n]
  <2>1. IsList(a) /\ IsList(b) /\ f[n] = a \o b /\ n \in 0..N
    BY <1>1, <1>2
  <2>2. Items(a) = UNION {Items(ss[m]) : m \in Upto(n - 1)}
    BY <1>4
  <2>3. Upto(n) = Upto(n - 1) \cup {n}
    BY <1>1
  <2> HIDE DEF a, b
  <2>4. Items(f[n]) = Items(a) \cup Items(b)
    BY <2>1, ItemsConcat
  <2> HIDE DEF Upto
  <2>5. Items(f[n]) = UNION {Items(ss[m]) : m \in Upto(n)}
    BY <2>2, <2>3, <2>4 DEF b
  <2> QED BY <2>1, <2>5
<1> HIDE DEF S
<1>5. \A n \in 0..N : n \in S
  BY <1>1, <1>3, <1>4, Counting
<1>6. Items(f[N]) = UNION {Items(ss[m]) : m \in Upto(N)} /\ Upto(N) = 1..N
  BY <1>1, <1>5 DEF S
<1> QED BY <1>1, <1>2, <1>6

\* Of the items chosen.
LEMMA ThoseItems ==
  ASSUME NEW s, IsList(s), NEW kept
  PROVE  Items(Design!Those(s, kept)) = Items(s) \cap kept
<1> DEFINE c == Choice(s, kept)
<1>1. /\ IsNested(c) /\ DOMAIN c = DOMAIN s /\ Design!Those(s, kept) = Flat(c)
      /\ \A n \in DOMAIN s : c[n] = IF s[n] \in kept THEN <<s[n]>> ELSE <<>>
  BY ChoiceIsNested
<1> HIDE DEF c
<1>2. \A x : x \in Items(Flat(c)) <=> \E n \in DOMAIN s : x \in Items(c[n])
  BY <1>1, FlatItems
<1>3. ASSUME NEW n \in DOMAIN s, NEW x PROVE x \in Items(c[n]) <=> s[n] \in kept /\ x = s[n]
  <2>1. Items(<<s[n]>>) = {s[n]} /\ Items(<<>>) = {}
    BY DEF Items
  <2> QED BY <1>1, <2>1
<1>4. \A x : x \in Items(s) <=> \E n \in DOMAIN s : x = s[n]
  BY DEF Items
<1>5. \A x : x \in Items(Flat(c)) <=> x \in Items(s) /\ x \in kept
  BY <1>2, <1>3, <1>4
<1> QED BY <1>1, <1>5

\* A list of single items flattens to the items.
LEMMA FlatSingles ==
  ASSUME NEW s, IsList(s), NEW ss, ss = [n \in DOMAIN s |-> <<s[n]>>]
  PROVE  Flat(ss) = s /\ IsNested(ss)
<1> DEFINE N == Len(s)
           h == [n \in 0..N |-> [m \in 1..n |-> s[m]]]
<1>1. N \in Nat /\ DOMAIN s = 1..N /\ s = [n \in 1..N |-> s[n]]
  BY ListFacts
<1>2. ss = [n \in 1..N |-> ss[n]] /\ \A n \in 1..N : ss[n] = <<s[n]>>
  BY <1>1
<1>3. IsList(ss) /\ Len(ss) = N /\ DOMAIN ss = 1..N
  BY <1>1, <1>2, ListMade
<1>4. IsNested(ss)
  BY <1>2, <1>3, ShortLists DEF IsNested
<1>5. \A n \in 0..N : h[n] = [m \in 1..n |-> s[m]]
  OBVIOUS
<1> HIDE DEF h
<1>6. ASSUME NEW n \in 0..N PROVE IsList(h[n]) /\ Len(h[n]) = n /\ \A m \in 1..n : h[n][m] = s[m]
  <2> DEFINE l == h[n]
  <2>4. n \in Nat
    BY <1>1
  <2>3. l = [m \in 1..n |-> s[m]]
    BY <1>5
  <2>1. l = [m \in 1..n |-> l[m]] /\ \A m \in 1..n : l[m] = s[m]
    BY <2>3
  <2> HIDE DEF l
  <2>2. IsList(l) /\ Len(l) = n
    BY <2>1, <2>4, ListMade
  <2> QED BY <2>1, <2>2 DEF l
<1>7. h[0] = <<>>
  <2>1. 0 \in 0..N
    BY <1>1
  <2>2. h[0] = [m \in 1..0 |-> s[m]]
    BY <1>5, <2>1
  <2>3. [m \in 1..0 |-> s[m]] = <<>>
    OBVIOUS
  <2> QED BY <2>2, <2>3
<1>8. ASSUME NEW n \in 1..N PROVE h[n] = h[n - 1] \o ss[n]
  <2> DEFINE a == h[n - 1]
             b == <<s[n]>>
             c == h[n]
             ab == a \o b
  <2>1. /\ n \in Nat /\ n \in 0..N /\ n - 1 \in 0..N
        /\ IsList(a) /\ Len(a) = n - 1 /\ \A m \in 1..(n - 1) : a[m] = s[m]
        /\ IsList(b) /\ Len(b) = 1 /\ b[1] = s[n]
        /\ IsList(c) /\ Len(c) = n /\ \A m \in 1..n : c[m] = s[m]
    BY <1>1, <1>6, ShortLists
  <2> HIDE DEF a, b, c
  <2>2. /\ IsList(ab) /\ Len(ab) = Len(a) + Len(b)
        /\ \A m \in 1..(Len(a) + Len(b)) : ab[m] = IF m <= Len(a) THEN a[m] ELSE b[m - Len(a)]
    BY <2>1, ListConcat
  <2> HIDE DEF ab
  <2>3. ASSUME NEW m \in 1..n PROVE c[m] = ab[m]
    <3>1. CASE m = n
      BY <2>1, <2>2, <3>1
    <3>2. CASE m # n
      <4>1. m \in 1..(n - 1) /\ m <= Len(a) /\ m \in 1..(Len(a) + Len(b))
        BY <2>1, <3>2
      <4> QED BY <2>1, <2>2, <4>1
    <3> QED BY <3>1, <3>2
  <2>4. c = ab
    BY <2>1, <2>2, <2>3, ListEqual
  <2> QED BY <1>2, <2>4 DEF a, b, c, ab
<1>9. Flat(ss) = h[N]
  BY <1>3, <1>4, <1>7, <1>8, FlatIsTheLastSum
<1>10. h[N] = s
  <2>1. N \in 0..N
    BY <1>1
  <2>2. h[N] = [m \in 1..N |-> s[m]]
    BY <1>5, <2>1
  <2> QED BY <1>1, <2>2
<1> QED BY <1>4, <1>9, <1>10

\* All of a list, and nothing of it.
LEMMA ThoseAllOrNone ==
  ASSUME NEW s, IsList(s), NEW kept
  PROVE  /\ Items(s) \subseteq kept => Design!Those(s, kept) = s
         /\ Items(s) \cap kept = {} => Design!Those(s, kept) = <<>>
<1>1. ASSUME Items(s) \subseteq kept PROVE Design!Those(s, kept) = s
  <2> DEFINE ss == [n \in DOMAIN s |-> <<s[n]>>]
  <2>1. \A n \in DOMAIN s : s[n] \in kept
    BY <1>1 DEF Items
  <2>2. Choice(s, kept) = ss
    BY <2>1 DEF Choice, Design!Keep
  <2>3. Flat(ss) = s
    BY FlatSingles
  <2>4. Design!Those(s, kept) = Flat(Choice(s, kept))
    BY DEF Design!Those, Flat, Choice
  <2> QED BY <2>2, <2>3, <2>4
<1>2. ASSUME Items(s) \cap kept = {} PROVE Design!Those(s, kept) = <<>>
  <2> DEFINE t == Design!Those(s, kept)
  <2>1. Items(t) = {} /\ IsList(t)
    BY <1>2, ThoseItems, ChoiceIsNested
  <2> HIDE DEF t
  <2>2. Len(t) \in Nat /\ DOMAIN t = 1..Len(t) /\ DOMAIN t = {}
    BY <2>1, ListFacts DEF Items
  <2>3. Len(t) = 0
    BY <2>2
  <2>4. t = <<>>
    BY <2>1, <2>3, ShortLists, ListEqual
  <2> QED BY <2>4 DEF t
<1> QED BY <1>1, <1>2

\* No two items of a list have the same type.
Distinct(s) == \A m, n \in DOMAIN s : s[m].type = s[n].type => m = n

\* One after another, of different types.
LEMMA DistinctConcat ==
  ASSUME NEW s, NEW t, IsList(s), IsList(t)
  PROVE  Distinct(s \o t) <=> /\ Distinct(s) /\ Distinct(t)
                              /\ \A m \in DOMAIN s, n \in DOMAIN t : s[m].type # t[n].type
<1> DEFINE u == s \o t
           M == Len(s)
           N == Len(t)
<1>1. M \in Nat /\ DOMAIN s = 1..M /\ N \in Nat /\ DOMAIN t = 1..N
  BY ListFacts
<1>2. /\ IsList(u) /\ Len(u) = M + N
      /\ \A n \in 1..(M + N) : u[n] = IF n <= M THEN s[n] ELSE t[n - M]
  BY ListConcat
<1> HIDE DEF u, M, N
<1>3. DOMAIN u = 1..(M + N)
  BY <1>2, ListFacts
<1>4. /\ \A n \in 1..M : n \in DOMAIN u /\ u[n] = s[n]
      /\ \A n \in 1..N : M + n \in DOMAIN u /\ u[M + n] = t[n]
  <2>1. ASSUME NEW n \in 1..M PROVE n \in DOMAIN u /\ u[n] = s[n]
    BY <1>1, <1>2, <1>3
  <2>2. ASSUME NEW n \in 1..N PROVE M + n \in DOMAIN u /\ u[M + n] = t[n]
    <3>1. M + n \in 1..(M + N) /\ ~ (M + n <= M) /\ (M + n) - M = n
      BY <1>1
    <3> QED BY <1>2, <1>3, <3>1
  <2> QED BY <2>1, <2>2
<1>5. ASSUME Distinct(u)
      PROVE  Distinct(s) /\ Distinct(t) /\ \A m \in DOMAIN s, n \in DOMAIN t : s[m].type # t[n].type
  <2>1. Distinct(s)
    BY <1>1, <1>4, <1>5 DEF Distinct
  <2>2. ASSUME NEW m \in DOMAIN t, NEW n \in DOMAIN t, t[m].type = t[n].type PROVE m = n
    <3>1. M + m = M + n
      BY <1>1, <1>4, <1>5, <2>2 DEF Distinct
    <3> QED BY <1>1, <3>1
  <2>3. ASSUME NEW m \in DOMAIN s, NEW n \in DOMAIN t, s[m].type = t[n].type PROVE FALSE
    <3>1. m = M + n
      BY <1>1, <1>4, <1>5, <2>3 DEF Distinct
    <3> QED BY <1>1, <3>1
  <2> QED BY <2>1, <2>2, <2>3 DEF Distinct
<1>6. ASSUME Distinct(s), Distinct(t), \A m \in DOMAIN s, n \in DOMAIN t : s[m].type # t[n].type
      PROVE  Distinct(u)
  <2> SUFFICES ASSUME NEW m \in DOMAIN u, NEW n \in DOMAIN u, u[m].type = u[n].type PROVE m = n
    BY DEF Distinct
  <2>1. \A i \in DOMAIN u : \/ i \in 1..M /\ u[i] = s[i]
                            \/ i - M \in 1..N /\ u[i] = t[i - M] /\ i \in Int
    BY <1>1, <1>2, <1>3
  <2>2. CASE m \in 1..M /\ n \in 1..M /\ u[m] = s[m] /\ u[n] = s[n]
    BY <1>1, <1>6, <2>2 DEF Distinct
  <2>3. CASE m \in 1..M /\ u[m] = s[m] /\ n - M \in 1..N /\ u[n] = t[n - M]
    BY <1>1, <1>6, <2>3
  <2>4. CASE n \in 1..M /\ u[n] = s[n] /\ m - M \in 1..N /\ u[m] = t[m - M]
    BY <1>1, <1>6, <2>4
  <2>5. CASE m - M \in 1..N /\ n - M \in 1..N /\ u[m] = t[m - M] /\ u[n] = t[n - M] /\ m \in Int /\ n \in Int
    <3>1. m - M = n - M
      BY <1>1, <1>6, <2>5 DEF Distinct
    <3> QED BY <1>1, <2>5, <3>1
  <2> QED BY <2>1, <2>2, <2>3, <2>4, <2>5
<1> QED BY <1>5, <1>6 DEF u

\* A choice of different items.
LEMMA ThoseDistinct ==
  ASSUME NEW s, IsList(s), Distinct(s), NEW kept
  PROVE  Distinct(Design!Those(s, kept))
<1> DEFINE c == Choice(s, kept)
           N == Len(c)
<1>1. /\ IsNested(c) /\ N = Len(s) /\ DOMAIN c = DOMAIN s /\ Design!Those(s, kept) = Flat(c)
      /\ \A n \in DOMAIN s : c[n] = IF s[n] \in kept THEN <<s[n]>> ELSE <<>>
  BY ChoiceIsNested
<1> HIDE DEF c
<1>2. N \in Nat /\ DOMAIN s = 1..N /\ DOMAIN c = 1..N /\ \A n \in 1..N : IsList(c[n])
  BY <1>1, ListFacts DEF IsNested
<1>3. PICK f : /\ f[0] = <<>> /\ Flat(c) = f[N] /\ \A n \in 0..N : IsList(f[n])
               /\ \A n \in 1..N : f[n] = f[n - 1] \o c[n]
  BY <1>1, FlatGrows
<1> DEFINE Upto(n) == {s[m] : m \in {i \in 1..N : i <= n}}
           S == {n \in 0..N : Distinct(f[n]) /\ Items(f[n]) \subseteq Upto(n)}
<1>4. 0 \in S
  BY <1>2, <1>3 DEF Distinct, Items
<1>5. ASSUME NEW n \in 1..N, n - 1 \in S PROVE n \in S
  <2> DEFINE a == f[n - 1]
             b == c[n]
  <2>1. IsList(a) /\ IsList(b) /\ f[n] = a \o b /\ n \in 0..N
    BY <1>2, <1>3
  <2>2. Distinct(a) /\ Items(a) \subseteq Upto(n - 1)
    BY <1>5
  <2>3. b = <<s[n]>> \/ b = <<>>
    BY <1>1, <1>2
  <2>4. Upto(n - 1) \subseteq Upto(n) /\ s[n] \in Upto(n)
    BY <1>2
  <2>5. \A x \in Upto(n - 1) : x.type # s[n].type
    <3> SUFFICES ASSUME NEW m \in 1..N, m <= n - 1, s[m].type = s[n].type PROVE FALSE
      OBVIOUS
    <3> QED BY <1>2 DEF Distinct
  <2> HIDE DEF a, Upto
  <2>6. Items(b) \subseteq {s[n]} /\ Distinct(b)
    BY <2>3 DEF Items, Distinct
  <2>7. \A i \in DOMAIN a, j \in DOMAIN b : a[i].type # b[j].type
    BY <2>2, <2>5, <2>6 DEF Items
  <2> HIDE DEF b
  <2>8. Distinct(f[n])
    BY <2>1, <2>2, <2>6, <2>7, DistinctConcat
  <2>9. Items(f[n]) = Items(a) \cup Items(b)
    BY <2>1, ItemsConcat
  <2>10. Items(f[n]) \subseteq Upto(n)
    BY <2>2, <2>4, <2>6, <2>9
  <2> QED BY <2>1, <2>8, <2>10
<1> HIDE DEF S
<1>6. \A n \in 0..N : n \in S
  BY <1>2, <1>4, <1>5, Counting
<1>7. N \in S
  BY <1>2, <1>6
<1> QED BY <1>1, <1>3, <1>7 DEF S

-----------------------------------------------------------------------------
(* The arrangement of the sections *)

\* The types of section the renderer knows, those of the catalogue, and those that a new resume lists.
SectionTypes == DOMAIN Design!Weight
Offers == {Catalogue[n] : n \in DOMAIN Catalogue}
NewTypes == {"experience", "projects", "skills", "education", "languages", "interests"}

CardFields == {"id", "type", "placement", "visible", "dates", "locations", "subtitleFirst", "pageBreak"}

\* A section of the panel.
IsCard(c) ==
  /\ c = [field \in CardFields |-> c[field]]
  /\ c.type \in Offers /\ c.id = c.type /\ c.placement \in {"main", "sidebar"} /\ c.visible \in BOOLEAN

\* Settings whose sections are of types of the catalogue, each once, those of a new resume among them.
Arranged(s) ==
  /\ IsList(s.sections) /\ Distinct(s.sections)
  /\ \A n \in DOMAIN s.sections : IsCard(s.sections[n])
  /\ \A type \in NewTypes \cap Offers : \E n \in DOMAIN s.sections : s.sections[n].type = type
  /\ s.columns \in {1, 2} /\ s.template \in Templates \cup {"modern"}

\* Rows of the types of the catalogue only.
Counted(content) ==
  /\ content = [type \in SectionTypes |-> content[type]]
  /\ \A type \in SectionTypes : content[type] \in Nat /\ (type \notin Offers => content[type] = 0)

\* A place in a lane for a section of the catalogue, or an exchange.
Asked(move) ==
  move.id \in Offers /\ (move.op = "swap" \/ (move.placement \in {"main", "sidebar"} /\ move.index \in Nat))

\* What the editor holds, or was sent and may be given back.
BoardIInv ==
  /\ catalogue = Design!FallbackCatalogue
  /\ Counted(rows) /\ Arranged(local)
  /\ applying # None => Arranged(applying.settings)
  /\ uploading # None => Arranged(uploading.settings)
  /\ moving # None => Arranged(moving.settings) /\ Counted(moving.rows) /\ Asked(moving.move)

-----------------------------------------------------------------------------
(* Cards *)

\* The switches and the place of a card.
LEMMA CardByField ==
  ASSUME NEW c, IsCard(c), NEW field \in CardFields, NEW value,
         field \notin {"id", "type"},
         field = "placement" => value \in {"main", "sidebar"},
         field = "visible" => value \in BOOLEAN
  PROVE  /\ IsCard([c EXCEPT ![field] = value])
         /\ \A other \in CardFields : other # field => [c EXCEPT ![field] = value][other] = c[other]
         /\ [c EXCEPT ![field] = value][field] = value
<1> DEFINE r == [c EXCEPT ![field] = value]
<1>1. /\ r = [f \in CardFields |-> r[f]]
      /\ r[field] = value /\ \A f \in CardFields : f # field => r[f] = c[f]
  BY DEF IsCard
<1> HIDE DEF r
<1>2. {"id", "type", "placement", "visible"} \subseteq CardFields
  BY DEF CardFields
<1>3. /\ r.type \in Offers /\ r.id = r.type
  BY <1>1, <1>2 DEF IsCard
<1>4. r.placement \in {"main", "sidebar"}
  BY <1>1, <1>2 DEF IsCard
<1>5. r.visible \in BOOLEAN
  BY <1>1, <1>2 DEF IsCard
<1> QED BY <1>1, <1>3, <1>4, <1>5 DEF IsCard, r

\* A built-in section of the catalogue.
LEMMA SectionIsCard ==
  ASSUME NEW type \in Offers, NEW placement \in {"main", "sidebar"}
  PROVE  /\ IsCard(Design!Section(type, placement))
         /\ Design!Section(type, placement).type = type /\ Design!Section(type, placement).placement = placement
         /\ Design!Section(type, placement).visible = TRUE
  BY DEF IsCard, Design!Section, CardFields

\* Settings with other fields, and the same sections.
LEMMA ArrangedBy ==
  ASSUME NEW s, Arranged(s), NEW r, r.sections = s.sections, r.columns \in {1, 2}, r.template \in Templates \cup {"modern"}
  PROVE  Arranged(r)
  BY DEF Arranged

\* Settings with one card changed.
LEMMA ArrangedCard ==
  ASSUME NEW s, Arranged(s), NEW r, NEW n \in DOMAIN s.sections, NEW card, IsCard(card), card.type = s.sections[n].type,
         r.sections = [s.sections EXCEPT ![n] = card], r.columns = s.columns, r.template = s.template
  PROVE  Arranged(r)
<1> DEFINE S == s.sections
           T == r.sections
           k == Len(S)
<1>1. IsList(S) /\ DOMAIN S = 1..k /\ k \in Nat /\ S = [m \in 1..k |-> S[m]]
  BY ListFacts DEF Arranged
<1>2. /\ T = [m \in 1..k |-> T[m]]
      /\ \A m \in 1..k : T[m] = IF m = n THEN card ELSE S[m]
  BY <1>1
<1>3. \A m \in 1..k : IsCard(S[m]) /\ S[n].type = card.type
  BY <1>1 DEF Arranged
<1>4. /\ Distinct(S)
      /\ \A type \in NewTypes \cap Offers : \E m \in 1..k : S[m].type = type
  BY <1>1 DEF Arranged
<1> HIDE DEF S, T, k
<1>5. IsList(T) /\ DOMAIN T = 1..k
  BY <1>1, <1>2, ListMade
<1>6. \A m \in 1..k : IsCard(T[m]) /\ T[m].type = S[m].type
  BY <1>2, <1>3
<1>7. Distinct(T)
  BY <1>1, <1>4, <1>5, <1>6 DEF Distinct
<1>8. \A type \in NewTypes \cap Offers : \E m \in DOMAIN T : T[m].type = type
  BY <1>4, <1>5, <1>6
<1> QED BY <1>5, <1>6, <1>7, <1>8 DEF Arranged, T

\* What the catalogue offers by itself, where a section of the panel is the built-in one.
Defaults == [n \in 1..Len(Catalogue) |-> Design!Section(Catalogue[n], IF n = 2 THEN "sidebar" ELSE "main")]

\* The sections that the panel adds to the stored ones: each is in the main column.
Added(s) == Design!Those(Defaults, {card \in Items(Defaults) : card.type \notin {s.sections[n].type : n \in DOMAIN s.sections}})

\* They are those of the catalogue, each once.
LEMMA DefaultsFacts ==
  /\ IsList(Defaults) /\ Len(Defaults) = Len(Catalogue) /\ DOMAIN Defaults = 1..Len(Catalogue) /\ Len(Catalogue) \in Nat
  /\ DOMAIN Catalogue = 1..Len(Catalogue)
  /\ \A n \in 1..Len(Catalogue) : /\ IsCard(Defaults[n]) /\ Defaults[n].type = Catalogue[n] /\ Defaults[n].visible = TRUE
                                  /\ n # 2 => Defaults[n].placement = "main"
  /\ Distinct(Defaults)
<1> DEFINE k == Len(Catalogue)
<1>1. k \in Nat /\ DOMAIN Catalogue = 1..k /\ \A m, n \in 1..k : Catalogue[m] = Catalogue[n] => m = n
  BY CatalogueAssumption
<1>2. \A n \in 1..k : Catalogue[n] \in Offers
  BY <1>1 DEF Offers
<1> HIDE DEF k
<1>3. Defaults = [n \in 1..k |-> Design!Section(Catalogue[n], IF n = 2 THEN "sidebar" ELSE "main")]
  BY DEF Defaults, k
<1>4. /\ Defaults = [n \in 1..k |-> Defaults[n]]
      /\ \A n \in 1..k : Defaults[n] = Design!Section(Catalogue[n], IF n = 2 THEN "sidebar" ELSE "main")
  BY <1>3
<1>5. IsList(Defaults) /\ Len(Defaults) = k /\ DOMAIN Defaults = 1..k
  BY <1>1, <1>4, ListMade
<1>6. ASSUME NEW n \in 1..k
      PROVE  /\ IsCard(Defaults[n]) /\ Defaults[n].type = Catalogue[n] /\ Defaults[n].visible = TRUE
             /\ n # 2 => Defaults[n].placement = "main"
  <2> DEFINE place == IF n = 2 THEN "sidebar" ELSE "main"
             card == Design!Section(Catalogue[n], place)
  <2>1. Defaults[n] = card
    BY <1>4
  <2>2. place \in {"main", "sidebar"} /\ Catalogue[n] \in Offers /\ (n # 2 => place = "main")
    BY <1>2
  <2> HIDE DEF place
  <2>3. IsCard(card) /\ card.type = Catalogue[n] /\ card.placement = place /\ card.visible = TRUE
    BY <2>2, SectionIsCard
  <2> HIDE DEF card
  <2> QED BY <2>1, <2>2, <2>3
<1>7. Distinct(Defaults)
  <2>1. \A n \in 1..k : Defaults[n].type = Catalogue[n]
    BY <1>6
  <2> QED BY <1>1, <1>5, <2>1 DEF Distinct
<1> QED BY <1>1, <1>5, <1>6, <1>7 DEF k

\* What the fetch of the catalogue gives, whatever was answered.
LEMMA FetchedIsFallback ==
  ASSUME NEW c \in Design!FetchedCatalogue
  PROVE  c = Design!FallbackCatalogue
<1> DEFINE F == Design!FallbackCatalogue
<1>1. PICK parts : c = Design!NormalizeCatalogue(Design!Restrict(F, parts)) /\ parts \subseteq DOMAIN F
  <2>1. "types" \in DOMAIN F
    BY DEF Design!FallbackCatalogue
  <2> QED BY <2>1 DEF Design!FetchedCatalogue
<1>2. F = [part \in DOMAIN F |-> F[part]]
  BY DEF Design!FallbackCatalogue
<1> HIDE DEF F
<1>3. c = [part \in DOMAIN F |-> IF part \in DOMAIN Design!Restrict(F, parts) THEN Design!Restrict(F, parts)[part] ELSE F[part]]
  BY <1>1 DEF Design!NormalizeCatalogue, F
<1>4. \A part \in DOMAIN F : (IF part \in DOMAIN Design!Restrict(F, parts) THEN Design!Restrict(F, parts)[part] ELSE F[part]) = F[part]
  BY <1>1 DEF Design!Restrict
<1> QED BY <1>2, <1>3, <1>4 DEF F

\* The options that the editor has.
LEMMA FallbackFacts ==
  ASSUME catalogue = Design!FallbackCatalogue
  PROVE  /\ catalogue.types = Catalogue /\ catalogue.placements = <<"main", "sidebar">>
         /\ catalogue.columns = {1, 2}
         /\ catalogue.templates = [id \in Templates |-> IF id \in {"ats", "student", "ledger", "scholar"} THEN {1} ELSE {1, 2}]
  BY DEF Design!FallbackCatalogue

\* The built-in sections, as the panel reads them from its options.
LEMMA DefaultsAre ==
  ASSUME catalogue = Design!FallbackCatalogue
  PROVE  [n \in DOMAIN catalogue.types |-> Design!DefaultSection(n)] = Defaults
<1>1. \A n \in 1..Len(Catalogue) : Design!DefaultSection(n) = Design!Section(Catalogue[n], IF n = 2 THEN "sidebar" ELSE "main")
  <2>1. ASSUME NEW n \in 1..Len(Catalogue)
        PROVE  (IF n \in DOMAIN catalogue.placements THEN catalogue.placements[n] ELSE "main") = IF n = 2 THEN "sidebar" ELSE "main"
    BY FallbackFacts, DefaultsFacts
  <2> QED BY <2>1, FallbackFacts DEF Design!DefaultSection
<1>2. DOMAIN catalogue.types = 1..Len(Catalogue)
  BY FallbackFacts, DefaultsFacts
<1> QED BY <1>1, <1>2 DEF Defaults

\* mergeSections, of arranged settings: nothing is filtered out, and what is not stored is added.
LEMMA Merged ==
  ASSUME catalogue = Design!FallbackCatalogue, NEW s, Arranged(s)
  PROVE  Design!MergeSections(s) = s.sections \o Added(s)
<1> DEFINE S == s.sections
           D == [n \in DOMAIN catalogue.types |-> Design!DefaultSection(n)]
           known == {section \in Design!ToSet(S) : section.type \in Design!ToSet(catalogue.types)}
           rest == {section \in Design!ToSet(D) : section.type \notin {one.type : one \in Design!ToSet(S)}}
<1>1. Design!MergeSections(s) = Design!Those(S, known) \o Design!Those(D, rest)
  BY DEF Design!MergeSections
<1>2. D = Defaults
  BY DefaultsAre
<1>3. IsList(S) /\ \A n \in DOMAIN S : IsCard(S[n])
  BY DEF Arranged
<1> HIDE DEF D
<1>4. Design!Those(S, known) = S
  <2>1. Design!ToSet(catalogue.types) = Offers
    <3>1. catalogue.types = Catalogue
      BY FallbackFacts
    <3> QED BY <3>1 DEF Design!ToSet, Offers
  <2>2. Items(S) \subseteq known
    <3>1. \A n \in DOMAIN S : S[n].type \in Offers
      BY <1>3 DEF IsCard
    <3> HIDE DEF S
    <3> QED BY <2>1, <3>1 DEF Items, Design!ToSet
  <2> QED BY <1>3, <2>2, ThoseAllOrNone
<1>5. Design!Those(D, rest) = Added(s)
  <2>1. rest = {card \in Items(Defaults) : card.type \notin {S[n].type : n \in DOMAIN S}}
    BY <1>2 DEF Items, Design!ToSet, Design!Range
  <2> QED BY <1>2, <2>1 DEF Added
<1> QED BY <1>1, <1>4, <1>5

\* The added sections: all visible, in the main column, of the types of the catalogue that are not stored.
LEMMA AddedFacts ==
  ASSUME NEW s, Arranged(s)
  PROVE  /\ IsList(Added(s)) /\ Distinct(Added(s))
         /\ \A n \in DOMAIN Added(s) :
              /\ IsCard(Added(s)[n]) /\ Added(s)[n].visible = TRUE /\ Added(s)[n].placement = "main"
              /\ \A m \in DOMAIN s.sections : s.sections[m].type # Added(s)[n].type
         /\ \A type \in Offers : \/ \E n \in DOMAIN s.sections : s.sections[n].type = type
                                 \/ \E n \in DOMAIN Added(s) : Added(s)[n].type = type
<1> DEFINE S == s.sections
           stored == {S[n].type : n \in DOMAIN S}
           kept == {card \in Items(Defaults) : card.type \notin stored}
           E == Added(s)
           k == Len(Catalogue)
<1>1. E = Design!Those(Defaults, kept) /\ IsList(Defaults) /\ Distinct(Defaults)
  BY DefaultsFacts DEF Added
<1> HIDE DEF E
<1>2. IsList(E)
  BY <1>1, ChoiceIsNested
<1>3. Distinct(E)
  BY <1>1, ThoseDistinct
<1>4. Items(E) = Items(Defaults) \cap kept
  BY <1>1, ThoseItems
<1>5. ASSUME NEW n \in DOMAIN E
      PROVE  /\ IsCard(E[n]) /\ E[n].visible = TRUE /\ E[n].placement = "main"
             /\ \A m \in DOMAIN S : S[m].type # E[n].type
  <2>1. E[n] \in Items(Defaults) /\ E[n].type \notin stored
    BY <1>4 DEF Items
  <2>2. PICK m \in 1..k : E[n] = Defaults[m]
    BY <2>1, DefaultsFacts DEF Items
  <2>3. m # 2
    <3> SUFFICES ASSUME m = 2 PROVE FALSE
      OBVIOUS
    <3>1. E[n].type = "education"
      BY <2>2, DefaultsFacts, CatalogueAssumption
    <3>2. "education" \in NewTypes \cap Offers
      BY CatalogueAssumption, DefaultsFacts DEF NewTypes, Offers
    <3>3. "education" \in stored
      BY <3>2 DEF Arranged
    <3> QED BY <2>1, <3>1, <3>3
  <2>4. IsCard(Defaults[m]) /\ Defaults[m].visible = TRUE /\ Defaults[m].placement = "main"
    BY <2>3, DefaultsFacts
  <2> QED BY <2>1, <2>2, <2>4
<1>6. ASSUME NEW type \in Offers, \A n \in DOMAIN S : S[n].type # type
      PROVE  \E n \in DOMAIN E : E[n].type = type
  <2>1. PICK m \in 1..k : Catalogue[m] = type
    BY DefaultsFacts DEF Offers
  <2>2. Defaults[m].type = type /\ Defaults[m] \in Items(Defaults)
    BY <2>1, DefaultsFacts DEF Items
  <2>3. type \notin stored
    BY <1>6
  <2>4. Defaults[m] \in Items(E)
    BY <1>4, <2>2, <2>3
  <2> QED BY <2>2, <2>4 DEF Items
<1> QED BY <1>2, <1>3, <1>5, <1>6 DEF E

\* One list after another.
Joins(t, a, b) == t = a \o b

\* What the panel shows is arranged, and has every type of the catalogue.
LEMMA ShownFacts ==
  ASSUME NEW s, Arranged(s), NEW all, Joins(all, s.sections, Added(s))
  PROVE  /\ IsList(all) /\ Distinct(all)
         /\ \A n \in DOMAIN all : IsCard(all[n])
         /\ \A type \in Offers : \E n \in DOMAIN all : all[n].type = type
<1> DEFINE S == s.sections
           E == Added(s)
<1>1. IsList(S) /\ Distinct(S) /\ \A n \in DOMAIN S : IsCard(S[n])
  BY DEF Arranged
<1>2. /\ IsList(E) /\ Distinct(E)
      /\ \A n \in DOMAIN E : IsCard(E[n]) /\ \A m \in DOMAIN S : S[m].type # E[n].type
      /\ \A type \in Offers : \/ \E n \in DOMAIN S : S[n].type = type
                              \/ \E n \in DOMAIN E : E[n].type = type
  BY AddedFacts
<1> HIDE DEF S, E
<1>3. all = S \o E
  BY DEF S, E, Joins
<1>4. IsList(all) /\ Distinct(all)
  BY <1>1, <1>2, <1>3, ListConcat, DistinctConcat
<1>5. Items(all) = Items(S) \cup Items(E)
  BY <1>1, <1>2, <1>3, ItemsConcat
<1>6. ASSUME NEW n \in DOMAIN all PROVE IsCard(all[n])
  <2>1. all[n] \in Items(S) \cup Items(E)
    BY <1>5 DEF Items
  <2> QED BY <1>1, <1>2, <2>1 DEF Items
<1>7. ASSUME NEW type \in Offers PROVE \E n \in DOMAIN all : all[n].type = type
  <2>1. \E x \in Items(S) \cup Items(E) : x.type = type
    BY <1>2 DEF Items
  <2> QED BY <1>5, <2>1 DEF Items
<1> QED BY <1>4, <1>6, <1>7

\* mergeSections keeps the settings arranged.
LEMMA ResolvedArranges ==
  ASSUME catalogue = Design!FallbackCatalogue, NEW s, Settled(s), Arranged(s)
  PROVE  /\ Arranged(Design!Resolved(s)) /\ Design!Resolved(s).sections = s.sections \o Added(s)
         /\ \A field \in Fields \ {"sections"} : Design!Resolved(s)[field] = s[field]
<1> DEFINE all == s.sections \o Added(s)
           r == Design!Resolved(s)
<1>1. r = [s EXCEPT !.sections = all]
  BY Merged DEF Design!Resolved
<1>7. Joins(all, s.sections, Added(s))
  BY DEF Joins
<1> HIDE DEF all, r
<1>2. "sections" \in Fields /\ "columns" \in Fields \ {"sections"} /\ "template" \in Fields \ {"sections"}
  BY DEF Fields
<1>3. r.sections = all /\ \A field \in Fields \ {"sections"} : r[field] = s[field]
  BY <1>1, <1>2 DEF Settled
<1>4. r.columns = s.columns /\ r.template = s.template
  BY <1>2, <1>3
<1>5. /\ IsList(all) /\ Distinct(all) /\ \A n \in DOMAIN all : IsCard(all[n])
      /\ \A type \in Offers : \E n \in DOMAIN all : all[n].type = type
  BY <1>7, ShownFacts
<1>6. Arranged(r)
  BY <1>3, <1>4, <1>5 DEF Arranged
<1> QED BY <1>3, <1>6 DEF all, r

-----------------------------------------------------------------------------
(* Positions *)

UpTo(places, n) == {m \in places : m <= n}
Before(places, n) == {m \in places : m < n}

\* The number of places up to a bound.
LEMMA UpToCounts ==
  ASSUME NEW places, places \subseteq Nat \ {0}, NEW n \in Nat
  PROVE  /\ IsFiniteSet(UpTo(places, n)) /\ Cardinality(UpTo(places, n)) \in Nat
         /\ n > 0 => Cardinality(UpTo(places, n)) = Cardinality(UpTo(places, n - 1)) + (IF n \in places THEN 1 ELSE 0)
         /\ Cardinality(UpTo(places, 0)) = 0
<1>a. \A m \in places : m \in Nat /\ m > 0
  OBVIOUS
<1>b. ASSUME NEW k \in Nat, NEW m PROVE m \in UpTo(places, k) <=> m \in places /\ m <= k
  BY DEF UpTo
<1>1. ASSUME NEW k \in Nat PROVE IsFiniteSet(UpTo(places, k)) /\ Cardinality(UpTo(places, k)) \in Nat
  <2>1. IsFiniteSet(1..k)
    BY <1>1, FS_Interval
  <2>2. UpTo(places, k) \in SUBSET (1..k)
    <3>1. ASSUME NEW m \in UpTo(places, k) PROVE m \in 1..k
      <4>1. m \in places /\ m <= k
        BY <1>b
      <4> QED BY <1>a, <4>1
    <3> QED BY <3>1
  <2> QED BY <2>1, <2>2, FS_Subset, FS_CardinalityType
<1>2. ASSUME n > 0
      PROVE  Cardinality(UpTo(places, n)) = Cardinality(UpTo(places, n - 1)) + (IF n \in places THEN 1 ELSE 0)
  <2>1. n - 1 \in Nat
    BY <1>2
  <2>2. n \notin UpTo(places, n - 1)
    BY <2>1 DEF UpTo
  <2>3. CASE n \in places
    <3>1. UpTo(places, n) = UpTo(places, n - 1) \cup {n}
      <4>1. \A m \in places : m <= n <=> m <= n - 1 \/ m = n
        BY <1>a
      <4>2. ASSUME NEW m PROVE m \in UpTo(places, n) <=> m \in UpTo(places, n - 1) \/ m = n
        BY <1>b, <2>1, <2>3, <4>1
      <4> QED BY <4>2
    <3>2. Cardinality(UpTo(places, n - 1) \cup {n}) = Cardinality(UpTo(places, n - 1)) + 1
      BY <1>1, <2>1, <2>2, FS_AddElement
    <3> QED BY <2>3, <3>1, <3>2
  <2>4. CASE n \notin places
    <3>1. UpTo(places, n) = UpTo(places, n - 1)
      <4>1. \A m \in places : m <= n <=> m <= n - 1
        BY <1>a, <2>4
      <4>2. ASSUME NEW m PROVE m \in UpTo(places, n) <=> m \in UpTo(places, n - 1)
        BY <1>b, <2>1, <4>1
      <4> QED BY <4>2
    <3>2. Cardinality(UpTo(places, n - 1)) \in Nat
      BY <1>1, <2>1
    <3> QED BY <2>4, <3>1, <3>2
  <2> QED BY <2>3, <2>4
<1>3. Cardinality(UpTo(places, 0)) = 0
  <2>1. ASSUME NEW m \in UpTo(places, 0) PROVE FALSE
    <3>1. m \in places /\ m <= 0
      BY DEF UpTo
    <3> QED BY <1>a, <3>1
  <2>2. UpTo(places, 0) = {}
    BY <2>1
  <2> QED BY <2>2, FS_EmptySet
<1> QED BY <1>1, <1>2, <1>3

\* All of them.
LEMMA UpToAll ==
  ASSUME NEW k \in Nat, NEW places, places \subseteq 1..k
  PROVE  UpTo(places, k) = places /\ UpTo(places, 0) = {}
<1>1. \A m \in places : m <= k /\ ~ (m <= 0)
  OBVIOUS
<1> QED BY <1>1 DEF UpTo

\* Of places up to a bound, there is one with any smaller number of places before it.
LEMMA PlaceOfRank ==
  ASSUME NEW k \in Nat, NEW places, places \subseteq 1..k, NEW rank \in Nat, rank < Cardinality(places)
  PROVE  \E n \in places : Cardinality(Before(places, n)) = rank
<1> DEFINE C(n) == Cardinality(UpTo(places, n))
           S == {n \in 0..k : rank < C(n) => \E p \in places : C(p - 1) = rank}
<1>1. \A n \in Nat : /\ C(n) \in Nat /\ C(0) = 0
                     /\ n > 0 => C(n) = C(n - 1) + (IF n \in places THEN 1 ELSE 0)
  <2>1. places \subseteq Nat \ {0}
    OBVIOUS
  <2> QED BY <2>1, UpToCounts
<1>2. ASSUME NEW p \in places PROVE Before(places, p) = UpTo(places, p - 1)
  <2>1. \A m \in places : m < p <=> m <= p - 1
    OBVIOUS
  <2> QED BY <2>1 DEF UpTo, Before
<1>3. UpTo(places, k) = places
  BY UpToAll
<1>4. rank < C(k)
  BY <1>3
<1> HIDE DEF C
<1>5. 0 \in S
  BY <1>1
<1>6. ASSUME NEW n \in 1..k, n - 1 \in S PROVE n \in S
  <2>1. n \in 0..k /\ n \in Nat /\ n > 0 /\ n - 1 \in Nat
    OBVIOUS
  <2>2. CASE rank < C(n - 1)
    BY <1>6, <2>1, <2>2
  <2>3. CASE ~ (rank < C(n - 1))
    <3>1. C(n) \in Nat /\ C(n - 1) \in Nat /\ C(n) = C(n - 1) + (IF n \in places THEN 1 ELSE 0)
      BY <1>1, <2>1
    <3>2. rank < C(n) => n \in places /\ C(n - 1) = rank
      BY <2>3, <3>1
    <3> QED BY <2>1, <3>2
  <2> QED BY <2>2, <2>3
<1>7. \A n \in 0..k : n \in S
  <2> HIDE DEF S
  <2> QED BY <1>5, <1>6, Counting
<1>8. PICK p \in places : C(p - 1) = rank
  BY <1>4, <1>7
<1> QED BY <1>2, <1>8 DEF C

\* The last of some places.
LEMMA LastPlace ==
  ASSUME NEW k \in Nat, NEW places, places \subseteq 1..k, places # {}
  PROVE  /\ Design!Max(places) \in places /\ \A n \in places : n <= Design!Max(places)
         /\ Design!Min(places) \in places /\ \A n \in places : Design!Min(places) <= n
<1>1. \E x \in places : \A y \in places : x >= y
  <2> DEFINE S == {n \in 0..k : UpTo(places, n) # {} => \E x \in UpTo(places, n) : \A y \in UpTo(places, n) : x >= y}
  <2>1. 0 \in S
    <3>1. UpTo(places, 0) = {}
      BY UpToAll
    <3>2. 0 \in 0..k
      OBVIOUS
    <3> QED BY <3>1, <3>2
  <2>2. ASSUME NEW n \in 1..k, n - 1 \in S PROVE n \in S
    <3>1. n \in 0..k
      OBVIOUS
    <3>2. CASE n \in places
      <4>1. n <= n
        OBVIOUS
      <4>2. n \in UpTo(places, n) /\ \A y \in UpTo(places, n) : n >= y
        BY <3>2, <4>1 DEF UpTo
      <4> QED BY <3>1, <4>2
    <3>3. CASE n \notin places
      <4>1. UpTo(places, n) = UpTo(places, n - 1)
        <5>1. \A m \in places : m <= n <=> m <= n - 1
          BY <3>3
        <5> QED BY <5>1 DEF UpTo
      <4> QED BY <2>2, <3>1, <4>1
    <3> QED BY <3>2, <3>3
  <2>3. \A n \in 0..k : n \in S
    <3> HIDE DEF S
    <3> QED BY <2>1, <2>2, Counting
  <2>4. UpTo(places, k) = places
    BY UpToAll
  <2>5. k \in 0..k
    OBVIOUS
  <2> QED BY <2>3, <2>4, <2>5
<1>2. \E x \in places : \A y \in places : x <= y
  <2> DEFINE S == {n \in 0..k : UpTo(places, n) # {} => \E x \in UpTo(places, n) : \A y \in UpTo(places, n) : x <= y}
  <2>1. 0 \in S
    <3>1. UpTo(places, 0) = {}
      BY UpToAll
    <3>2. 0 \in 0..k
      OBVIOUS
    <3> QED BY <3>1, <3>2
  <2>2. ASSUME NEW n \in 1..k, n - 1 \in S PROVE n \in S
    <3>1. n \in 0..k
      OBVIOUS
    <3>2. CASE UpTo(places, n - 1) = {}
      <4>1. \A y \in places : y <= n => y = n
        <5>1. \A y \in places : ~ (y <= n - 1)
          BY <3>2 DEF UpTo
        <5> QED BY <5>1
      <4>2. \A y \in UpTo(places, n) : y = n
        BY <4>1 DEF UpTo
      <4> QED BY <3>1, <4>2
    <3>3. CASE UpTo(places, n - 1) # {}
      <4>1. PICK x \in UpTo(places, n - 1) : \A y \in UpTo(places, n - 1) : x <= y
        BY <2>2, <3>3
      <4>2. \A y \in places : y <= n => y <= n - 1 \/ y = n
        OBVIOUS
      <4>3. x \in places /\ x <= n - 1 /\ x <= n
        BY <4>1 DEF UpTo
      <4>4. x \in UpTo(places, n) /\ \A y \in UpTo(places, n) : x <= y
        BY <4>1, <4>2, <4>3 DEF UpTo
      <4> QED BY <3>1, <4>4
    <3> QED BY <3>2, <3>3
  <2>3. \A n \in 0..k : n \in S
    <3> HIDE DEF S
    <3> QED BY <2>1, <2>2, Counting
  <2>4. UpTo(places, k) = places
    BY UpToAll
  <2>5. k \in 0..k
    OBVIOUS
  <2> QED BY <2>3, <2>4, <2>5
<1> QED BY <1>1, <1>2 DEF Design!Max, Design!Min

\* indexOf: the first section with an id, or none.
LEMMA IndexFacts ==
  ASSUME NEW s, IsList(s), NEW id
  PROVE  /\ Design!IndexOf(s, id) \in 0..Len(s)
         /\ Design!IndexOf(s, id) # 0 => s[Design!IndexOf(s, id)].id = id
         /\ Design!IndexOf(s, id) = 0 => \A n \in DOMAIN s : s[n].id # id
<1> DEFINE at == {n \in 1..Len(s) : s[n].id = id}
<1>1. Design!IndexOf(s, id) = IF at # {} THEN Design!Min(at) ELSE 0
  BY DEF Design!IndexOf, Design!SelectInSeq
<1>2. Len(s) \in Nat /\ DOMAIN s = 1..Len(s)
  BY ListFacts
<1>3. CASE at = {}
  BY <1>1, <1>2, <1>3
<1>4. CASE at # {}
  <2>1. Design!Min(at) \in at
    BY <1>2, <1>4, LastPlace
  <2> QED BY <1>1, <1>2, <1>4, <2>1
<1> QED BY <1>3, <1>4

\* The number of items that are chosen, and of those among the first ones.
LEMMA ThoseLen ==
  ASSUME NEW s, IsList(s), NEW kept
  PROVE  Len(Design!Those(s, kept)) = Cardinality({n \in DOMAIN s : s[n] \in kept})
<1> DEFINE c == Choice(s, kept)
           k == Len(s)
           places == {n \in DOMAIN s : s[n] \in kept}
<1>1. /\ IsNested(c) /\ Len(c) = k /\ Design!Those(s, kept) = Flat(c)
      /\ \A n \in DOMAIN s : c[n] = IF s[n] \in kept THEN <<s[n]>> ELSE <<>>
  BY ChoiceIsNested
<1>2. k \in Nat /\ DOMAIN s = 1..k
  BY ListFacts
<1> HIDE DEF c, k
<1>3. PICK h : /\ h[0] = <<>> /\ Flat(c) = h[k]
               /\ \A n \in 0..k : IsList(h[n])
               /\ \A n \in 1..k : h[n] = h[n - 1] \o c[n]
  BY <1>1, FlatGrows
<1>4. places \subseteq Nat \ {0} /\ places \subseteq 1..k
  BY <1>2
<1>5. \A n \in 1..k : n \in places <=> s[n] \in kept
  BY <1>2
<1> HIDE DEF places
<1> DEFINE S == {n \in 0..k : Len(h[n]) = Cardinality(UpTo(places, n))}
<1>6. 0 \in S
  <2>1. Cardinality(UpTo(places, 0)) = 0
    <3>1. places \subseteq Nat \ {0}
      BY <1>4
    <3> QED BY <3>1, UpToCounts
  <2>0. 0 \in 0..k
    BY <1>2
  <2>2. Len(h[0]) = 0
    BY <1>3, ShortLists
  <2> QED BY <2>0, <2>1, <2>2
<1>7. ASSUME NEW n \in 1..k, n - 1 \in S PROVE n \in S
  <2>1. n \in 0..k /\ n - 1 \in 0..k /\ n \in Nat /\ n > 0 /\ n - 1 \in Nat /\ n \in DOMAIN s
    BY <1>2
  <2>2. Cardinality(UpTo(places, n)) = Cardinality(UpTo(places, n - 1)) + (IF n \in places THEN 1 ELSE 0)
    BY <1>4, <2>1, UpToCounts
  <2>3. IsList(c[n]) /\ Len(c[n]) = IF n \in places THEN 1 ELSE 0
    <3>1. c[n] = IF n \in places THEN <<s[n]>> ELSE <<>>
      BY <1>1, <1>5, <2>1
    <3>2. IsList(<<s[n]>>) /\ Len(<<s[n]>>) = 1 /\ IsList(<<>>) /\ Len(<<>>) = 0
      BY ShortLists
    <3> QED BY <3>1, <3>2
  <2>4. Len(h[n]) = Len(h[n - 1]) + Len(c[n])
    <3>1. h[n] = h[n - 1] \o c[n] /\ IsList(h[n - 1])
      BY <1>3, <2>1
    <3>2. \A a, b : IsList(a) /\ IsList(b) => Len(a \o b) = Len(a) + Len(b)
      BY ListConcat
    <3>3. Len(h[n - 1] \o c[n]) = Len(h[n - 1]) + Len(c[n])
      BY <2>3, <3>1, <3>2
    <3> QED BY <3>1, <3>3
  <2>5. Len(h[n]) = Cardinality(UpTo(places, n))
    BY <1>7, <2>2, <2>3, <2>4
  <2> QED BY <2>1, <2>5
<1>8. \A n \in 0..k : n \in S
  <2> HIDE DEF S
  <2> QED BY <1>2, <1>6, <1>7, Counting
<1>9. UpTo(places, k) = places
  BY <1>2, <1>4, UpToAll
<1>10. k \in 0..k
  BY <1>2
<1> QED BY <1>1, <1>3, <1>8, <1>9, <1>10 DEF places

-----------------------------------------------------------------------------
(* Lanes and places *)

\* A lane, by any set that tells its sections.
LEMMA LaneIs ==
  ASSUME NEW s, IsList(s), NEW placement
  PROVE  /\ Design!Lane(s, placement) = Design!Those(s, {x \in Items(s) : x.placement = placement})
         /\ \A kept : (\A n \in DOMAIN s : s[n] \in kept <=> s[n].placement = placement)
                        => Design!Lane(s, placement) = Design!Those(s, kept)
         /\ IsList(Design!Lane(s, placement))
         /\ Len(Design!Lane(s, placement)) = Cardinality({n \in DOMAIN s : s[n].placement = placement})
<1> DEFINE own == {x \in Items(s) : x.placement = placement}
<1>1. Design!Lane(s, placement) = Design!Those(s, own)
  BY DEF Design!Lane, Design!ToSet, Items
<1>2. \A n \in DOMAIN s : s[n] \in own <=> s[n].placement = placement
  BY DEF Items
<1> HIDE DEF own
<1>3. ASSUME NEW kept, \A n \in DOMAIN s : s[n] \in kept <=> s[n].placement = placement
      PROVE  Design!Lane(s, placement) = Design!Those(s, kept)
  BY <1>1, <1>2, <1>3, ThoseSame
<1>4. IsList(Design!Lane(s, placement))
  BY <1>1, ChoiceIsNested
<1>5. Len(Design!Lane(s, placement)) = Cardinality({n \in DOMAIN s : s[n].placement = placement})
  <2>1. {n \in DOMAIN s : s[n] \in own} = {n \in DOMAIN s : s[n].placement = placement}
    BY <1>2
  <2>2. Len(Design!Those(s, own)) = Cardinality({n \in DOMAIN s : s[n] \in own})
    BY ThoseLen
  <2> QED BY <1>1, <2>1, <2>2
<1> QED BY <1>1, <1>3, <1>4, <1>5 DEF own

\* An item between the first ones and the others.
Splits(s, at, x, t) ==
  \E a, b : /\ IsList(a) /\ IsList(b) /\ s = a \o b
            /\ Len(a) = at - 1 /\ \A n \in 1..(at - 1) : a[n] = s[n]
            /\ t = (a \o <<x>>) \o b

\* That is InsertAt.
LEMMA InsertSplits ==
  ASSUME NEW s, IsList(s), NEW at \in 1..(Len(s) + 1), NEW x
  PROVE  Splits(s, at, x, Design!InsertAt(s, at, x))
<1> DEFINE k == Len(s)
           a == [n \in 1..(at - 1) |-> s[n]]
           b == [n \in 1..(k + 1 - at) |-> s[n + at - 1]]
<1>1. k \in Nat /\ DOMAIN s = 1..k /\ s = [n \in 1..k |-> s[n]]
  BY ListFacts
<1>2. at - 1 \in Nat /\ k + 1 - at \in Nat
  BY <1>1
<1> HIDE DEF k
<1>3. IsList(a) /\ Len(a) = at - 1
  BY <1>2, ListMade
<1>4. IsList(b) /\ Len(b) = k + 1 - at
  BY <1>2, ListMade
<1>5. Design!InsertAt(s, at, x) = (a \o <<x>>) \o b
  <2>1. SubSeq(s, 1, at - 1) = a
    <3>1. SubSeq(s, 1, at - 1) = [n \in 1..(at - 1) |-> s[n]]
      BY <1>1, <1>2
    <3> QED BY <3>1
  <2>2. SubSeq(s, at, k) = b
    BY <1>1, <1>2
  <2> QED BY <2>1, <2>2 DEF Design!InsertAt, k
<1>6. s = a \o b
  <2>1. \A n \in 1..(at - 1) : a[n] = s[n]
    OBVIOUS
  <2>2. \A n \in 1..(k + 1 - at) : b[n] = s[n + at - 1]
    OBVIOUS
  <2> HIDE DEF a, b
  <2> DEFINE ab == a \o b
  <2>3. /\ IsList(ab) /\ Len(ab) = k
        /\ \A n \in 1..k : ab[n] = IF n <= at - 1 THEN a[n] ELSE b[n - (at - 1)]
    <3>1. /\ IsList(ab) /\ Len(ab) = Len(a) + Len(b)
          /\ \A n \in 1..(Len(a) + Len(b)) : ab[n] = IF n <= Len(a) THEN a[n] ELSE b[n - Len(a)]
      BY <1>3, <1>4, ListConcat
    <3>2. Len(a) + Len(b) = k
      BY <1>1, <1>2, <1>3, <1>4
    <3> HIDE DEF ab
    <3> QED BY <1>3, <3>1, <3>2
  <2> HIDE DEF ab
  <2>4. ASSUME NEW n \in 1..k PROVE ab[n] = s[n]
    <3>1. CASE n <= at - 1
      BY <2>1, <2>3, <3>1
    <3>2. CASE ~ (n <= at - 1)
      <4>1. n - (at - 1) \in 1..(k + 1 - at) /\ (n - (at - 1)) + at - 1 = n
        BY <1>1, <3>2
      <4>2. b[n - (at - 1)] = s[n]
        BY <2>2, <4>1
      <4> QED BY <2>3, <3>2, <4>2
    <3> QED BY <3>1, <3>2
  <2>5. ab = s
    BY <1>1, <2>3, <2>4, ListEqual DEF k
  <2> QED BY <2>5 DEF ab
<1>7. \A n \in 1..(at - 1) : a[n] = s[n]
  OBVIOUS
<1> HIDE DEF a, b
<1> QED BY <1>3, <1>4, <1>5, <1>6, <1>7 DEF Splits

\* Without a section.
LEMMA WithoutFacts ==
  ASSUME NEW s, IsList(s), NEW id
  PROVE  /\ IsList(Design!Without(s, id))
         /\ Items(Design!Without(s, id)) = {x \in Items(s) : x.id # id}
         /\ Distinct(s) => Distinct(Design!Without(s, id))
         /\ \A kept : (\A n \in DOMAIN s : s[n] \in kept <=> s[n].id # id)
                        => Design!Without(s, id) = Design!Those(s, kept)
<1> DEFINE others == {x \in Items(s) : x.id # id}
<1>1. Design!Without(s, id) = Design!Those(s, others)
  BY DEF Design!Without, Design!ToSet, Items
<1>2. \A n \in DOMAIN s : s[n] \in others <=> s[n].id # id
  BY DEF Items
<1>3. others \subseteq Items(s)
  OBVIOUS
<1> HIDE DEF others
<1>4. ASSUME NEW kept, \A n \in DOMAIN s : s[n] \in kept <=> s[n].id # id
      PROVE  Design!Without(s, id) = Design!Those(s, kept)
  BY <1>1, <1>2, <1>4, ThoseSame
<1>5. IsList(Design!Without(s, id))
  BY <1>1, ChoiceIsNested
<1>6. Items(Design!Without(s, id)) = Items(s) \cap others
  BY <1>1, ThoseItems
<1>7. Distinct(s) => Distinct(Design!Without(s, id))
  BY <1>1, ThoseDistinct
<1> QED BY <1>3, <1>4, <1>5, <1>6, <1>7 DEF others

\* apply_section_move, for a lane: the section comes between the first of the others and the rest, behind as
\* many of its lane as was asked, or all of them.
LEMMA InsertFacts ==
  ASSUME NEW s, IsList(s), NEW card, NEW index \in Nat
  PROVE  \E a, b : /\ IsList(a) /\ IsList(b) /\ Design!Without(s, card.id) = a \o b
                   /\ Design!Insert(s, card, index) = (a \o <<card>>) \o b
                   /\ Len(Design!Lane(a, card.placement))
                        = Design!Min({index, Len(Design!Lane(Design!Without(s, card.id), card.placement))})
<1> DEFINE rest == Design!Without(s, card.id)
           lane == {n \in DOMAIN rest : rest[n].placement = card.placement}
           k == Len(rest)
           count == Cardinality(lane)
           first == CHOOSE n \in lane : Cardinality(Before(lane, n)) = index
           after == Design!Max(lane) + 1
           at == CASE index < count -> first
                   [] index >= count /\ lane # {} -> after
                   [] OTHER -> k + 1
<1>1. Design!Insert(s, card, index) = Design!InsertAt(rest, at, card)
  BY DEF Design!Insert, Design!Cardinality, Cardinality, Before
<1>2. IsList(rest)
  BY WithoutFacts
<1> HIDE DEF rest
<1>3. k \in Nat /\ DOMAIN rest = 1..k
  BY <1>2, ListFacts
<1>4. lane \subseteq 1..k /\ \A n \in 1..k : n \in lane <=> rest[n].placement = card.placement
  BY <1>3
<1>5. Len(Design!Lane(rest, card.placement)) = count
  BY <1>2, LaneIs
<1> HIDE DEF lane, k, first, after
<1>6. IsFiniteSet(lane) /\ count \in Nat
  <2>1. IsFiniteSet(1..k)
    BY <1>3, FS_Interval
  <2> QED BY <1>4, <2>1, FS_Subset, FS_CardinalityType
<1>7. /\ at \in 1..(k + 1)
      /\ Cardinality(Before(lane, at)) = IF index < count THEN index ELSE count
  <2>1. CASE index < count
    <3>1. at = first
      BY <1>6, <2>1
    <3>2. \E n \in lane : Cardinality(Before(lane, n)) = index
      <4> HIDE DEF at
      <4> QED BY <1>3, <1>4, <2>1, PlaceOfRank
    <3> HIDE DEF at
    <3>3. at \in lane /\ Cardinality(Before(lane, at)) = index
      BY <3>1, <3>2, Zenon DEF first
    <3>4. at \in 1..(k + 1)
      BY <1>3, <1>4, <3>3
    <3> QED BY <2>1, <3>3, <3>4
  <2>2. CASE ~ (index < count) /\ lane # {}
    <3>1. at = Design!Max(lane) + 1
      BY <1>6, <2>2 DEF after
    <3>2. Design!Max(lane) \in lane /\ \A n \in lane : n <= Design!Max(lane)
      BY <1>3, <1>4, <2>2, LastPlace
    <3> HIDE DEF at
    <3>3. Design!Max(lane) \in 1..k
      BY <1>4, <3>2
    <3>4. at \in 1..(k + 1)
      BY <1>3, <3>1, <3>3
    <3>5. ASSUME NEW m \in lane PROVE m < at
      <4>1. m \in 1..k /\ m <= Design!Max(lane)
        BY <1>4, <3>2
      <4> QED BY <3>1, <3>3, <4>1
    <3>6. Before(lane, at) = lane
      BY <3>5 DEF Before
    <3> QED BY <2>2, <3>4, <3>6
  <2>3. CASE ~ (index < count) /\ lane = {}
    <3>1. at = k + 1
      BY <1>6, <2>3
    <3> HIDE DEF at
    <3>2. Before(lane, at) = lane
      BY <2>3 DEF Before
    <3>3. at \in 1..(k + 1)
      BY <1>3, <3>1
    <3> QED BY <2>3, <3>2, <3>3
  <2> QED BY <2>1, <2>2, <2>3
<1> HIDE DEF at
<1>8. PICK a, b : /\ IsList(a) /\ IsList(b) /\ rest = a \o b
                  /\ Len(a) = at - 1 /\ \A n \in 1..(at - 1) : a[n] = rest[n]
                  /\ Design!InsertAt(rest, at, card) = (a \o <<card>>) \o b
  <2>1. at \in 1..(Len(rest) + 1)
    BY <1>7 DEF k
  <2>2. Splits(rest, at, card, Design!InsertAt(rest, at, card))
    BY <1>2, <2>1, InsertSplits
  <2> QED BY <2>2 DEF Splits
<1>9. Len(Design!Lane(a, card.placement)) = Cardinality(Before(lane, at))
  <2>1. DOMAIN a = 1..(at - 1)
    BY <1>8, ListFacts
  <2>2. {n \in DOMAIN a : a[n].placement = card.placement} = Before(lane, at)
    <3>1. ASSUME NEW n \in 1..k
          PROVE n \in DOMAIN a /\ a[n].placement = card.placement <=> n \in lane /\ n < at
      <4>1. n \in 1..(at - 1) <=> n < at
        BY <1>3, <1>7
      <4> QED BY <1>4, <1>8, <2>1, <4>1
    <3>2. DOMAIN a \subseteq 1..k
      BY <1>3, <1>7, <2>1
    <3> QED BY <1>4, <3>1, <3>2 DEF Before
  <2>3. Len(Design!Lane(a, card.placement)) = Cardinality({n \in DOMAIN a : a[n].placement = card.placement})
    BY <1>8, LaneIs
  <2> QED BY <2>2, <2>3
<1>10. Design!Min({index, count}) = IF index < count THEN index ELSE count
  <2> DEFINE least == IF index < count THEN index ELSE count
  <2>1. least \in {index, count} /\ (\A y \in {index, count} : least <= y) /\ {index, count} \subseteq Nat
    BY <1>6
  <2>2. \A x \in {index, count} : (\A y \in {index, count} : x <= y) => x = least
    BY <1>6
  <2> HIDE DEF least, count
  <2>3. Design!Min({index, count}) = least
    BY <2>1, <2>2 DEF Design!Min
  <2> QED BY <2>3 DEF least
<1> QED BY <1>1, <1>5, <1>7, <1>8, <1>9, <1>10 DEF rest

-----------------------------------------------------------------------------
(* Moves *)

\* An item between two lists, and lists without a type in common.
Holds(t, a, x, b) == t = (a \o <<x>>) \o b
Apart(s, t) == \A m \in DOMAIN s, n \in DOMAIN t : s[m].type # t[n].type

\* Lists without a type in common.
LEMMA DistinctJoined ==
  ASSUME NEW s, NEW t, IsList(s), IsList(t), NEW u, Joins(u, s, t),
         Distinct(s), Distinct(t), Apart(s, t)
  PROVE  Distinct(u)
<1>1. Distinct(s \o t)
  BY DistinctConcat DEF Apart
<1>2. u = s \o t
  BY DEF Joins
<1> QED BY <1>1, <1>2, Zenon

\* A list of cards with one more between.
LEMMA OneMoreCard ==
  ASSUME NEW a, NEW b, IsList(a), IsList(b), NEW list, Joins(list, a, b), Distinct(list),
         NEW card, \A x \in Items(list) : x.type # card.type,
         NEW t, Holds(t, a, card, b)
  PROVE  IsList(t) /\ Distinct(t) /\ Items(t) = Items(list) \cup {card}
<1> DEFINE one == <<card>>
           ac == a \o one
<1>1. IsList(one) /\ Items(one) = {card} /\ Distinct(one)
  <2>1. IsList(one) /\ Len(one) = 1 /\ one[1] = card
    BY ShortLists
  <2> HIDE DEF one
  <2>2. DOMAIN one = {1}
    BY <2>1, ListFacts
  <2>3. \A x : x \in Items(one) <=> x = card
    BY <2>1, <2>2 DEF Items
  <2>4. Distinct(one)
    BY <2>2 DEF Distinct
  <2> QED BY <2>1, <2>3, <2>4
<1>2. t = ac \o b /\ list = a \o b
  BY DEF Holds, Joins
<1> HIDE DEF one
<1>3. IsList(ac) /\ Items(ac) = Items(a) \cup {card}
  BY <1>1, ListConcat, ItemsConcat
<1>4. Items(list) = Items(a) \cup Items(b)
  BY <1>2, ItemsConcat
<1>5. Distinct(a) /\ Distinct(b) /\ \A m \in DOMAIN a, n \in DOMAIN b : a[m].type # b[n].type
  BY <1>2, DistinctConcat
<1>6. Distinct(ac)
  <2>1. \A m \in DOMAIN a, n \in DOMAIN one : a[m].type # one[n].type
    <3>1. \A m \in DOMAIN a : a[m] \in Items(a)
      BY DEF Items
    <3>2. \A n \in DOMAIN one : one[n] = card
      BY <1>1 DEF Items
    <3> QED BY <1>4, <3>1, <3>2
  <2> QED BY <1>1, <1>5, <2>1, DistinctConcat
<1> HIDE DEF ac
<1>7. Distinct(t)
  <2>1. \A m \in DOMAIN ac, n \in DOMAIN b : ac[m].type # b[n].type
    <3>1. \A n \in DOMAIN b : b[n] \in Items(b)
      BY DEF Items
    <3>2. \A m \in DOMAIN ac : ac[m] = card \/ \E l \in DOMAIN a : ac[m] = a[l]
      BY <1>3 DEF Items
    <3> QED BY <1>4, <1>5, <3>1, <3>2
  <2>2. Joins(t, ac, b) /\ Apart(ac, b)
    BY <1>2, <2>1 DEF Joins, Apart
  <2> QED BY <1>3, <1>5, <1>6, <2>2, DistinctJoined
<1>8. IsList(t)
  BY <1>2, <1>3, ListConcat
<1>9. Items(t) = Items(ac) \cup Items(b)
  BY <1>2, <1>3, ItemsConcat
<1> QED BY <1>3, <1>4, <1>7, <1>8, <1>9

\* The section comes elsewhere in the list, in the lane and at the index that were asked.
Moved(list, move, t) ==
  \E a, b, card :
    /\ IsList(a) /\ IsList(b) /\ Design!Without(list, move.id) = a \o b
    /\ t = (a \o <<card>>) \o b
    /\ IsCard(card) /\ card.id = move.id /\ card.placement = move.placement
    /\ \E n \in DOMAIN list : list[n].type = card.type
    /\ Len(Design!Lane(a, move.placement))
         = Design!Min({move.index, Len(Design!Lane(Design!Without(list, move.id), move.placement))})

\* A move to a lane: where the section was, and where it comes.
LEMMA MovedFacts ==
  ASSUME NEW s, Arranged(s), NEW move, move.op # "swap", Asked(move), Design!IndexOf(s.sections, move.id) # 0
  PROVE  Moved(s.sections, move, Design!AppliedMove(s.sections, move))
<1> DEFINE S == s.sections
           from == Design!IndexOf(S, move.id)
           card == [S[from] EXCEPT !.placement = move.placement]
<1>1. IsList(S) /\ \A n \in DOMAIN S : IsCard(S[n])
  BY DEF Arranged
<1>2. from \in DOMAIN S /\ S[from].id = move.id
  BY <1>1, IndexFacts, ListFacts
<1>3. move.placement \in {"main", "sidebar"} /\ move.index \in Nat
  BY DEF Asked
<1>4. Design!AppliedMove(S, move) = Design!Insert(S, card, move.index)
  BY DEF Design!AppliedMove
<1> HIDE DEF S, from
<1>5. IsCard(S[from])
  BY <1>1, <1>2
<1>6. IsCard(card) /\ card.id = S[from].id /\ card.type = S[from].type /\ card.placement = move.placement
  <2>1. {"placement", "id", "type"} \subseteq CardFields
    BY DEF CardFields
  <2> QED BY <1>3, <1>5, <2>1, CardByField
<1> HIDE DEF card
<1>7. PICK a, b : /\ IsList(a) /\ IsList(b) /\ Design!Without(S, card.id) = a \o b
                  /\ Design!Insert(S, card, move.index) = (a \o <<card>>) \o b
                  /\ Len(Design!Lane(a, card.placement))
                       = Design!Min({move.index, Len(Design!Lane(Design!Without(S, card.id), card.placement))})
  BY <1>1, <1>3, InsertFacts
<1>8. card.id = move.id /\ card.placement = move.placement /\ \E n \in DOMAIN S : S[n].type = card.type
  BY <1>2, <1>6
<1> QED BY <1>4, <1>6, <1>7, <1>8 DEF S, Moved

\* apply_section_move keeps the sections arranged.
LEMMA MoveArranges ==
  ASSUME NEW s, Arranged(s), NEW move, Asked(move), ~ Design!MoveRefused(s, move),
         NEW r, r.sections = Design!AppliedMove(s.sections, move), r.columns \in {1, 2}, r.template \in Templates \cup {"modern"}
  PROVE  Arranged(r)
<1> DEFINE S == s.sections
           T == r.sections
           from == Design!IndexOf(S, move.id)
           to == Design!IndexOf(S, move.target)
           k == Len(S)
<1>1. /\ IsList(S) /\ Distinct(S) /\ \A n \in DOMAIN S : IsCard(S[n])
      /\ \A type \in NewTypes \cap Offers : \E n \in DOMAIN S : S[n].type = type
  BY DEF Arranged
<1>2. k \in Nat /\ DOMAIN S = 1..k /\ S = [n \in 1..k |-> S[n]]
  BY <1>1, ListFacts
<1>3. from # 0 /\ (move.op = "swap" => to # 0)
  BY DEF Design!MoveRefused
<1>4. IsList(T) /\ Distinct(T) /\ (\A n \in DOMAIN T : IsCard(T[n]))
      /\ \A type \in NewTypes \cap Offers : \E n \in DOMAIN T : T[n].type = type
  <2>1. CASE move.op = "swap"
    <3>1. from \in 1..k /\ to \in 1..k
      BY <1>1, <1>3, <2>1, IndexFacts
    <3>2. T = [S EXCEPT ![from] = S[to], ![to] = S[from]]
      BY <2>1 DEF Design!AppliedMove
    <3> HIDE DEF S, T, from, to, k
    <3>3. /\ T = [n \in 1..k |-> T[n]]
          /\ \A n \in 1..k : T[n] = IF n = to THEN S[from] ELSE IF n = from THEN S[to] ELSE S[n]
      BY <1>2, <3>1, <3>2
    <3>4. IsList(T) /\ DOMAIN T = 1..k
      BY <1>2, <3>3, ListMade
    <3>5. T[to] = S[from] /\ T[from] = S[to] /\ \A n \in 1..k : n \notin {from, to} => T[n] = S[n]
      BY <3>1, <3>3
    <3>6. Distinct(T)
      <4> SUFFICES ASSUME NEW m \in 1..k, NEW n \in 1..k, T[m].type = T[n].type PROVE m = n
        BY <3>4 DEF Distinct
      <4>1. \A l \in 1..k, o \in 1..k : S[l].type = S[o].type => l = o
        BY <1>1, <1>2 DEF Distinct
      <4> QED BY <3>1, <3>5, <4>1
    <3>7. \A n \in 1..k : IsCard(T[n])
      BY <1>1, <1>2, <3>1, <3>3
    <3>8. ASSUME NEW type \in NewTypes \cap Offers PROVE \E n \in 1..k : T[n].type = type
      <4>1. PICK n \in 1..k : S[n].type = type
        BY <1>1, <1>2
      <4> QED BY <3>1, <3>5, <4>1
    <3> QED BY <3>4, <3>6, <3>7, <3>8
  <2>2. CASE move.op # "swap"
    <3>1. PICK a, b, card :
             /\ IsList(a) /\ IsList(b) /\ Design!Without(S, move.id) = a \o b
             /\ T = (a \o <<card>>) \o b
             /\ IsCard(card) /\ card.id = move.id
             /\ \E n \in DOMAIN S : S[n].type = card.type
      <4>1. Moved(S, move, Design!AppliedMove(S, move))
        BY <1>3, <2>2, MovedFacts
      <4>2. T = Design!AppliedMove(S, move)
        OBVIOUS
      <4> HIDE DEF S, T
      <4> QED BY <4>1, <4>2 DEF Moved
    <3> HIDE DEF S, T, from, to, k
    <3> DEFINE rest == a \o b
    <3>0. Design!Without(S, move.id) = rest
      BY <3>1
    <3>2. Items(rest) = {x \in Items(S) : x.id # move.id} /\ Distinct(rest)
      <4> HIDE DEF rest
      <4> QED BY <1>1, <3>0, WithoutFacts
    <3>3. \A x \in Items(S) : IsCard(x)
      BY <1>1 DEF Items
    <3>4. \A x \in Items(rest) : IsCard(x) /\ x.type # card.type
      BY <3>1, <3>2, <3>3 DEF IsCard
    <3>5. IsList(T) /\ Distinct(T) /\ Items(T) = Items(rest) \cup {card}
      <4>1. Joins(rest, a, b) /\ Holds(T, a, card, b)
        BY <3>1 DEF Joins, Holds
      <4> HIDE DEF rest
      <4> QED BY <3>1, <3>2, <3>4, <4>1, OneMoreCard
    <3> HIDE DEF rest
    <3>6. \A n \in DOMAIN T : IsCard(T[n])
      BY <3>1, <3>4, <3>5 DEF Items
    <3>7. ASSUME NEW type \in NewTypes \cap Offers PROVE \E n \in DOMAIN T : T[n].type = type
      <4>1. PICK n \in DOMAIN S : S[n].type = type
        BY <1>1
      <4>2. \E x \in Items(T) : x.type = type
        <5>1. CASE S[n].id = move.id
          <6>1. card.type = type
            BY <1>1, <3>1, <4>1, <5>1 DEF IsCard
          <6> QED BY <3>5, <6>1
        <5>2. CASE S[n].id # move.id
          <6>1. S[n] \in Items(rest)
            BY <3>2, <5>2 DEF Items
          <6> QED BY <3>5, <4>1, <6>1
        <5> QED BY <5>1, <5>2
      <4> QED BY <4>2 DEF Items
    <3> QED BY <3>5, <3>6, <3>7
  <2> QED BY <2>1, <2>2
<1> QED BY <1>4 DEF Arranged

-----------------------------------------------------------------------------
(* The arrangement is kept *)

\* The last normalisation of the gateway leaves the sections.
LEMMA NormalizedArranges ==
  ASSUME NEW s, Settled(s), Arranged(s)
  PROVE  Arranged(Design!Normalized(s))
<1> DEFINE n == Design!Normalized(s)
<1>1. /\ n.sections = s.sections /\ n.template = s.template
      /\ n.columns = (IF s.template = "ats" THEN 1 ELSE s.columns)
  BY NormalizedFields
<1> HIDE DEF n
<1>2. n.columns \in {1, 2} /\ n.template \in Templates \cup {"modern"}
  BY <1>1 DEF Arranged
<1>3. Arranged(n)
  BY <1>1, <1>2, ArrangedBy
<1> QED BY <1>3 DEF n

\* A field other than the sections.
LEMMA ArrangedByField ==
  ASSUME NEW s, Settled(s), Arranged(s), NEW field \in Fields \ {"sections"}, NEW value,
         field = "columns" => value \in {1, 2},
         field = "template" => value \in Templates \cup {"modern"}
  PROVE  Arranged([s EXCEPT ![field] = value])
<1> DEFINE r == [s EXCEPT ![field] = value]
<1>1. r[field] = value /\ \A f \in Fields : f # field => r[f] = s[f]
  BY DEF Settled
<1> HIDE DEF r
<1>2. {"sections", "columns", "template"} \subseteq Fields
  BY DEF Fields
<1>3. r.sections = s.sections
  BY <1>1, <1>2
<1>4. r.columns \in {1, 2}
  BY <1>1, <1>2 DEF Arranged
<1>5. r.template \in Templates \cup {"modern"}
  BY <1>1, <1>2 DEF Arranged
<1>6. Arranged(r)
  BY <1>3, <1>4, <1>5, ArrangedBy
<1> QED BY <1>6 DEF r

\* The fields, one by one.
LEMMA ArrangedFields ==
  ASSUME NEW s, Settled(s), Arranged(s), NEW value
  PROVE  /\ Arranged([s EXCEPT !.photo = value]) /\ Arranged([s EXCEPT !.onePage = value])
         /\ Arranged([s EXCEPT !.sidebar = value]) /\ Arranged([s EXCEPT !.density = value])
         /\ Arranged([s EXCEPT !.accents = value]) /\ Arranged([s EXCEPT !.linkColor = value])
         /\ Arranged([s EXCEPT !.fontSize = value]) /\ Arranged([s EXCEPT !.marginH = value])
         /\ Arranged([s EXCEPT !.marginV = value]) /\ Arranged([s EXCEPT !.spacing = value])
         /\ Arranged([s EXCEPT !.css = value])
         /\ value \in {1, 2} => Arranged([s EXCEPT !.columns = value])
<1>1. {"photo", "onePage", "sidebar", "density", "accents", "linkColor", "fontSize", "marginH", "marginV", "spacing",
       "css", "columns"} \subseteq Fields \ {"sections"}
  BY DEF Fields
<1> QED BY <1>1, ArrangedByField

\* The preset of a template.
LEMMA PresetFields ==
  ASSUME NEW s, Settled(s), NEW id \in Templates
  PROVE  /\ Design!Preset(s, id).sections = s.sections /\ Design!Preset(s, id).template = id
         /\ Design!Preset(s, id).columns \in {1, 2}
<1> DEFINE cols == IF id \in Design!SingleColumn THEN 1 ELSE 2
           side == CASE id \in Design!SingleColumn -> "none"
                        [] id \in {"creative", "atlas-sidebar"} -> "left"
                        [] OTHER -> "right"
           density == IF id \in {"compact", "ats", "signal"} THEN "compact" ELSE "normal"
           size == IF id = "compact" THEN 110 ELSE IF id = "ats" THEN 120 ELSE 130
           p == Design!Preset(s, id)
<1>1. p = [s EXCEPT !.template = id, !.columns = cols, !.sidebar = side, !.density = density, !.fontSize = size]
  BY DEF Design!Preset
<1>2. cols \in {1, 2}
  OBVIOUS
<1>3. s = [field \in Fields |-> s[field]]
  BY DEF Settled
<1>4. {"sections", "template", "columns", "sidebar", "density", "fontSize"} \subseteq Fields
  BY DEF Fields
<1> HIDE DEF cols, side, density, size, p
<1>5. p.sections = s.sections /\ p.template = id /\ p.columns = cols
  BY <1>1, <1>3, <1>4
<1> QED BY <1>2, <1>5 DEF p

\* The sections of a new resume.
LEMMA NewArranges ==
  ASSUME NEW r, r.sections = Design!NewSections, r.columns \in {1, 2}, r.template \in Templates \cup {"modern"}
  PROVE  Arranged(r)
<1> DEFINE D == Design!DefaultSections
           kept == {section \in Design!ToSet(D) : section.type \in Design!ToSet(Catalogue)}
           N == Design!NewSections
<1>1. /\ D = <<Design!Section("experience", "main"), Design!Section("projects", "main"), Design!Section("skills", "sidebar"),
               Design!Section("education", "sidebar"), Design!Section("languages", "sidebar"),
               Design!Section("interests", "sidebar")>>
  BY DEF Design!DefaultSections
<1>2. \A type, placement : Design!Section(type, placement).type = type
  BY DEF Design!Section
<1>3. N = Design!Those(D, kept)
  BY DEF Design!NewSections
<1> HIDE DEF D, N
<1>4. IsList(D) /\ DOMAIN D = 1..6
  <2>1. D = [n \in 1..6 |-> D[n]]
    BY <1>1
  <2> QED BY <2>1, ListMade
<1>5. /\ D[1] = Design!Section("experience", "main") /\ D[2] = Design!Section("projects", "main")
      /\ D[3] = Design!Section("skills", "sidebar") /\ D[4] = Design!Section("education", "sidebar")
      /\ D[5] = Design!Section("languages", "sidebar") /\ D[6] = Design!Section("interests", "sidebar")
  BY <1>1
<1>6. /\ D[1].type = "experience" /\ D[2].type = "projects" /\ D[3].type = "skills"
      /\ D[4].type = "education" /\ D[5].type = "languages" /\ D[6].type = "interests"
  BY <1>2, <1>5
<1>7. Distinct(D)
  BY <1>4, <1>6 DEF Distinct
<1>8. \A type \in NewTypes : \E n \in 1..6 : D[n].type = type
  BY <1>6 DEF NewTypes
<1>9. ASSUME NEW n \in 1..6, D[n].type \in Offers PROVE IsCard(D[n])
  <2>1. PICK placement \in {"main", "sidebar"} : D[n] = Design!Section(D[n].type, placement)
    BY <1>5, <1>6
  <2>2. IsCard(Design!Section(D[n].type, placement))
    BY <1>9, SectionIsCard
  <2> QED BY <2>1, <2>2, Zenon
<1>10. \A x : x \in kept <=> x \in Items(D) /\ x.type \in Offers
  BY DEF Items, Offers, Design!ToSet
<1> HIDE DEF kept
<1>11. IsList(N) /\ Distinct(N) /\ Items(N) = Items(D) \cap kept
  BY <1>3, <1>4, <1>7, ChoiceIsNested, ThoseDistinct, ThoseItems
<1>12. \A n \in DOMAIN N : IsCard(N[n])
  <2>1. \A x \in Items(N) : IsCard(x)
    BY <1>4, <1>9, <1>10, <1>11 DEF Items
  <2> QED BY <2>1 DEF Items
<1>13. ASSUME NEW type \in NewTypes \cap Offers PROVE \E n \in DOMAIN N : N[n].type = type
  <2>1. PICK n \in 1..6 : D[n].type = type
    BY <1>8
  <2>2. D[n] \in Items(N)
    BY <1>4, <1>10, <1>11, <2>1 DEF Items
  <2> QED BY <2>1, <2>2 DEF Items
<1> QED BY <1>11, <1>12, <1>13 DEF Arranged, N

\* The sections of the reset: those of the catalogue.
LEMMA ResetArranges ==
  ASSUME catalogue = Design!FallbackCatalogue
  PROVE  Arranged(Design!Resolved(Design!Blank))
<1> DEFINE b == Design!Blank
           r == Design!Resolved(b)
           D == [n \in DOMAIN catalogue.types |-> Design!DefaultSection(n)]
<1>1. b.sections = <<>> /\ b.columns = 2 /\ b.template = "modern"
  BY DEF Design!Blank
<1>2. Settled(b)
  BY BlankSettles
<1> HIDE DEF b
<1>3. D = Defaults
  BY DefaultsAre
<1>4. Design!MergeSections(b) = Defaults
  <2> DEFINE known == {section \in Design!ToSet(b.sections) : section.type \in Design!ToSet(catalogue.types)}
             rest == {section \in Design!ToSet(D) : section.type \notin {one.type : one \in Design!ToSet(b.sections)}}
  <2>1. Design!MergeSections(b) = Design!Those(b.sections, known) \o Design!Those(D, rest)
    BY DEF Design!MergeSections
  <2>2. Design!Those(b.sections, known) = <<>>
    <3> HIDE DEF known
    <3>1. IsList(<<>>) /\ Items(<<>>) = {}
      BY ShortLists DEF Items
    <3> QED BY <1>1, <3>1, ThoseAllOrNone
  <2>3. Design!Those(D, rest) = Defaults
    <3>1. Items(D) \subseteq rest
      BY <1>1 DEF Items, Design!ToSet
    <3> HIDE DEF D, rest
    <3> QED BY <1>3, <3>1, DefaultsFacts, ThoseAllOrNone
  <2> HIDE DEF D, rest, known
  <2> QED BY <2>1, <2>2, <2>3, DefaultsFacts, ListConcat
<1>5. r = [b EXCEPT !.sections = Defaults]
  BY <1>4 DEF Design!Resolved
<1> HIDE DEF r
<1>6. r.sections = Defaults /\ r.columns = 2 /\ r.template = "modern"
  <2>1. {"sections", "columns", "template"} \subseteq Fields
    BY DEF Fields
  <2> QED BY <1>1, <1>2, <1>5, <2>1 DEF Settled
<1>7. \A type \in Offers : \E n \in DOMAIN Defaults : Defaults[n].type = type
  BY DefaultsFacts DEF Offers
<1>8. Arranged(r)
  BY <1>6, <1>7, DefaultsFacts DEF Arranged
<1> QED BY <1>8 DEF r, b

\* A new resume, as created and after a first edit.
LEMMA BoardOpens ==
  ASSUME Design!Init
  PROVE  BoardIInv
<1>1. PICK id \in Templates : LET new == Design!Normalized([Design!Preset(Design!Blank, id) EXCEPT !.sections = Design!NewSections]) IN
                              local \in {new, Design!Resolved(new)}
  BY DEF Design!Init
<1> DEFINE preset == Design!Preset(Design!Blank, id)
           base == [preset EXCEPT !.sections = Design!NewSections]
           new == Design!Normalized(base)
<1>2. Settled(preset)
  BY BlankSettles, PresetSettles, TemplatesAssumption
<1>3. preset.template = id /\ preset.columns \in {1, 2}
  BY BlankSettles, PresetFields
<1> HIDE DEF preset
<1>4. Settled(base)
  BY <1>2, PlainFields
<1>5. base.sections = Design!NewSections /\ base.columns \in {1, 2} /\ base.template \in Templates \cup {"modern"}
  <2>1. {"sections", "columns", "template"} \subseteq Fields
    BY DEF Fields
  <2> QED BY <1>2, <1>3, <2>1 DEF Settled
<1> HIDE DEF base
<1>6. Arranged(base)
  BY <1>5, NewArranges
<1>7. Settled(new) /\ Arranged(new)
  BY <1>4, <1>6, NormalizedFields, NormalizedArranges
<1>8. local \in {new, Design!Resolved(new)}
  BY <1>1 DEF base, preset
<1> HIDE DEF new
<1>9. catalogue = Design!FallbackCatalogue
  BY FetchedIsFallback DEF Design!Init
<1>10. Arranged(local)
  BY <1>7, <1>8, <1>9, ResolvedArranges
<1>11. Counted(rows)
  <2>1. rows \in Rows
    BY DEF Design!Init
  <2>2. rows \in [SectionTypes -> Nat] /\ \A type \in SectionTypes : rows[type] > 0 => \E n \in DOMAIN Catalogue : Catalogue[n] = type
    BY <2>1, RowsAssumption DEF SectionTypes
  <2>3. ASSUME NEW type \in SectionTypes, type \notin Offers PROVE rows[type] = 0
    <3>1. rows[type] \in Nat /\ ~ (rows[type] > 0)
      BY <2>2, <2>3 DEF Offers
    <3> QED BY <3>1
  <2> HIDE DEF SectionTypes
  <2> QED BY <2>2, <2>3 DEF Counted
<1> QED BY <1>9, <1>10, <1>11 DEF Design!Init, BoardIInv

-----------------------------------------------------------------------------
(* The steps of the editor *)

\* A control of the panel.
LEMMA UpdateArranges ==
  ASSUME BoardIInv, NEW s, Arranged(s), Design!Update(s)
  PROVE  BoardIInv'
  BY DEF BoardIInv, Arranged, Counted, Asked, Design!Update, Design!calls, Design!FallbackCatalogue

\* What the panel shows.
LEMMA ShownArranges ==
  ASSUME DesignIInv, BoardIInv
  PROVE  Settled(Design!Shown) /\ Arranged(Design!Shown)
<1>1. Settled(local) /\ Arranged(local) /\ catalogue = Design!FallbackCatalogue
  BY DEF DesignIInv, BoardIInv
<1> QED BY <1>1, ResolvedSettles, ResolvedArranges DEF Design!Shown

\* Arrangement is of the constants and the settings.
LEMMA BoardParts ==
  ASSUME BoardIInv, catalogue' = catalogue, Counted(rows'), Arranged(local'),
         applying' # None => Arranged(applying'.settings),
         uploading' # None => Arranged(uploading'.settings),
         moving' # None => Arranged(moving'.settings) /\ Counted(moving'.rows) /\ Asked(moving'.move)
  PROVE  BoardIInv'
  BY DEF BoardIInv, Arranged, Counted, Asked, Design!FallbackCatalogue

\* The controls of the panel that leave the sections.
LEMMA FieldEditsArrange ==
  ASSUME DesignIInv, BoardIInv,
         \/ Design!EditDocument \/ Design!EditSpacing \/ Design!EditLayout \/ Design!EditDensity \/ Design!EditTypography
         \/ Design!EditLinks \/ Design!TogglePhoto \/ Design!EnableCss \/ Design!RestoreCss \/ Design!ResetSettings
         \/ (\E target : Design!ToggleAccent(target)) \/ (\E mark : Design!CssMode(mark))
         \/ (\E text : Design!TypeCss(text))
  PROVE  BoardIInv'
<1> DEFINE s == Design!Shown
<1>1. Settled(s) /\ Arranged(s)
  BY ShownArranges
<1>2. \A value : /\ Arranged([s EXCEPT !.photo = value]) /\ Arranged([s EXCEPT !.onePage = value])
                 /\ Arranged([s EXCEPT !.sidebar = value]) /\ Arranged([s EXCEPT !.density = value])
                 /\ Arranged([s EXCEPT !.accents = value]) /\ Arranged([s EXCEPT !.linkColor = value])
                 /\ Arranged([s EXCEPT !.fontSize = value]) /\ Arranged([s EXCEPT !.marginH = value])
                 /\ Arranged([s EXCEPT !.marginV = value]) /\ Arranged([s EXCEPT !.spacing = value])
                 /\ Arranged([s EXCEPT !.css = value])
                 /\ value \in {1, 2} => Arranged([s EXCEPT !.columns = value])
  BY <1>1, ArrangedFields
<1>3. catalogue = Design!FallbackCatalogue
  BY DEF BoardIInv
<1>4. CASE Design!EditDocument \/ Design!EditSpacing \/ Design!EditTypography
  BY <1>2, <1>4, UpdateArranges DEF Design!EditDocument, Design!EditSpacing, Design!EditTypography
<1>5. CASE Design!EditLayout
  <2>1. catalogue.columns = {1, 2}
    BY <1>3, FallbackFacts
  <2> QED BY <1>2, <1>5, <2>1, UpdateArranges DEF Design!EditLayout
<1>6. CASE Design!EditDensity
  BY <1>2, <1>6, UpdateArranges DEF Design!EditDensity
<1>7. CASE Design!EditLinks
  BY <1>2, <1>7, UpdateArranges DEF Design!EditLinks
<1>8. CASE Design!TogglePhoto
  BY <1>2, <1>8, UpdateArranges DEF Design!TogglePhoto
<1>9. CASE \E target : Design!ToggleAccent(target)
  BY <1>2, <1>9, UpdateArranges DEF Design!ToggleAccent
<1>10. CASE Design!ResetSettings
  BY <1>3, <1>10, ResetArranges, UpdateArranges DEF Design!ResetSettings
<1>11. CASE Design!EnableCss \/ Design!RestoreCss \/ (\E mark : Design!CssMode(mark)) \/ (\E text : Design!TypeCss(text))
  <2>1. \E css : Design!Update([s EXCEPT !.css = css])
    BY <1>11, Zenon DEF Design!EnableCss, Design!RestoreCss, Design!CssMode, Design!TypeCss
  <2> QED BY <1>2, <2>1, UpdateArranges, Zenon
<1> QED BY <1>4, <1>5, <1>6, <1>7, <1>8, <1>9, <1>10, <1>11

\* A card with one of its switches turned.
LEMMA Switched ==
  ASSUME NEW c, IsCard(c), NEW card,
         \/ card = [c EXCEPT !.visible = ~ c.visible] \/ card = [c EXCEPT !.pageBreak = ~ c.pageBreak]
         \/ card = [c EXCEPT !.dates = ~ c.dates] \/ card = [c EXCEPT !.locations = ~ c.locations]
         \/ card = [c EXCEPT !.subtitleFirst = ~ c.subtitleFirst]
  PROVE  IsCard(card) /\ card.type = c.type
<1>1. {"visible", "pageBreak", "dates", "locations", "subtitleFirst", "type"} \subseteq CardFields
  BY DEF CardFields
<1>2. PICK field, value :
         field \in {"visible", "pageBreak", "dates", "locations", "subtitleFirst"} /\ card = [c EXCEPT ![field] = value] /\ (field = "visible" => value \in BOOLEAN)
  <2> DEFINE flip(on) == ~ on
  <2>1. \A on : flip(on) \in BOOLEAN
    OBVIOUS
  <2>2. \/ card = [c EXCEPT !["visible"] = flip(c.visible)] \/ card = [c EXCEPT !["pageBreak"] = flip(c.pageBreak)]
        \/ card = [c EXCEPT !["dates"] = flip(c.dates)] \/ card = [c EXCEPT !["locations"] = flip(c.locations)]
        \/ card = [c EXCEPT !["subtitleFirst"] = flip(c.subtitleFirst)]
    BY Zenon
  <2> HIDE DEF flip
  <2> QED BY <2>1, <2>2
<1>3. IsCard(card)
  BY <1>1, <1>2, CardByField
<1>4. card.type = c.type
  BY <1>1, <1>2, CardByField
<1> QED BY <1>3, <1>4

\* The switches of a card.
LEMMA CardEditsArrange ==
  ASSUME DesignIInv, BoardIInv, NEW n, Design!EditSection(n)
  PROVE  BoardIInv'
<1> DEFINE s == Design!Shown
           S == s.sections
<1>1. Settled(s) /\ Arranged(s)
  BY ShownArranges
<1>2. n \in DOMAIN S
  BY DEF Design!EditSection
<1>3. PICK card : /\ Design!Update([s EXCEPT !.sections = [S EXCEPT ![n] = card]])
                  /\ \/ card = [S[n] EXCEPT !.visible = ~ S[n].visible]
                     \/ card = [S[n] EXCEPT !.pageBreak = ~ S[n].pageBreak]
                     \/ card = [S[n] EXCEPT !.dates = ~ S[n].dates]
                     \/ card = [S[n] EXCEPT !.locations = ~ S[n].locations]
                     \/ card = [S[n] EXCEPT !.subtitleFirst = ~ S[n].subtitleFirst]
  BY Zenon DEF Design!EditSection
<1> HIDE DEF s
<1>4. IsCard(S[n])
  BY <1>1, <1>2 DEF Arranged
<1>5. IsCard(card) /\ card.type = S[n].type
  <2> DEFINE c == S[n]
  <2>1. IsCard(c)
    BY <1>4
  <2>2. \/ card = [c EXCEPT !.visible = ~ c.visible] \/ card = [c EXCEPT !.pageBreak = ~ c.pageBreak]
        \/ card = [c EXCEPT !.dates = ~ c.dates] \/ card = [c EXCEPT !.locations = ~ c.locations]
        \/ card = [c EXCEPT !.subtitleFirst = ~ c.subtitleFirst]
    BY <1>3
  <2> HIDE DEF c
  <2> QED BY <2>1, <2>2, Switched DEF c
<1> DEFINE r == [s EXCEPT !.sections = [S EXCEPT ![n] = card]]
<1>6. r.sections = [S EXCEPT ![n] = card] /\ r.columns = s.columns /\ r.template = s.template
  <2> DEFINE T == [S EXCEPT ![n] = card]
  <2>1. {"sections", "columns", "template"} \subseteq Fields
    BY DEF Fields
  <2> HIDE DEF T
  <2> QED BY <1>1, <2>1 DEF Settled
<1>7. Arranged(r)
  <2> HIDE DEF r
  <2> QED BY <1>1, <1>2, <1>5, <1>6, ArrangedCard
<1> QED BY <1>3, <1>7, UpdateArranges

\* The forms: rows of a type of the catalogue.
LEMMA FormEditsArrange ==
  ASSUME DesignIInv, BoardIInv,
         \/ Design!EditMainSections \/ Design!EditAdvancedSections \/ Design!EditCustomSections
         \/ Design!EditProfile \/ Design!RemovePhoto
  PROVE  BoardIInv'
<1>1. ASSUME NEW part, Design!EditRows(part) PROVE BoardIInv'
  <2>1. part \in Offers
    BY <1>1 DEF Design!EditRows, Offers, Design!ToSet
  <2>2. Offers \subseteq SectionTypes
    BY CatalogueAssumption DEF Offers, SectionTypes
  <2>3. Counted(rows) /\ rows[part] \in Nat
    BY <2>1, <2>2 DEF BoardIInv, Counted
  <2>4. PICK count \in Nat : Design!SyncRows(part, count)
    <3>1. rows[part] + 1 \in Nat /\ (rows[part] > 0 => rows[part] - 1 \in Nat)
      BY <2>3
    <3>2. Design!SyncRows(part, rows[part] + 1) \/ (rows[part] > 0 /\ Design!SyncRows(part, rows[part] - 1))
      BY <1>1 DEF Design!EditRows
    <3> QED BY <3>1, <3>2, Zenon
  <2>5. Counted(rows')
    <3>1. rows' = [rows EXCEPT ![part] = count]
      BY <2>4 DEF Design!SyncRows
    <3> HIDE DEF SectionTypes, Offers
    <3> QED BY <2>1, <2>2, <2>3, <3>1 DEF Counted
  <2> QED BY <2>4, <2>5, BoardParts DEF BoardIInv, Design!SyncRows, Design!calls
<1>2. CASE Design!EditMainSections \/ Design!EditAdvancedSections \/ Design!EditCustomSections
  BY <1>1, <1>2 DEF Design!EditMainSections, Design!EditAdvancedSections, Design!EditCustomSections
<1>3. CASE Design!EditProfile
  BY <1>3, BoardParts DEF BoardIInv, Design!EditProfile, Design!calls
<1>4. CASE Design!RemovePhoto
  <2>1. Arranged([Design!Shown EXCEPT !.photo = FALSE])
    BY ShownArranges, ArrangedFields
  <2>2. Arranged(local')
    BY <1>4, <2>1 DEF Design!RemovePhoto
  <2> QED BY <1>4, <2>2, BoardParts DEF BoardIInv, Design!RemovePhoto, Design!calls
<1> QED BY <1>2, <1>3, <1>4

\* A place in a lane is asked for with a placement of the board and an index of it.
LEMMA PlaceIsAsked ==
  ASSUME NEW id \in Offers, NEW placement \in {"main", "sidebar"}, NEW index \in Nat
  PROVE  Asked(Design!MoveTo(id, placement, index))
  BY DEF Asked, Design!MoveTo

\* What a drag, a key or a button of the board asks for.
LEMMA MovesAreAsked ==
  ASSUME DesignIInv, BoardIInv, Design!MoveSection
  PROVE  \E move : Asked(move) /\ Design!PersistMove(move)
<1> DEFINE S == Design!Shown.sections
           Lane(placement) == Design!Lane(S, placement)
<1>1. IsList(S) /\ \A n \in DOMAIN S : IsCard(S[n])
  BY ShownArranges DEF Arranged
<1>2. \A x \in Design!ToSet(S) : x.placement \in {"main", "sidebar"} /\ x.id \in Offers
  BY <1>1 DEF IsCard, Design!ToSet
<1>3. Len(Catalogue) \in Nat
  BY DefaultsFacts
<1>4. ASSUME NEW placement, NEW id
      PROVE  IsList(Design!Without(Lane(placement), id)) /\ Len(Design!Without(Lane(placement), id)) \in Nat
  BY <1>1, LaneIs, WithoutFacts, ListFacts
<1>5. PICK section \in Design!ToSet(S) :
       \/ Design!Transfer(section)
       \/ \E delta \in {-1, 1} : Design!MoveByOne(section, delta)
       \/ \E over \in Design!ToSet(S) : \/ Design!DropWithShift(section, over)
                                        \/ \E after \in BOOLEAN : Design!DropOnCard(section, over, after)
       \/ \E placement \in {"main", "sidebar"} :
            \/ Design!DropOnLane(section, placement)
            \/ \E index \in 0..(Len(Catalogue) - 1) : Design!KeyboardDrop(section, placement, index)
  BY DEF Design!MoveSection
<1>12. section.placement \in {"main", "sidebar"} /\ section.id \in Offers
  BY <1>2
<1>6. CASE Design!Transfer(section)
  <2>1. Design!Other(section.placement) \in {"main", "sidebar"} /\ Design!EndOfLane \in Nat
    BY DEF Design!Other, Design!EndOfLane
  <2> QED BY <1>6, <1>12, <2>1, PlaceIsAsked DEF Design!Transfer
<1>7. ASSUME NEW delta \in {-1, 1}, Design!MoveByOne(section, delta) PROVE \E move : Asked(move) /\ Design!PersistMove(move)
  <2> DEFINE at == Design!IndexOf(Design!CardLane(section), section.id) - 1
  <2>1. /\ at + delta \in 0..(Len(Design!CardLane(section)) - 1)
        /\ Design!PersistMove(Design!MoveTo(section.id, section.placement, at + delta))
    BY <1>7 DEF Design!MoveByOne
  <2> HIDE DEF at
  <2>2. at + delta \in Nat
    BY <2>1
  <2> QED BY <1>12, <2>1, <2>2, PlaceIsAsked
<1>8. ASSUME NEW over, Design!DropWithShift(section, over) PROVE \E move : Asked(move) /\ Design!PersistMove(move)
  BY <1>8, <1>12 DEF Design!DropWithShift, Asked
<1>9. ASSUME NEW over \in Design!ToSet(S), NEW after \in BOOLEAN, Design!DropOnCard(section, over, after)
      PROVE  \E move : Asked(move) /\ Design!PersistMove(move)
  <2> DEFINE placement == IF Design!TwoColumnBoard(Design!Shown) THEN over.placement ELSE section.placement
             lane == Design!Without(Lane(placement), section.id)
             at == Design!IndexOf(lane, over.id)
             index == IF at > 0 THEN at - 1 + IF after THEN 1 ELSE 0 ELSE Len(lane)
  <2>1. Design!PersistMove(Design!MoveTo(section.id, placement, index))
    BY <1>9 DEF Design!DropOnCard
  <2>2. placement \in {"main", "sidebar"}
    BY <1>2
  <2>3. IsList(lane) /\ Len(lane) \in Nat
    BY <1>4
  <2> HIDE DEF placement, lane
  <2>4. at \in 0..Len(lane)
    BY <2>3, IndexFacts
  <2>5. index \in Nat
    <3> HIDE DEF at
    <3> QED BY <2>3, <2>4
  <2> HIDE DEF index
  <2> QED BY <1>12, <2>1, <2>2, <2>5, PlaceIsAsked
<1>10. ASSUME NEW placement \in {"main", "sidebar"}, Design!DropOnLane(section, placement)
       PROVE  \E move : Asked(move) /\ Design!PersistMove(move)
  <2> DEFINE target == IF Design!TwoColumnBoard(Design!Shown) THEN placement ELSE section.placement
             index == Len(Design!Without(Lane(target), section.id))
  <2>1. Design!PersistMove(Design!MoveTo(section.id, target, index))
    BY <1>10 DEF Design!DropOnLane
  <2>2. target \in {"main", "sidebar"}
    BY <1>2
  <2>3. index \in Nat
    BY <1>4
  <2> HIDE DEF target, index
  <2> QED BY <1>12, <2>1, <2>2, <2>3, PlaceIsAsked
<1>11. ASSUME NEW placement \in {"main", "sidebar"}, NEW index \in 0..(Len(Catalogue) - 1),
              Design!KeyboardDrop(section, placement, index)
       PROVE  \E move : Asked(move) /\ Design!PersistMove(move)
  <2> DEFINE target == IF Design!TwoColumnBoard(Design!Shown) THEN placement ELSE section.placement
  <2>1. Design!PersistMove(Design!MoveTo(section.id, target, index))
    BY <1>11 DEF Design!KeyboardDrop
  <2>2. target \in {"main", "sidebar"}
    BY <1>2
  <2> HIDE DEF target
  <2>3. index \in Nat
    BY <1>3
  <2> QED BY <1>12, <2>1, <2>2, <2>3, PlaceIsAsked
<1> HIDE DEF S
<1> QED BY <1>5, <1>6, <1>7, <1>8, <1>9, <1>10, <1>11

\* A call takes the settings of the moment.
LEMMA CallsArrange ==
  ASSUME DesignIInv, BoardIInv,
         \/ \E id \in Templates : Design!ApplyTemplate(id)
         \/ Design!UploadPhoto \/ Design!MoveSection
  PROVE  BoardIInv'
<1>1. ASSUME NEW id \in Templates, Design!ApplyTemplate(id) PROVE BoardIInv'
  <2>1. applying'.settings = local
    BY <1>1 DEF Design!ApplyTemplate
  <2> QED BY <1>1, <2>1, BoardParts DEF BoardIInv, Design!ApplyTemplate
<1>2. CASE Design!UploadPhoto
  <2>1. uploading'.settings = Design!Shown /\ Arranged(Design!Shown)
    BY <1>2, ShownArranges DEF Design!UploadPhoto
  <2> QED BY <1>2, <2>1, BoardParts DEF BoardIInv, Design!UploadPhoto
<1>3. CASE Design!MoveSection
  <2>1. PICK move : Asked(move) /\ Design!PersistMove(move)
    BY <1>3, MovesAreAsked
  <2>2. moving'.settings = local /\ moving'.rows = rows /\ moving'.move = move
    BY <2>1 DEF Design!PersistMove
  <2> QED BY <2>1, <2>2, BoardParts DEF BoardIInv, Design!PersistMove
<1> QED BY <1>1, <1>2, <1>3

\* An answer gives back what was sent, changed.
LEMMA AnswersArrange ==
  ASSUME DesignIInv, BoardIInv, Design!Answers
  PROVE  BoardIInv'
<1>1. CASE Design!TemplateApplied
  <2>1. applying # None /\ applying.id \in Templates /\ Settled(applying.settings) /\ Arranged(applying.settings)
    BY <1>1 DEF DesignIInv, BoardIInv, Design!TemplateApplied
  <2> DEFINE p == Design!Preset(applying.settings, applying.id)
  <2>2. Settled(p)
    BY <2>1, PresetSettles, TemplatesAssumption
  <2>3. p.sections = applying.settings.sections /\ p.columns \in {1, 2} /\ p.template \in Templates \cup {"modern"}
    BY <2>1, PresetFields
  <2> HIDE DEF p
  <2>4. Arranged(Design!Normalized(p))
    BY <2>1, <2>2, <2>3, ArrangedBy, NormalizedArranges
  <2>5. Arranged(local')
    BY <1>1, <2>4 DEF BoardIInv, Design!TemplateApplied, p
  <2> QED BY <1>1, <2>5, BoardParts DEF BoardIInv, Design!TemplateApplied
<1>2. CASE Design!PhotoUploaded
  <2>1. Settled(uploading.settings) /\ Arranged(uploading.settings)
    BY <1>2 DEF DesignIInv, BoardIInv, Design!PhotoUploaded
  <2>2. Arranged([uploading.settings EXCEPT !.photo = TRUE])
    BY <2>1, ArrangedFields
  <2>3. Arranged(local')
    BY <1>2, <2>2 DEF BoardIInv, Design!PhotoUploaded
  <2> QED BY <1>2, <2>3, BoardParts DEF BoardIInv, Design!PhotoUploaded
<1>3. CASE Design!SectionMoved
  <2> DEFINE s == moving.settings
             T == Design!AppliedMove(s.sections, moving.move)
             r == [s EXCEPT !.sections = T]
  <2>1. Settled(s) /\ Arranged(s) /\ Counted(moving.rows) /\ Asked(moving.move)
    BY <1>3 DEF DesignIInv, BoardIInv, Design!SectionMoved
  <2>2. CASE Design!MoveRefused(moving.settings, moving.move)
    <3>1. UNCHANGED <<local, rows>>
      BY <1>3, <2>2 DEF Design!SectionMoved
    <3> QED BY <1>3, <3>1, BoardParts DEF BoardIInv, Design!SectionMoved
  <2>3. CASE ~ Design!MoveRefused(moving.settings, moving.move)
    <3>1. local' = Design!Normalized(r) /\ rows' = moving.rows
      BY <1>3, <2>3 DEF Design!SectionMoved
    <3>2. r.sections = T /\ r.columns = s.columns /\ r.template = s.template /\ Settled(r)
      <4> HIDE DEF s, T
      <4>1. {"sections", "columns", "template"} \subseteq Fields
        BY DEF Fields
      <4> QED BY <2>1, <4>1, PlainFields DEF Settled
    <3> HIDE DEF r
    <3>3. r.columns \in {1, 2} /\ r.template \in Templates \cup {"modern"}
      BY <2>1, <3>2 DEF Arranged
    <3>4. Arranged(r)
      BY <2>1, <2>3, <3>2, <3>3, MoveArranges
    <3>5. Arranged(local')
      BY <3>1, <3>2, <3>4, NormalizedArranges
    <3> QED BY <1>3, <2>1, <3>1, <3>5, BoardParts DEF BoardIInv, Design!SectionMoved
  <2> QED BY <2>2, <2>3
<1> QED BY <1>1, <1>2, <1>3 DEF Design!Answers

\* Together, one case per action.
LEMMA BoardStep ==
  ASSUME DesignIInv, BoardIInv, Design!Next
  PROVE  BoardIInv'
  BY FieldEditsArrange, CardEditsArrange, FormEditsArrange, CallsArrange, AnswersArrange DEF Design!Next

-----------------------------------------------------------------------------
(* What a section prints *)

\* A section prints one block, a custom one a block for each of its rows, when it is visible and has rows.
Prints(content, type, seen) ==
  IF ~ seen \/ content[type] = 0 THEN <<>>
  ELSE [row \in 1..(IF type = "custom" THEN content[type] ELSE 1) |-> type]

\* Blocks take a place on the page.
Filled(blocks) == IsList(blocks) /\ \A n \in DOMAIN blocks : blocks[n].rows \in Nat \ {0}

\* The types of no block, and of one.
LEMMA TypesShort ==
  /\ Design!Types(<<>>) = <<>>
  /\ \A block : Design!Types(<<block>>) = <<block.type>>
<1>1. Design!Types(<<>>) = <<>>
  <2>1. IsList(Design!Types(<<>>)) /\ Len(Design!Types(<<>>)) = 0
    BY ShortLists, TypesConcat
  <2> QED BY <2>1, ListEqual, ShortLists
<1>2. ASSUME NEW block PROVE Design!Types(<<block>>) = <<block.type>>
  <2>1. IsList(Design!Types(<<block>>)) /\ Len(Design!Types(<<block>>)) = 1
    BY ShortLists, TypesConcat
  <2>2. Design!Types(<<block>>)[1] = block.type
    BY DEF Design!Types
  <2>3. IsList(<<block.type>>) /\ Len(<<block.type>>) = 1 /\ <<block.type>>[1] = block.type
    BY ShortLists
  <2> QED BY <2>1, <2>2, <2>3, ListEqual
<1> QED BY <1>1, <1>2

\* A list of types.
LEMMA PrintsFacts ==
  ASSUME NEW content, Counted(content), NEW type \in SectionTypes, NEW seen
  PROVE  /\ IsList(Prints(content, type, seen))
         /\ content[type] = 0 \/ ~ seen => Prints(content, type, seen) = <<>>
         /\ content[type] # 0 /\ seen /\ type # "custom" => Prints(content, type, seen) = <<type>>
         /\ content[type] # 0 /\ seen /\ type = "custom"
              => Prints(content, type, seen) = [row \in 1..content[type] |-> type]
<1> DEFINE k == content[type]
           list == Prints(content, type, seen)
           bound == IF type = "custom" THEN k ELSE 1
<1>1. k \in Nat
  BY DEF Counted
<1>2. list = IF ~ seen \/ k = 0 THEN <<>> ELSE [row \in 1..bound |-> type]
  BY DEF Prints
<1>3. bound \in Nat /\ (type = "custom" => bound = k) /\ (type # "custom" => bound = 1)
  BY <1>1
<1> HIDE DEF list, k, bound
<1>4. ASSUME NEW n \in Nat
      PROVE  IsList([row \in 1..n |-> type]) /\ Len([row \in 1..n |-> type]) = n
  <2> DEFINE t == [row \in 1..n |-> type]
  <2>1. t = [row \in 1..n |-> t[row]]
    OBVIOUS
  <2> HIDE DEF t
  <2> QED BY <2>1, ListMade DEF t
<1>5. [row \in 1..1 |-> type] = <<type>>
  <2>1. IsList(<<type>>) /\ Len(<<type>>) = 1 /\ <<type>>[1] = type
    BY ShortLists
  <2>2. IsList([row \in 1..1 |-> type]) /\ Len([row \in 1..1 |-> type]) = 1
    BY <1>4
  <2> QED BY <2>1, <2>2, ListEqual
<1>6. IsList(list)
  <2>1. CASE ~ seen \/ k = 0
    BY <1>2, <2>1, ShortLists
  <2>2. CASE ~ (~ seen \/ k = 0)
    BY <1>2, <1>3, <1>4, <2>2
  <2> QED BY <2>1, <2>2
<1> QED BY <1>2, <1>3, <1>5, <1>6 DEF list, k

\* A section as the renderer has it.
IsNumbered(x) == x = [field \in CardFields \cup {"order"} |-> x[field]]

\* The section numbered for the page, and with another place.
LEMMA NumberedFacts ==
  ASSUME NEW section, NEW copy, NEW order, NEW x, x = Design!Numbered(section, copy, order)
  PROVE  /\ IsNumbered(x) /\ x.type = section.type /\ x.visible = section.visible /\ x.placement = section.placement
         /\ LET y == [x EXCEPT !.placement = "main"]
            IN IsNumbered(y) /\ y.type = section.type /\ y.visible = section.visible
<1>1. IsNumbered(x) /\ x.type = section.type /\ x.visible = section.visible /\ x.placement = section.placement
  BY DEF Design!Numbered, IsNumbered, CardFields
<1> DEFINE y == [x EXCEPT !.placement = "main"]
<1>2. IsNumbered(y) /\ y.type = x.type /\ y.visible = x.visible
  BY <1>1 DEF IsNumbered, CardFields
<1> QED BY <1>1, <1>2

\* sectionShell: nothing without rows.
LEMMA ShellPrints ==
  ASSUME NEW x, NEW k \in Nat, NEW entry, NEW blocks, blocks = Design!SectionShell(x, k, entry)
  PROVE  /\ Filled(blocks)
         /\ k = 0 => blocks = <<>>
         /\ k # 0 => Design!Types(blocks) = <<x.type>>
<1>1. CASE k = 0
  BY <1>1, ShortLists DEF Design!SectionShell, Filled
<1>2. CASE k # 0
  <2> DEFINE block == [id |-> x.id, type |-> x.type, placement |-> x.placement,
                       order |-> x.order, pageBreak |-> x.pageBreak, rows |-> k, entry |-> entry]
  <2>1. blocks = <<block>> /\ block.type = x.type /\ block.rows = k
    BY <1>2 DEF Design!SectionShell
  <2> HIDE DEF block
  <2>2. Design!Types(blocks) = <<x.type>>
    BY <2>1, TypesShort
  <2>3. IsList(blocks) /\ DOMAIN blocks = 1..1 /\ blocks[1] = block
    BY <2>1, ShortLists
  <2>4. Filled(blocks)
    BY <1>2, <2>1, <2>3 DEF Filled
  <2> QED BY <1>2, <2>2, <2>4
<1> QED BY <1>1, <1>2

\* Each custom section is a block of its own.
LEMMA CustomPrints ==
  ASSUME NEW content, Counted(content), NEW x, IsNumbered(x), NEW blocks, blocks = Design!RenderCustomSections(content, x)
  PROVE  Filled(blocks) /\ Design!Types(blocks) = [row \in 1..content["custom"] |-> x.type]
<1> DEFINE k == content["custom"]
           Copy(n) == [x EXCEPT !.id = <<"custom", n>>, !.order = x.order + n - 1]
           Block(n) == [id |-> Copy(n).id, type |-> x.type, placement |-> x.placement, order |-> Copy(n).order,
                        pageBreak |-> x.pageBreak, rows |-> 1, entry |-> <<"content", "items">>]
           s == [n \in 1..k |-> Block(n)]
           ss == [n \in 1..k |-> <<s[n]>>]
<1>1. k \in Nat
  BY DEF Counted, SectionTypes, Design!Weight
<1>2. \A n : Copy(n).type = x.type /\ Copy(n).placement = x.placement /\ Copy(n).pageBreak = x.pageBreak
  BY DEF IsNumbered, CardFields
<1>3. \A n : Design!SectionShell(Copy(n), 1, <<"content", "items">>) = <<Block(n)>>
  <2> HIDE DEF Copy
  <2> QED BY <1>2 DEF Design!SectionShell
<1>4. blocks = Flat([n \in 1..k |-> Design!SectionShell(Copy(n), 1, <<"content", "items">>)])
  BY DEF Design!RenderCustomSections, Flat
<1>5. \A n : Block(n).type = x.type /\ Block(n).rows = 1
  OBVIOUS
<1> HIDE DEF k, Block, Copy
<1>6. [n \in 1..k |-> Design!SectionShell(Copy(n), 1, <<"content", "items">>)] = ss
  BY <1>3
<1>7. s = [n \in 1..k |-> s[n]] /\ \A n \in 1..k : s[n] = Block(n)
  OBVIOUS
<1> HIDE DEF s
<1>8. IsList(s) /\ DOMAIN s = 1..k /\ Len(s) = k
  BY <1>1, <1>7, ListMade
<1>9. blocks = s
  BY <1>4, <1>6, <1>8, FlatSingles
<1>10. Design!Types(s) = [row \in 1..k |-> x.type]
  BY <1>5, <1>7, <1>8 DEF Design!Types
<1>11. Filled(s)
  BY <1>5, <1>7, <1>8 DEF Filled
<1> QED BY <1>9, <1>10, <1>11 DEF k

\* A section of the page, of any type: what it prints has its type.
LEMMA SectionPrints ==
  ASSUME NEW content, Counted(content), NEW x, IsNumbered(x), x.type \in SectionTypes, x.visible \in BOOLEAN,
         NEW blocks, blocks = Design!RenderSection(content, x)
  PROVE  Filled(blocks) /\ Design!Types(blocks) = Prints(content, x.type, x.visible)
<1> DEFINE type == x.type
           k == content[type]
<1>1. k \in Nat
  BY DEF Counted
<1>2. CASE ~ x.visible
  <2>1. blocks = <<>> /\ Prints(content, type, x.visible) = <<>>
    BY <1>2 DEF Design!RenderSection, Prints
  <2>2. IsList(<<>>) /\ DOMAIN <<>> = {}
    BY ShortLists
  <2> QED BY <2>1, <2>2, TypesShort DEF Filled
<1>3. CASE x.visible /\ type # "custom"
  <2>1. \E entry : blocks = Design!SectionShell(x, k, entry)
    BY <1>3 DEF Design!RenderSection, Design!RenderVisible, SectionTypes, Design!Weight, Design!RenderExperience,
         Design!RenderProjects, Design!RenderCertifications, Design!RenderVolunteering, Design!RenderPublications,
         Design!RenderReferences, Design!RenderSkills, Design!RenderEducation, Design!RenderLanguages, Design!RenderInterests
  <2>2. /\ Filled(blocks) /\ (k = 0 => blocks = <<>>)
        /\ k # 0 => Design!Types(blocks) = <<type>>
    BY <1>1, <2>1, ShellPrints
  <2>3. /\ k = 0 => Prints(content, type, x.visible) = <<>>
        /\ k # 0 => Prints(content, type, x.visible) = <<type>>
    BY <1>3, PrintsFacts
  <2> QED BY <2>2, <2>3, TypesShort
<1>4. CASE x.visible /\ type = "custom"
  <2>1. blocks = Design!RenderCustomSections(content, x)
    BY <1>4 DEF Design!RenderSection, Design!RenderVisible
  <2>2. Filled(blocks) /\ Design!Types(blocks) = [row \in 1..k |-> type]
    BY <1>4, <2>1, CustomPrints
  <2>3. /\ k # 0 => Prints(content, type, x.visible) = [row \in 1..k |-> type]
        /\ k = 0 => Prints(content, type, x.visible) = <<>>
    BY <1>4, Zenon DEF Prints
  <2>4. ASSUME k = 0 PROVE [row \in 1..k |-> type] = <<>>
    BY <2>4, <1>1
  <2> QED BY <2>2, <2>3, <2>4
<1> QED BY <1>2, <1>3, <1>4
-----------------------------------------------------------------------------
(* The columns of the page *)

Placements == {"main", "sidebar"}

\* What each of some sections prints.
Shows(content, all) == [card \in Items(all) |-> Prints(content, card.type, card.visible)]

\* The sections of a column, of a page of one column or two.
InColumn(all, two, column) == {card \in Items(all) : column = IF two /\ card.placement = "sidebar" THEN "sidebar" ELSE "main"}

\* What they show is a list of types for each.
LEMMA ShowsFacts ==
  ASSUME NEW content, Counted(content), NEW all, \A n \in DOMAIN all : IsCard(all[n])
  PROVE  \A card \in Items(all) : /\ Shows(content, all)[card] = Prints(content, card.type, card.visible)
                                  /\ IsList(Shows(content, all)[card])
                                  /\ card.type \in SectionTypes /\ IsCard(card)
<1> SUFFICES ASSUME NEW card \in Items(all)
             PROVE  /\ Shows(content, all)[card] = Prints(content, card.type, card.visible)
                    /\ IsList(Shows(content, all)[card])
                    /\ card.type \in SectionTypes /\ IsCard(card)
  OBVIOUS
<1>1. IsCard(card)
  BY DEF Items
<1>2. card.type \in SectionTypes
  <2>1. card.type \in Offers
    BY <1>1 DEF IsCard
  <2>2. \A n \in DOMAIN Catalogue : Catalogue[n] \in SectionTypes
    BY CatalogueAssumption DEF SectionTypes
  <2> QED BY <2>1, <2>2 DEF Offers
<1>3. Shows(content, all)[card] = Prints(content, card.type, card.visible)
  BY DEF Shows
<1>4. IsList(Prints(content, card.type, card.visible))
  BY <1>2, PrintsFacts
<1> QED BY <1>1, <1>2, <1>3, <1>4

\* A new resume's first section is there: the settings list sections of their own.
LEMMA SectionsAreListed ==
  ASSUME NEW s, Arranged(s)
  PROVE  s.sections # <<>>
<1>1. "experience" \in NewTypes \cap Offers
  BY CatalogueAssumption, DefaultsFacts DEF NewTypes, Offers
<1>2. \E n \in DOMAIN s.sections : s.sections[n].type = "experience"
  BY <1>1 DEF Arranged
<1>3. DOMAIN <<>> = {}
  OBVIOUS
<1> QED BY <1>2, <1>3

\* configuredSections numbers them.
LEMMA ConfiguredFacts ==
  ASSUME NEW s, Arranged(s), NEW n, n.sections = s.sections
  PROVE  LET C == Design!ConfiguredSections(n)
             S == s.sections
         IN /\ DOMAIN C = DOMAIN S /\ IsList(C) /\ Len(C) = Len(S)
            /\ \A m \in DOMAIN S : \E copy, order : C[m] = Design!Numbered(S[m], copy, order)
<1> DEFINE C == Design!ConfiguredSections(n)
           S == s.sections
           k == Len(S)
           Copy(m) == Design!Cardinality({p \in 1..m : S[p].id = S[m].id})
           Listed(list) == [m \in 1..Len(list) |->
             Design!Numbered(list[m], Design!Cardinality({p \in 1..m : list[p].id = list[m].id}), m - 1)]
<1>1. S # <<>>
  BY SectionsAreListed
<1>2. k \in Nat /\ DOMAIN S = 1..k
  BY ListFacts DEF Arranged
<1>3. C = [m \in 1..k |-> Design!Numbered(S[m], Copy(m), m - 1)]
  <2>1. (IF n.sections = <<>> THEN Design!DefaultSections ELSE n.sections) = S
    BY <1>1
  <2>2. C = Listed(IF n.sections = <<>> THEN Design!DefaultSections ELSE n.sections)
    BY Zenon DEF Design!ConfiguredSections
  <2>3. C = Listed(S)
    <3> HIDE DEF Listed, C
    <3> QED BY <2>1, <2>2
  <2> QED BY <2>3
<1> HIDE DEF C, Copy, k, S
<1>4. C = [m \in 1..k |-> C[m]]
  BY <1>3
<1>5. IsList(C) /\ Len(C) = k /\ DOMAIN C = 1..k
  BY <1>2, <1>4, ListMade
<1>6. \A m \in 1..k : C[m] = Design!Numbered(S[m], Copy(m), m - 1)
  BY <1>3
<1> QED BY <1>2, <1>5, <1>6 DEF C, S, k

\* A block for each row, or none.
LEMMA FlatFilled ==
  ASSUME NEW ss, IsNested(ss), \A n \in DOMAIN ss : Filled(ss[n])
  PROVE  Filled(Flat(ss))
<1>1. IsList(Flat(ss))
  BY FlatShort
<1>2. ASSUME NEW n \in DOMAIN Flat(ss) PROVE Flat(ss)[n].rows \in Nat \ {0}
  <2>1. Flat(ss)[n] \in Items(Flat(ss))
    BY DEF Items
  <2>2. PICK m \in DOMAIN ss : Flat(ss)[n] \in Items(ss[m])
    BY <2>1, FlatItems
  <2> QED BY <2>2 DEF Items, Filled
<1> QED BY <1>1, <1>2 DEF Filled

\* The blocks that the sections of a column print.
ColumnBlocks(content, C, two, column) ==
  [m \in DOMAIN C |->
     IF (IF two /\ C[m].placement = "sidebar" THEN "sidebar" ELSE "main") = column
     THEN Design!RenderSection(content, IF two THEN C[m] ELSE [C[m] EXCEPT !.placement = "main"])
     ELSE <<>>]

\* Column by column, what the stored sections print.
LEMMA ColumnPrints ==
  ASSUME NEW content, Counted(content), NEW s, Arranged(s), NEW n, n.sections = s.sections,
         NEW two, NEW column \in Placements,
         NEW all, \A m \in DOMAIN all : IsCard(all[m]), Items(s.sections) \subseteq Items(all),
         NEW ss, ss = ColumnBlocks(content, Design!ConfiguredSections(n), two, column)
  PROVE  /\ IsNested(ss) /\ Filled(Flat(ss))
         /\ Design!Types(Flat(ss))
              = Spread(Shows(content, all), Design!Those(s.sections, InColumn(all, two, column)))
<1> DEFINE S == s.sections
           C == Design!ConfiguredSections(n)
           k == Len(S)
           g == Shows(content, all)
           kept == InColumn(all, two, column)
           In(x) == (IF two /\ x.placement = "sidebar" THEN "sidebar" ELSE "main") = column
           Given(x) == IF two THEN x ELSE [x EXCEPT !.placement = "main"]
<1>1. /\ DOMAIN C = 1..k /\ DOMAIN S = 1..k /\ k \in Nat
      /\ \A m \in 1..k : \E copy, order : C[m] = Design!Numbered(S[m], copy, order)
  <2>1. DOMAIN S = 1..k /\ k \in Nat
    BY ListFacts DEF Arranged
  <2> QED BY <2>1, ConfiguredFacts
<1>2. ss = [m \in 1..k |-> IF In(C[m]) THEN Design!RenderSection(content, Given(C[m])) ELSE <<>>]
  BY <1>1 DEF ColumnBlocks
<1>3. \A m \in 1..k : S[m] \in Items(all)
  BY <1>1 DEF Items
<1>4. IsList(S)
  BY DEF Arranged
<1> HIDE DEF C, S, k
<1>5. ASSUME NEW m \in 1..k
      PROVE  /\ Filled(ss[m])
             /\ Design!Types(ss[m]) = IF S[m] \in kept THEN g[S[m]] ELSE <<>>
  <2>1. PICK copy, order : C[m] = Design!Numbered(S[m], copy, order)
    BY <1>1
  <2> DEFINE y == Given(C[m])
  <2>2. IsNumbered(y) /\ y.type = S[m].type /\ y.visible = S[m].visible /\ C[m].placement = S[m].placement
    BY <2>1, NumberedFacts
  <2>3. /\ g[S[m]] = Prints(content, S[m].type, S[m].visible)
        /\ S[m].type \in SectionTypes /\ IsCard(S[m])
    BY <1>3, ShowsFacts
  <2>4. S[m].visible \in BOOLEAN
    BY <2>3 DEF IsCard
  <2>5. S[m] \in kept <=> In(C[m])
    BY <1>3, <2>2 DEF InColumn
  <2>6. ss[m] = IF In(C[m]) THEN Design!RenderSection(content, y) ELSE <<>>
    BY <1>2
  <2> HIDE DEF y, kept, In, g
  <2>7. CASE In(C[m])
    <3>1. ss[m] = Design!RenderSection(content, y)
      BY <2>6, <2>7
    <3>2. Filled(ss[m]) /\ Design!Types(ss[m]) = Prints(content, y.type, y.visible)
      BY <2>2, <2>3, <2>4, <3>1, SectionPrints
    <3> QED BY <2>2, <2>3, <2>5, <2>7, <3>2
  <2>8. CASE ~ In(C[m])
    <3>1. ss[m] = <<>>
      BY <2>6, <2>8
    <3>2. IsList(<<>>) /\ DOMAIN <<>> = {}
      BY ShortLists
    <3> QED BY <2>5, <2>8, <3>1, <3>2, TypesShort DEF Filled
  <2> QED BY <2>7, <2>8
<1>6. ss = [m \in 1..k |-> ss[m]]
  BY <1>2
<1> HIDE DEF g, kept
<1>7. IsList(ss) /\ Len(ss) = k /\ DOMAIN ss = 1..k
  BY <1>1, <1>6, ListMade
<1>8. IsNested(ss) /\ Filled(Flat(ss))
  <2>1. \A m \in DOMAIN ss : Filled(ss[m])
    BY <1>5, <1>7
  <2>2. IsNested(ss)
    BY <1>7, <2>1 DEF IsNested, Filled
  <2> QED BY <2>1, <2>2, FlatFilled
<1>9. Design!Types(Flat(ss)) = Flat([m \in 1..k |-> Design!Types(ss[m])])
  BY <1>7, <1>8, FlatTypes
<1>10. [m \in 1..k |-> Design!Types(ss[m])] = [m \in DOMAIN S |-> IF S[m] \in kept THEN g[S[m]] ELSE <<>>]
  BY <1>1, <1>5
<1>11. \A m \in DOMAIN S : S[m] \in kept => IsList(g[S[m]])
  BY <1>1, <1>3, ShowsFacts DEF g
<1>12. Spread(g, Design!Those(S, kept)) = Flat([m \in DOMAIN S |-> IF S[m] \in kept THEN g[S[m]] ELSE <<>>])
  BY <1>4, <1>11, ThoseSpread
<1> QED BY <1>8, <1>9, <1>10, <1>12 DEF g, kept, S

-----------------------------------------------------------------------------
(* What no section names *)

\* What a type prints by itself.
Alike(content) == [type \in SectionTypes |-> Prints(content, type, TRUE)]

\* The types that the settings do not list.
Unlisted(s) == SectionTypes \ {s.sections[n].type : n \in DOMAIN s.sections}

\* The parts that no section names, as the renderer lists them, then those of the catalogue.
LEMMA FallbackFactsOfTypes ==
  LET F == Design!FallbackTypes
  IN /\ IsList(F) /\ Items(F) \subseteq SectionTypes /\ SectionTypes = NewTypes \cup Items(F)
     /\ IsList(Catalogue) /\ Items(Catalogue) = Offers /\ Offers \subseteq SectionTypes
     /\ Design!Those(Catalogue, Items(F)) = Design!Those(F, Offers)
<1> DEFINE F == Design!FallbackTypes
<1>1. DOMAIN F = 1..5 /\ F = [n \in 1..5 |-> F[n]]
  BY DEF Design!FallbackTypes
<1>2. IsList(F) /\ Len(F) = 5
  BY <1>1, ListMade
<1>3. Items(F) = {"certifications", "volunteering", "publications", "references", "custom"}
  <2>1. F[1] = "certifications" /\ F[2] = "volunteering" /\ F[3] = "publications" /\ F[4] = "references" /\ F[5] = "custom"
    BY DEF Design!FallbackTypes
  <2> HIDE DEF F
  <2>2. \A n \in 1..5 : n = 1 \/ n = 2 \/ n = 3 \/ n = 4 \/ n = 5
    OBVIOUS
  <2> QED BY <1>1, <2>1, <2>2 DEF Items
<1>4. SectionTypes = NewTypes \cup Items(F) /\ Items(F) \subseteq SectionTypes
  BY <1>3 DEF SectionTypes, NewTypes, Design!Weight
<1>5. Items(Catalogue) = Offers
  BY DEF Items, Offers
<1>6. \A n \in DOMAIN Catalogue : Catalogue[n] \in SectionTypes
  BY CatalogueAssumption DEF SectionTypes
<1>7. IsList(Catalogue)
  <2>1. Catalogue = [n \in 1..Len(Catalogue) |-> Catalogue[n]] /\ Len(Catalogue) \in Nat
    BY CatalogueAssumption
  <2> QED BY <2>1, ListMade
<1>8. Design!Those(Catalogue, Items(F)) = Design!Those(F, Offers)
  BY CatalogueAssumption DEF Items, Offers
<1> QED BY <1>2, <1>4, <1>5, <1>6, <1>7, <1>8 DEF Offers

\* The order of the catalogue is that of the renderer, on what neither leaves out, and the rest has no rows.
LEMMA SameOrder ==
  ASSUME NEW content, Counted(content), NEW s, Arranged(s)
  PROVE  Spread(Alike(content), Design!Those(Catalogue, Unlisted(s)))
           = Spread(Alike(content), Design!Those(Design!FallbackTypes, Items(Design!FallbackTypes) \cap Unlisted(s)))
<1> DEFINE F == Design!FallbackTypes
           U == Unlisted(s)
           h == Alike(content)
           K == Items(F) \cap U
           O == Offers \cap U
<1>1. /\ IsList(F) /\ Items(F) \subseteq SectionTypes /\ SectionTypes = NewTypes \cup Items(F)
      /\ IsList(Catalogue) /\ Items(Catalogue) = Offers /\ Offers \subseteq SectionTypes
      /\ Design!Those(Catalogue, Items(F)) = Design!Those(F, Offers)
  BY FallbackFactsOfTypes
<1>2. \A type \in Offers : type \in U => type \in Items(F)
  <2>1. \A type \in NewTypes \cap Offers : type \notin U
    BY DEF Arranged, Unlisted
  <2> QED BY <1>1, <2>1
<1>3. \A type \in SectionTypes : IsList(h[type]) /\ (type \notin Offers => h[type] = <<>>)
  <2> SUFFICES ASSUME NEW type \in SectionTypes
               PROVE  IsList(h[type]) /\ (type \notin Offers => h[type] = <<>>)
    OBVIOUS
  <2>1. h[type] = Prints(content, type, TRUE)
    BY DEF Alike
  <2>2. type \notin Offers => content[type] = 0
    BY DEF Counted
  <2>3. IsList(Prints(content, type, TRUE)) /\ (content[type] = 0 => Prints(content, type, TRUE) = <<>>)
    BY PrintsFacts
  <2> QED BY <2>1, <2>2, <2>3
<1> HIDE DEF F, U, h
<1>4. Design!Those(Catalogue, U) = Design!Those(F, O)
  <2>1. Design!Those(Catalogue, U) = Design!Those(Catalogue, Items(F) \cap U)
    <3>1. \A n \in DOMAIN Catalogue : Catalogue[n] \in U <=> Catalogue[n] \in Items(F) \cap U
      BY <1>1, <1>2 DEF Offers
    <3> QED BY <3>1, ThoseSame
  <2>2. Design!Those(Catalogue, Items(F) \cap U) = Design!Those(Design!Those(Catalogue, Items(F)), U)
    BY <1>1, ThoseTwice
  <2>3. Design!Those(Design!Those(F, Offers), U) = Design!Those(F, Offers \cap U)
    BY <1>1, ThoseTwice
  <2> QED BY <1>1, <2>1, <2>2, <2>3
<1>5. \A n \in DOMAIN F : F[n] \in Items(F) /\ F[n] \in SectionTypes
  BY <1>1 DEF Items
<1>6. Spread(h, Design!Those(F, O)) = Flat([n \in DOMAIN F |-> IF F[n] \in O THEN h[F[n]] ELSE <<>>])
  BY <1>1, <1>3, <1>5, ThoseSpread
<1>7. Spread(h, Design!Those(F, K)) = Flat([n \in DOMAIN F |-> IF F[n] \in K THEN h[F[n]] ELSE <<>>])
  BY <1>1, <1>3, <1>5, ThoseSpread
<1>8. [n \in DOMAIN F |-> IF F[n] \in O THEN h[F[n]] ELSE <<>>] = [n \in DOMAIN F |-> IF F[n] \in K THEN h[F[n]] ELSE <<>>]
  <2>1. ASSUME NEW n \in DOMAIN F
        PROVE  (IF F[n] \in O THEN h[F[n]] ELSE <<>>) = (IF F[n] \in K THEN h[F[n]] ELSE <<>>)
    <3>1. F[n] \in Items(F) /\ F[n] \in SectionTypes /\ (F[n] \notin Offers => h[F[n]] = <<>>)
      BY <1>3, <1>5
    <3> QED BY <3>1
  <2> QED BY <2>1
<1> QED BY <1>4, <1>6, <1>7, <1>8 DEF F, U, h

\* The panel shows them as cards of the main column, in the order of the catalogue.
LEMMA AddedSpread ==
  ASSUME NEW content, Counted(content), NEW s, Arranged(s),
         NEW all, \A m \in DOMAIN all : IsCard(all[m]), Items(Added(s)) \subseteq Items(all)
  PROVE  Spread(Shows(content, all), Added(s)) = Spread(Alike(content), Design!Those(Catalogue, Unlisted(s)))
<1> DEFINE S == s.sections
           stored == {S[n].type : n \in DOMAIN S}
           kept == {card \in Items(Defaults) : card.type \notin stored}
           E == Added(s)
           U == Unlisted(s)
           g == Shows(content, all)
           h == Alike(content)
           k == Len(Catalogue)
<1>1. E = Design!Those(Defaults, kept) /\ IsList(Defaults) /\ DOMAIN Defaults = 1..k /\ DOMAIN Catalogue = 1..k
  BY DefaultsFacts DEF Added
<1>2. /\ \A n \in 1..k : Defaults[n].type = Catalogue[n] /\ Defaults[n].visible = TRUE /\ Defaults[n] \in Items(Defaults)
      /\ \A n \in 1..k : Catalogue[n] \in SectionTypes
  <2>1. IsList(Catalogue) /\ Items(Catalogue) = Offers /\ Offers \subseteq SectionTypes
    BY FallbackFactsOfTypes
  <2>2. \A n \in 1..k : Catalogue[n] \in SectionTypes
    BY <1>1, <2>1 DEF Items
  <2>3. \A n \in 1..k : Defaults[n] \in Items(Defaults)
    BY <1>1 DEF Items
  <2> QED BY <2>2, <2>3, DefaultsFacts
<1>3. \A n \in 1..k : Defaults[n] \in kept <=> Catalogue[n] \in U
  BY <1>2 DEF Unlisted
<1>4. \A n \in 1..k : Defaults[n] \in kept => Defaults[n] \in Items(all)
  <2>1. Items(E) = Items(Defaults) \cap kept
    <3> HIDE DEF E, kept
    <3> QED BY <1>1, ThoseItems
  <2> QED BY <2>1, <1>2
<1>5. IsList(Catalogue)
  BY FallbackFactsOfTypes
<1> HIDE DEF kept, U, g, h, E, S, stored
<1>6. ASSUME NEW n \in 1..k
      PROVE  /\ IsList(h[Catalogue[n]])
             /\ Defaults[n] \in kept => g[Defaults[n]] = h[Catalogue[n]]
  <2>1. h[Catalogue[n]] = Prints(content, Catalogue[n], TRUE) /\ IsList(Prints(content, Catalogue[n], TRUE))
    BY <1>2, PrintsFacts DEF h, Alike
  <2>2. ASSUME Defaults[n] \in kept PROVE g[Defaults[n]] = Prints(content, Catalogue[n], TRUE)
    <3>1. Defaults[n] \in Items(all)
      BY <1>4, <2>2
    <3>2. g[Defaults[n]] = Prints(content, Defaults[n].type, Defaults[n].visible)
      BY <3>1 DEF g, Shows
    <3> QED BY <1>2, <3>2
  <2> QED BY <2>1, <2>2
<1>7. Spread(g, Design!Those(Defaults, kept)) = Flat([n \in DOMAIN Defaults |-> IF Defaults[n] \in kept THEN g[Defaults[n]] ELSE <<>>])
  <2>1. \A n \in DOMAIN Defaults : Defaults[n] \in kept => IsList(g[Defaults[n]])
    BY <1>1, <1>6
  <2> QED BY <1>1, <2>1, ThoseSpread
<1>8. Spread(h, Design!Those(Catalogue, U)) = Flat([n \in DOMAIN Catalogue |-> IF Catalogue[n] \in U THEN h[Catalogue[n]] ELSE <<>>])
  <2>1. \A n \in DOMAIN Catalogue : Catalogue[n] \in U => IsList(h[Catalogue[n]])
    BY <1>1, <1>6
  <2> QED BY <1>5, <2>1, ThoseSpread
<1>9. [n \in DOMAIN Defaults |-> IF Defaults[n] \in kept THEN g[Defaults[n]] ELSE <<>>]
      = [n \in DOMAIN Catalogue |-> IF Catalogue[n] \in U THEN h[Catalogue[n]] ELSE <<>>]
  <2>1. ASSUME NEW n \in 1..k
        PROVE  (IF Defaults[n] \in kept THEN g[Defaults[n]] ELSE <<>>) = (IF Catalogue[n] \in U THEN h[Catalogue[n]] ELSE <<>>)
    BY <1>3, <1>6
  <2> QED BY <1>1, <2>1
<1> QED BY <1>1, <1>7, <1>8, <1>9 DEF E, U, g, h

\* renderFallbackSections: they print what the cards show.
LEMMA FallbackPrints ==
  ASSUME NEW content, Counted(content), NEW s, Arranged(s), NEW n, n.sections = s.sections,
         NEW all, \A m \in DOMAIN all : IsCard(all[m]), Items(Added(s)) \subseteq Items(all),
         NEW blocks, blocks = Design!RenderFallbackSections(content, Design!ConfiguredSections(n))
  PROVE  Filled(blocks) /\ Design!Types(blocks) = Spread(Shows(content, all), Added(s))
<1> DEFINE S == s.sections
           C == Design!ConfiguredSections(n)
           F == Design!FallbackTypes
           used == {C[m].type : m \in DOMAIN C}
           unused == Design!Those(F, Design!ToSet(F) \ used)
           K == Items(F) \cap Unlisted(s)
           Made(m) == Design!Numbered(Design!Section(unused[m], "main"), 1, Len(C) + m - 1)
           ss == [m \in DOMAIN unused |-> Design!RenderSection(content, Made(m))]
           h == Alike(content)
<1>1. blocks = Flat(ss)
  BY DEF Design!RenderFallbackSections, Flat
<1>2. used = {S[m].type : m \in DOMAIN S}
  <2>1. /\ DOMAIN C = DOMAIN S
        /\ \A m \in DOMAIN S : \E copy, order : C[m] = Design!Numbered(S[m], copy, order)
    BY ConfiguredFacts
  <2>2. \A m \in DOMAIN S : C[m].type = S[m].type
    <3>1. \A section, copy, order : Design!Numbered(section, copy, order).type = section.type
      BY DEF Design!Numbered
    <3> HIDE DEF C, S
    <3> QED BY <2>1, <3>1 DEF C, S
  <2> HIDE DEF C, S
  <2> QED BY <2>1, <2>2
<1>3. IsList(F) /\ Items(F) \subseteq SectionTypes
  BY FallbackFactsOfTypes
<1>4. unused = Design!Those(F, K)
  <2>1. Design!ToSet(F) = Items(F)
    BY DEF Design!ToSet, Items
  <2>2. \A m \in DOMAIN F : F[m] \in Items(F) \ used <=> F[m] \in K
    BY <1>2, <1>3 DEF Unlisted, Items
  <2> HIDE DEF F, used, K
  <2> QED BY <2>1, <2>2, ThoseSame
<1>5. IsList(unused) /\ Items(unused) = Items(F) \cap K
  <2> HIDE DEF unused, F, K
  <2> QED BY <1>3, <1>4, ThoseItems, ChoiceIsNested
<1> HIDE DEF unused, C, F, K, h
<1> DEFINE k == Len(unused)
<1>6. k \in Nat /\ DOMAIN unused = 1..k
  BY <1>5, ListFacts
<1>7. ASSUME NEW m \in 1..k
      PROVE  /\ Filled(ss[m]) /\ Design!Types(ss[m]) = h[unused[m]]
             /\ unused[m] \in SectionTypes /\ IsList(h[unused[m]])
  <2> DEFINE x == Made(m)
             part == Design!Section(unused[m], "main")
  <2>1. unused[m] \in SectionTypes
    BY <1>3, <1>5, <1>6 DEF Items
  <2>2. part.type = unused[m] /\ part.visible = TRUE
    BY DEF Design!Section
  <2>3. IsNumbered(x) /\ x.type = part.type /\ x.visible = part.visible
    <3> HIDE DEF part
    <3> QED BY DEF Design!Numbered, IsNumbered, CardFields, part
  <2>4. ss[m] = Design!RenderSection(content, x)
    BY <1>6
  <2> HIDE DEF x, part
  <2>5. Filled(ss[m]) /\ Design!Types(ss[m]) = Prints(content, x.type, x.visible)
    BY <2>1, <2>2, <2>3, <2>4, SectionPrints
  <2>6. h[unused[m]] = Prints(content, unused[m], TRUE) /\ IsList(Prints(content, unused[m], TRUE))
    BY <2>1, PrintsFacts DEF h, Alike
  <2> QED BY <2>1, <2>2, <2>3, <2>5, <2>6
<1>8. ss = [m \in 1..k |-> ss[m]]
  BY <1>6
<1> HIDE DEF ss, k
<1>9. IsList(ss) /\ Len(ss) = k /\ DOMAIN ss = 1..k
  BY <1>6, <1>8, ListMade
<1>10. IsNested(ss) /\ \A m \in DOMAIN ss : Filled(ss[m])
  BY <1>7, <1>9 DEF IsNested, Filled
<1>11. Design!Types(Flat(ss)) = Flat([m \in 1..k |-> Design!Types(ss[m])])
  BY <1>9, <1>10, FlatTypes
<1>12. [m \in 1..k |-> Design!Types(ss[m])] = Mapped(h, unused)
  BY <1>6, <1>7 DEF Mapped
<1>13. Design!Types(Flat(ss)) = Spread(h, Design!Those(F, K))
  BY <1>4, <1>11, <1>12 DEF Spread
<1>14. Spread(h, Design!Those(F, K)) = Spread(h, Design!Those(Catalogue, Unlisted(s)))
  BY SameOrder DEF F, K, h
<1>15. Spread(Shows(content, all), Added(s)) = Spread(h, Design!Those(Catalogue, Unlisted(s)))
  BY AddedSpread DEF h
<1>16. Filled(Flat(ss))
  BY <1>10, FlatFilled
<1> QED BY <1>1, <1>13, <1>14, <1>15, <1>16 DEF ss

-----------------------------------------------------------------------------
(* The board and the page *)

\* renderCvContent: each column prints what the panel's cards of that column show.
LEMMA PageColumns ==
  ASSUME NEW content, Counted(content), NEW s, Arranged(s), NEW n, n.sections = s.sections,
         NEW two, two = Design!UsesTwoColumns(n),
         NEW all, Joins(all, s.sections, Added(s)),
         NEW printed, printed = Design!RenderContent(content, n),
         NEW column \in Placements
  PROVE  /\ Filled(printed[column])
         /\ Design!Types(printed[column]) = Spread(Shows(content, all), Design!Those(all, InColumn(all, two, column)))
<1> DEFINE S == s.sections
           E == Added(s)
           C == Design!ConfiguredSections(n)
           Column(name) == ColumnBlocks(content, C, two, name)
           rest == Design!RenderFallbackSections(content, C)
           g == Shows(content, all)
           kept == InColumn(all, two, column)
<1>1. printed = [main |-> Flat(Column("main")) \o rest, sidebar |-> Flat(Column("sidebar"))]
  BY Zenon DEF Design!RenderContent, ColumnBlocks, Flat
<1>2. printed[column] = IF column = "main" THEN Flat(Column("main")) \o rest ELSE Flat(Column("sidebar"))
  <2> HIDE DEF Column, rest
  <2>1. printed.main = Flat(Column("main")) \o rest /\ printed.sidebar = Flat(Column("sidebar"))
    BY <1>1
  <2>2. column = "main" \/ column = "sidebar"
    BY DEF Placements
  <2> QED BY <2>1, <2>2
<1>3. IsList(S) /\ IsList(E) /\ \A m \in DOMAIN E : E[m].placement = "main"
  BY AddedFacts DEF Arranged
<1>4. \A m \in DOMAIN all : IsCard(all[m])
  BY ShownFacts
<1>5. Items(all) = Items(S) \cup Items(E)
  <2> HIDE DEF S, E
  <2> QED BY <1>3, ItemsConcat DEF S, E, Joins
<1>6. two \in BOOLEAN
  BY DEF Design!UsesTwoColumns
<1>7. /\ IsNested(Column(column)) /\ Filled(Flat(Column(column)))
      /\ Design!Types(Flat(Column(column))) = Spread(g, Design!Those(S, kept))
  <2>1. Items(S) \subseteq Items(all)
    BY <1>5
  <2> HIDE DEF g, kept
  <2>2. ASSUME NEW ss, ss = Column(column)
        PROVE  /\ IsNested(ss) /\ Filled(Flat(ss))
               /\ Design!Types(Flat(ss)) = Spread(g, Design!Those(S, kept))
    BY <1>4, <2>1, <2>2, ColumnPrints DEF g, kept
  <2> HIDE DEF Column
  <2> QED BY <2>2
<1>8. Filled(rest) /\ Design!Types(rest) = Spread(g, E)
  BY <1>4, <1>5, FallbackPrints
<1>9. \A x \in Items(all) : IsList(g[x])
  BY <1>4, ShowsFacts
<1>10. Design!Those(all, kept) = Design!Those(S, kept) \o Design!Those(E, kept)
  <2> HIDE DEF S, E, kept
  <2> QED BY <1>3, ThoseConcat DEF S, E, Joins
<1>11. Design!Those(E, kept) = IF column = "main" THEN E ELSE <<>>
  <2>1. CASE column = "main"
    <3>1. Items(E) \subseteq kept
      BY <1>3, <1>5, <2>1 DEF InColumn, Items
    <3> HIDE DEF E, kept
    <3> QED BY <1>3, <2>1, <3>1, ThoseAllOrNone
  <2>2. CASE column = "sidebar"
    <3>1. Items(E) \cap kept = {}
      BY <1>3, <1>5, <2>2 DEF InColumn, Items
    <3> HIDE DEF E, kept
    <3> QED BY <1>3, <2>2, <3>1, ThoseAllOrNone
  <2> QED BY <2>1, <2>2 DEF Placements
<1> HIDE DEF S, E, rest, Column, g, kept, C
<1>12. Spreads(g, Design!Those(S, kept)) /\ Spreads(g, E)
  <2>1. IsList(Design!Those(S, kept)) /\ Items(Design!Those(S, kept)) = Items(S) \cap kept
    BY <1>3, ThoseItems, ChoiceIsNested
  <2>2. \A m \in DOMAIN Design!Those(S, kept) : Design!Those(S, kept)[m] \in Items(all)
    BY <1>5, <2>1 DEF Items
  <2>3. \A m \in DOMAIN E : E[m] \in Items(all)
    BY <1>5 DEF Items
  <2> QED BY <1>3, <1>9, <2>1, <2>2, <2>3 DEF Spreads
<1>13. CASE column = "main"
  <2>1. printed[column] = Flat(Column("main")) \o rest
    BY <1>2, <1>13
  <2>2. Design!Those(all, kept) = Design!Those(S, kept) \o E
    BY <1>10, <1>11, <1>13
  <2>3. Spread(g, Design!Those(S, kept) \o E) = Spread(g, Design!Those(S, kept)) \o Spread(g, E)
    BY <1>12, SpreadConcat
  <2>4. Design!Types(printed[column]) = Design!Types(Flat(Column("main"))) \o Design!Types(rest)
    BY <1>7, <1>8, <1>13, <2>1, TypesConcat DEF Filled
  <2>5. Filled(printed[column])
    <3>1. Filled(Flat(Column("main"))) /\ Filled(rest)
      BY <1>7, <1>8, <1>13
    <3>2. IsList(printed[column]) /\ Items(printed[column]) = Items(Flat(Column("main"))) \cup Items(rest)
      BY <2>1, <3>1, ListConcat, ItemsConcat DEF Filled
    <3>3. ASSUME NEW m \in DOMAIN printed[column] PROVE printed[column][m].rows \in Nat \ {0}
      <4>1. printed[column][m] \in Items(Flat(Column("main"))) \cup Items(rest)
        BY <3>2 DEF Items
      <4> QED BY <3>1, <4>1 DEF Items, Filled
    <3> QED BY <3>2, <3>3 DEF Filled
  <2> QED BY <1>7, <1>8, <1>13, <2>2, <2>3, <2>4, <2>5 DEF g, kept
<1>14. CASE column = "sidebar"
  <2>1. printed[column] = Flat(Column("sidebar"))
    BY <1>2, <1>14
  <2>2. Design!Those(all, kept) = Design!Those(S, kept)
    <3>1. IsList(Design!Those(S, kept))
      BY <1>3, ChoiceIsNested
    <3> QED BY <1>10, <1>11, <1>14, <3>1, ListConcat
  <2> QED BY <1>7, <1>14, <2>1, <2>2 DEF g, kept
<1> QED BY <1>7, <1>13, <1>14 DEF g, kept, Placements

\* The table of templates of the panel is that of the renderer.
LEMMA SameColumns ==
  ASSUME catalogue = Design!FallbackCatalogue, NEW s, Settled(s), Arranged(s), NEW r, r.template = s.template,
         r.columns = s.columns, r.sidebar = s.sidebar
  PROVE  Design!TwoColumnBoard(r) = Design!UsesTwoColumns(Design!Normalized(s))
<1> DEFINE n == Design!Normalized(s)
<1>1. /\ n.template = s.template
      /\ n.columns = (IF s.template = "ats" THEN 1 ELSE s.columns)
      /\ n.sidebar = (IF s.template = "ats" THEN "none" ELSE s.sidebar)
  BY NormalizedFields
<1> HIDE DEF n
<1>2. s.columns \in {1, 2} /\ s.template \in Templates \cup {"modern"} /\ s.template \in Design!TemplateIds
  BY DEF Arranged, Settled
<1>3. 2 \in Design!CompatibleLayouts(s.template) <=> s.template \notin Design!SingleColumn
  <2>1. Design!CompatibleLayouts(s.template) = IF s.template \in Design!SingleColumn THEN {1} ELSE {1, 2}
    BY <1>2, FallbackFacts DEF Design!CompatibleLayouts, Design!SingleColumn
  <2> QED BY <2>1
<1>4. 2 \in Design!Contract(n.template).columns <=> s.template \notin Design!SingleColumn
  BY <1>1 DEF Design!Contract
<1>5. Design!TwoColumnBoard(r) <=> s.template \notin Design!SingleColumn /\ s.columns = 2 /\ s.sidebar # "none"
  BY <1>3 DEF Design!TwoColumnBoard
<1>6. Design!UsesTwoColumns(n) <=> s.template \notin Design!SingleColumn /\ n.columns # 1 /\ n.sidebar # "none"
  BY <1>4 DEF Design!UsesTwoColumns
<1>7. s.template = "ats" => s.template \in Design!SingleColumn
  BY DEF Design!SingleColumn
<1>8. Design!TwoColumnBoard(r) <=> Design!UsesTwoColumns(n)
  BY <1>1, <1>2, <1>5, <1>6, <1>7
<1>9. Design!TwoColumnBoard(r) \in BOOLEAN /\ Design!UsesTwoColumns(n) \in BOOLEAN
  BY DEF Design!TwoColumnBoard, Design!UsesTwoColumns
<1> QED BY <1>8, <1>9 DEF n

\* The cards of a lane, in one column or two.
LEMMA BoardLanes ==
  ASSUME NEW r, NEW all, all = r.sections, IsList(all), \A m \in DOMAIN all : IsCard(all[m]),
         NEW two, two = Design!TwoColumnBoard(r), NEW column \in Placements
  PROVE  Design!Board(r)[column] = Design!Those(all, InColumn(all, two, column))
<1> DEFINE kept == InColumn(all, two, column)
<1>1. Design!Board(r)[column] = IF two THEN Design!Lane(all, column)
                                ELSE IF column = "main" THEN all ELSE <<>>
  BY DEF Design!Board, Placements
<1>2. \A m \in DOMAIN all : all[m] \in Items(all) /\ all[m].placement \in {"main", "sidebar"}
  BY DEF Items, IsCard
<1>3. CASE two
  <2> DEFINE there == {x \in Items(all) : x.placement = column}
  <2>1. \A m \in DOMAIN all : all[m] \in there <=> all[m] \in kept
    BY <1>2, <1>3 DEF InColumn, Placements
  <2>2. Design!Lane(all, column) = Design!Those(all, there)
    BY LaneIs
  <2> HIDE DEF kept, there
  <2>3. Design!Those(all, there) = Design!Those(all, kept)
    BY <2>1, ThoseSame
  <2> QED BY <1>1, <1>3, <2>2, <2>3 DEF kept
<1>4. CASE ~ two /\ column = "main"
  <2>1. Items(all) \subseteq kept
    BY <1>4 DEF InColumn
  <2> HIDE DEF kept
  <2> QED BY <1>1, <1>4, <2>1, ThoseAllOrNone DEF kept
<1>5. CASE ~ two /\ column = "sidebar"
  <2>1. Items(all) \cap kept = {}
    BY <1>5 DEF InColumn
  <2> HIDE DEF kept
  <2> QED BY <1>1, <1>5, <2>1, ThoseAllOrNone DEF kept
<1> QED BY <1>3, <1>4, <1>5 DEF Placements

\* Printing, as what the cards show.
LEMMA PrintingIs ==
  ASSUME Counted(rows), NEW all, \A m \in DOMAIN all : IsCard(all[m]), NEW lane, IsList(lane), Items(lane) \subseteq Items(all)
  PROVE  Design!Printing(lane) = Spread(Shows(rows, all), lane)
<1>1. Design!Printing(lane) = Flat([n \in DOMAIN lane |-> Prints(rows, lane[n].type, lane[n].visible)])
  BY Zenon DEF Design!Printing, Prints, Flat
<1>2. \A n \in DOMAIN lane : Shows(rows, all)[lane[n]] = Prints(rows, lane[n].type, lane[n].visible)
  BY ShowsFacts DEF Items
<1>3. [n \in DOMAIN lane |-> Prints(rows, lane[n].type, lane[n].visible)] = Mapped(Shows(rows, all), lane)
  BY <1>2 DEF Mapped
<1> QED BY <1>1, <1>3 DEF Spread

\* The board and the page agree.
LEMMA BoardShowsThePage ==
  ASSUME DesignIInv, BoardIInv
  PROVE  Design!PanelShowsThePage
<1> DEFINE n == Design!Normalized(local)
           r == Design!Shown
           all == local.sections \o Added(local)
           printed == Design!RenderContent(rows, n)
           two == Design!UsesTwoColumns(n)
<1>1. Settled(local) /\ Arranged(local) /\ Counted(rows) /\ catalogue = Design!FallbackCatalogue
  BY DEF DesignIInv, BoardIInv
<1>2. n.sections = local.sections /\ n.template = local.template /\ Settled(n)
  BY <1>1, NormalizedFields
<1>3. Design!PageOf(local).columns = printed
  BY DEF Design!PageOf, Design!RenderDocument
<1>4. /\ r.sections = all /\ \A field \in Fields \ {"sections"} : r[field] = local[field]
  BY <1>1, ResolvedArranges DEF Design!Shown
<1>5. r.template = local.template /\ r.columns = local.columns /\ r.sidebar = local.sidebar
  <2>1. {"template", "columns", "sidebar"} \subseteq Fields \ {"sections"}
    BY DEF Fields
  <2> HIDE DEF r
  <2> QED BY <1>4, <2>1
<1>6. Design!TwoColumnBoard(r) = two
  BY <1>1, <1>5, SameColumns
<1>7. IsList(all) /\ \A m \in DOMAIN all : IsCard(all[m])
  BY <1>1, ShownFacts DEF Joins
<1>8. Design!Compatible(n)
  <2>1. n.template \in Design!TemplateIds /\ n.css.contract = "1"
    <3> HIDE DEF n
    <3> QED BY <1>2 DEF Settled, Styled
  <2>2. Design!Contract(n.template).selectors = "1"
    BY DEF Design!Contract
  <2> QED BY <2>1, <2>2 DEF Design!Compatible
<1>10. /\ two = Design!UsesTwoColumns(n) /\ Joins(all, local.sections, Added(local))
       /\ printed = Design!RenderContent(rows, n)
  BY DEF Joins
<1> HIDE DEF n, r, printed, all, two
<1>9. ASSUME NEW column \in Placements
      PROVE  Design!Types(printed[column]) = Design!Printing(Design!Board(r)[column])
  <2> DEFINE lane == Design!Those(all, InColumn(all, two, column))
  <2>1. Design!Types(printed[column]) = Spread(Shows(rows, all), lane)
    BY <1>1, <1>2, <1>10, PageColumns
  <2>2. Design!Board(r)[column] = lane
    BY <1>4, <1>6, <1>7, BoardLanes
  <2>3. IsList(lane) /\ Items(lane) \subseteq Items(all)
    <3>1. IsList(lane) /\ Items(lane) = Items(all) \cap InColumn(all, two, column)
      BY <1>7, ThoseItems, ChoiceIsNested
    <3> QED BY <3>1
  <2> HIDE DEF lane
  <2>4. Design!Printing(lane) = Spread(Shows(rows, all), lane)
    <3>1. Counted(rows) /\ \A m \in DOMAIN all : IsCard(all[m])
      BY <1>1, <1>7
    <3> QED BY <2>3, <3>1, PrintingIs
  <2> QED BY <2>1, <2>2, <2>4
<1> QED BY <1>3, <1>8, <1>9 DEF Design!PanelShowsThePage, n, r, Placements

-----------------------------------------------------------------------------
(* Heights *)

\* The heights before each block, and after the last.
Heights(blocks, t) ==
  /\ \A n \in 1..(Len(blocks) + 1) : t[n] \in Nat
  /\ t[1] = 0
  /\ \A n \in 1..Len(blocks) : t[n + 1] = t[n] + blocks[n].rows

\* They exist.
LEMMA HeightsExist ==
  ASSUME NEW blocks, Filled(blocks)
  PROVE  \E t : Heights(blocks, t)
<1> DEFINE k == Len(blocks)
           Line(n) == [row \in 1..blocks[n].rows |-> 0]
           ss == [n \in 1..k |-> Line(n)]
<1>1. k \in Nat /\ DOMAIN blocks = 1..k
  BY ListFacts DEF Filled
<1>2. \A n \in 1..k : blocks[n].rows \in Nat
  BY <1>1 DEF Filled
<1>3. ASSUME NEW n \in 1..k PROVE IsList(Line(n)) /\ Len(Line(n)) = blocks[n].rows
  <2> DEFINE line == Line(n)
             size == blocks[n].rows
  <2>1. line = [row \in 1..size |-> line[row]] /\ size \in Nat
    BY <1>2
  <2> HIDE DEF line, size
  <2>2. IsList(line) /\ Len(line) = size
    BY <2>1, ListMade
  <2> QED BY <2>2 DEF line, size
<1> HIDE DEF k, Line
<1>4. ss = [n \in 1..k |-> ss[n]] /\ \A n \in 1..k : ss[n] = Line(n)
  OBVIOUS
<1> HIDE DEF ss
<1>5. IsList(ss) /\ Len(ss) = k /\ DOMAIN ss = 1..k
  BY <1>1, <1>4, ListMade
<1>6. IsNested(ss)
  BY <1>3, <1>4, <1>5 DEF IsNested
<1>7. PICK h : /\ h[0] = <<>>
               /\ \A n \in 0..k : IsList(h[n])
               /\ \A n \in 1..k : h[n] = h[n - 1] \o ss[n]
  BY <1>5, <1>6, FlatGrows
<1> DEFINE t == [n \in 1..(k + 1) |-> Len(h[n - 1])]
<1>8. ASSUME NEW n \in 1..(k + 1) PROVE t[n] \in Nat
  <2>1. n - 1 \in 0..k
    BY <1>1
  <2> QED BY <1>7, <2>1, ListFacts
<1>9. t[1] = 0
  <2>1. 1 \in 1..(k + 1) /\ 1 - 1 = 0
    BY <1>1
  <2>2. t[1] = Len(h[0])
    BY <2>1
  <2> QED BY <1>7, <2>2, ShortLists
<1>10. ASSUME NEW n \in 1..k PROVE t[n + 1] = t[n] + blocks[n].rows
  <2>1. n \in 1..(k + 1) /\ n + 1 \in 1..(k + 1) /\ n - 1 \in 0..k /\ n \in 0..k /\ (n + 1) - 1 = n
    BY <1>1
  <2>2. t[n + 1] = Len(h[n]) /\ t[n] = Len(h[n - 1])
    BY <2>1
  <2>3. IsList(h[n - 1]) /\ IsList(ss[n]) /\ Len(ss[n]) = blocks[n].rows
    BY <1>3, <1>4, <1>7, <2>1
  <2>4. h[n] = h[n - 1] \o ss[n]
    BY <1>7
  <2>5. Len(h[n - 1] \o ss[n]) = Len(h[n - 1]) + Len(ss[n])
    BY <2>3, ListConcat
  <2> QED BY <2>2, <2>3, <2>4, <2>5
<1> HIDE DEF t
<1>11. Heights(blocks, t)
  BY <1>8, <1>9, <1>10 DEF Heights, k
<1> QED BY <1>11

\* Top finds them.
LEMMA TopIsTheHeight ==
  ASSUME NEW blocks, Filled(blocks), NEW t, Heights(blocks, t), NEW n \in 1..(Len(blocks) + 1)
  PROVE  Design!Top(blocks, n) = t[n]
<1> DEFINE k == Len(blocks)
           Step(f) == [m \in 1..n |-> IF m = 1 THEN 0 ELSE f[m - 1] + blocks[m - 1].rows]
           top == CHOOSE f : f = Step(f)
           g == [m \in 1..n |-> t[m]]
<1>1. k \in Nat /\ n \in Nat /\ n >= 1 /\ n <= k + 1
  BY ListFacts DEF Filled
<1>2. Design!Top(blocks, n) = top[n]
  BY DEF Design!Top
<1>3. ASSUME NEW m \in 1..n, m # 1
      PROVE  m - 1 \in 1..n /\ m - 1 \in 1..k /\ t[m] = t[m - 1] + blocks[m - 1].rows
  <2>1. m - 1 \in 1..n /\ m - 1 \in 1..k /\ (m - 1) + 1 = m
    BY <1>1, <1>3
  <2>2. \A p \in 1..k : t[p + 1] = t[p] + blocks[p].rows
    BY DEF Heights
  <2> QED BY <2>1, <2>2
<1>4. g = Step(g)
  <2>1. ASSUME NEW m \in 1..n PROVE g[m] = IF m = 1 THEN 0 ELSE g[m - 1] + blocks[m - 1].rows
    <3>1. CASE m = 1
      BY <3>1 DEF Heights
    <3>2. CASE m # 1
      BY <1>3, <3>2
    <3> QED BY <3>1, <3>2
  <2> QED BY <2>1
<1> HIDE DEF g
<1>5. top = Step(top)
  BY <1>4
<1> HIDE DEF top
<1>6. \A m \in 1..n : top[m] = IF m = 1 THEN 0 ELSE top[m - 1] + blocks[m - 1].rows
  BY <1>5
<1> DEFINE S == {m \in 0..n : m # 0 => top[m] = t[m]}
<1>7. 0 \in S
  BY <1>1
<1>8. ASSUME NEW m \in 1..n, m - 1 \in S PROVE m \in S
  <2>1. m \in 0..n
    BY <1>1
  <2>2. CASE m = 1
    BY <1>6, <2>1, <2>2 DEF Heights
  <2>3. CASE m # 1
    <3>1. m - 1 # 0 /\ top[m - 1] = t[m - 1]
      BY <1>1, <1>8, <2>3
    <3>2. top[m] = t[m - 1] + blocks[m - 1].rows
      BY <1>6, <2>3, <3>1
    <3> QED BY <1>3, <2>1, <2>3, <3>2
  <2> QED BY <2>2, <2>3
<1> HIDE DEF S
<1>9. \A m \in 0..n : m \in S
  BY <1>1, <1>7, <1>8, Counting
<1>10. n \in S /\ n # 0
  BY <1>1, <1>9
<1> QED BY <1>2, <1>10 DEF S

\* A block starts before the end of its column.
LEMMA BlocksEndInside ==
  ASSUME NEW blocks, Filled(blocks), NEW n \in DOMAIN blocks
  PROVE  /\ Design!Top(blocks, n) \in Nat /\ Design!Top(blocks, Len(blocks) + 1) \in Nat
         /\ Design!Top(blocks, n) + 1 <= Design!Top(blocks, Len(blocks) + 1)
<1> DEFINE k == Len(blocks)
<1>1. k \in Nat /\ DOMAIN blocks = 1..k
  BY ListFacts DEF Filled
<1>2. PICK t : Heights(blocks, t)
  BY HeightsExist
<1>3. /\ \A m \in 1..(k + 1) : t[m] \in Nat
      /\ \A m \in 1..k : t[m + 1] = t[m] + blocks[m].rows
  BY <1>2 DEF Heights
<1>4. \A m \in 1..k : blocks[m].rows \in Nat /\ blocks[m].rows >= 1
  BY <1>1 DEF Filled
<1>5. n \in 1..k /\ n \in Nat
  BY <1>1
<1> DEFINE S == {m \in 0..k : m >= n => t[n] + 1 <= t[m + 1]}
<1>6. 0 \in S
  BY <1>1, <1>5
<1>7. ASSUME NEW m \in 1..k, m - 1 \in S PROVE m \in S
  <2>1. m \in 0..k /\ m \in 1..(k + 1) /\ m + 1 \in 1..(k + 1) /\ n \in 1..(k + 1) /\ m \in Nat /\ (m - 1) + 1 = m
    BY <1>1, <1>5
  <2>2. t[m] \in Nat /\ t[n] \in Nat /\ t[m + 1] \in Nat /\ t[m + 1] = t[m] + blocks[m].rows
        /\ blocks[m].rows \in Nat /\ blocks[m].rows >= 1
    BY <1>3, <1>4, <2>1
  <2>3. CASE m = n
    BY <2>1, <2>2, <2>3
  <2>4. CASE m > n
    <3>1. t[n] + 1 <= t[m]
      BY <1>5, <1>7, <2>1, <2>4
    <3> QED BY <2>1, <2>2, <3>1
  <2>5. CASE m < n
    BY <1>5, <2>1, <2>5
  <2> QED BY <1>5, <2>1, <2>3, <2>4, <2>5
<1> HIDE DEF S
<1>8. \A m \in 0..k : m \in S
  BY <1>1, <1>6, <1>7, Counting
<1>9. t[n] + 1 <= t[k + 1]
  <2>1. k \in S /\ k >= n
    BY <1>1, <1>5, <1>8
  <2> QED BY <2>1 DEF S
<1>10. n \in 1..(k + 1) /\ k + 1 \in 1..(k + 1)
  BY <1>1, <1>5
<1>11. Design!Top(blocks, n) = t[n] /\ Design!Top(blocks, k + 1) = t[k + 1]
  BY <1>2, <1>10, TopIsTheHeight
<1> QED BY <1>3, <1>9, <1>10, <1>11

\* The height of a column.
LEMMA HeightIsANumber ==
  ASSUME NEW blocks, Filled(blocks)
  PROVE  Design!Top(blocks, Len(blocks) + 1) \in Nat
<1>1. Len(blocks) + 1 \in 1..(Len(blocks) + 1)
  BY ListFacts DEF Filled
<1>2. PICK t : Heights(blocks, t)
  BY HeightsExist
<1> QED BY <1>1, <1>2, TopIsTheHeight DEF Heights

\* The larger and the smaller of two numbers.
LEMMA TwoNumbers ==
  ASSUME NEW a \in Nat, NEW b \in Nat
  PROVE  /\ Design!Max({a, b}) \in {a, b} /\ Design!Max({a, b}) >= a /\ Design!Max({a, b}) >= b
         /\ Design!Min({a, b}) = IF a < b THEN a ELSE b
<1>1. \E x \in {a, b} : \A y \in {a, b} : x >= y
  OBVIOUS
<1>2. Design!Max({a, b}) \in {a, b} /\ \A y \in {a, b} : Design!Max({a, b}) >= y
  BY <1>1 DEF Design!Max
<1>3. \E x \in {a, b} : \A y \in {a, b} : x <= y
  OBVIOUS
<1>4. Design!Min({a, b}) \in {a, b} /\ \A y \in {a, b} : Design!Min({a, b}) <= y
  BY <1>3 DEF Design!Min
<1> QED BY <1>2, <1>4

-----------------------------------------------------------------------------
(* What is printed, by type *)

\* The number of a type in a list of types.
Times(list, type) == Len(Design!Those(list, {type}))

\* In one list after another.
LEMMA TimesConcat ==
  ASSUME NEW s, NEW t, IsList(s), IsList(t), NEW type
  PROVE  Times(s, type) \in Nat /\ Times(s \o t, type) = Times(s, type) + Times(t, type)
<1> DEFINE a == Design!Those(s, {type})
           b == Design!Those(t, {type})
<1>1. Design!Those(s \o t, {type}) = a \o b
  BY ThoseConcat
<1>2. IsList(a) /\ IsList(b)
  BY ChoiceIsNested
<1> HIDE DEF a, b
<1>3. Len(a \o b) = Len(a) + Len(b) /\ Len(a) \in Nat
  BY <1>2, ListConcat, ListFacts
<1> QED BY <1>1, <1>3 DEF Times, a, b

\* Of the entries of a list of blocks.
LEMMA TimesOfTypes ==
  ASSUME NEW blocks, IsList(blocks), NEW type
  PROVE  Cardinality({n \in DOMAIN blocks : blocks[n].type = type}) = Times(Design!Types(blocks), type)
<1> DEFINE list == Design!Types(blocks)
<1>1. IsList(list) /\ DOMAIN list = DOMAIN blocks /\ \A n \in DOMAIN blocks : list[n] = blocks[n].type
  <2>1. IsList(list)
    BY TypesConcat
  <2> QED BY <2>1 DEF Design!Types
<1> HIDE DEF list
<1>2. {n \in DOMAIN blocks : blocks[n].type = type} = {n \in DOMAIN list : list[n] \in {type}}
  BY <1>1
<1>3. Len(Design!Those(list, {type})) = Cardinality({n \in DOMAIN list : list[n] \in {type}})
  BY <1>1, ThoseLen
<1> QED BY <1>2, <1>3 DEF Times, list

\* The only card of a type.
LEMMA OneOfAType ==
  ASSUME NEW s, IsList(s), Distinct(s), NEW m \in DOMAIN s, NEW kept, \A n \in DOMAIN s : s[n] \in kept <=> s[n].type = s[m].type
  PROVE  Design!Those(s, kept) = <<s[m]>>
<1> DEFINE t == Design!Those(s, kept)
<1>1. IsList(t) /\ Items(t) = Items(s) \cap kept /\ Len(t) = Cardinality({n \in DOMAIN s : s[n] \in kept})
  BY ThoseItems, ChoiceIsNested, ThoseLen
<1>2. {n \in DOMAIN s : s[n] \in kept} = {m}
  BY DEF Distinct
<1>3. Cardinality({m}) = 1
  BY FS_Singleton
<1>4. Items(s) \cap kept = {s[m]}
  BY <1>2 DEF Items
<1> HIDE DEF t
<1>5. Len(t) = 1 /\ DOMAIN t = 1..1
  BY <1>1, <1>2, <1>3, ListFacts
<1>6. t[1] = s[m]
  BY <1>1, <1>4, <1>5 DEF Items
<1>7. IsList(<<s[m]>>) /\ Len(<<s[m]>>) = 1 /\ <<s[m]>>[1] = s[m]
  BY ShortLists
<1>8. t = <<s[m]>>
  <2> DEFINE one == <<s[m]>>
  <2>1. IsList(one) /\ Len(one) = 1 /\ one[1] = s[m]
    BY <1>7
  <2> HIDE DEF one
  <2>2. t = one
    BY <1>1, <1>5, <1>6, <2>1, ListEqual
  <2> QED BY <2>2 DEF one
<1> QED BY <1>8 DEF t

\* What some cards of different types show is of a type as often as the card of that type shows.
LEMMA TimesShown ==
  ASSUME NEW content, Counted(content), NEW all, \A n \in DOMAIN all : IsCard(all[n]),
         NEW lane, IsList(lane), Distinct(lane), Items(lane) \subseteq Items(all), NEW type
  PROVE  LET list == Spread(Shows(content, all), lane)
         IN /\ IsList(list)
            /\ (\A n \in DOMAIN lane : lane[n].type # type) => Times(list, type) = 0
            /\ \A n \in DOMAIN lane : lane[n].type = type => Times(list, type) = Len(Prints(content, type, lane[n].visible))
<1> DEFINE g == Shows(content, all)
           ss == Mapped(g, lane)
           list == Spread(g, lane)
           h == [x \in {type} |-> <<x>>]
           kept == {card \in Items(lane) : card.type = type}
           k == Len(lane)
           tt == [n \in 1..k |-> Design!Those(ss[n], {type})]
<1>1. /\ \A n \in 1..k : lane[n] \in Items(all) /\ lane[n] \in Items(lane)
      /\ DOMAIN lane = 1..k /\ k \in Nat
  BY ListFacts DEF Items
<1>2. \A n \in 1..k : /\ g[lane[n]] = Prints(content, lane[n].type, lane[n].visible)
                      /\ IsList(g[lane[n]]) /\ lane[n].type \in SectionTypes
  BY <1>1, ShowsFacts
<1>3. Spreads(g, lane)
  BY <1>1, <1>2 DEF Spreads
<1>4. IsNested(ss) /\ Len(ss) = k /\ DOMAIN ss = 1..k /\ (\A n \in 1..k : ss[n] = g[lane[n]]) /\ IsList(list)
  BY <1>3, MappedIsNested
<1>5. ASSUME NEW n \in 1..k
      PROVE  Items(g[lane[n]]) \subseteq {lane[n].type}
  <2> DEFINE kind == lane[n].type
             seen == lane[n].visible
             p == Prints(content, kind, seen)
  <2>1. /\ content[kind] = 0 \/ ~ seen => p = <<>>
        /\ content[kind] # 0 /\ seen /\ kind # "custom" => p = <<kind>>
        /\ content[kind] # 0 /\ seen /\ kind = "custom" => p = [row \in 1..content[kind] |-> kind]
    BY <1>2, PrintsFacts
  <2>2. g[lane[n]] = p
    BY <1>2
  <2> HIDE DEF kind, seen, p, g
  <2>3. Items(p) \subseteq {kind}
    <3>1. CASE p = <<>>
      BY <3>1 DEF Items
    <3>2. CASE p = <<kind>>
      BY <3>2 DEF Items
    <3>3. CASE p = [row \in 1..content[kind] |-> kind]
      BY <3>3 DEF Items
    <3> QED BY <2>1, <3>1, <3>2, <3>3
  <2> QED BY <2>2, <2>3 DEF kind
<1>6. Design!Those(list, {type}) = Flat(tt)
  <2>1. ASSUME NEW n \in 1..k
        PROVE  IsList(ss[n]) /\ \A m \in DOMAIN ss[n] : TRUE
    BY <1>4 DEF IsNested
  <2> DEFINE all1 == Items(list)
             f == [x \in all1 |-> IF x \in {type} THEN <<x>> ELSE <<>>]
  <2>2. \A n \in 1..k : \A m \in DOMAIN ss[n] : ss[n][m] \in all1
    <3> SUFFICES ASSUME NEW n \in 1..k, NEW m \in DOMAIN ss[n] PROVE ss[n][m] \in all1
      OBVIOUS
    <3>1. ss[n][m] \in Items(ss[n])
      BY DEF Items
    <3> HIDE DEF ss, list
    <3>2. ss[n][m] \in Items(Flat(ss))
      BY <1>4, <3>1, FlatItems
    <3> QED BY <3>2 DEF Spread, list, ss
  <2>3. \A m \in DOMAIN list : f[list[m]] = IF list[m] \in {type} THEN <<list[m]>> ELSE <<>>
    BY DEF Items
  <2>4. Spread(f, list) = Design!Those(list, {type})
    <3> HIDE DEF f, list
    <3> QED BY <1>4, <2>3, ThoseIsSpread
  <2>5. ASSUME NEW n \in 1..k
        PROVE  Spreads(f, ss[n]) /\ Spread(f, ss[n]) = Design!Those(ss[n], {type})
    <3>1. \A m \in DOMAIN ss[n] : f[ss[n][m]] = IF ss[n][m] \in {type} THEN <<ss[n][m]>> ELSE <<>>
      BY <2>2
    <3> HIDE DEF f, ss
    <3> QED BY <2>1, <3>1, ThoseIsSpread
  <2>6. list = Flat(ss)
    BY DEF Spread
  <2> HIDE DEF f, list, ss
  <2>7. Spread(f, Flat(ss)) = Flat([n \in DOMAIN ss |-> Spread(f, ss[n])])
    BY <1>4, <2>5, SpreadFlat
  <2>8. [n \in DOMAIN ss |-> Spread(f, ss[n])] = tt
    BY <1>4, <2>5
  <2> QED BY <2>4, <2>6, <2>7, <2>8
<1>7. ASSUME NEW n \in 1..k
      PROVE  tt[n] = IF lane[n] \in kept THEN g[lane[n]] ELSE <<>>
  <2>1. tt[n] = Design!Those(ss[n], {type}) /\ ss[n] = g[lane[n]] /\ IsList(g[lane[n]])
    BY <1>2, <1>4
  <2>2. Items(g[lane[n]]) \subseteq {lane[n].type}
    BY <1>5
  <2>3. lane[n] \in kept <=> lane[n].type = type
    BY <1>1
  <2> HIDE DEF tt, ss, kept, g
  <2>4. CASE lane[n].type = type
    BY <2>1, <2>2, <2>3, <2>4, ThoseAllOrNone
  <2>5. CASE lane[n].type # type
    <3>1. Items(g[lane[n]]) \cap {type} = {}
      BY <2>2, <2>5
    <3> QED BY <2>1, <2>3, <2>5, <3>1, ThoseAllOrNone
  <2> QED BY <2>4, <2>5
<1>8. Flat(tt) = Spread(g, Design!Those(lane, kept))
  <2>1. tt = [n \in DOMAIN lane |-> IF lane[n] \in kept THEN g[lane[n]] ELSE <<>>]
    BY <1>1, <1>7
  <2>2. \A n \in DOMAIN lane : lane[n] \in kept => IsList(g[lane[n]])
    BY <1>1, <1>2
  <2> HIDE DEF tt, kept, g
  <2> QED BY <2>1, <2>2, ThoseSpread
<1>9. Times(list, type) = Len(Spread(g, Design!Those(lane, kept)))
  BY <1>6, <1>8 DEF Times
<1> HIDE DEF g, list, kept, tt, ss
<1>10. ASSUME \A n \in DOMAIN lane : lane[n].type # type PROVE Times(list, type) = 0
  <2>1. Items(lane) \cap kept = {}
    BY <1>10 DEF kept, Items
  <2>2. Design!Those(lane, kept) = <<>>
    BY <2>1, ThoseAllOrNone
  <2> QED BY <1>9, <2>2, SpreadShort, ShortLists
<1>11. ASSUME NEW n \in DOMAIN lane, lane[n].type = type
       PROVE  Times(list, type) = Len(Prints(content, type, lane[n].visible))
  <2>1. \A m \in DOMAIN lane : lane[m] \in kept <=> lane[m].type = lane[n].type
    BY <1>11 DEF kept, Items
  <2>2. Design!Those(lane, kept) = <<lane[n]>>
    BY <2>1, OneOfAType
  <2>3. IsList(g[lane[n]]) /\ g[lane[n]] = Prints(content, type, lane[n].visible)
    BY <1>1, <1>2, <1>11
  <2>4. Spread(g, <<lane[n]>>) = g[lane[n]]
    BY <2>3, SpreadShort
  <2> QED BY <1>9, <2>2, <2>3, <2>4
<1> QED BY <1>4, <1>10, <1>11 DEF list, g

\* Of two lists of what the cards show, a type with a card in one of them.
LEMMA TimesOnThePage ==
  ASSUME NEW content, Counted(content), NEW all, IsList(all), Distinct(all), \A n \in DOMAIN all : IsCard(all[n]),
         NEW two, NEW main, NEW side,
         main = Spread(Shows(content, all), Design!Those(all, InColumn(all, two, "main"))),
         side = Spread(Shows(content, all), Design!Those(all, InColumn(all, two, "sidebar"))),
         NEW type
  PROVE  /\ (\A n \in DOMAIN all : all[n].type # type) => Times(main, type) + Times(side, type) = 0
         /\ \A n \in DOMAIN all : all[n].type = type
              => Times(main, type) + Times(side, type) = Len(Prints(content, type, all[n].visible))
<1> DEFINE Lane(column) == Design!Those(all, InColumn(all, two, column))
<1>1. ASSUME NEW column
      PROVE  /\ IsList(Lane(column)) /\ Distinct(Lane(column))
             /\ Items(Lane(column)) = InColumn(all, two, column) /\ Items(Lane(column)) \subseteq Items(all)
  <2>1. InColumn(all, two, column) \subseteq Items(all)
    BY DEF InColumn
  <2>2. /\ IsList(Lane(column)) /\ Distinct(Lane(column))
        /\ Items(Lane(column)) = Items(all) \cap InColumn(all, two, column)
    BY ThoseItems, ThoseDistinct, ChoiceIsNested
  <2> HIDE DEF Lane
  <2> QED BY <2>1, <2>2
<1> HIDE DEF Lane
<1>2. ASSUME NEW column, NEW list, list = Spread(Shows(content, all), Lane(column))
      PROVE  /\ (\A n \in DOMAIN Lane(column) : Lane(column)[n].type # type) => Times(list, type) = 0
             /\ \A n \in DOMAIN Lane(column) :
                  Lane(column)[n].type = type => Times(list, type) = Len(Prints(content, type, Lane(column)[n].visible))
  BY <1>1, <1>2, TimesShown
<1>3. main = Spread(Shows(content, all), Lane("main")) /\ side = Spread(Shows(content, all), Lane("sidebar"))
  BY DEF Lane
<1>4. ASSUME NEW column, NEW list, list = Spread(Shows(content, all), Lane(column))
      PROVE  /\ (\A x \in InColumn(all, two, column) : x.type # type) => Times(list, type) = 0
             /\ \A x \in InColumn(all, two, column) :
                  x.type = type => Times(list, type) = Len(Prints(content, type, x.visible))
  <2>1. Items(Lane(column)) = InColumn(all, two, column)
    BY <1>1
  <2> QED BY <1>2, <1>4, <2>1 DEF Items
<1>5. /\ (\A x \in InColumn(all, two, "main") : x.type # type) => Times(main, type) = 0
      /\ \A x \in InColumn(all, two, "main") : x.type = type => Times(main, type) = Len(Prints(content, type, x.visible))
  BY <1>3, <1>4
<1>6. /\ (\A x \in InColumn(all, two, "sidebar") : x.type # type) => Times(side, type) = 0
      /\ \A x \in InColumn(all, two, "sidebar") : x.type = type => Times(side, type) = Len(Prints(content, type, x.visible))
  BY <1>3, <1>4
<1>7. ASSUME \A n \in DOMAIN all : all[n].type # type
      PROVE  Times(main, type) + Times(side, type) = 0
  <2>1. \A column : \A x \in InColumn(all, two, column) : x.type # type
    BY <1>7 DEF InColumn, Items
  <2> QED BY <1>5, <1>6, <2>1
<1>8. ASSUME NEW n \in DOMAIN all, all[n].type = type
      PROVE  Times(main, type) + Times(side, type) = Len(Prints(content, type, all[n].visible))
  <2> DEFINE c == all[n]
             aside == two /\ c.placement = "sidebar"
             printed == Len(Prints(content, type, c.visible))
  <2>1. c \in Items(all) /\ c.type = type
    BY <1>8 DEF Items
  <2>2. \A x \in Items(all) : x.type = type => x = c
    BY <1>8 DEF Items, Distinct
  <2>3. printed \in Nat
    <3>1. type \in SectionTypes
      BY <2>1, ShowsFacts
    <3>2. IsList(Prints(content, type, c.visible))
      BY <3>1, PrintsFacts
    <3> QED BY <3>2, ListFacts
  <2>4. CASE aside
    <3>1. c \in InColumn(all, two, "sidebar") /\ \A x \in InColumn(all, two, "main") : x.type # type
      BY <2>1, <2>2, <2>4 DEF InColumn
    <3>2. Times(main, type) = 0 /\ Times(side, type) = printed
      BY <1>5, <1>6, <2>1, <3>1
    <3> QED BY <2>3, <3>2
  <2>5. CASE ~ aside
    <3>1. c \in InColumn(all, two, "main") /\ \A x \in InColumn(all, two, "sidebar") : x.type # type
      BY <2>1, <2>2, <2>5 DEF InColumn
    <3>2. Times(main, type) = printed /\ Times(side, type) = 0
      BY <1>5, <1>6, <2>1, <3>1
    <3> QED BY <2>3, <3>2
  <2> QED BY <2>4, <2>5
<1> QED BY <1>7, <1>8

\* The number of entries of a type, as its section has them.
LEMMA PrintsOnce ==
  ASSUME NEW content, Counted(content), NEW type \in SectionTypes, NEW seen \in BOOLEAN
  PROVE  Len(Prints(content, type, seen)) = CASE ~ seen -> 0
                                              [] type = "custom" /\ seen -> content[type]
                                              [] OTHER -> Design!Min({content[type], 1})
<1> DEFINE k == content[type]
           p == Prints(content, type, seen)
           least == Design!Min({k, 1})
<1>1. k \in Nat
  BY DEF Counted
<1>2. /\ k = 0 \/ ~ seen => p = <<>>
      /\ k # 0 /\ seen /\ type # "custom" => p = <<type>>
      /\ k # 0 /\ seen /\ type = "custom" => p = [row \in 1..k |-> type]
  BY PrintsFacts
<1>3. least = IF k < 1 THEN k ELSE 1
  <2> HIDE DEF k
  <2> QED BY <1>1, TwoNumbers
<1>4. Len(<<>>) = 0 /\ Len(<<type>>) = 1
  BY ShortLists
<1>5. Len([row \in 1..k |-> type]) = k
  <2> DEFINE t == [row \in 1..k |-> type]
  <2>1. t = [row \in 1..k |-> t[row]]
    OBVIOUS
  <2> HIDE DEF t, k
  <2> QED BY <1>1, <2>1, ListMade DEF t
<1> HIDE DEF k, p, least
<1>6. CASE ~ seen
  BY <1>2, <1>4, <1>6 DEF p
<1>7. CASE seen /\ k = 0
  <2>1. Len(p) = 0 /\ least = 0
    BY <1>1, <1>2, <1>3, <1>4, <1>7
  <2> QED BY <1>7, <2>1 DEF p, k, least
<1>8. CASE seen /\ k # 0 /\ type = "custom"
  BY <1>2, <1>5, <1>8 DEF p, k
<1>9. CASE seen /\ k # 0 /\ type # "custom"
  <2>1. Len(p) = 1 /\ least = 1
    BY <1>1, <1>2, <1>3, <1>4, <1>9
  <2> QED BY <1>9, <2>1 DEF p, k, least
<1> QED BY <1>6, <1>7, <1>8, <1>9

-----------------------------------------------------------------------------
(* The manifest *)

\* The entries of a column.
Measured(blocks, name) == [n \in DOMAIN blocks |-> Design!Measure(blocks, name, n)]

\* One for each block, of its type, on a page that the column reaches.
LEMMA MeasuredFacts ==
  ASSUME NEW blocks, Filled(blocks), NEW name
  PROVE  /\ IsList(Measured(blocks, name)) /\ Len(Measured(blocks, name)) = Len(blocks)
         /\ Design!Types(Measured(blocks, name)) = Design!Types(blocks)
         /\ \A entry \in Items(Measured(blocks, name)) :
              /\ entry.page \in Nat
              /\ entry.page <= (Design!Top(blocks, Len(blocks) + 1) + 2) \div 3
<1> DEFINE k == Len(blocks)
           list == Measured(blocks, name)
           high == Design!Top(blocks, k + 1)
<1>1. k \in Nat /\ DOMAIN blocks = 1..k
  BY ListFacts DEF Filled
<1>2. list = [n \in 1..k |-> Design!Measure(blocks, name, n)]
  BY <1>1 DEF Measured
<1>3. ASSUME NEW n \in 1..k
      PROVE  /\ Design!Measure(blocks, name, n).type = blocks[n].type
             /\ Design!Measure(blocks, name, n).page = Design!Top(blocks, n) \div 3 + 1
  BY DEF Design!Measure, Design!PageHeight
<1> HIDE DEF list, k
<1>4. list = [n \in 1..k |-> list[n]] /\ \A n \in 1..k : list[n] = Design!Measure(blocks, name, n)
  BY <1>2
<1>5. IsList(list) /\ Len(list) = k /\ DOMAIN list = 1..k
  BY <1>1, <1>4, ListMade
<1>6. Design!Types(list) = Design!Types(blocks)
  BY <1>1, <1>3, <1>4, <1>5 DEF Design!Types
<1>7. ASSUME NEW entry \in Items(list)
      PROVE  entry.page \in Nat /\ entry.page <= (high + 2) \div 3
  <2>1. PICK n \in 1..k : entry = list[n]
    BY <1>5 DEF Items
  <2> DEFINE top == Design!Top(blocks, n)
  <2>2. entry.page = top \div 3 + 1
    BY <1>3, <1>4, <2>1
  <2>3. top \in Nat /\ high \in Nat /\ top + 1 <= high
    BY <1>1, BlocksEndInside DEF k
  <2> HIDE DEF top, high
  <2>4. top \div 3 + 1 \in Nat /\ top \div 3 + 1 <= (high + 2) \div 3
    BY <2>3
  <2> QED BY <2>2, <2>4
<1> QED BY <1>5, <1>6, <1>7 DEF list, k, high

\* The pages of the document are those of its longest column.
LEMMA PageCountFacts ==
  ASSUME NEW document, Filled(document.columns["main"]), Filled(document.columns["sidebar"]),
         NEW column \in Placements
  PROVE  LET bound == (Design!Top(document.columns[column], Len(document.columns[column]) + 1) + 2) \div 3
         IN bound \in Nat /\ Design!PageCount(document) \in Nat /\ bound <= Design!PageCount(document)
<1> DEFINE Height(name) == Design!Top(document.columns[name], Len(document.columns[name]) + 1)
           a == Height("main")
           b == Height("sidebar")
           tallest == Design!Max({a, b})
           count == (tallest + 3 - 1) \div 3
<1>1. a \in Nat /\ b \in Nat
  BY HeightIsANumber
<1>2. Design!PageCount(document) = Design!Max({1, count})
  BY DEF Design!PageCount, Design!PageHeight
<1>3. Height(column) \in {a, b}
  BY DEF Placements
<1> DEFINE high == Height(column)
<1>4. high \in Nat
  BY <1>1, <1>3
<1> HIDE DEF a, b, Height
<1>5. tallest \in {a, b} /\ tallest >= a /\ tallest >= b
  BY <1>1, TwoNumbers
<1> HIDE DEF high
<1>6. tallest \in Nat /\ high <= tallest
  BY <1>1, <1>3, <1>5 DEF high
<1> HIDE DEF tallest
<1>7. count \in Nat /\ (high + 2) \div 3 \in Nat /\ (high + 2) \div 3 <= count
  BY <1>4, <1>6
<1> HIDE DEF count
<1>8. Design!Max({1, count}) \in {1, count} /\ Design!Max({1, count}) >= count
  BY <1>7, TwoNumbers
<1>9. (high + 2) \div 3 \in Nat /\ Design!PageCount(document) \in Nat /\ (high + 2) \div 3 <= Design!PageCount(document)
  <2> DEFINE most == Design!Max({1, count})
             pages == (high + 2) \div 3
  <2>1. most \in Nat /\ most >= count
    BY <1>7, <1>8
  <2> HIDE DEF most
  <2>2. pages \in Nat /\ pages <= count
    BY <1>7
  <2> HIDE DEF pages
  <2>3. pages <= most
    BY <1>7, <2>1, <2>2
  <2> QED BY <1>2, <2>1, <2>2, <2>3 DEF most, pages
<1> QED BY <1>9 DEF high, Height

\* The manifest: the types of both columns, each entry on a page there is.
LEMMA ManifestFacts ==
  ASSUME NEW document, Filled(document.columns["main"]), Filled(document.columns["sidebar"]),
         NEW entries, entries = Design!Manifest(document)
  PROVE  /\ IsList(entries)
         /\ Design!Types(entries) = Design!Types(document.columns["main"]) \o Design!Types(document.columns["sidebar"])
         /\ \A n \in DOMAIN entries : entries[n].page <= Design!PageCount(document)
<1> DEFINE main == document.columns["main"]
           side == document.columns["sidebar"]
           a == Measured(main, "main")
           b == Measured(side, "sidebar")
           count == Design!PageCount(document)
<1>1. entries = a \o b
  BY DEF Design!Manifest, Measured
<1>2. /\ IsList(a) /\ IsList(b)
      /\ Design!Types(a) = Design!Types(main) /\ Design!Types(b) = Design!Types(side)
  BY MeasuredFacts
<1>3. ASSUME NEW entry \in Items(a) PROVE entry.page <= count
  <2> DEFINE bound == (Design!Top(main, Len(main) + 1) + 2) \div 3
  <2>1. entry.page \in Nat /\ entry.page <= bound
    BY <1>3, MeasuredFacts
  <2>2. bound \in Nat /\ count \in Nat /\ bound <= count
    <3>1. "main" \in Placements
      BY DEF Placements
    <3> QED BY <3>1, PageCountFacts
  <2> HIDE DEF bound, count
  <2> QED BY <2>1, <2>2
<1>4. ASSUME NEW entry \in Items(b) PROVE entry.page <= count
  <2> DEFINE bound == (Design!Top(side, Len(side) + 1) + 2) \div 3
  <2>1. entry.page \in Nat /\ entry.page <= bound
    BY <1>4, MeasuredFacts
  <2>2. bound \in Nat /\ count \in Nat /\ bound <= count
    <3>1. "sidebar" \in Placements
      BY DEF Placements
    <3> QED BY <3>1, PageCountFacts
  <2> HIDE DEF bound, count
  <2> QED BY <2>1, <2>2
<1> HIDE DEF a, b, count
<1>5. IsList(entries) /\ Items(entries) = Items(a) \cup Items(b)
  BY <1>1, <1>2, ListConcat, ItemsConcat
<1>6. Design!Types(entries) = Design!Types(a) \o Design!Types(b)
  BY <1>1, <1>2, TypesConcat
<1>7. ASSUME NEW n \in DOMAIN entries PROVE entries[n].page <= count
  <2>1. entries[n] \in Items(a) \cup Items(b)
    BY <1>5 DEF Items
  <2> QED BY <1>3, <1>4, <2>1
<1> QED BY <1>2, <1>5, <1>6, <1>7 DEF count

\* The rows of a type, as the cards of the panel have it.
Owed(content, all, type) ==
  LET hidden == {all[n].type : n \in {m \in DOMAIN all : ~ all[m].visible}}
  IN CASE type \in hidden -> 0
       [] type = "custom" /\ type \notin hidden -> content[type]
       [] OTHER -> Design!Min({content[type], 1})

\* A type without a card has no rows.
LEMMA OwedWithoutCard ==
  ASSUME NEW content, Counted(content), NEW all, NEW type \in SectionTypes, \A n \in DOMAIN all : all[n].type # type,
         \A other \in Offers : \E n \in DOMAIN all : all[n].type = other
  PROVE  Owed(content, all, type) = 0
<1>1. content[type] = 0
  BY DEF Counted
<1>2. type \notin {all[n].type : n \in {m \in DOMAIN all : ~ all[m].visible}}
  OBVIOUS
<1>3. Design!Min({0, 1}) = 0
  BY TwoNumbers
<1> QED BY <1>1, <1>2, <1>3 DEF Owed

\* A type has one card, which hides it or not.
LEMMA OwedWithCard ==
  ASSUME NEW content, Counted(content), NEW all, Distinct(all), \A n \in DOMAIN all : IsCard(all[n]),
         NEW m \in DOMAIN all, NEW type \in SectionTypes, all[m].type = type
  PROVE  Owed(content, all, type) = Len(Prints(content, type, all[m].visible))
<1> DEFINE hidden == {all[n].type : n \in {other \in DOMAIN all : ~ all[other].visible}}
           seen == all[m].visible
           least == Design!Min({content[type], 1})
           count == Len(Prints(content, type, seen))
<1>1. type \in hidden <=> ~ seen
  BY DEF Distinct
<1>2. (seen = TRUE \/ seen = FALSE) /\ seen \in BOOLEAN
  BY DEF IsCard
<1>3. count = CASE ~ seen -> 0 [] type = "custom" /\ seen -> content[type] [] OTHER -> least
  BY <1>2, PrintsOnce
<1>4. Owed(content, all, type) = CASE type \in hidden -> 0 [] type = "custom" /\ type \notin hidden -> content[type] [] OTHER -> least
  BY DEF Owed
<1> HIDE DEF hidden, seen, least, count
<1>5. CASE type \in hidden
  BY <1>1, <1>3, <1>4, <1>5 DEF count, seen
<1>6. CASE type \notin hidden /\ type = "custom"
  BY <1>1, <1>3, <1>4, <1>6 DEF count, seen
<1>7. CASE type \notin hidden /\ type # "custom"
  BY <1>1, <1>3, <1>4, <1>7 DEF count, seen
<1> QED BY <1>5, <1>6, <1>7

\* The types of some blocks are a list.
LEMMA TypesListed ==
  ASSUME NEW blocks, IsList(blocks)
  PROVE  IsList(Design!Types(blocks))
<1> DEFINE t == Design!Types(blocks)
           k == Len(blocks)
<1>1. k \in Nat /\ DOMAIN blocks = 1..k
  BY ListFacts
<1>2. t = [n \in 1..k |-> t[n]]
  BY <1>1 DEF Design!Types
<1> HIDE DEF t, k
<1>3. IsList(t)
  BY <1>1, <1>2, ListMade
<1> QED BY <1>3 DEF t

\* The manifest has what the cards owe, on pages there are.
LEMMA RowsPrinted ==
  ASSUME DesignIInv, BoardIInv
  PROVE  Design!EveryRowIsPrinted
<1> DEFINE n == Design!Normalized(local)
           document == Design!PageOf(local)
           entries == Design!Manifest(document)
           all == Design!Shown.sections
           printed == Design!RenderContent(rows, n)
           two == Design!UsesTwoColumns(n)
           main == Design!Types(printed["main"])
           side == Design!Types(printed["sidebar"])
<1>1. Settled(local) /\ Arranged(local) /\ Counted(rows) /\ catalogue = Design!FallbackCatalogue
  BY DEF DesignIInv, BoardIInv
<1>2. n.sections = local.sections
  BY <1>1, NormalizedFields
<1>3. document.columns = printed
  BY DEF Design!PageOf, Design!RenderDocument
<1>4. Joins(all, local.sections, Added(local))
  BY <1>1, ResolvedArranges DEF Design!Shown, Joins
<1>5. /\ IsList(all) /\ Distinct(all) /\ \A m \in DOMAIN all : IsCard(all[m])
      /\ \A type \in Offers : \E m \in DOMAIN all : all[m].type = type
  <2> HIDE DEF all
  <2> QED BY <1>1, <1>4, ShownFacts
<1>6. two = Design!UsesTwoColumns(n) /\ printed = Design!RenderContent(rows, n) /\ entries = Design!Manifest(document)
  OBVIOUS
<1> HIDE DEF n, document, entries, all, printed, two
<1>7. ASSUME NEW column \in Placements
      PROVE  /\ Filled(printed[column])
             /\ Design!Types(printed[column]) = Spread(Shows(rows, all), Design!Those(all, InColumn(all, two, column)))
  BY <1>1, <1>2, <1>4, <1>6, PageColumns
<1>8. /\ Filled(printed["main"]) /\ Filled(printed["sidebar"])
      /\ main = Spread(Shows(rows, all), Design!Those(all, InColumn(all, two, "main")))
      /\ side = Spread(Shows(rows, all), Design!Those(all, InColumn(all, two, "sidebar")))
  BY <1>7 DEF Placements
<1>9. /\ IsList(entries) /\ Design!Types(entries) = main \o side
      /\ \A m \in DOMAIN entries : entries[m].page <= Design!PageCount(document)
  <2>1. Filled(document.columns["main"]) /\ Filled(document.columns["sidebar"])
    BY <1>3, <1>8
  <2>2. /\ IsList(entries)
        /\ Design!Types(entries) = Design!Types(document.columns["main"]) \o Design!Types(document.columns["sidebar"])
        /\ \A m \in DOMAIN entries : entries[m].page <= Design!PageCount(document)
    BY <1>6, <2>1, ManifestFacts
  <2> QED BY <1>3, <2>2
<1>10. IsList(main) /\ IsList(side)
  <2>1. IsList(printed["main"]) /\ IsList(printed["sidebar"])
    BY <1>8 DEF Filled
  <2> QED BY <2>1, TypesListed
<1>11. ASSUME NEW type \in SectionTypes
       PROVE  Design!Cardinality({m \in DOMAIN entries : entries[m].type = type}) = Owed(rows, all, type)
  <2> DEFINE times == Times(main, type) + Times(side, type)
  <2>1. Cardinality({m \in DOMAIN entries : entries[m].type = type}) = Times(main \o side, type)
    BY <1>9, TimesOfTypes
  <2>2. Times(main \o side, type) = times
    <3> HIDE DEF main, side
    <3> QED BY <1>10, TimesConcat
  <2>3. /\ (\A m \in DOMAIN all : all[m].type # type) => times = 0
        /\ \A m \in DOMAIN all : all[m].type = type => times = Len(Prints(rows, type, all[m].visible))
    <3> HIDE DEF main, side
    <3> QED BY <1>1, <1>5, <1>8, TimesOnThePage
  <2> HIDE DEF times
  <2>4. times = Owed(rows, all, type)
    <3>1. CASE \A m \in DOMAIN all : all[m].type # type
      BY <1>1, <1>5, <2>3, <3>1, OwedWithoutCard
    <3>2. CASE \E m \in DOMAIN all : all[m].type = type
      <4>1. PICK m \in DOMAIN all : all[m].type = type
        BY <3>2
      <4> QED BY <1>1, <1>5, <2>3, <4>1, OwedWithCard
    <3> QED BY <3>1, <3>2
  <2>5. Design!Cardinality({m \in DOMAIN entries : entries[m].type = type}) = Cardinality({m \in DOMAIN entries : entries[m].type = type})
    BY DEF Design!Cardinality, Cardinality
  <2> QED BY <2>1, <2>2, <2>4, <2>5
<1>12. DOMAIN rows = SectionTypes
  BY <1>1 DEF Counted
<1> QED BY <1>9, <1>11, <1>12 DEF Design!EveryRowIsPrinted, Owed, document, entries, all

-----------------------------------------------------------------------------
(* Where a section lands *)

\* A list with an item between two others, chosen from.
LEMMA HeldThose ==
  ASSUME NEW a, NEW b, IsList(a), IsList(b), NEW x, NEW t, Holds(t, a, x, b), NEW kept
  PROVE  /\ x \in kept => Holds(Design!Those(t, kept), Design!Those(a, kept), x, Design!Those(b, kept))
         /\ x \notin kept => Joins(Design!Those(t, kept), Design!Those(a, kept), Design!Those(b, kept))
<1> DEFINE one == <<x>>
           first == a \o one
           ka == Design!Those(a, kept)
           kb == Design!Those(b, kept)
           ko == Design!Those(one, kept)
<1>1. IsList(one) /\ Items(one) = {x}
  <2>1. IsList(<<x>>) /\ Len(<<x>>) = 1 /\ <<x>>[1] = x
    BY ShortLists
  <2>2. DOMAIN <<x>> = {1}
    OBVIOUS
  <2> QED BY <2>1, <2>2 DEF Items
<1>2. t = first \o b
  BY DEF Holds
<1>3. IsList(ka) /\ IsList(kb)
  BY ChoiceIsNested
<1> HIDE DEF one
<1>4. IsList(first)
  BY <1>1, ListConcat
<1>5. Design!Those(first, kept) = ka \o ko
  <2> HIDE DEF ka, ko
  <2> QED BY <1>1, ThoseConcat DEF ka, ko
<1>6. Design!Those(t, kept) = (ka \o ko) \o kb
  <2> HIDE DEF first, ka, ko, kb
  <2>1. Design!Those(first \o b, kept) = Design!Those(first, kept) \o Design!Those(b, kept)
    BY <1>4, ThoseConcat
  <2> QED BY <1>2, <1>5, <2>1 DEF kb
<1>7. /\ x \in kept => ko = one
      /\ x \notin kept => ko = <<>>
  <2>1. x \in kept => Items(one) \subseteq kept
    BY <1>1
  <2>2. x \notin kept => Items(one) \cap kept = {}
    BY <1>1
  <2> QED BY <1>1, <2>1, <2>2, ThoseAllOrNone
<1> HIDE DEF ka, kb, ko, first
<1>8. ka \o <<>> = ka
  BY <1>3, ListConcat
<1> QED BY <1>6, <1>7, <1>8 DEF ka, kb, one, Holds, Joins

\* The place of that item, when no other has its id.
LEMMA HeldIndex ==
  ASSUME NEW a, NEW b, IsList(a), IsList(b), NEW x, NEW t, Holds(t, a, x, b), NEW id, x.id = id,
         \A y \in Items(a) \cup Items(b) : y.id # id
  PROVE  Design!IndexOf(t, id) = Len(a) + 1
<1> DEFINE one == <<x>>
           first == a \o one
           at == Design!IndexOf(t, id)
           j == Len(a)
           k == Len(b)
<1>1. IsList(one) /\ Len(one) = 1 /\ one[1] = x
  BY ShortLists
<1>2. t = first \o b
  BY DEF Holds
<1> HIDE DEF one
<1>3. /\ j \in Nat /\ k \in Nat /\ DOMAIN a = 1..j /\ DOMAIN b = 1..k
  BY ListFacts
<1>14. /\ IsList(first) /\ Len(first) = j + Len(one)
       /\ \A n \in 1..(j + Len(one)) : first[n] = IF n <= j THEN a[n] ELSE one[n - j]
  BY <1>1, ListConcat
<1> HIDE DEF first, j
<1>4. /\ IsList(first) /\ Len(first) = j + 1
      /\ \A n \in 1..(j + 1) : first[n] = IF n <= j THEN a[n] ELSE one[n - j]
  BY <1>1, <1>14
<1>5. /\ IsList(t) /\ Len(t) = Len(first) + k
      /\ \A n \in 1..(Len(first) + k) : t[n] = IF n <= Len(first) THEN first[n] ELSE b[n - Len(first)]
  BY <1>2, <1>4, ListConcat
<1> HIDE DEF j, k
<1>6. Len(t) = j + 1 + k /\ \A n \in 1..(j + 1 + k) : t[n] = IF n <= j + 1 THEN first[n] ELSE b[n - (j + 1)]
  BY <1>3, <1>4, <1>5
<1>7. t[j + 1] = x
  <2>1. first[j + 1] = one[1]
    BY <1>3, <1>4
  <2> QED BY <1>1, <1>3, <1>6, <2>1
<1>8. ASSUME NEW n \in 1..(j + 1 + k), n # j + 1 PROVE t[n].id # id
  <2>1. CASE n <= j
    <3>1. t[n] = a[n] /\ n \in DOMAIN a
      BY <1>3, <1>4, <1>6, <2>1
    <3> QED BY <3>1 DEF Items
  <2>2. CASE n > j + 1
    <3>1. t[n] = b[n - (j + 1)] /\ n - (j + 1) \in DOMAIN b
      BY <1>3, <1>6, <2>2
    <3> QED BY <3>1 DEF Items
  <2> QED BY <1>3, <1>8, <2>1, <2>2
<1>9. /\ at \in 0..Len(t) /\ (at # 0 => t[at].id = id)
      /\ at = 0 => \A n \in DOMAIN t : t[n].id # id
  BY <1>5, IndexFacts
<1>10. DOMAIN t = 1..(j + 1 + k)
  BY <1>5, <1>6, ListFacts
<1> HIDE DEF at
<1>11. at # 0
  BY <1>3, <1>7, <1>9, <1>10
<1>12. at \in 1..(j + 1 + k)
  BY <1>3, <1>6, <1>9, <1>11
<1>13. at = j + 1
  BY <1>8, <1>9, <1>11, <1>12
<1> QED BY <1>13 DEF at, j

\* A section that moves leaves the others as they were and comes where its lane was to have it.
LEMMA MoveLands ==
  ASSUME NEW list, IsList(list), NEW move, NEW t, Moved(list, move, t)
  PROVE  /\ Design!Without(t, move.id) = Design!Without(list, move.id)
         /\ Design!IndexOf(Design!Lane(t, move.placement), move.id)
              = Design!Min({move.index, Len(Design!Lane(Design!Without(list, move.id), move.placement))}) + 1
<1> DEFINE u == Design!Without(list, move.id)
           lane == Design!Lane(t, move.placement)
           index == Design!Min({move.index, Len(Design!Lane(u, move.placement))})
<1>1. PICK a, b, card :
        /\ IsList(a) /\ IsList(b) /\ u = a \o b /\ t = (a \o <<card>>) \o b
        /\ card.id = move.id /\ card.placement = move.placement
        /\ Len(Design!Lane(a, move.placement)) = index
  BY DEF Moved
<1>2. Joins(u, a, b) /\ Holds(t, a, card, b)
  BY <1>1 DEF Joins, Holds
<1>3. IsList(u) /\ Items(u) = {x \in Items(list) : x.id # move.id}
  BY WithoutFacts
<1> HIDE DEF u, lane, index
<1>4. Items(u) = Items(a) \cup Items(b)
  <2>1. Items(a \o b) = Items(a) \cup Items(b)
    BY <1>1, ItemsConcat
  <2> QED BY <1>2, <2>1 DEF Joins
<1>5. \A x \in Items(a) \cup Items(b) : x.id # move.id
  BY <1>3, <1>4
<1>6. IsList(t) /\ Items(t) = Items(u) \cup {card}
  <2> DEFINE one == <<card>>
             first == a \o one
  <2>1. IsList(one) /\ Items(one) = {card}
    <3>1. IsList(<<card>>) /\ <<card>>[1] = card
      BY ShortLists
    <3>2. DOMAIN <<card>> = {1}
      OBVIOUS
    <3> QED BY <3>1, <3>2 DEF Items
  <2>2. t = first \o b
    BY <1>1
  <2> HIDE DEF one
  <2>3. IsList(first) /\ Items(first) = Items(a) \cup Items(one)
    BY <1>1, <2>1, ListConcat, ItemsConcat
  <2> HIDE DEF first
  <2>4. IsList(t) /\ Items(t) = Items(first) \cup Items(b)
    BY <1>1, <2>2, <2>3, ListConcat, ItemsConcat
  <2> QED BY <1>4, <2>1, <2>3, <2>4
<1>7. Design!Without(t, move.id) = u
  <2> DEFINE kept == Items(u)
  <2>1. \A n \in DOMAIN t : t[n] \in kept <=> t[n].id # move.id
    <3> SUFFICES ASSUME NEW n \in DOMAIN t PROVE t[n] \in Items(u) <=> t[n].id # move.id
      OBVIOUS
    <3>1. t[n] \in Items(u) \cup {card}
      BY <1>6 DEF Items
    <3> QED BY <1>1, <1>4, <1>5, <3>1
  <2> HIDE DEF kept
  <2>2. Design!Without(t, move.id) = Design!Those(t, kept)
    BY <1>6, <2>1, WithoutFacts
  <2>3. card \notin kept
    BY <1>1, <1>4, <1>5 DEF kept
  <2>4. Joins(Design!Those(t, kept), Design!Those(a, kept), Design!Those(b, kept))
    BY <1>1, <1>2, <2>3, HeldThose
  <2>5. Design!Those(a, kept) = a /\ Design!Those(b, kept) = b
    <3>1. Items(a) \subseteq kept /\ Items(b) \subseteq kept
      BY <1>4 DEF kept
    <3> QED BY <1>1, <3>1, ThoseAllOrNone
  <2> QED BY <1>2, <2>2, <2>4, <2>5 DEF Joins
<1>8. Design!IndexOf(lane, move.id) = index + 1
  <2> DEFINE kept == {x \in Items(t) : x.placement = move.placement}
             la == Design!Those(a, kept)
             lb == Design!Those(b, kept)
  <2>1. lane = Design!Those(t, kept)
    BY <1>6, LaneIs DEF lane
  <2>2. card \in kept
    BY <1>1, <1>6
  <2>3. \A n \in DOMAIN a : a[n] \in kept <=> a[n].placement = move.placement
    BY <1>4, <1>6 DEF Items
  <2>4. /\ IsList(la) /\ Items(la) \subseteq Items(a)
        /\ IsList(lb) /\ Items(lb) \subseteq Items(b)
    <3> HIDE DEF kept
    <3>1. /\ IsList(Design!Those(a, kept)) /\ Items(Design!Those(a, kept)) = Items(a) \cap kept
          /\ IsList(Design!Those(b, kept)) /\ Items(Design!Those(b, kept)) = Items(b) \cap kept
      BY <1>1, ChoiceIsNested, ThoseItems
    <3> QED BY <3>1
  <2> HIDE DEF kept
  <2>5. la = Design!Lane(a, move.placement)
    BY <1>1, <2>3, LaneIs
  <2>6. Holds(lane, la, card, lb)
    BY <1>1, <1>2, <2>1, <2>2, HeldThose
  <2> HIDE DEF la, lb
  <2>7. card.id = move.id /\ \A y \in Items(la) \cup Items(lb) : y.id # move.id
    BY <1>1, <1>5, <2>4
  <2>8. Design!IndexOf(lane, move.id) = Len(la) + 1
    BY <2>4, <2>6, <2>7, HeldIndex
  <2> QED BY <1>1, <2>5, <2>8
<1> QED BY <1>7, <1>8 DEF u, lane, index

\* A board of two columns that has every section stored can move any of them to any column.
LEMMA MoveIsAccepted ==
  ASSUME catalogue = Design!FallbackCatalogue, NEW s, Arranged(s), NEW move, Asked(move), move.op = "move",
         Design!TwoColumnBoard(s), Design!MergeSections(s) = s.sections
  PROVE  ~ Design!MoveRefused(s, move)
<1> DEFINE S == s.sections
           E == Added(s)
<1>1. IsList(S) /\ IsList(E) /\ \A n \in DOMAIN S : IsCard(S[n])
  BY AddedFacts DEF Arranged
<1>2. S \o E = S
  BY Merged
<1>3. DOMAIN E = {}
  <2> HIDE DEF S, E
  <2>1. Len(S \o E) = Len(S) + Len(E)
    BY <1>1, ListConcat
  <2>2. Len(S) \in Nat /\ Len(E) \in Nat /\ DOMAIN E = 1..Len(E)
    BY <1>1, ListFacts
  <2>3. Len(E) = 0
    BY <1>2, <2>1, <2>2
  <2> QED BY <2>2, <2>3
<1>4. \E n \in DOMAIN S : S[n].id = move.id
  <2>1. move.id \in Offers
    BY DEF Asked
  <2>2. \E n \in DOMAIN S : S[n].type = move.id
    BY <1>3, <2>1, AddedFacts
  <2> QED BY <1>1, <2>2 DEF IsCard
<1>5. Design!IndexOf(S, move.id) # 0
  <2> HIDE DEF S
  <2> QED BY <1>1, <1>4, IndexFacts
<1>6. Design!Contract(s.template).sidebar
  <2>1. s.template \in Templates \cup {"modern"} /\ 2 \in Design!CompatibleLayouts(s.template)
    BY DEF Arranged, Design!TwoColumnBoard
  <2>2. Design!CompatibleLayouts(s.template) = IF s.template \in Design!SingleColumn THEN {1} ELSE {1, 2}
    BY <2>1, FallbackFacts DEF Design!CompatibleLayouts, Design!SingleColumn
  <2>3. s.template \notin Design!SingleColumn
    BY <2>1, <2>2
  <2> QED BY <2>3 DEF Design!Contract
<1> QED BY <1>5, <1>6 DEF Design!MoveRefused

\* The answer of the gateway to a move to a column.
LEMMA MovedAnswerLands ==
  ASSUME DesignIInv, BoardIInv, Design!SectionMoved, moving.move.op = "move",
         Design!TwoColumnBoard(moving.settings), Design!MergeSections(moving.settings) = moving.settings.sections
  PROVE  LET m == moving.move
             before == Design!Lane(Design!Without(moving.settings.sections, m.id), m.placement)
         IN /\ Design!Without(local'.sections, m.id) = Design!Without(moving.settings.sections, m.id)
            /\ Design!IndexOf(Design!Lane(local'.sections, m.placement), m.id) = Design!Min({m.index, Len(before)}) + 1
<1> DEFINE s == moving.settings
           move == moving.move
           applied == Design!AppliedMove(s.sections, move)
           sent == [s EXCEPT !.sections = applied]
<1>1. moving # None
  BY DEF Design!SectionMoved
<1>2. catalogue = Design!FallbackCatalogue /\ Settled(s) /\ Arranged(s) /\ Asked(move)
  BY <1>1 DEF DesignIInv, BoardIInv
<1>3. ~ Design!MoveRefused(s, move)
  BY <1>2, MoveIsAccepted
<1>4. local' = Design!Normalized([s EXCEPT !.sections = Design!AppliedMove(@, move)])
  BY <1>3 DEF Design!SectionMoved
<1>5. local' = Design!Normalized(sent)
  BY <1>4
<1> HIDE DEF applied
<1>6. Settled(sent) /\ sent.sections = applied
  <2>1. "sections" \in Fields
    BY DEF Fields
  <2> HIDE DEF s
  <2> QED BY <1>2, <2>1, PlainFields DEF Settled
<1> HIDE DEF sent
<1>7. local'.sections = applied
  BY <1>5, <1>6, NormalizedFields
<1>8. move.op # "swap" /\ Design!IndexOf(s.sections, move.id) # 0
  BY <1>3 DEF Design!MoveRefused
<1> HIDE DEF s, move
<1>9. Moved(s.sections, move, applied)
  BY <1>2, <1>8, MovedFacts DEF applied
<1>10. IsList(s.sections)
  BY <1>2 DEF Arranged
<1>11. /\ Design!Without(applied, move.id) = Design!Without(s.sections, move.id)
       /\ Design!IndexOf(Design!Lane(applied, move.placement), move.id)
            = Design!Min({move.index, Len(Design!Lane(Design!Without(s.sections, move.id), move.placement))}) + 1
  BY <1>9, <1>10, MoveLands
<1> QED BY <1>7, <1>11 DEF s, move

\* No other step of the editor ends a move.
LEMMA OnlyAnswersEndMoves ==
  ASSUME Design!Next, moving # None, moving' = None
  PROVE  Design!SectionMoved
<1>1. ASSUME Design!MoveSection PROVE FALSE
  BY <1>1 DEF Design!MoveSection, Design!Movable
<1>2. ASSUME NEW part, Design!EditRows(part) PROVE moving' = moving
  BY <1>2 DEF Design!EditRows, Design!SyncRows, Design!calls
<1>3. ASSUME NEW n, Design!EditSection(n) PROVE moving' = moving
  BY <1>3 DEF Design!EditSection, Design!Update, Design!calls
<1>4. CASE \/ Design!EditDocument \/ Design!EditSpacing \/ Design!EditLayout \/ Design!EditDensity \/ Design!EditTypography
           \/ Design!EditLinks \/ Design!TogglePhoto \/ Design!EnableCss \/ Design!RestoreCss \/ Design!ResetSettings
           \/ (\E target : Design!ToggleAccent(target)) \/ (\E mark : Design!CssMode(mark))
           \/ (\E text : Design!TypeCss(text))
  <2>1. \E s : Design!Update(s)
    BY <1>4 DEF Design!EditDocument, Design!EditSpacing, Design!EditLayout, Design!EditDensity, Design!EditTypography,
      Design!EditLinks, Design!TogglePhoto, Design!EnableCss, Design!RestoreCss, Design!ResetSettings, Design!ToggleAccent,
      Design!CssMode, Design!TypeCss
  <2>2. moving' = moving
    BY <2>1 DEF Design!Update, Design!calls
  <2> QED BY <2>2
<1>5. CASE Design!EditMainSections \/ Design!EditAdvancedSections \/ Design!EditCustomSections
  BY <1>2, <1>5 DEF Design!EditMainSections, Design!EditAdvancedSections, Design!EditCustomSections
<1>6. CASE Design!EditProfile \/ Design!RemovePhoto
  BY <1>6 DEF Design!EditProfile, Design!RemovePhoto, Design!calls
<1>7. CASE Design!UploadPhoto \/ \E id \in Templates : Design!ApplyTemplate(id)
  BY <1>7 DEF Design!UploadPhoto, Design!ApplyTemplate
<1>8. CASE Design!TemplateApplied \/ Design!PhotoUploaded
  BY <1>8 DEF Design!TemplateApplied, Design!PhotoUploaded
<1> QED BY <1>1, <1>3, <1>4, <1>5, <1>6, <1>7, <1>8 DEF Design!Next, Design!Answers

=============================================================================
