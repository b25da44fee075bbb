---------------------------- MODULE CvRendering ----------------------------
(***************************************************************************)
(* The template engine of the renderer, as operators on a resume           *)
(* document: its settings, the number of rows of each part and the profile.*)
(* A document is printed as a header, two columns of section blocks and a  *)
(* set of design tokens; a block keeps the order of the fields of its      *)
(* entries, never their text.                                              *)
(***************************************************************************)
EXTENDS Integers, SequencesExt, FiniteSetsExt, Functions

Keep(condition, item) == IF condition THEN <<item>> ELSE <<>>

\* The items of a list that are in a set, in their order: SelectSeq, without its recursion.
Those(list, kept) == FlattenSeq([n \in DOMAIN list |-> Keep(list[n] \in kept, list[n])])

-----------------------------------------------------------------------------
(* Template contracts *)

TemplateIds == {"modern", "atlas-sidebar", "compact", "ats", "student",
                "creative", "ledger", "executive", "signal", "scholar"}

SingleColumn == {"ats", "student", "ledger", "scholar"}

Contract(id) == [columns |-> IF id \in SingleColumn THEN {1} ELSE {1, 2},
                 sidebar |-> id \notin SingleColumn,
                 photo |-> id # "ats",
                 selectors |-> "1"]

\* resolveTemplateContract: what renderDocument refuses before it prints anything.
Compatible(settings) ==
  settings.template \in TemplateIds /\ settings.css.contract = Contract(settings.template).selectors

\* The style sheets a template is made of, the later ones winning.
Styles(id) ==
  CASE id \in {"atlas-sidebar", "ledger", "executive"} -> <<"modern", id>>
    [] id = "signal"  -> <<"compact", id>>
    [] id = "scholar" -> <<"student", id>>
    [] OTHER -> <<id>>

-----------------------------------------------------------------------------
(* Sections *)

Section(type, placement) ==
  [id |-> type, type |-> type, placement |-> placement, visible |-> TRUE,
   dates |-> TRUE, locations |-> TRUE, subtitleFirst |-> FALSE, pageBreak |-> FALSE]

DefaultSections ==
  <<Section("experience", "main"), Section("projects", "main"), Section("skills", "sidebar"),
    Section("education", "sidebar"), Section("languages", "sidebar"), Section("interests", "sidebar")>>

Numbered(section, copy, order) ==
  [id |-> <<section.id, copy>>, type |-> section.type, placement |-> section.placement, visible |-> section.visible,
   dates |-> section.dates, locations |-> section.locations, subtitleFirst |-> section.subtitleFirst,
   pageBreak |-> section.pageBreak, order |-> order]

\* configuredSections: every section has an order and an id of its own.
ConfiguredSections(settings) ==
  LET listed == IF settings.sections = <<>> THEN DefaultSections ELSE settings.sections
      Copy(n) == Cardinality({m \in 1..n : listed[m].id = listed[n].id})
  IN [n \in 1..Len(listed) |-> Numbered(listed[n], Copy(n), n - 1)]

\* sectionShell: a section without content is not printed, not even its heading.
SectionShell(section, rows, entry) ==
  IF rows = 0 THEN <<>>
  ELSE <<[id |-> section.id, type |-> section.type, placement |-> section.placement,
          order |-> section.order, pageBreak |-> section.pageBreak, rows |-> rows, entry |-> entry]>>

TitleSubtitle(section, title, subtitle) ==
  IF section.subtitleFirst THEN <<subtitle, title>> ELSE <<title, subtitle>>

DatesAndPlaces(section) == Keep(section.dates, "period") \o Keep(section.locations, "location")

RenderExperience(rows, section) ==
  SectionShell(section, rows["experience"],
    TitleSubtitle(section, "role", "company") \o DatesAndPlaces(section) \o <<"description", "keywords">>)

RenderEducation(rows, section) ==
  SectionShell(section, rows["education"],
    TitleSubtitle(section, "degree", "institution") \o DatesAndPlaces(section) \o <<"description">>)

RenderProjects(rows, section) ==
  SectionShell(section, rows["projects"], <<"name", "url", "description", "tech_stack">>)

RenderCertifications(rows, section) ==
  SectionShell(section, rows["certifications"], <<"name", "issuer", "date", "url", "description">>)

RenderVolunteering(rows, section) ==
  SectionShell(section, rows["volunteering"], <<"role", "organization", "period", "location", "description">>)

RenderPublications(rows, section) ==
  SectionShell(section, rows["publications"], <<"title", "publisher", "date", "url", "description">>)

RenderReferences(rows, section) ==
  SectionShell(section, rows["references"], <<"name", "role", "company", "contact", "description">>)

RenderSkills(rows, section) == SectionShell(section, rows["skills"], <<"category", "skills">>)

RenderLanguages(rows, section) == SectionShell(section, rows["languages"], <<"language", "level">>)

RenderInterests(rows, section) == SectionShell(section, rows["interests"], <<"tag">>)

\* One block per custom section, numbered from the place of the configured one.
RenderCustomSections(rows, section) ==
  FlattenSeq([n \in 1..rows["custom"] |->
    SectionShell([section EXCEPT !.id = <<"custom", n>>, !.order = @ + n - 1], 1, <<"content", "items">>)])

RenderVisible(rows, section) ==
  CASE section.type = "experience"     -> RenderExperience(rows, section)
    [] section.type = "projects"       -> RenderProjects(rows, section)
    [] section.type = "certifications" -> RenderCertifications(rows, section)
    [] section.type = "volunteering"   -> RenderVolunteering(rows, section)
    [] section.type = "publications"   -> RenderPublications(rows, section)
    [] section.type = "references"     -> RenderReferences(rows, section)
    [] section.type = "custom"         -> RenderCustomSections(rows, section)
    [] section.type = "skills"         -> RenderSkills(rows, section)
    [] section.type = "education"      -> RenderEducation(rows, section)
    [] section.type = "languages"      -> RenderLanguages(rows, section)
    [] section.type = "interests"      -> RenderInterests(rows, section)
    [] OTHER -> <<>>

\* Mutant: the visibility switch is not read.
RenderSectionAnyway(rows, section) == RenderVisible(rows, section)

RenderSection(rows, section) == IF section.visible THEN RenderVisible(rows, section) ELSE <<>>

FallbackTypes == <<"certifications", "volunteering", "publications", "references", "custom">>

\* Mutant: the parts nobody listed are forgotten.
NoFallbackSections(rows, sections) == <<>>

\* renderFallbackSections: the parts that no configured section prints come last.
RenderFallbackSections(rows, sections) ==
  LET used == {sections[n].type : n \in DOMAIN sections}
      unused == Those(FallbackTypes, ToSet(FallbackTypes) \ used)
  IN FlattenSeq([n \in DOMAIN unused |->
       RenderSection(rows, Numbered(Section(unused[n], "main"), 1, Len(sections) + n - 1))])

-----------------------------------------------------------------------------
(* Header *)

\* renderProfilePhoto: shown when enabled, and an embedded PNG, JPEG or WebP.
RenderPhoto(profile, settings) == settings.photo /\ profile.photo = "embedded"

\* renderContact: what is filled in, in this order, then the links.
RenderContact(profile) ==
  SelectSeq(<<"email", "phone", "city">>, LAMBDA kind : kind \in profile.filled)
    \o [n \in 1..profile.socials |-> "social"]

RenderHeader(profile, settings) ==
  Keep(RenderPhoto(profile, settings), "photo") \o <<"name", "title">>
    \o RenderContact(profile) \o Keep("summary" \in profile.filled, "summary")

-----------------------------------------------------------------------------
(* Advanced CSS.  A rule is well formed or not, has selectors and           *)
(* declarations; a selector names the host, public attributes or anything   *)
(* else (a class, an id, an element of the shell).                          *)

SafeSelector(selector) == selector \in {"host", "attribute"}

SafeDeclarations(rule) == SelectSeq(rule.declarations, LAMBDA declaration : declaration # "blocked")

\* sanitizeAdvancedCss in mode css_patch, rule by rule.
PatchRule(rule) ==
  LET selectors == SelectSeq(rule.selectors, SafeSelector) IN
    CASE ~ rule.formed                 -> [kept |-> <<>>, warnings |-> {"malformed_rule"}]
      [] rule.formed /\ selectors = <<>> -> [kept |-> <<>>, warnings |-> {"unsupported_selector"}]
      [] rule.formed /\ selectors # <<>> /\ SafeDeclarations(rule) = <<>> ->
           [kept |-> <<>>, warnings |-> {"unsafe_declaration"}]
      [] OTHER -> [kept |-> <<[rule EXCEPT !.selectors = selectors, !.declarations = SafeDeclarations(rule)]>>,
                   warnings |-> IF selectors = rule.selectors THEN {} ELSE {"unsupported_selector"}]

\* sanitizeTokenCss: only rules on the host.
TokenRule(rule) ==
  CASE ~ rule.formed -> [kept |-> <<>>, warnings |-> {"malformed_rule"}]
    [] rule.formed /\ rule.selectors # <<"host">> -> [kept |-> <<>>, warnings |-> {"tokens_host_only"}]
    [] rule.formed /\ rule.selectors = <<"host">> /\ SafeDeclarations(rule) = <<>> ->
         [kept |-> <<>>, warnings |-> {"unsafe_declaration"}]
    [] OTHER -> [kept |-> <<[rule EXCEPT !.declarations = SafeDeclarations(rule)]>>, warnings |-> {}]

SanitizeCss(css) ==
  LET Rule(rule) == IF css.mode = "tokens" THEN TokenRule(rule) ELSE PatchRule(rule)
      results == IF css.enabled /\ css.mode # "off" THEN [n \in DOMAIN css.rules |-> Rule(css.rules[n])] ELSE <<>>
  IN [rules |-> FlattenSeq([n \in DOMAIN results |-> results[n].kept]),
      warnings |-> UNION {results[n].warnings : n \in DOMAIN results}]

-----------------------------------------------------------------------------
(* Design tokens *)

\* The grid of the content, from the layout alone.
Grid(settings) ==
  CASE settings.columns = 1 \/ settings.sidebar = "none" -> <<"main">>
    [] settings.columns # 1 /\ settings.sidebar = "left" -> <<"sidebar", "main">>
    [] OTHER -> <<"main", "sidebar">>

\* smallerCssSize, on tenths of a pixel.
SmallerSize(current, limit) == IF current <= limit THEN current ELSE limit

\* The space between entries: the density counts only where no spacing is set.
EntrySpacing(settings) ==
  CASE settings.spacing > 0 -> settings.spacing
    [] settings.spacing = 0 /\ settings.density = "compact" -> 160
    [] settings.spacing = 0 /\ settings.density = "student" -> 180
    [] settings.spacing = 0 /\ settings.density = "senior"  -> 240
    [] OTHER -> 200

\* Mutant: the limits are not those of the gateway any more.
NarrowSizes(settings) ==
  LET Shrunk(size, limit) == IF settings.onePage THEN SmallerSize(size, limit) ELSE size IN
    [font |-> Shrunk(settings.fontSize, 115), marginH |-> Shrunk(settings.marginH, 320),
     marginV |-> Shrunk(settings.marginV, 280),
     spacing |-> IF settings.onePage THEN SmallerSize(IF settings.spacing > 0 THEN settings.spacing ELSE 200, 100)
                                     ELSE EntrySpacing(settings)]

\* The sizes of the page, which the one-page option may only shrink.
Sizes(settings) ==
  LET Shrunk(size, limit) == IF settings.onePage THEN SmallerSize(size, limit) ELSE size IN
    [font |-> Shrunk(settings.fontSize, 115), marginH |-> Shrunk(settings.marginH, 360),
     marginV |-> Shrunk(settings.marginV, 280),
     spacing |-> IF settings.onePage THEN SmallerSize(IF settings.spacing > 0 THEN settings.spacing ELSE 200, 100)
                                     ELSE EntrySpacing(settings)]

\* buildAccentTargetCss; the rule on links comes after it and wins.
Accented(settings) == (settings.accents \ {"links"}) \cup (IF settings.linkColor = "accent" THEN {"links"} ELSE {})

\* buildTokenOverrides.  The token named after the density is left out: no style
\* sheet reads it.
Tokens(settings) ==
  [grid |-> Grid(settings), sizes |-> Sizes(settings), accented |-> Accented(settings)]

-----------------------------------------------------------------------------
(* The document *)

UsesTwoColumns(settings) ==
  2 \in Contract(settings.template).columns /\ settings.columns # 1 /\ settings.sidebar # "none"

Weight == [experience |-> 20, projects |-> 14, education |-> 10, skills |-> 6, languages |-> 4,
           certifications |-> 8, volunteering |-> 8, publications |-> 8, references |-> 6,
           custom |-> 8, interests |-> 0]

\* onePageOverflowRisk, without the length of the texts.
OverflowRisk(rows) ==
  LET score == SumFunction([type \in DOMAIN rows |-> rows[type] * Weight[type]]) IN
    CASE score >= 180 -> "high"
      [] score >= 130 /\ score < 180 -> "medium"
      [] OTHER -> "fit"

OnePageWarning(rows, settings) ==
  IF settings.onePage /\ OverflowRisk(rows) # "fit" THEN {OverflowRisk(rows)} ELSE {}

\* renderCvContent: the columns with their blocks, a single flow counting as main.
RenderContent(rows, settings) ==
  LET sections == ConfiguredSections(settings)
      two == UsesTwoColumns(settings)
      Column(section) == IF two /\ section.placement = "sidebar" THEN "sidebar" ELSE "main"
      Printed(column) == FlattenSeq([n \in DOMAIN sections |->
        IF Column(sections[n]) = column
        THEN RenderSection(rows, IF two THEN sections[n] ELSE [sections[n] EXCEPT !.placement = "main"])
        ELSE <<>>])
  IN [main |-> Printed("main") \o RenderFallbackSections(rows, sections), sidebar |-> Printed("sidebar")]

\* renderDocument.
RenderDocument(rows, profile, settings) ==
  [header |-> RenderHeader(profile, settings), columns |-> RenderContent(rows, settings),
   styles |-> Styles(settings.template), tokens |-> Tokens(settings), css |-> SanitizeCss(settings.css).rules,
   warnings |-> OnePageWarning(rows, settings) \cup SanitizeCss(settings.css).warnings]

-----------------------------------------------------------------------------
(* The manifest of a printed document: each row takes a unit of height and  *)
(* pages are PageHeight units high.                                         *)

PageHeight == 3

\* The height of the blocks before the n-th.
Top(column, n) ==
  LET top[m \in 1..n] == IF m = 1 THEN 0 ELSE top[m - 1] + column[m - 1].rows
  IN top[n]

\* The entry of a section: where it starts and whether it runs over the page's end.
Measure(column, name, n) ==
  LET top == Top(column, n)
      page == top \div PageHeight + 1
  IN [id |-> column[n].id, type |-> column[n].type, column |-> name, index |-> column[n].order,
      page |-> page, crosses |-> top + column[n].rows > page * PageHeight]

Manifest(document) ==
  LET Entries(name) == [n \in DOMAIN document.columns[name] |-> Measure(document.columns[name], name, n)] IN
    Entries("main") \o Entries("sidebar")

PageCount(document) ==
  LET Height(name) == Top(document.columns[name], Len(document.columns[name]) + 1)
      tallest == Max({Height("main"), Height("sidebar")})
  IN Max({1, (tallest + PageHeight - 1) \div PageHeight})

=============================================================================
