-------------------------- MODULE WebClientProofs --------------------------
(***************************************************************************)
(* The web client, for any number of actions of the user and any           *)
(* templates, catalogue, rows and style sheets: no request is sent twice,  *)
(* no provider is called without a consent, what the gateway keeps for the *)
(* pages stays linked; and in the editor of the design the one-page option *)
(* drops nothing of the page and enlarges nothing, the board of the        *)
(* sections shows the page, every row is in the manifest of the page once, *)
(* and a section moves to where the board was asked to put it.             *)
(***************************************************************************)
EXTENDS WebPagesProofs, CvDesignProofs

-----------------------------------------------------------------------------
(* The pages together *)

\* The invariant of the page that is open; what the gateway and the store keep for the others is as they left it.
WebIInv ==
  /\ page \in Pages
  /\ page = "tracker" => TrackerIInv
  /\ page = "library" => LibraryIInv
  /\ page = "letters" => LettersIInv
  /\ page = "tailor" => TailorIInv
  /\ page = "ats" => AtsIInv
  /\ page \in {"design", "workflow", "guide", "startup"} => QuietIInv
  /\ Tracker!RemindersHaveTheirApplication
  /\ Listed(library)

\* A page opens with one or two requests of no kind that is watched.
LEMMA OpensWatched ==
  ASSUME NEW tags, NEW c, IsRequest(c), NEW d, IsRequest(d),
         \A tag \in tags : ~ OfKind(tag, c) /\ ~ OfKind(tag, d),
         NEW s, s = <<c>> \/ s = <<c, d>>
  PROVE  Watched(s, tags, {})
<1>1. CASE s = <<c>>
  <2>1. Requests(s) /\ DOMAIN s = {1} /\ s[1] = c
    BY <1>1, Opened
  <2> QED BY <2>1, WatchedOpened
<1>2. CASE s = <<c, d>>
  <2>1. Requests(s) /\ DOMAIN s = {1, 2} /\ s[1] = c /\ s[2] = d
    BY <1>2, Opened
  <2> QED BY <2>1, WatchedOpened
<1> QED BY <1>1, <1>2

\* The tracker opens with no creation under way, and so do the others.
LEMMA TrackerOpens ==
  ASSUME Tracker!PageInit, calls = Tracker!Effects
  PROVE  TrackerIInv
<1> DEFINE c == [op |-> "load", arg |-> [origin |-> "open"], reply |-> None]
<1>1. calls = <<c>> /\ IsRequest(c) /\ c.op = "load" /\ c.arg.origin = "open"
  BY NewRequest DEF Tracker!Effects, Tracker!Call
<1>2. \A tag \in TrackerTags : ~ OfKind(tag, c)
  BY <1>1 DEF TrackerTags, OfKind, Ats!Guarded, Ats!Needs
<1> HIDE DEF c
<1>3. Watched(calls, TrackerTags, {})
  BY <1>1, <1>2, OpensWatched
<1>4. TrackerUp = {}
  BY DEF TrackerUp, Tracker!PageInit
<1> QED BY <1>3, <1>4 DEF TrackerIInv

\* The requests of the dashboard as it opens.
LEMMA LibraryOpensPage ==
  ASSUME Library!PageInit, calls = Library!Effects
  PROVE  LibraryIInv
<1> DEFINE c == [op |-> "load", arg |-> None, reply |-> None]
<1>1. calls = <<c>> /\ IsRequest(c) /\ c.op = "load"
  BY NewRequest DEF Library!Effects, Library!Call
<1>2. \A tag \in LibraryTags : ~ OfKind(tag, c)
  BY <1>1 DEF LibraryTags, OfKind, Ats!Guarded, Ats!Needs
<1> HIDE DEF c
<1>3. Watched(calls, LibraryTags, {})
  BY <1>1, <1>2, OpensWatched
<1>4. LibraryUp = {}
  BY DEF LibraryUp, Library!PageInit
<1>5. Listed(library)
  BY DEF Listed, Library!PageInit
<1> QED BY <1>3, <1>4, <1>5 DEF LibraryIInv

\* The same for the letters,
LEMMA LettersOpen ==
  ASSUME Letters!PageInit, calls = Letters!Effects
  PROVE  LettersIInv
<1> DEFINE c == [op |-> "ledger", arg |-> [subject |-> "all"], reply |-> None]
           d == [op |-> "letters", arg |-> [origin |-> "open"], reply |-> None]
           e == [op |-> "loadDraft", arg |-> [origin |-> "open"], reply |-> None]
<1>1. calls = <<c>> \/ calls = <<d, e>>
  BY DEF Letters!Effects, Letters!EditorEffects, Letters!Call
<1>2. /\ IsRequest(c) /\ c.op = "ledger" /\ c.arg = [subject |-> "all"]
      /\ IsRequest(d) /\ d.op = "letters" /\ d.arg.origin = "open"
      /\ IsRequest(e) /\ e.op = "loadDraft"
  BY NewRequest
<1>3. "after" \notin DOMAIN c.arg
  BY <1>2
<1> HIDE DEF c, d, e
<1>4. \A tag \in LetterTags : ~ OfKind(tag, c) /\ ~ OfKind(tag, d) /\ ~ OfKind(tag, e)
  BY <1>2, <1>3 DEF LetterTags, OfKind, Ats!Guarded, Ats!Needs
<1>5. Watched(calls, LetterTags, {})
  BY <1>1, <1>2, <1>4, OpensWatched
<1>6. LetterUp = {} /\ Flagged(ledger, {"clearing", "subject"}) /\ Flagged(editor, {"saving", "exporting", "id", "job"})
  BY DEF LetterUp, Letters!PageInit, Flagged
<1> QED BY <1>5, <1>6 DEF LettersIInv

\* the builder,
LEMMA TailorOpens ==
  ASSUME Tailor!PageInit, calls = Tailor!Effects
  PROVE  TailorIInv
<1> DEFINE c == [op |-> "load", arg |-> None, reply |-> None]
<1>1. calls = <<c>> /\ IsRequest(c) /\ c.op = "load" /\ c.reply = None
  BY NewRequest DEF Tailor!Effects, Tailor!Call
<1>2. \A tag \in TailorTags : ~ OfKind(tag, c)
  BY <1>1 DEF TailorTags, OfKind
<1> HIDE DEF c
<1>3. Watched(calls, TailorTags, {})
  BY <1>1, <1>2, OpensWatched
<1>4. TailorUp = {} /\ TailorFields
  BY DEF TailorUp, TailorFields, Tailor!PageInit, Flagged
<1>5. Reads(calls, builder.job)
  BY <1>1, Opened DEF Reads
<1> QED BY <1>3, <1>4, <1>5 DEF TailorIInv

\* the scoring page,
LEMMA AtsOpens ==
  ASSUME Ats!PageInit, calls = Ats!Effects
  PROVE  AtsIInv
<1> DEFINE c == [op |-> "loadDraft", arg |-> None, reply |-> None]
<1>1. calls = <<c>> /\ IsRequest(c) /\ c.op = "loadDraft" /\ c.reply = None
  BY NewRequest DEF Ats!Effects, Ats!Call
<1> HIDE DEF c
<1>2. Sound(c, agreed)
  BY <1>1, SoundOps
<1>3. Requests(calls) /\ \A k \in DOMAIN calls : Sound(calls[k], agreed)
  <2>1. Requests(calls) /\ DOMAIN calls = {1} /\ calls[1] = c
    BY <1>1, Opened
  <2> QED BY <1>2, <2>1
<1>4. /\ consents \subseteq agreed /\ dialog = None /\ mode \in Ats!Modes
      /\ "mode" \in DOMAIN drawer /\ drawer.mode \in Ats!Modes
  BY DEF Ats!PageInit, Ats!GateInit, Ats!Modes
<1> QED BY <1>3, <1>4 DEF AtsIInv

\* and the pages that watch no request.
LEMMA QuietOpens ==
  ASSUME calls \in {Workflow!Effects, Guide!Effects, <<>>}
  PROVE  QuietIInv
<1>1. CASE calls = <<>>
  BY <1>1, Opened, NewRequest DEF QuietIInv
<1>2. ASSUME NEW op \in {"load", "loadDraft"}, NEW arg, calls = <<[op |-> op, arg |-> arg, reply |-> None]>>
      PROVE  QuietIInv
  <2> DEFINE c == [op |-> op, arg |-> arg, reply |-> None]
  <2>1. IsRequest(c) /\ c.op = op /\ calls = <<c>>
    BY <1>2, NewRequest
  <2> HIDE DEF c
  <2>2. Requests(calls) /\ DOMAIN calls = {1} /\ calls[1].op = op
    BY <2>1, Opened
  <2> QED BY <2>2 DEF QuietIInv, Ats!Guarded, Ats!Needs
<1>3. CASE calls = Workflow!Effects
  BY <1>2, <1>3 DEF Workflow!Effects, Workflow!Call
<1>4. CASE calls = Guide!Effects
  BY <1>2, <1>4 DEF Guide!Effects, Guide!Call
<1> QED BY <1>1, <1>3, <1>4

\* The pages open well.
LEMMA WebInit ==
  ASSUME Init
  PROVE  WebIInv
<1>1. /\ page \in Pages
      /\ Tracker!PageInit /\ Letters!PageInit /\ Ats!PageInit /\ Library!PageInit /\ Tailor!PageInit
      /\ calls = CASE page = "tracker" -> Tracker!Effects
                   [] page = "letters" -> Letters!Effects
                   [] page = "ats" -> Ats!Effects
                   [] page = "workflow" -> Workflow!Effects
                   [] page = "guide" -> Guide!Effects
                   [] page = "library" -> Library!Effects
                   [] page = "tailor" -> Tailor!Effects
                   [] OTHER -> <<>>
  BY DEF Init
<1>2. /\ page = "tracker" => calls = Tracker!Effects
      /\ page = "letters" => calls = Letters!Effects
      /\ page = "ats" => calls = Ats!Effects
      /\ page = "library" => calls = Library!Effects
      /\ page = "tailor" => calls = Tailor!Effects
      /\ page \in {"design", "workflow", "guide", "startup"} => calls \in {Workflow!Effects, Guide!Effects, <<>>}
  BY <1>1
<1>3. Tracker!RemindersHaveTheirApplication
  BY <1>1 DEF Tracker!PageInit, Tracker!RemindersHaveTheirApplication
<1>4. Listed(library)
  BY <1>1 DEF Library!PageInit, Listed
<1> QED BY <1>1, <1>2, <1>3, <1>4, TrackerOpens, LibraryOpensPage, LettersOpen, TailorOpens, AtsOpens, QuietOpens DEF WebIInv

\* What a page that is not open keeps.
LEMMA OthersStay ==
  ASSUME WebIInv, Alone
  PROVE  /\ UNCHANGED page
         /\ page # "tracker" => Tracker!RemindersHaveTheirApplication'
         /\ page # "library" => Listed(library)'
         /\ page = "design" => QuietIInv'
<1>1. UNCHANGED page
  BY DEF Alone
<1>2. page # "tracker" => UNCHANGED <<applications, reminders>>
  BY DEF Alone, trackerVars
<1>3. page # "library" => UNCHANGED library
  BY DEF Alone, libraryVars
<1>4. page = "design" => UNCHANGED calls
  BY DEF Alone, network
<1> QED BY <1>1, <1>2, <1>3, <1>4 DEF WebIInv, Tracker!RemindersHaveTheirApplication, Listed, QuietIInv

\* A page without requests that need a consent calls no provider, nor does one where nothing is served.
LEMMA NoneIsCalled ==
  ASSUME \/ \A k \in DOMAIN calls : calls[k].op \notin Ats!Guarded
         \/ Requests(calls) /\ \A k \in DOMAIN calls' : calls'[k].reply = None
  PROVE  \A k \in DOMAIN calls : AgreedCall(k)
<1>1. ASSUME Requests(calls), \A k \in DOMAIN calls' : calls'[k].reply = None, NEW k \in DOMAIN calls PROVE AgreedCall(k)
  <2>1. ~ Replies(calls', calls, k, Ok)
    <3> SUFFICES ASSUME Replies(calls', calls, k, Ok) PROVE FALSE
      OBVIOUS
    <3>1. AfterReply(calls', calls, k, Ok)
      BY <1>1, Replied
    <3>2. \A op, arg : [op |-> op, arg |-> arg, reply |-> Ok].reply = Ok
      OBVIOUS
    <3>3. k \in DOMAIN calls' /\ calls'[k].reply = Ok
      BY <3>1, <3>2 DEF AfterReply
    <3> QED BY <1>1, <3>3, AnswersAssumption
  <2> QED BY <2>1 DEF AgreedCall, Replies
<1>2. ASSUME \A k \in DOMAIN calls : calls[k].op \notin Ats!Guarded, NEW k \in DOMAIN calls PROVE AgreedCall(k)
  BY <1>2 DEF AgreedCall
<1> QED BY <1>1, <1>2

\* A kind that no flag stands for is not sent at all.
LEMMA Unflagged ==
  ASSUME NEW s, NEW tags, NEW up, Watched(s, tags, up), NEW tag \in tags, tag \notin up
  PROVE  \A k \in DOMAIN s : ~ OfKind(tag, s[k])
  BY DEF Watched, Once

\* On every page but the scoring one.
LEMMA OthersCallNone ==
  ASSUME WebIInv, WebIInv', UNCHANGED page, page # "ats"
  PROVE  \A k \in DOMAIN calls : AgreedCall(k)
<1>1. CASE page = "tailor"
  <2>1. Watched(calls, TailorTags, TailorUp) /\ Watched(calls', TailorTags, TailorUp')
    BY <1>1 DEF WebIInv, TailorIInv
  <2>2. "served" \in TailorTags /\ "served" \notin TailorUp'
    BY DEF TailorTags, TailorUp
  <2>3. \A k \in DOMAIN calls' : ~ OfKind("served", calls'[k])
    BY <2>1, <2>2, Unflagged
  <2>4. Requests(calls) /\ \A k \in DOMAIN calls' : calls'[k].reply = None
    BY <2>1, <2>3 DEF OfKind, Watched
  <2> QED BY <2>4, NoneIsCalled
<1>2. ASSUME NEW tags, NEW up, Watched(calls, tags, up), "guarded" \in tags, "guarded" \notin up
      PROVE  \A k \in DOMAIN calls : AgreedCall(k)
  <2>1. \A k \in DOMAIN calls : ~ OfKind("guarded", calls[k])
    BY <1>2, Unflagged
  <2> QED BY <2>1, NoneIsCalled DEF OfKind
<1>3. CASE page = "tracker"
  <2>1. Watched(calls, TrackerTags, TrackerUp) /\ "guarded" \in TrackerTags /\ "guarded" \notin TrackerUp
    BY <1>3 DEF WebIInv, TrackerIInv, TrackerTags, TrackerUp
  <2> QED BY <1>2, <2>1
<1>4. CASE page = "library"
  <2>1. Watched(calls, LibraryTags, LibraryUp) /\ "guarded" \in LibraryTags /\ "guarded" \notin LibraryUp
    BY <1>4 DEF WebIInv, LibraryIInv, LibraryTags, LibraryUp
  <2> QED BY <1>2, <2>1
<1>5. CASE page = "letters"
  <2>1. Watched(calls, LetterTags, LetterUp) /\ "guarded" \in LetterTags /\ "guarded" \notin LetterUp
    BY <1>5 DEF WebIInv, LettersIInv, LetterTags, LetterUp
  <2> QED BY <1>2, <2>1
<1>6. CASE page \in {"design", "workflow", "guide", "startup"}
  BY <1>6, NoneIsCalled DEF WebIInv, QuietIInv
<1> QED BY <1>1, <1>3, <1>4, <1>5, <1>6 DEF WebIInv, Pages

\* A step of a page keeps the invariant, and calls a provider only as was agreed.
LEMMA WebStep ==
  ASSUME WebIInv, [Next]_vars
  PROVE  WebIInv' /\ (UNCHANGED <<calls, Ats!gateVars>> \/ \A k \in DOMAIN calls : AgreedCall(k))
<1>1. CASE TrackerNext
  <2>1. page = "tracker" /\ Tracker!Next /\ Alone
    BY <1>1 DEF TrackerNext
  <2>2. TrackerIInv' /\ Tracker!RemindersHaveTheirApplication'
    BY <2>1, TrackerStep DEF WebIInv
  <2>3. WebIInv' /\ UNCHANGED page
    BY <2>1, <2>2, OthersStay DEF WebIInv
  <2> QED BY <2>1, <2>3, OthersCallNone
<1>2. CASE LibraryNext
  <2>1. page = "library" /\ Library!Next /\ Alone
    BY <1>2 DEF LibraryNext
  <2>2. LibraryIInv'
    BY <2>1, LibraryStep DEF WebIInv
  <2>3. WebIInv' /\ UNCHANGED page
    BY <2>1, <2>2, OthersStay DEF WebIInv, LibraryIInv
  <2> QED BY <2>1, <2>3, OthersCallNone
<1>3. CASE LettersNext
  <2>1. page = "letters" /\ Letters!Next /\ Alone
    BY <1>3 DEF LettersNext
  <2>2. LettersIInv'
    BY <2>1, LettersStep DEF WebIInv
  <2>3. WebIInv' /\ UNCHANGED page
    BY <2>1, <2>2, OthersStay DEF WebIInv
  <2> QED BY <2>1, <2>3, OthersCallNone
<1>4. CASE TailorNext
  <2>1. page = "tailor" /\ Tailor!Next /\ Alone
    BY <1>4 DEF TailorNext
  <2>2. TailorIInv'
    BY <2>1, TailorStep DEF WebIInv
  <2>3. WebIInv' /\ UNCHANGED page
    BY <2>1, <2>2, OthersStay DEF WebIInv
  <2> QED BY <2>1, <2>3, OthersCallNone
<1>5. CASE AtsNext
  <2>1. page = "ats" /\ Ats!Next /\ Alone
    BY <1>5 DEF AtsNext
  <2>2. AtsIInv' /\ \A k \in DOMAIN calls : AgreedCall(k)
    BY <2>1, AtsStep DEF WebIInv
  <2>3. WebIInv'
    BY <2>1, <2>2, OthersStay DEF WebIInv
  <2> QED BY <2>2, <2>3
<1>6. CASE DesignNext \/ WorkflowNext \/ GuideNext \/ StartupNext
  <2>1. page \in {"design", "workflow", "guide", "startup"} /\ Alone
    BY <1>6 DEF DesignNext, WorkflowNext, GuideNext, StartupNext
  <2>2. QuietIInv'
    BY <1>6, <2>1, OthersStay, WorkflowStep, GuideStep, StartupStep DEF DesignNext, WorkflowNext, GuideNext, StartupNext, WebIInv
  <2>3. WebIInv' /\ UNCHANGED page
    BY <2>1, <2>2, OthersStay DEF WebIInv
  <2> QED BY <2>1, <2>3, OthersCallNone
<1>7. CASE UNCHANGED vars
  <2>1. UNCHANGED <<page, calls>> /\ UNCHANGED <<mode, consents, agreed, dialog, drawer>> /\ UNCHANGED <<applications, reminders>>
        /\ UNCHANGED library
    BY <1>7 DEF vars, network, atsVars, trackerVars, libraryVars
  <2>2. /\ TrackerIInv <=> TrackerIInv'
        /\ LibraryIInv <=> LibraryIInv'
        /\ LettersIInv <=> LettersIInv'
        /\ TailorIInv <=> TailorIInv'
        /\ AtsIInv <=> AtsIInv'
        /\ QuietIInv <=> QuietIInv'
    BY <1>7, <2>1 DEF vars, trackerVars, libraryVars, letterVars, tailorVars, TrackerIInv, TrackerUp, LibraryIInv, LibraryUp,
       LettersIInv, LetterUp, Flagged, TailorIInv, TailorUp, TailorFields, Reads, AtsIInv, QuietIInv, Listed
  <2> QED BY <2>1, <2>2 DEF WebIInv, Tracker!RemindersHaveTheirApplication, Listed, Ats!gateVars
<1> QED BY <1>1, <1>2, <1>3, <1>4, <1>5, <1>6, <1>7, Zenon DEF Next

\* The inductive invariant of the web client: of each page that is open, what its flags and its requests say of each other.
THEOREM WebInductive == Spec => []WebIInv
<1>1. WebIInv /\ [Next]_vars => WebIInv'
  BY WebStep
<1> QED BY <1>1, WebInit, PTL DEF Spec

\* A cloud provider is called for a task only in a privacy mode for which the user said yes to that task,
\* whatever is revoked, saved in the drawer or sent again meanwhile: the calls of privacyFetch and the
\* gateway's prepare, in any order of the answers.
THEOREM CallsAreAgreed == Spec => NoCallWithoutAYes
<1>1. WebIInv /\ [Next]_vars => [\A k \in DOMAIN calls : AgreedCall(k)]_<<calls, Ats!gateVars>>
  BY WebStep
<1>2. WebIInv /\ [Next]_vars =>
        [\A k \in DOMAIN calls :
           calls[k].op \in Ats!Guarded /\ calls[k].reply = None /\ calls' = [calls EXCEPT ![k].reply = Ok]
             => Ats!Needs[calls[k].op] \X {mode} \subseteq agreed]_<<calls, Ats!gateVars>>
  BY <1>1 DEF AgreedCall
<1> QED BY <1>2, WebInductive, PTL DEF Spec, NoCallWithoutAYes, Ats!NoCallWithoutAYes

\* One request of each kind that is watched.
LEMMA OneAtMost ==
  ASSUME NEW s, NEW tags, NEW up, Watched(s, tags, up), NEW tag \in tags,
         NEW S \in SUBSET (DOMAIN s), \A k \in S : OfKind(tag, s[k])
  PROVE  Cardinality(S) <= 1
<1>1. \A j, k \in S : j = k
  BY DEF Watched, Once
<1> QED BY <1>1, AtMostOne

\* What the pages promise of what they send follows from their invariants.
LEMMA IInvSendsOnce ==
  ASSUME WebIInv
  PROVE  SentOnce
<1>1. ASSUME page = "tracker" PROVE Tracker!SentOnce
  <2> DEFINE S == {k \in DOMAIN calls : calls[k].op = "create"}
  <2>1. Watched(calls, TrackerTags, TrackerUp) /\ "create" \in TrackerTags /\ S \in SUBSET (DOMAIN calls)
    BY <1>1 DEF WebIInv, TrackerIInv, TrackerTags
  <2>2. \A k \in S : OfKind("create", calls[k])
    BY DEF OfKind
  <2>3. Tracker!Pending("create") = S
    BY DEF Tracker!Pending
  <2> HIDE DEF S
  <2>4. Cardinality(S) <= 1
    BY <2>1, <2>2, OneAtMost
  <2> QED BY <2>3, <2>4 DEF Tracker!SentOnce, Tracker!Cardinality, Cardinality
<1>2. ASSUME page = "library" PROVE Library!SentOnce
  <2> DEFINE S == {k \in DOMAIN calls : calls[k].op = "parse" \/ (calls[k].op = "create" /\ calls[k].arg.by = "pdf")}
  <2>1. Watched(calls, LibraryTags, LibraryUp) /\ "import" \in LibraryTags /\ S \in SUBSET (DOMAIN calls)
    BY <1>2 DEF WebIInv, LibraryIInv, LibraryTags
  <2>2. \A k \in S : OfKind("import", calls[k])
    BY DEF OfKind
  <2> HIDE DEF S
  <2>3. Cardinality(S) <= 1
    BY <2>1, <2>2, OneAtMost
  <2> QED BY <2>3 DEF S, Library!SentOnce, Library!Cardinality, Cardinality
<1>3. ASSUME page = "letters" PROVE Letters!SentOnce
  <2>1. SUFFICES ASSUME NEW op \in {"clear", "version", "pdf", "docx"} PROVE Letters!Cardinality(Letters!Pending(op)) <= 1
    BY DEF Letters!SentOnce
  <2> DEFINE S == {k \in DOMAIN calls : calls[k].op = op}
  <2>2. Watched(calls, LetterTags, LetterUp) /\ op \in LetterTags /\ S \in SUBSET (DOMAIN calls)
    BY <1>3 DEF WebIInv, LettersIInv, LetterTags
  <2>3. \A k \in S : OfKind(op, calls[k])
    BY DEF OfKind
  <2>4. Letters!Pending(op) = S
    BY DEF Letters!Pending
  <2> HIDE DEF S
  <2>5. Cardinality(S) <= 1
    BY <2>2, <2>3, OneAtMost
  <2> QED BY <2>4, <2>5 DEF Letters!Cardinality, Cardinality
<1>4. ASSUME page = "tailor" PROVE Tailor!SentOnce /\ Tailor!OneRunIsRead
  <2>1. Watched(calls, TailorTags, TailorUp) /\ Reads(calls, builder.job)
    BY <1>4 DEF WebIInv, TailorIInv
  <2>2. ASSUME NEW ops \in {{"upload"}, {"letter", "draft"}} PROVE Tailor!Cardinality({k \in DOMAIN calls : calls[k].op \in ops}) <= 1
    <3> DEFINE S == {k \in DOMAIN calls : calls[k].op \in ops}
    <3>1. PICK tag \in {"upload", "letter"} : \A k \in S : OfKind(tag, calls[k])
      BY <2>2 DEF OfKind
    <3>2. tag \in TailorTags /\ S \in SUBSET (DOMAIN calls)
      BY DEF TailorTags
    <3> HIDE DEF S
    <3>3. Cardinality(S) <= 1
      BY <2>1, <3>1, <3>2, OneAtMost
    <3> QED BY <3>3 DEF S, Tailor!Cardinality, Cardinality
  <2> DEFINE S == {k \in DOMAIN calls : calls[k].op = "stream"}
  <2>3. "stream" \in TailorTags /\ S \in SUBSET (DOMAIN calls)
    BY DEF TailorTags
  <2>4. \A k \in S : OfKind("stream", calls[k])
    BY DEF OfKind
  <2>5. \A k \in S : builder.ghost /\ calls[k].arg = builder.job
    BY <2>1, <2>3, <2>4 DEF Watched, Once, TailorUp, Reads
  <2>6. Tailor!Pending("stream") = S
    BY DEF Tailor!Pending
  <2> HIDE DEF S
  <2>7. Cardinality(S) <= 1
    BY <2>1, <2>3, <2>4, OneAtMost
  <2> QED BY <2>2, <2>5, <2>6, <2>7 DEF Tailor!SentOnce, Tailor!OneRunIsRead, Tailor!Cardinality, Cardinality
<1> QED BY <1>1, <1>2, <1>3, <1>4 DEF SentOnce

\* A creation, a deletion of the history, a version, each export, a PDF import and a letter are sent once while
\* they are under way, and one run is read, the one answered last: whatever other requests of the page come and
\* go, fail or are answered late.
THEOREM PagesSendOnce == Spec => []SentOnce
<1>1. WebIInv => SentOnce
  BY IInvSendsOnce
<1> QED BY <1>1, WebInductive, PTL

\* Whatever the order of the edits, a reminder belongs to an application of the board.
THEOREM RemindersStayLinked == Spec => []Tracker!RemindersHaveTheirApplication
<1>1. WebIInv => Tracker!RemindersHaveTheirApplication
  BY DEF WebIInv
<1> QED BY <1>1, WebInductive, PTL

\* However loads, copies and deletions cross, the active resume is one the library lists.
THEOREM ActiveResumeIsListed == Spec => []Library!ActiveIsListed
<1>1. WebIInv => Library!ActiveIsListed
  BY DEF WebIInv, Listed, Library!ActiveIsListed
<1> QED BY <1>1, WebInductive, PTL

-----------------------------------------------------------------------------
(* What an opportunity is linked to *)

\* The tracker entry that the second opportunity is linked to was deleted before the page opens.  The gateway may
\* give its identifier to a new entry, of any job: what follows is about the time before it does.
Gone == 9
NotReused(as) == Gone \notin DOMAIN as.application

\* An entry an opportunity of the job may be linked to.
Right(job, id, as) ==
  id # None /\ job # None => id = Gone \/ (id \in DOMAIN as.application /\ as.application[id] = job)

\* What the page was shown, now or earlier: no entry and no opportunity of it changed its job since.
Known(view, os, as) ==
  /\ \A n \in DOMAIN view.opportunities :
       /\ n \in DOMAIN os /\ view.opportunities[n].job = os[n].job
       /\ "application" \in DOMAIN view.opportunities[n].links
       /\ Right(view.opportunities[n].job, view.opportunities[n].links.application, as)
  /\ \A id \in DOMAIN view.artifacts.application :
       id \in DOMAIN as.application /\ as.application[id] = view.artifacts.application[id]

\* What a request may ask for, and be told.
Fitting(c, os, as) ==
  /\ c.op \in {"link", "tracker-create", "ready", "repair"} => c.arg.opportunity \in DOMAIN os
  /\ c.op = "link" => /\ c.arg.kind \in Workflow!Kinds
                      /\ c.arg.kind = "application" => Right(os[c.arg.opportunity].job, c.arg.id, as)
  /\ c.op = "load" /\ c.reply # None => Known(c.reply, os, as)

\* The rows of the gateway.
RowsIInv ==
  /\ IsSequence(opportunities) /\ IsSequence(artifacts.application)
  /\ \A n \in DOMAIN opportunities :
       {"job", "links", "ready"} \subseteq DOMAIN opportunities[n] /\ Workflow!Kinds \subseteq DOMAIN opportunities[n].links
  /\ Workflow!Kinds \subseteq DOMAIN artifacts /\ artifacts.resume = <<None>>

\* Every link fits, with an entry of the tracker that is of the very job.
LinksIInv ==
  \A n \in DOMAIN opportunities :
    /\ \A kind \in {"ats", "letter"} :
         LET id == opportunities[n].links[kind] IN
         id # None /\ id \in DOMAIN artifacts[kind] => Workflow!Aligned(opportunities[n].job, artifacts[kind][id])
    /\ Right(opportunities[n].job, opportunities[n].links.application, artifacts)

\* The page offers what fits.
PanelIInv ==
  /\ Requests(calls) /\ \A k \in DOMAIN calls : Fitting(calls[k], opportunities, artifacts)
  /\ "application" \in DOMAIN fields
  /\ shown # None => /\ Known(shown, opportunities, artifacts)
                     /\ selectedId \in DOMAIN shown.opportunities
                     /\ Right(shown.opportunities[selectedId].job, fields.application, artifacts)

WorkflowIInv ==
  /\ RowsIInv
  /\ NotReused(artifacts) => LinksIInv /\ (page = "workflow" => PanelIInv)

\* Jobs do not change, nor do rows go.
Grows(os, as, osNew, asNew) ==
  /\ \A n \in DOMAIN os : n \in DOMAIN osNew /\ osNew[n].job = os[n].job
  /\ \A id \in DOMAIN as.application : id \in DOMAIN asNew.application /\ asNew.application[id] = as.application[id]

\* So what fitted and was known fits and is known.
LEMMA FittingOn ==
  ASSUME NEW os, NEW as, NEW osNew, NEW asNew, Grows(os, as, osNew, asNew)
  PROVE  /\ \A job, id : Right(job, id, as) => Right(job, id, asNew)
         /\ \A view : Known(view, os, as) => Known(view, osNew, asNew)
         /\ \A c : Fitting(c, os, as) => Fitting(c, osNew, asNew)
<1>1. \A job, id : Right(job, id, as) => Right(job, id, asNew)
  BY DEF Grows, Right
<1>2. \A view : Known(view, os, as) => Known(view, osNew, asNew)
  <2> SUFFICES ASSUME NEW view, Known(view, os, as) PROVE Known(view, osNew, asNew)
    OBVIOUS
  <2>1. ASSUME NEW n \in DOMAIN view.opportunities
        PROVE  /\ n \in DOMAIN osNew /\ view.opportunities[n].job = osNew[n].job
               /\ "application" \in DOMAIN view.opportunities[n].links
               /\ Right(view.opportunities[n].job, view.opportunities[n].links.application, asNew)
    BY <1>1 DEF Known, Grows
  <2>2. ASSUME NEW id \in DOMAIN view.artifacts.application
        PROVE  id \in DOMAIN asNew.application /\ asNew.application[id] = view.artifacts.application[id]
    BY DEF Known, Grows
  <2> QED BY <2>1, <2>2 DEF Known
<1>3. \A c : Fitting(c, os, as) => Fitting(c, osNew, asNew)
  <2> SUFFICES ASSUME NEW c, Fitting(c, os, as) PROVE Fitting(c, osNew, asNew)
    OBVIOUS
  <2>1. c.op \in {"link", "tracker-create", "ready", "repair"} =>
          c.arg.opportunity \in DOMAIN osNew /\ osNew[c.arg.opportunity].job = os[c.arg.opportunity].job
    BY DEF Fitting, Grows
  <2>2. c.op = "link" => /\ c.arg.kind \in Workflow!Kinds
                         /\ c.arg.kind = "application" => Right(osNew[c.arg.opportunity].job, c.arg.id, asNew)
    BY <1>1, <2>1 DEF Fitting
  <2>3. c.op = "load" /\ c.reply # None => Known(c.reply, osNew, asNew)
    BY <1>2 DEF Fitting
  <2> QED BY <2>1, <2>2, <2>3 DEF Fitting
<1> QED BY <1>1, <1>2, <1>3

\* The requests after a step that writes one.
LEMMA FittingMoves ==
  ASSUME Requests(calls), \A k \in DOMAIN calls : Fitting(calls[k], opportunities, artifacts),
         Grows(opportunities, artifacts, opportunities', artifacts'),
         NEW c, Fitting(c, opportunities', artifacts'), Moves(calls', calls, c)
  PROVE  Requests(calls') /\ \A k \in DOMAIN calls' : Fitting(calls'[k], opportunities', artifacts')
<1>1. Requests(calls') /\ From(calls', calls, c)
  BY MovesKeep
<1>2. \A k \in DOMAIN calls : Fitting(calls[k], opportunities', artifacts')
  BY FittingOn
<1> QED BY <1>1, <1>2 DEF From

\* A request that fits is sent.
LEMMA WorkflowAsks ==
  ASSUME Requests(calls), \A k \in DOMAIN calls : Fitting(calls[k], opportunities, artifacts), UNCHANGED <<opportunities, artifacts>>,
         NEW op, NEW arg, Workflow!Ask(op, arg),
         Fitting([op |-> op, arg |-> arg, reply |-> None], opportunities, artifacts)
  PROVE  Requests(calls') /\ \A k \in DOMAIN calls' : Fitting(calls'[k], opportunities', artifacts')
<1> DEFINE c == [op |-> op, arg |-> arg, reply |-> None]
<1>1. IsRequest(c) /\ calls' = Append(calls, c) /\ Fitting(c, opportunities', artifacts')
  BY NewRequest DEF Workflow!Ask, Workflow!Call
<1> HIDE DEF c
<1>2. Moves(calls', calls, c)
  BY <1>1 DEF Moves, Sends
<1>3. Grows(opportunities, artifacts, opportunities', artifacts')
  BY DEF Grows
<1> QED BY <1>1, <1>2, <1>3, FittingMoves

\* A request is heard of, after which everything may be loaded again.
LEMMA WorkflowHears ==
  ASSUME Requests(calls), \A k \in DOMAIN calls : Fitting(calls[k], opportunities, artifacts), UNCHANGED <<opportunities, artifacts>>,
         NEW k \in DOMAIN calls, Workflow!Done(k) \/ Workflow!Then(k, "load", [origin |-> "action"])
  PROVE  Requests(calls') /\ \A n \in DOMAIN calls' : Fitting(calls'[n], opportunities', artifacts')
<1> DEFINE c == [op |-> "load", arg |-> [origin |-> "action"], reply |-> None]
<1>1. IsRequest(c) /\ c.op = "load" /\ c.reply = None
  BY NewRequest
<1>2. calls' = Tracker!RemoveAt(calls, k) \/ calls' = Append(Tracker!RemoveAt(calls, k), c)
  BY DEF Workflow!Done, Workflow!Then, Workflow!Call, Workflow!RemoveAt, Tracker!RemoveAt
<1> HIDE DEF c
<1>3. Moves(calls', calls, c)
  BY <1>1, <1>2 DEF Moves, Ends, Follows
<1>4. Grows(opportunities, artifacts, opportunities', artifacts') /\ Fitting(c, opportunities', artifacts')
  BY <1>1 DEF Grows, Fitting
<1> QED BY <1>3, <1>4, FittingMoves

\* The gateway answers: a load with what it holds.
LEMMA WorkflowReplies ==
  ASSUME Requests(calls), \A k \in DOMAIN calls : Fitting(calls[k], opportunities, artifacts),
         Grows(opportunities, artifacts, opportunities', artifacts'),
         NEW k \in DOMAIN calls, NEW reply, Workflow!Reply(k, reply),
         calls[k].op = "load" => Known(reply, opportunities', artifacts')
  PROVE  Requests(calls') /\ \A n \in DOMAIN calls' : Fitting(calls'[n], opportunities', artifacts')
<1> DEFINE c == [op |-> calls[k].op, arg |-> calls[k].arg, reply |-> reply]
<1>1. c.op = calls[k].op /\ c.arg = calls[k].arg /\ c.reply = reply
  OBVIOUS
<1>2. Replies(calls', calls, k, reply)
  BY DEF Workflow!Reply, Replies
<1>3. Moves(calls', calls, c)
  BY <1>2, RepliesMove
<1> HIDE DEF c
<1>4. Fitting(calls[k], opportunities', artifacts')
  BY FittingOn
<1>5. Fitting(c, opportunities', artifacts')
  BY <1>1, <1>4 DEF Fitting
<1> QED BY <1>3, <1>5, FittingMoves

\* The user chooses, or sends a request.
LEMMA WorkflowActsFit ==
  ASSUME PanelIInv,
         \/ \E id : Workflow!SelectOpportunity(id)
         \/ \E choice : Workflow!Fill(choice)
         \/ \E kind \in Workflow!Kinds : Workflow!Link(kind) \/ \E id : Workflow!Choose(kind, id)
         \/ Workflow!CreateTrackerEntry \/ Workflow!MarkReady \/ Workflow!Repair \/ Workflow!CreateWorkflow
         \/ Workflow!OpenActiveCoverLetter
  PROVE  UNCHANGED <<opportunities, artifacts>> /\ PanelIInv'
<1> DEFINE Current == shown.opportunities[selectedId]
           Panel(s, f) == /\ "application" \in DOMAIN f
                          /\ shown # None => /\ s \in DOMAIN shown.opportunities
                                             /\ Right(shown.opportunities[s].job, f.application, artifacts)
<1>1. /\ Requests(calls) /\ \A k \in DOMAIN calls : Fitting(calls[k], opportunities, artifacts)
      /\ Panel(selectedId, fields) /\ (shown # None => Known(shown, opportunities, artifacts))
  BY DEF PanelIInv
<1>2. UNCHANGED <<opportunities, artifacts, shown>>
  BY DEF Workflow!SelectOpportunity, Workflow!Fill, Workflow!Link, Workflow!Choose, Workflow!CreateTrackerEntry, Workflow!MarkReady,
         Workflow!Repair, Workflow!CreateWorkflow, Workflow!OpenActiveCoverLetter, Workflow!RunAction, Workflow!Detail,
         Workflow!gatewayVars, Workflow!pageVars
<1>3. ASSUME /\ Requests(calls') /\ \A k \in DOMAIN calls' : Fitting(calls'[k], opportunities', artifacts')
             /\ Panel(selectedId', fields')
      PROVE  PanelIInv'
  BY <1>1, <1>2, <1>3 DEF PanelIInv
<1>4. ASSUME UNCHANGED calls, Panel(selectedId', fields') PROVE PanelIInv'
  BY <1>1, <1>2, <1>3, <1>4
<1>5. ASSUME NEW op, NEW arg, Workflow!Ask(op, arg), UNCHANGED <<selectedId, fields>>,
             Fitting([op |-> op, arg |-> arg, reply |-> None], opportunities, artifacts)
      PROVE  PanelIInv'
  <2>1. Requests(calls') /\ \A k \in DOMAIN calls' : Fitting(calls'[k], opportunities', artifacts')
    BY <1>1, <1>2, <1>5, WorkflowAsks
  <2> QED BY <1>1, <1>3, <1>5, <2>1
<1>6. ASSUME NEW id, Workflow!SelectOpportunity(id) PROVE PanelIInv'
  <2>1. shown # None /\ UNCHANGED calls /\ id \in DOMAIN shown.opportunities /\ selectedId' = id /\ fields' = shown.opportunities[id].links
    BY <1>6 DEF Workflow!SelectOpportunity, Workflow!Detail, Workflow!Edit, Workflow!FieldsOf
  <2>2. Panel(selectedId', fields')
    BY <1>1, <2>1 DEF Known
  <2> QED BY <1>4, <2>1, <2>2
<1>7. ASSUME NEW choice, Workflow!Fill(choice) PROVE PanelIInv'
  BY <1>1, <1>4, <1>7 DEF Workflow!Fill, Workflow!Edit
<1>8. ASSUME NEW kind \in Workflow!Kinds, NEW id, Workflow!Choose(kind, id) PROVE PanelIInv'
  <2>1. /\ shown # None /\ UNCHANGED <<calls, selectedId>> /\ fields' = [fields EXCEPT ![kind] = id]
        /\ id \in Workflow!Offered(kind)
    BY <1>8 DEF Workflow!Choose, Workflow!Detail, Workflow!Edit
  <2>2. kind = "application" => Right(Current.job, id, artifacts)
    <3> SUFFICES ASSUME kind = "application", Current.job # None PROVE id \in DOMAIN artifacts.application /\ artifacts.application[id] = Current.job
      BY DEF Right
    <3>1. id \in DOMAIN shown.artifacts.application /\ shown.artifacts.application[id] = Current.job
      BY <2>1 DEF Workflow!Offered, Workflow!Selected
    <3> QED BY <1>1, <2>1, <3>1 DEF Known
  <2>3. Panel(selectedId', fields')
    BY <1>1, <2>1, <2>2
  <2> QED BY <1>4, <2>1, <2>3
<1>9. ASSUME shown # None PROVE selectedId \in DOMAIN opportunities /\ opportunities[selectedId].job = Current.job
  BY <1>1, <1>9 DEF Known
<1>10. ASSUME NEW kind \in Workflow!Kinds, Workflow!Link(kind) PROVE PanelIInv'
  <2> DEFINE arg == [opportunity |-> selectedId, kind |-> kind, id |-> fields[kind]]
  <2>1. shown # None /\ Workflow!Ask("link", arg) /\ UNCHANGED <<selectedId, fields>>
    BY <1>10 DEF Workflow!Link, Workflow!Detail, Workflow!RunAction
  <2>2. Fitting([op |-> "link", arg |-> arg, reply |-> None], opportunities, artifacts)
    BY <1>1, <1>9, <2>1 DEF Fitting
  <2> HIDE DEF arg
  <2> QED BY <1>5, <2>1, <2>2
<1>11. ASSUME Workflow!CreateTrackerEntry \/ Workflow!MarkReady \/ Workflow!Repair PROVE PanelIInv'
  <2>1. PICK op \in {"tracker-create", "ready", "repair"} : shown # None /\ Workflow!RunAction(op, op, [opportunity |-> selectedId])
    BY <1>11 DEF Workflow!CreateTrackerEntry, Workflow!MarkReady, Workflow!Repair, Workflow!Detail
  <2>2. Workflow!Ask(op, [opportunity |-> selectedId]) /\ UNCHANGED <<selectedId, fields>>
    BY <2>1 DEF Workflow!RunAction
  <2>3. Fitting([op |-> op, arg |-> [opportunity |-> selectedId], reply |-> None], opportunities, artifacts)
    BY <1>9, <2>1 DEF Fitting
  <2> QED BY <1>5, <2>2, <2>3
<1>12. ASSUME Workflow!CreateWorkflow \/ Workflow!OpenActiveCoverLetter PROVE PanelIInv'
  <2>1. PICK op \in {"create", "open"}, arg \in {[job |-> IF form = "job" THEN "job1" ELSE None],
                                                 [id |-> Workflow!OrElse(fields.letter, Workflow!Selected.links.letter)]} :
          Workflow!Ask(op, arg) /\ UNCHANGED <<selectedId, fields>>
    BY <1>12 DEF Workflow!CreateWorkflow, Workflow!OpenActiveCoverLetter, Workflow!RunAction, Workflow!pageVars
  <2>2. Fitting([op |-> op, arg |-> arg, reply |-> None], opportunities, artifacts)
    BY DEF Fitting
  <2> QED BY <1>5, <2>1, <2>2
<1> QED BY <1>2, <1>6, <1>7, <1>8, <1>10, <1>11, <1>12

\* The answers come in.
LEMMA WorkflowAnswersFit ==
  ASSUME PanelIInv, NEW k \in DOMAIN calls, NEW fine \in BOOLEAN,
         Workflow!Loaded(k, fine) \/ Workflow!ActionHeard(k, fine) \/ Workflow!LetterHeard(k, fine)
  PROVE  UNCHANGED <<opportunities, artifacts>> /\ PanelIInv'
<1>1. /\ Requests(calls) /\ \A n \in DOMAIN calls : Fitting(calls[n], opportunities, artifacts)
      /\ "application" \in DOMAIN fields
      /\ shown # None => /\ Known(shown, opportunities, artifacts) /\ selectedId \in DOMAIN shown.opportunities
                         /\ Right(shown.opportunities[selectedId].job, fields.application, artifacts)
  BY DEF PanelIInv
<1>2. UNCHANGED <<opportunities, artifacts>>
  BY DEF Workflow!Loaded, Workflow!ActionHeard, Workflow!LetterHeard, Workflow!gatewayVars, Workflow!workflowVars
<1>3. Workflow!Done(k) \/ Workflow!Then(k, "load", [origin |-> "action"])
  BY DEF Workflow!Loaded, Workflow!ActionHeard, Workflow!LetterHeard
<1>4. Requests(calls') /\ \A n \in DOMAIN calls' : Fitting(calls'[n], opportunities', artifacts')
  BY <1>1, <1>2, <1>3, WorkflowHears
<1>5. CASE Workflow!Loaded(k, TRUE) /\ fine
  <2>1. /\ calls[k].op = "load" /\ calls[k].reply # None /\ shown' = calls[k].reply
        /\ selectedId' \in Workflow!Kept(calls[k].reply) /\ fields' = shown'.opportunities[selectedId'].links
    BY <1>5 DEF Workflow!Loaded, Workflow!Answered, Workflow!FieldsOf
  <2>2. Known(calls[k].reply, opportunities, artifacts)
    BY <1>1, <2>1 DEF Fitting
  <2>3. selectedId' \in DOMAIN shown'.opportunities
    BY <2>1 DEF Workflow!Kept
  <2>4. /\ "application" \in DOMAIN fields'
        /\ Right(shown'.opportunities[selectedId'].job, fields'.application, artifacts)
    BY <2>1, <2>2, <2>3 DEF Known
  <2> QED BY <1>2, <1>4, <2>1, <2>2, <2>3, <2>4 DEF PanelIInv
<1>6. CASE ~ (Workflow!Loaded(k, TRUE) /\ fine)
  <2>1. UNCHANGED <<shown, selectedId, fields>>
    BY <1>6 DEF Workflow!Loaded, Workflow!ActionHeard, Workflow!LetterHeard, Workflow!workflowVars
  <2> QED BY <1>1, <1>2, <1>4, <2>1 DEF PanelIInv
<1> QED BY <1>2, <1>5, <1>6

\* What the gateway does leaves the page as it fits.
LEMMA WorkflowServesPage ==
  ASSUME PanelIInv, Grows(opportunities, artifacts, opportunities', artifacts'), UNCHANGED Workflow!pageVars,
         NEW k \in DOMAIN calls, NEW reply, Workflow!Reply(k, reply),
         calls[k].op = "load" => Known(reply, opportunities', artifacts')
  PROVE  PanelIInv'
<1>1. Requests(calls') /\ \A n \in DOMAIN calls' : Fitting(calls'[n], opportunities', artifacts')
  BY WorkflowReplies DEF PanelIInv
<1>2. UNCHANGED <<shown, selectedId, fields>>
  BY DEF Workflow!pageVars
<1>3. shown # None => /\ Known(shown, opportunities', artifacts')
                      /\ Right(shown.opportunities[selectedId].job, fields.application, artifacts')
  BY FittingOn DEF PanelIInv
<1> QED BY <1>1, <1>2, <1>3 DEF PanelIInv

\* The gateway lists what it keeps, or reads a letter.
LEMMA WorkflowReads ==
  ASSUME RowsIInv, LinksIInv, PanelIInv, NEW k \in DOMAIN calls, Workflow!ListAll(k) \/ Workflow!ReadLetter(k)
  PROVE  LinksIInv' /\ PanelIInv'
<1>1. UNCHANGED <<opportunities, artifacts>> /\ UNCHANGED Workflow!pageVars
  BY DEF Workflow!ListAll, Workflow!ReadLetter, Workflow!workflowVars, Workflow!pageVars
<1>2. Grows(opportunities, artifacts, opportunities', artifacts')
  BY <1>1 DEF Grows
<1> DEFINE view == [opportunities |-> opportunities, artifacts |-> artifacts]
<1>3. view.opportunities = opportunities /\ view.artifacts = artifacts
  OBVIOUS
<1> HIDE DEF view
<1>4. Known(view, opportunities', artifacts')
  BY <1>1, <1>3 DEF Known, RowsIInv, LinksIInv, Workflow!Kinds
<1>5. PICK reply : Workflow!Reply(k, reply) /\ (calls[k].op = "load" => reply = view)
  <2>1. CASE Workflow!ListAll(k)
    BY <2>1 DEF Workflow!ListAll, view
  <2>2. CASE Workflow!ReadLetter(k)
    BY <2>2 DEF Workflow!ReadLetter, Workflow!Waiting
  <2> QED BY <2>1, <2>2
<1>6. PanelIInv'
  BY <1>1, <1>2, <1>4, <1>5, WorkflowServesPage
<1> QED BY <1>1, <1>6 DEF LinksIInv

\* A link is written: to an artifact of the job, and a tracker entry keeps the job it has.
LEMMA LinkFits ==
  ASSUME RowsIInv, LinksIInv, PanelIInv, NotReused(artifacts), NEW k \in DOMAIN calls, Workflow!LinkArtifact(k)
  PROVE  LinksIInv' /\ PanelIInv'
<1> DEFINE n == calls[k].arg.opportunity
           kind == calls[k].arg.kind
           id == calls[k].arg.id
<1>1. /\ calls[k].op = "link" /\ id \in DOMAIN artifacts[kind]
      /\ kind \in {"ats", "letter"} => Workflow!Aligned(opportunities[n].job, artifacts[kind][id])
      /\ opportunities' = [opportunities EXCEPT ![n].links[kind] = id, ![n].ready = FALSE]
      /\ artifacts' = IF kind = "application"
                      THEN [artifacts EXCEPT !.application[id] = Workflow!OrElse(artifacts.application[id], opportunities[n].job)]
                      ELSE artifacts
      /\ UNCHANGED Workflow!pageVars /\ Workflow!Reply(k, Ok)
  BY DEF Workflow!LinkArtifact, Workflow!Waiting, Workflow!JobOf, Workflow!Commit
<1>2. /\ n \in DOMAIN opportunities /\ kind \in Workflow!Kinds
      /\ kind = "application" => Right(opportunities[n].job, id, artifacts)
  BY <1>1 DEF PanelIInv, Fitting
<1> HIDE DEF n, kind, id
<1>3. /\ \A l \in Workflow!Kinds : artifacts'[l] = artifacts[l]
      /\ artifacts'.application = artifacts.application
  <2>1. CASE kind = "application"
    <3> DEFINE entries == artifacts.application
    <3>1. PICK S : entries \in Seq(S)
      BY DEF RowsIInv, IsSequence
    <3>2. DOMAIN entries \subseteq Nat /\ entries \in [DOMAIN entries -> S]
      BY <3>1, LenProperties
    <3>3. id \in DOMAIN entries /\ id # None /\ id # Gone
      BY <1>1, <2>1, <3>2, NoneAssumption DEF NotReused
    <3>4. Workflow!OrElse(entries[id], opportunities[n].job) = entries[id]
      BY <1>2, <2>1, <3>3 DEF Right, Workflow!OrElse
    <3>5. artifacts' = [artifacts EXCEPT !.application = [entries EXCEPT ![id] = entries[id]]]
      BY <1>1, <2>1, <3>4
    <3> HIDE DEF entries
    <3>6. [entries EXCEPT ![id] = entries[id]] = entries
      BY <3>2
    <3>7. artifacts' = [artifacts EXCEPT !.application = entries]
      BY <3>5, <3>6
    <3>8. "application" \in DOMAIN artifacts
      BY DEF RowsIInv, Workflow!Kinds
    <3> QED BY <3>7, <3>8 DEF RowsIInv, entries
  <2>2. CASE kind # "application"
    BY <1>1, <2>2
  <2> QED BY <2>1, <2>2
<1>4. \A m \in DOMAIN opportunities :
        /\ m \in DOMAIN opportunities' /\ opportunities'[m].job = opportunities[m].job
        /\ \A l \in Workflow!Kinds : opportunities'[m].links[l] = IF m = n /\ l = kind THEN id ELSE opportunities[m].links[l]
  BY <1>1, <1>2 DEF RowsIInv
<1>5. DOMAIN opportunities' = DOMAIN opportunities
  BY <1>1
<1>6. Grows(opportunities, artifacts, opportunities', artifacts')
  BY <1>3, <1>4 DEF Grows
<1>7. LinksIInv'
  <2>1. SUFFICES ASSUME NEW m \in DOMAIN opportunities
                 PROVE  /\ \A l \in {"ats", "letter"} :
                             opportunities'[m].links[l] # None /\ opportunities'[m].links[l] \in DOMAIN artifacts[l]
                               => Workflow!Aligned(opportunities'[m].job, artifacts[l][opportunities'[m].links[l]])
                        /\ Right(opportunities'[m].job, opportunities'[m].links.application, artifacts)
    <3>1. {"ats", "letter"} \subseteq Workflow!Kinds
      BY DEF Workflow!Kinds
    <3> QED BY <1>3, <1>5, <3>1 DEF LinksIInv, Right
  <2>2. {"ats", "letter", "application"} \subseteq Workflow!Kinds
    BY DEF Workflow!Kinds
  <2>3. ASSUME NEW l \in {"ats", "letter"}, opportunities'[m].links[l] # None, opportunities'[m].links[l] \in DOMAIN artifacts[l]
        PROVE  Workflow!Aligned(opportunities'[m].job, artifacts[l][opportunities'[m].links[l]])
    BY <1>1, <1>4, <2>2, <2>3 DEF LinksIInv
  <2>4. Right(opportunities'[m].job, opportunities'[m].links.application, artifacts)
    BY <1>2, <1>4, <2>2 DEF LinksIInv
  <2> QED BY <2>3, <2>4
<1>8. PanelIInv'
  BY <1>1, <1>6, WorkflowServesPage
<1> QED BY <1>7, <1>8

\* A new tracker entry is of the job of the opportunity it is linked to.
LEMMA CreationFits ==
  ASSUME RowsIInv, LinksIInv, PanelIInv, NEW k \in DOMAIN calls, Workflow!CreateTracker(k)
  PROVE  LinksIInv' /\ PanelIInv'
<1> DEFINE n == calls[k].arg.opportunity
           new == Len(artifacts.application) + 1
<1>1. /\ calls[k].op = "tracker-create"
      /\ artifacts' = [artifacts EXCEPT !.application = Append(artifacts.application, opportunities[n].job)]
      /\ opportunities' = [opportunities EXCEPT ![n].links.application = new, ![n].ready = FALSE]
      /\ UNCHANGED Workflow!pageVars /\ Workflow!Reply(k, Ok)
  BY DEF Workflow!CreateTracker, Workflow!Waiting, Workflow!Commit
<1>2. n \in DOMAIN opportunities
  BY <1>1 DEF PanelIInv, Fitting
<1>3. /\ new \in DOMAIN artifacts'.application /\ artifacts'.application[new] = opportunities[n].job
      /\ \A id \in DOMAIN artifacts.application : id \in DOMAIN artifacts'.application /\ artifacts'.application[id] = artifacts.application[id]
      /\ \A kind \in Workflow!Kinds : kind # "application" => artifacts'[kind] = artifacts[kind]
  <2>1. PICK S : artifacts.application \in Seq(S)
    BY DEF RowsIInv, IsSequence
  <2>2. artifacts.application \in Seq(S \cup {opportunities[n].job}) /\ opportunities[n].job \in S \cup {opportunities[n].job}
    BY <2>1, SeqMonotonic
  <2>3. /\ artifacts'.application = Append(artifacts.application, opportunities[n].job)
        /\ \A kind \in Workflow!Kinds : kind # "application" => artifacts'[kind] = artifacts[kind]
    BY <1>1 DEF RowsIInv, Workflow!Kinds
  <2> QED BY <2>2, <2>3, AppendProperties, LenProperties
<1> HIDE DEF n, new
<1>4. \A m \in DOMAIN opportunities :
        /\ m \in DOMAIN opportunities' /\ opportunities'[m].job = opportunities[m].job
        /\ \A l \in Workflow!Kinds :
             opportunities'[m].links[l] = IF m = n /\ l = "application" THEN new ELSE opportunities[m].links[l]
  BY <1>1, <1>2 DEF RowsIInv
<1>5. DOMAIN opportunities' = DOMAIN opportunities
  BY <1>1
<1>6. Grows(opportunities, artifacts, opportunities', artifacts')
  BY <1>3, <1>4 DEF Grows
<1>7. LinksIInv'
  <2>1. SUFFICES ASSUME NEW m \in DOMAIN opportunities
                 PROVE  /\ \A l \in {"ats", "letter"} :
                             opportunities'[m].links[l] # None /\ opportunities'[m].links[l] \in DOMAIN artifacts'[l]
                               => Workflow!Aligned(opportunities'[m].job, artifacts'[l][opportunities'[m].links[l]])
                        /\ Right(opportunities'[m].job, opportunities'[m].links.application, artifacts')
    BY <1>5 DEF LinksIInv
  <2>2. {"ats", "letter", "application"} \subseteq Workflow!Kinds
    BY DEF Workflow!Kinds
  <2>3. ASSUME NEW l \in {"ats", "letter"}, opportunities'[m].links[l] # None, opportunities'[m].links[l] \in DOMAIN artifacts'[l]
        PROVE  Workflow!Aligned(opportunities'[m].job, artifacts'[l][opportunities'[m].links[l]])
    BY <1>3, <1>4, <2>2, <2>3 DEF LinksIInv
  <2>4. Right(opportunities[m].job, opportunities[m].links.application, artifacts')
    BY <1>6, FittingOn DEF LinksIInv
  <2>5. Right(opportunities'[m].job, opportunities'[m].links.application, artifacts')
    BY <1>3, <1>4, <2>2, <2>4 DEF Right
  <2> QED BY <2>3, <2>5
<1>8. PanelIInv'
  BY <1>1, <1>6, WorkflowServesPage
<1> QED BY <1>7, <1>8

\* Readiness, a repair and a new opportunity link nothing.
LEMMA OthersFit ==
  ASSUME RowsIInv, LinksIInv, PanelIInv, NEW k \in DOMAIN calls,
         Workflow!MarkReadyToApply(k) \/ Workflow!RepairOpportunity(k) \/ Workflow!CreateOpportunity(k)
  PROVE  LinksIInv' /\ PanelIInv'
<1>1. /\ UNCHANGED artifacts /\ UNCHANGED Workflow!pageVars /\ Workflow!Reply(k, Ok)
      /\ calls[k].op \in {"ready", "repair", "create"}
  BY DEF Workflow!MarkReadyToApply, Workflow!RepairOpportunity, Workflow!CreateOpportunity, Workflow!Waiting, Workflow!Commit
<1>2. /\ \A m \in DOMAIN opportunities :
           /\ m \in DOMAIN opportunities' /\ opportunities'[m].job = opportunities[m].job
           /\ \A l \in Workflow!Kinds : opportunities'[m].links[l] \in {opportunities[m].links[l], None}
      /\ \A m \in DOMAIN opportunities' \ DOMAIN opportunities : \A l \in Workflow!Kinds : opportunities'[m].links[l] = None
  <2>1. CASE Workflow!MarkReadyToApply(k)
    <3>1. opportunities' = [opportunities EXCEPT ![calls[k].arg.opportunity].ready = TRUE]
      BY <2>1 DEF Workflow!MarkReadyToApply
    <3> QED BY <3>1 DEF RowsIInv
  <2>2. CASE Workflow!RepairOpportunity(k)
    <3>1. opportunities' = [opportunities EXCEPT ![calls[k].arg.opportunity].links.application = None,
                                                 ![calls[k].arg.opportunity].ready = FALSE]
      BY <2>2 DEF Workflow!RepairOpportunity
    <3> QED BY <3>1 DEF RowsIInv
  <2>3. CASE Workflow!CreateOpportunity(k)
    <3> DEFINE new == [job |-> calls[k].arg.job, links |-> Workflow!Unlinked, ready |-> FALSE]
    <3>1. opportunities' = Append(opportunities, new) /\ \A l \in Workflow!Kinds : new.links[l] = None
      BY <2>3 DEF Workflow!CreateOpportunity, Workflow!Unlinked
    <3> HIDE DEF new
    <3>2. PICK S : opportunities \in Seq(S)
      BY DEF RowsIInv, IsSequence
    <3>3. opportunities \in Seq(S \cup {new}) /\ new \in S \cup {new}
      BY <3>2, SeqMonotonic
    <3>4. /\ DOMAIN opportunities = 1..Len(opportunities) /\ DOMAIN opportunities' = 1..(Len(opportunities) + 1)
          /\ Len(opportunities) \in Nat
          /\ \A m \in 1..Len(opportunities) : opportunities'[m] = opportunities[m]
          /\ opportunities'[Len(opportunities) + 1] = new
      BY <3>1, <3>3, AppendProperties, LenProperties
    <3> QED BY <3>1, <3>4
  <2> QED BY <2>1, <2>2, <2>3
<1>3. Grows(opportunities, artifacts, opportunities', artifacts')
  BY <1>1, <1>2 DEF Grows
<1>4. LinksIInv'
  <2>1. SUFFICES ASSUME NEW m \in DOMAIN opportunities'
                 PROVE  /\ \A l \in {"ats", "letter"} :
                             opportunities'[m].links[l] # None /\ opportunities'[m].links[l] \in DOMAIN artifacts[l]
                               => Workflow!Aligned(opportunities'[m].job, artifacts[l][opportunities'[m].links[l]])
                        /\ Right(opportunities'[m].job, opportunities'[m].links.application, artifacts)
    BY <1>1 DEF LinksIInv
  <2>2. {"ats", "letter", "application"} \subseteq Workflow!Kinds
    BY DEF Workflow!Kinds
  <2>3. CASE m \in DOMAIN opportunities
    BY <1>2, <2>2, <2>3 DEF LinksIInv, Right
  <2>4. CASE m \notin DOMAIN opportunities
    BY <1>2, <2>2, <2>4 DEF Right
  <2> QED BY <2>3, <2>4
<1>5. PanelIInv'
  BY <1>1, <1>3, WorkflowServesPage
<1> QED BY <1>4, <1>5

\* What has the places of a sequence is one.
LEMMA SequencesOf ==
  ASSUME NEW s, IsSequence(s), NEW f, f = [i \in DOMAIN s |-> f[i]]
  PROVE  IsSequence(f)
<1>1. Len(s) \in Nat /\ DOMAIN s = 1..Len(s)
  BY Places
<1> DEFINE T == {f[i] : i \in DOMAIN s}
<1>2. f \in [1..Len(s) -> T]
  BY <1>1
<1> HIDE DEF T
<1>3. f \in Seq(T)
  BY <1>1, <1>2
<1> QED BY <1>3 DEF IsSequence

\* One more at the end of a sequence.
LEMMA SequencesGrow ==
  ASSUME NEW s, IsSequence(s), NEW x
  PROVE  /\ IsSequence(Append(s, x)) /\ DOMAIN s \subseteq DOMAIN Append(s, x)
         /\ \A n \in DOMAIN Append(s, x) : Append(s, x)[n] = IF n \in DOMAIN s THEN s[n] ELSE x
<1>1. PICK S : s \in Seq(S)
  BY DEF IsSequence
<1> DEFINE T == S \cup {x}
<1>2. s \in Seq(T) /\ x \in T
  BY <1>1, SeqMonotonic
<1> HIDE DEF T
<1>3. /\ DOMAIN s = 1..Len(s) /\ Len(s) \in Nat /\ DOMAIN Append(s, x) = 1..(Len(s) + 1)
      /\ \A n \in 1..Len(s) : Append(s, x)[n] = s[n]
      /\ Append(s, x)[Len(s) + 1] = x
      /\ Append(s, x) \in Seq(T)
  BY <1>2, AppendProperties, LenProperties
<1> QED BY <1>3 DEF IsSequence

\* The rows keep their form, whatever is written.
LEMMA RowsStay ==
  ASSUME RowsIInv, NEW k, Workflow!Gateway(k)
  PROVE  RowsIInv' /\ DOMAIN artifacts.application \subseteq DOMAIN artifacts'.application
<1> DEFINE Formed(o) == {"job", "links", "ready"} \subseteq DOMAIN o /\ Workflow!Kinds \subseteq DOMAIN o.links
           Entries(as) == /\ IsSequence(as.application) /\ Workflow!Kinds \subseteq DOMAIN as /\ as.resume = <<None>>
                          /\ DOMAIN artifacts.application \subseteq DOMAIN as.application
<1>1. /\ IsSequence(opportunities) /\ IsSequence(artifacts.application) /\ Entries(artifacts)
      /\ \A n \in DOMAIN opportunities : Formed(opportunities[n])
  BY DEF RowsIInv
<1>2. ASSUME IsSequence(opportunities'), \A n \in DOMAIN opportunities' : Formed(opportunities'[n]), Entries(artifacts')
      PROVE  RowsIInv' /\ DOMAIN artifacts.application \subseteq DOMAIN artifacts'.application
  BY <1>2 DEF RowsIInv
<1>3. ASSUME opportunities' = [i \in DOMAIN opportunities |-> opportunities'[i]], Entries(artifacts'),
             \A n \in DOMAIN opportunities : Formed(opportunities'[n])
      PROVE  RowsIInv' /\ DOMAIN artifacts.application \subseteq DOMAIN artifacts'.application
  <2>1. IsSequence(opportunities') /\ DOMAIN opportunities' = DOMAIN opportunities
    BY <1>1, <1>3, SequencesOf
  <2> QED BY <1>2, <1>3, <2>1
<1>4. CASE Workflow!ListAll(k) \/ Workflow!ReadLetter(k)
  <2>1. UNCHANGED <<opportunities, artifacts>>
    BY <1>4 DEF Workflow!ListAll, Workflow!ReadLetter, Workflow!workflowVars
  <2> QED BY <1>1, <1>2, <2>1
<1>5. CASE Workflow!LinkArtifact(k)
  <2> DEFINE n == calls[k].arg.opportunity
             kind == calls[k].arg.kind
             id == calls[k].arg.id
             x == Workflow!OrElse(artifacts.application[id], opportunities[n].job)
             entries == [artifacts.application EXCEPT ![id] = x]
  <2>1. /\ opportunities' = [opportunities EXCEPT ![n].links[kind] = id, ![n].ready = FALSE]
        /\ artifacts' = IF kind = "application" THEN [artifacts EXCEPT !.application = entries] ELSE artifacts
    BY <1>5 DEF Workflow!LinkArtifact
  <2> HIDE DEF n, kind, id
  <2>2. entries = [i \in DOMAIN artifacts.application |-> entries[i]] /\ DOMAIN entries = DOMAIN artifacts.application
    OBVIOUS
  <2>3. IsSequence(entries)
    BY <1>1, <2>2, SequencesOf
  <2> HIDE DEF entries, x
  <2>4. Entries(artifacts')
    BY <1>1, <2>1, <2>2, <2>3 DEF Workflow!Kinds
  <2>5. opportunities' = [i \in DOMAIN opportunities |-> opportunities'[i]]
    BY <2>1
  <2>6. \A m \in DOMAIN opportunities : Formed(opportunities'[m])
    BY <1>1, <2>1
  <2> QED BY <1>3, <2>4, <2>5, <2>6
<1>6. CASE Workflow!CreateTracker(k)
  <2> DEFINE n == calls[k].arg.opportunity
             job == opportunities[n].job
             id == Len(artifacts.application) + 1
             entries == Append(artifacts.application, job)
  <2>1. /\ opportunities' = [opportunities EXCEPT ![n].links.application = id, ![n].ready = FALSE]
        /\ artifacts' = [artifacts EXCEPT !.application = entries]
    BY <1>6 DEF Workflow!CreateTracker
  <2> HIDE DEF n, id
  <2>2. IsSequence(entries) /\ DOMAIN artifacts.application \subseteq DOMAIN entries
    BY <1>1, SequencesGrow
  <2> HIDE DEF entries
  <2>3. Entries(artifacts')
    BY <1>1, <2>1, <2>2 DEF Workflow!Kinds
  <2>4. opportunities' = [i \in DOMAIN opportunities |-> opportunities'[i]]
    BY <2>1
  <2>5. \A m \in DOMAIN opportunities : Formed(opportunities'[m])
    BY <1>1, <2>1
  <2> QED BY <1>3, <2>3, <2>4, <2>5
<1>7. CASE Workflow!MarkReadyToApply(k) \/ Workflow!RepairOpportunity(k)
  <2> DEFINE n == calls[k].arg.opportunity
  <2>1. /\ \/ opportunities' = [opportunities EXCEPT ![n].ready = TRUE]
           \/ opportunities' = [opportunities EXCEPT ![n].links.application = None, ![n].ready = FALSE]
        /\ UNCHANGED artifacts
    BY <1>7 DEF Workflow!MarkReadyToApply, Workflow!RepairOpportunity
  <2> HIDE DEF n
  <2>2. opportunities' = [i \in DOMAIN opportunities |-> opportunities'[i]]
    BY <2>1
  <2>3. \A m \in DOMAIN opportunities : Formed(opportunities'[m])
    BY <1>1, <2>1
  <2> QED BY <1>1, <1>3, <2>1, <2>2, <2>3
<1>8. CASE Workflow!CreateOpportunity(k)
  <2> DEFINE o == [job |-> calls[k].arg.job, links |-> Workflow!Unlinked, ready |-> FALSE]
  <2>1. opportunities' = Append(opportunities, o) /\ UNCHANGED artifacts
    BY <1>8 DEF Workflow!CreateOpportunity
  <2>2. Formed(o)
    BY DEF Workflow!Unlinked
  <2> HIDE DEF o
  <2>3. /\ IsSequence(opportunities')
        /\ \A i \in DOMAIN opportunities' : opportunities'[i] = IF i \in DOMAIN opportunities THEN opportunities[i] ELSE o
    BY <1>1, <2>1, SequencesGrow
  <2> HIDE DEF Formed
  <2>4. \A i \in DOMAIN opportunities' : Formed(opportunities'[i])
    BY <1>1, <2>2, <2>3
  <2>5. Entries(artifacts')
    BY <1>1, <2>1
  <2> QED BY <1>2, <2>3, <2>4, <2>5
<1> QED BY <1>4, <1>5, <1>6, <1>7, <1>8 DEF Workflow!Gateway

\* What is written fits, until the identifier of the entry that went is given out again.
LEMMA GatewayFits ==
  ASSUME WorkflowIInv, page = "workflow", UNCHANGED page, NEW k \in DOMAIN calls, Workflow!Gateway(k)
  PROVE  WorkflowIInv'
<1>1. RowsIInv' /\ (NotReused(artifacts)' => NotReused(artifacts))
  BY RowsStay DEF WorkflowIInv, NotReused
<1>2. ASSUME NotReused(artifacts) PROVE LinksIInv' /\ PanelIInv'
  <2>1. RowsIInv /\ LinksIInv /\ PanelIInv
    BY <1>2 DEF WorkflowIInv
  <2> QED BY <1>2, <2>1, WorkflowReads, LinkFits, CreationFits, OthersFit DEF Workflow!Gateway
<1> QED BY <1>1, <1>2 DEF WorkflowIInv

\* The page reads what the gateway keeps, and changes none of it.
LEMMA PageFits ==
  ASSUME WorkflowIInv, page = "workflow", UNCHANGED <<page, opportunities, artifacts>>,
         PanelIInv => PanelIInv'
  PROVE  WorkflowIInv'
<1>1. RowsIInv' /\ (NotReused(artifacts)' => NotReused(artifacts)) /\ (LinksIInv => LinksIInv')
  BY DEF WorkflowIInv, RowsIInv, NotReused, LinksIInv
<1> QED BY <1>1 DEF WorkflowIInv

\* Every step of the page.
LEMMA WorkflowFits ==
  ASSUME WorkflowIInv, page = "workflow", UNCHANGED page, Workflow!Next
  PROVE  WorkflowIInv'
<1>1. CASE \E k \in DOMAIN calls : Workflow!Gateway(k)
  BY <1>1, GatewayFits
<1>2. CASE \E k \in DOMAIN calls : \E fine \in BOOLEAN :
             Workflow!Loaded(k, fine) \/ Workflow!ActionHeard(k, fine) \/ Workflow!LetterHeard(k, fine)
  <2>1. PICK k \in DOMAIN calls, fine \in BOOLEAN :
          Workflow!Loaded(k, fine) \/ Workflow!ActionHeard(k, fine) \/ Workflow!LetterHeard(k, fine)
    BY <1>2
  <2>2. UNCHANGED <<opportunities, artifacts>>
    BY <2>1 DEF Workflow!Loaded, Workflow!ActionHeard, Workflow!LetterHeard, Workflow!gatewayVars, Workflow!workflowVars
  <2>3. PanelIInv => PanelIInv'
    BY <2>1, WorkflowAnswersFit
  <2> QED BY <2>2, <2>3, PageFits
<1>3. CASE ~ Workflow!Answers
  <2>1. \/ \E id : Workflow!SelectOpportunity(id)
        \/ \E choice : Workflow!Fill(choice)
        \/ \E kind \in Workflow!Kinds : Workflow!Link(kind) \/ \E id : Workflow!Choose(kind, id)
        \/ Workflow!CreateTrackerEntry \/ Workflow!MarkReady \/ Workflow!Repair \/ Workflow!CreateWorkflow
        \/ Workflow!OpenActiveCoverLetter
    BY <1>3 DEF Workflow!Next
  <2>2. UNCHANGED <<opportunities, artifacts>>
    BY <2>1 DEF Workflow!SelectOpportunity, Workflow!Fill, Workflow!Link, Workflow!Choose, Workflow!CreateTrackerEntry,
       Workflow!MarkReady, Workflow!Repair, Workflow!CreateWorkflow, Workflow!OpenActiveCoverLetter, Workflow!RunAction,
       Workflow!Detail, Workflow!gatewayVars, Workflow!pageVars
  <2>3. PanelIInv => PanelIInv'
    BY <2>1, WorkflowActsFit
  <2> QED BY <2>2, <2>3, PageFits
<1> QED BY <1>1, <1>2, <1>3 DEF Workflow!Answers

\* The page opens on three opportunities that fit.
LEMMA WorkflowOpens ==
  ASSUME Workflow!PageInit, page = "workflow" => calls = Workflow!Effects
  PROVE  WorkflowIInv
<1> DEFINE first == [job |-> "job1", links |-> [[[Workflow!Unlinked EXCEPT !.resume = 1] EXCEPT !.ats = 1] EXCEPT !.letter = 1], ready |-> FALSE]
           second == [job |-> "job2", links |-> [Workflow!Unlinked EXCEPT !.application = 9], ready |-> FALSE]
           third == [job |-> None, links |-> Workflow!Unlinked, ready |-> FALSE]
           load == [op |-> "load", arg |-> [origin |-> "open"], reply |-> None]
<1>1. /\ opportunities = <<first, second, third>>
      /\ artifacts.resume = <<None>> /\ artifacts.ats = <<"job1", "job2">> /\ artifacts.letter = <<"job1", "job2">>
      /\ artifacts.application = <<"job2", None>> /\ Workflow!Kinds \subseteq DOMAIN artifacts
      /\ shown = None /\ fields = Workflow!Unlinked
  BY DEF Workflow!PageInit, Workflow!Kinds
<1>2. /\ {"job", "links", "ready"} \subseteq DOMAIN first /\ Workflow!Kinds \subseteq DOMAIN first.links
      /\ first.job = "job1" /\ first.links.ats = 1 /\ first.links.letter = 1 /\ first.links.application = None
  BY DEF Workflow!Unlinked, Workflow!Kinds
<1>3. /\ {"job", "links", "ready"} \subseteq DOMAIN second /\ Workflow!Kinds \subseteq DOMAIN second.links
      /\ second.job = "job2" /\ second.links.ats = None /\ second.links.letter = None /\ second.links.application = Gone
  BY DEF Workflow!Unlinked, Workflow!Kinds, Gone
<1>4. /\ {"job", "links", "ready"} \subseteq DOMAIN third /\ Workflow!Kinds \subseteq DOMAIN third.links
      /\ third.links.ats = None /\ third.links.letter = None /\ third.links.application = None
  BY DEF Workflow!Unlinked, Workflow!Kinds
<1>5. load.op = "load" /\ load.reply = None /\ IsRequest(load)
  BY NewRequest
<1>6. page = "workflow" => calls = <<load>>
  BY DEF Workflow!Effects, Workflow!Call
<1> HIDE DEF first, second, third, load
<1>7. /\ DOMAIN opportunities = 1..3
      /\ opportunities[1] = first /\ opportunities[2] = second /\ opportunities[3] = third
  BY <1>1
<1>8. IsSequence(opportunities) /\ IsSequence(artifacts.application)
  <2>1. <<first, second, third>> \in Seq({first, second, third}) /\ <<"job2", None>> \in Seq({"job2", None})
    OBVIOUS
  <2> QED BY <1>1, <2>1, Zenon DEF IsSequence
<1>9. RowsIInv
  <2>1. \A n \in DOMAIN opportunities : {"job", "links", "ready"} \subseteq DOMAIN opportunities[n]
                                       /\ Workflow!Kinds \subseteq DOMAIN opportunities[n].links
    BY <1>2, <1>3, <1>4, <1>7
  <2> QED BY <1>1, <1>8, <2>1, Zenon DEF RowsIInv
<1>10. LinksIInv
  <2>1. \A n \in DOMAIN opportunities :
          /\ \A kind \in {"ats", "letter"} : opportunities[n].links[kind] = None \/ (n = 1 /\ opportunities[n].links[kind] = 1)
          /\ opportunities[n].links.application \in {None, Gone}
          /\ n = 1 => opportunities[n].job = "job1"
    BY <1>2, <1>3, <1>4, <1>7
  <2>2. artifacts.ats[1] = "job1" /\ artifacts.letter[1] = "job1"
    BY <1>1
  <2> QED BY <2>1, <2>2 DEF LinksIInv, Workflow!Aligned, Right
<1>11. page = "workflow" => PanelIInv
  <2>1. page = "workflow" => Requests(calls) /\ \A n \in DOMAIN calls : calls[n] = load
    <3>1. Requests(<<load>>) /\ DOMAIN <<load>> = {1} /\ <<load>>[1] = load
      BY <1>5, Opened
    <3>2. Requests(<<load>>) /\ \A n \in DOMAIN <<load>> : <<load>>[n] = load
      BY <3>1
    <3> QED BY <1>6, <3>2, Zenon
  <2>2. "application" \in DOMAIN fields
    BY <1>1 DEF Workflow!Unlinked, Workflow!Kinds
  <2> QED BY <1>1, <1>5, <2>1, <2>2 DEF PanelIInv, Fitting
<1> QED BY <1>9, <1>10, <1>11 DEF WorkflowIInv

\* The workflow page and the others.
LEMMA WebFits ==
  ASSUME WorkflowIInv, [Next]_vars
  PROVE  WorkflowIInv'
<1>1. CASE WorkflowNext
  BY <1>1, WorkflowFits DEF WorkflowNext, Alone
<1>2. ASSUME UNCHANGED <<page, opportunities, artifacts>>,
             page = "workflow" => UNCHANGED <<calls, fields, shown, selectedId>>
      PROVE  WorkflowIInv'
  BY <1>2 DEF WorkflowIInv, RowsIInv, NotReused, LinksIInv, PanelIInv, Requests, Fitting
<1>3. CASE UNCHANGED vars
  BY <1>2, <1>3 DEF vars, network, workflowVars
<1>4. CASE DesignNext \/ TrackerNext \/ LettersNext \/ AtsNext \/ GuideNext \/ StartupNext \/ LibraryNext \/ TailorNext
  <2>1. page # "workflow" /\ Alone
    BY <1>4 DEF DesignNext, TrackerNext, LettersNext, AtsNext, GuideNext, StartupNext, LibraryNext, TailorNext
  <2>2. UNCHANGED <<page, opportunities, artifacts>>
    BY <2>1 DEF Alone, workflowVars
  <2> QED BY <1>2, <2>1, <2>2
<1> QED BY <1>1, <1>3, <1>4, Zenon DEF Next

\* The invariant of the workflow page: what the page was shown still holds of what the gateway keeps, and every
\* request in flight links what fits, so that what the gateway writes fits.
THEOREM WorkflowPageInductive == Spec => []WorkflowIInv
<1>1. Init => WorkflowIInv
  <2> SUFFICES ASSUME Init PROVE WorkflowIInv
    OBVIOUS
  <2>1. Workflow!PageInit /\ (page = "workflow" => calls = Workflow!Effects)
    BY DEF Init
  <2> QED BY <2>1, WorkflowOpens
<1>2. WorkflowIInv /\ [Next]_vars => WorkflowIInv'
  BY WebFits
<1> QED BY <1>1, <1>2, PTL DEF Spec

\* What fits is of the job of the opportunity.
LEMMA WhatFitsIsAligned ==
  ASSUME WorkflowIInv, NotReused(artifacts)
  PROVE  Workflow!LinksFitTheJob
<1>1. SUFFICES ASSUME NEW n \in DOMAIN opportunities, NEW kind \in Workflow!Kinds,
                      opportunities[n].links[kind] # None, opportunities[n].links[kind] \in DOMAIN artifacts[kind]
               PROVE  Workflow!Aligned(opportunities[n].job, artifacts[kind][opportunities[n].links[kind]])
  BY DEF Workflow!LinksFitTheJob, Workflow!Missing, Workflow!JobOf
<1>2. RowsIInv /\ LinksIInv
  BY DEF WorkflowIInv
<1>3. CASE kind = "resume"
  <2>1. artifacts.resume = <<None>>
    BY <1>2 DEF RowsIInv
  <2>2. artifacts.resume[opportunities[n].links.resume] = None
    BY <1>1, <1>3, <2>1
  <2> QED BY <1>3, <2>2 DEF Workflow!Aligned
<1>4. CASE kind \in {"ats", "letter"}
  BY <1>1, <1>2, <1>4 DEF LinksIInv
<1>5. CASE kind = "application"
  BY <1>1, <1>2, <1>5 DEF LinksIInv, Right, NotReused, Workflow!Aligned
<1> QED BY <1>3, <1>4, <1>5 DEF Workflow!Kinds

\* What the gateway keeps for the pages stays consistent under their races: reminders, the active resume, and
\* whatever is chosen, reloaded, repaired and selected meanwhile, what an opportunity is linked to is of its job;
\* as long as no new tracker entry takes the identifier of one that was deleted under an opportunity's link.
THEOREM RecordsAreLinked == Spec => [](NotReused(artifacts) => RecordsStayLinked)
<1>1. WebIInv /\ WorkflowIInv => (NotReused(artifacts) => RecordsStayLinked)
  BY WhatFitsIsAligned DEF WebIInv, Listed, Library!ActiveIsListed, RecordsStayLinked
<1> QED BY <1>1, WebInductive, WorkflowPageInductive, PTL

-----------------------------------------------------------------------------
(* The editor of the design *)

\* The settings are those of the open editor: no other page reaches them.
LEMMA DesignPreserved ==
  ASSUME DesignIInv, [Next]_vars
  PROVE  DesignIInv'
<1>1. CASE DesignNext
  BY <1>1, DesignStep DEF DesignNext
<1>2. ASSUME UNCHANGED designVars PROVE DesignIInv'
  BY <1>2 DEF DesignIInv, designVars
<1>3. CASE Next /\ ~ DesignNext
  <2>1. page # "design" /\ Alone
    BY <1>3 DEF Next, TrackerNext, LettersNext, AtsNext, WorkflowNext, GuideNext, StartupNext, LibraryNext, TailorNext
  <2> QED BY <1>2, <2>1 DEF Alone
<1>4. CASE UNCHANGED vars
  BY <1>2, <1>4 DEF vars
<1> QED BY <1>1, <1>3, <1>4

\* Whatever the order of the edits, of the calls and of their answers, the editor holds settings of the one
\* shape the panel, the gateway and the renderer share, for a template that the renderer has.
THEOREM DesignInductive == Spec => []DesignIInv
<1>1. Init => DesignIInv
  BY DesignOpens DEF Init
<1>2. DesignIInv /\ [Next]_vars => DesignIInv'
  BY DesignPreserved
<1> QED BY <1>1, <1>2, PTL DEF Spec

\* No other page reaches the sections.
LEMMA BoardPreserved ==
  ASSUME DesignIInv, BoardIInv, [Next]_vars
  PROVE  BoardIInv'
<1>1. CASE DesignNext
  BY <1>1, BoardStep DEF DesignNext
<1>2. ASSUME UNCHANGED designVars PROVE BoardIInv'
  BY <1>2, BoardParts DEF BoardIInv, designVars
<1>3. CASE Next /\ ~ DesignNext
  <2>1. page # "design" /\ Alone
    BY <1>3 DEF Next, TrackerNext, LettersNext, AtsNext, WorkflowNext, GuideNext, StartupNext, LibraryNext, TailorNext
  <2> QED BY <1>2, <2>1 DEF Alone
<1>4. CASE UNCHANGED vars
  BY <1>2, <1>4 DEF vars
<1> QED BY <1>1, <1>3, <1>4

\* Whatever the edits, the templates applied, the moves and the order of the answers, the stored sections are of
\* types of the catalogue, none twice, and those of a new resume are never lost.
THEOREM BoardInductive == Spec => []BoardIInv
<1>1. Init => BoardIInv
  BY BoardOpens DEF Init
<1>2. DesignIInv /\ BoardIInv /\ [Next]_vars => BoardIInv'
  BY BoardPreserved
<1> QED BY <1>1, <1>2, DesignInductive, PTL DEF Spec

-----------------------------------------------------------------------------
(* The page *)

\* The board of the sections tab shows the page: whatever was edited, moved or answered late, each of its lanes has
\* the sections of a column of the rendered page, in its order, and the renderer accepts the document.
THEOREM BoardIsThePage == Spec => []PanelShowsThePage
<1>1. DesignIInv /\ BoardIInv => PanelShowsThePage
  BY BoardShowsThePage DEF PanelShowsThePage
<1> QED BY <1>1, DesignInductive, BoardInductive, PTL

\* What the user typed is in the manifest of the page once, on a page that it has, unless its section is hidden:
\* whatever the template, the columns, the moves and the answers that come late, no part of the resume is lost or doubled.
THEOREM RowsArePrintedOnce == Spec => []EveryRowIsPrinted
<1>1. DesignIInv /\ BoardIInv => EveryRowIsPrinted
  BY RowsPrinted DEF EveryRowIsPrinted
<1> QED BY <1>1, DesignInductive, BoardInductive, PTL

-----------------------------------------------------------------------------
(* The moves *)

\* No other page ends a move.
LEMMA OnlyTheEditorEndsMoves ==
  ASSUME [Next]_vars, moving # None, moving' = None
  PROVE  Design!SectionMoved
<1>1. CASE DesignNext
  BY <1>1, OnlyAnswersEndMoves DEF DesignNext
<1>2. ASSUME UNCHANGED designVars PROVE FALSE
  BY <1>2 DEF designVars
<1>3. CASE Next /\ ~ DesignNext
  <2>1. page # "design" /\ Alone
    BY <1>3 DEF Next, TrackerNext, LettersNext, AtsNext, WorkflowNext, GuideNext, StartupNext, LibraryNext, TailorNext
  <2> QED BY <1>2, <2>1 DEF Alone
<1>4. CASE UNCHANGED vars
  BY <1>2, <1>4 DEF vars
<1> QED BY <1>1, <1>3, <1>4

\* A move that the gateway accepts puts the section where the board was asked to put it, and leaves every other in
\* its place: whatever was edited while the answer was under way, for every index and lane that a drag can ask for.
THEOREM MovesLand == Spec => MovesLandWhereAsked
<1> DEFINE Landed ==
      LET m == moving.move
          before == Design!Lane(Design!Without(moving.settings.sections, m.id), m.placement)
          at == Design!Min({m.index, Len(before)}) + 1
      IN (/\ moving # None /\ moving' = None
          /\ m.op = "move" /\ Design!TwoColumnBoard(moving.settings)
          /\ Design!MergeSections(moving.settings) = moving.settings.sections)
         => /\ Design!Without(local'.sections, m.id) = Design!Without(moving.settings.sections, m.id)
            /\ Design!IndexOf(Design!Lane(local'.sections, m.placement), m.id) = at
<1>1. DesignIInv /\ BoardIInv /\ [Next]_vars => [Landed]_Design!vars
  <2> SUFFICES ASSUME DesignIInv, BoardIInv, [Next]_vars PROVE Landed
    OBVIOUS
  <2> SUFFICES ASSUME moving # None, moving' = None, moving.move.op = "move", Design!TwoColumnBoard(moving.settings),
                      Design!MergeSections(moving.settings) = moving.settings.sections
               PROVE  Landed
    OBVIOUS
  <2>1. Design!SectionMoved
    BY OnlyTheEditorEndsMoves
  <2> QED BY <2>1, MovedAnswerLands
<1> QED BY <1>1, DesignInductive, BoardInductive, PTL DEF Spec, MovesLandWhereAsked, Design!MovesLandWhereAsked

=============================================================================
