--------------------- MODULE OpportunityWorkflowProofs ---------------------
(***************************************************************************)
(* The rows of the workflow keep their types under any number of handlers, *)
(* what the integrity report advertises is accepted and leaves less to     *)
(* repair, and a lone handler keeps the state in step with the links and   *)
(* with the newest transition.                                             *)
(***************************************************************************)
EXTENDS OpportunityWorkflow, FiniteSetTheorems, TLAPS

-----------------------------------------------------------------------------
(* The inductive invariant *)

Report == [job: Jobs \union {None}, resume: Resumes \union {None}, rev: Nat,
           locale: Locales \union {None}]
Letter == [job: Jobs \union {None}, resume: Resumes \union {None}, rev: Nat]
Entry == [job: Jobs \union {None}, ats: Reports \union {None}, letter: Letters \union {None}]
Row == [locales: SUBSET Locales, active: Locales]

TablesOK ==
  /\ jobs \in [Jobs -> {TRUE, None}]
  /\ resumes \in [Resumes -> Row \union {None}]
  /\ reports \in [Reports -> Report \union {None}]
  /\ letters \in [Letters -> Letter \union {None}]
  /\ applications \in [Applications -> Entry \union {None}]
  /\ head \in [Resumes -> Nat]

\* The default locale is never removed, and a resume is shown in a locale it has.
ShownOK ==
  \A r \in Resumes : resumes[r] # None =>
    Default \in resumes[r].locales /\ resumes[r].active \in resumes[r].locales

Session == [pc: {"idle", "loaded", "prepared"}, action: Repairs \union Links \union {None},
            row: Opportunity \union {None}, new: Opportunity \union {None}]

\* A handler that has loaded the row holds it; one that has validated has a row to write.
SessionsOK ==
  /\ ses \in [Requests -> Session]
  /\ \A q \in Requests : ses[q].pc \in {"loaded", "prepared"} => ses[q].row \in Opportunity
  /\ \A q \in Requests : ses[q].pc = "prepared" => ses[q].new \in Opportunity

RowOK ==
  /\ opportunity \in Opportunity \union {None}
  /\ last \in States \union {None}
  /\ scenario \in Scenarios

IInv == TablesOK /\ ShownOK /\ SessionsOK /\ RowOK

-----------------------------------------------------------------------------
(* Rows *)

\* A flush mixes the fields of three rows, so it leaves a row.
LEMMA FlushedTyped ==
  ASSUME NEW new \in Opportunity, NEW loaded \in Opportunity, NEW stored \in Opportunity
  PROVE  Flushed(new, loaded, stored) \in Opportunity
  BY DEF Flushed, Opportunity

\* A handler whose row is still the stored one flushes exactly what it prepared.
LEMMA FlushedWhole ==
  ASSUME NEW new \in Opportunity, NEW stored \in Opportunity
  PROVE  Flushed(new, stored, stored) = new
  BY DEF Flushed, Opportunity

\* recompute_opportunity_state gives a state, and the ready one only with every link in place.
LEMMA RecomputedTyped ==
  ASSUME NEW o
  PROVE  Recomputed(o) \in States /\ (Recomputed(o) = "ready_to_apply" => AllLinked(o))
  BY DEF Recomputed, States

\* An accepted repair leaves a row, which is ready only with all its links.
LEMMA RepairedTyped ==
  ASSUME TablesOK, NEW a \in Repairs, NEW o \in Opportunity, RepairAccepted(a, o)
  PROVE  /\ Repaired(a, o) \in Opportunity
         /\ Repaired(a, o).state = "ready_to_apply" => AllLinked(Repaired(a, o))
<1>1. Detached(a, o) \in Opportunity
  <2>1. CASE a = "reset_resume_locale"
    <3>1. o.resume \in Resumes /\ resumes[o.resume] \in Row
      BY <2>1 DEF RepairAccepted, HasResume, TablesOK, Opportunity, Row
    <3>2. Detached(a, o) = [o EXCEPT !.locale = resumes[o.resume].active]
      BY <2>1 DEF Detached
    <3>. QED  BY <3>1, <3>2 DEF Opportunity, Row
  <2>2. CASE a \in {"detach_missing_application", "relink_application"}
    BY <2>2 DEF Detached, Cleared, Opportunity
  <2>3. CASE a = "detach_missing_resume"
    BY <2>3 DEF Detached, Opportunity
  <2>4. CASE a \in {"detach_missing_ats_report", "relink_ats_report"}
    BY <2>4 DEF Detached, Cleared, Opportunity
  <2>5. CASE a \in {"detach_missing_cover_letter", "relink_cover_letter"}
    BY <2>5 DEF Detached, Cleared, Opportunity
  <2>6. CASE a = "sync_application_links"
    BY <2>6 DEF Detached
  <2>. QED  BY <2>1, <2>2, <2>3, <2>4, <2>5, <2>6 DEF Repairs
<1>2. Recomputed(Detached(a, o)) \in States
  BY RecomputedTyped
<1>3. Recomputed(Detached(a, o)) = "ready_to_apply" => AllLinked(Detached(a, o))
  BY RecomputedTyped
<1>. DEFINE d == Detached(a, o)
            s == Recomputed(d)
<1>4. Repaired(a, o) = [d EXCEPT !.state = s]
  BY DEF Repaired
<1>5. d \in Opportunity /\ s \in States /\ (s = "ready_to_apply" => AllLinked(d))
  BY <1>1, <1>2, <1>3
<1>. HIDE DEF d, s
<1>. QED  BY <1>4, <1>5 DEF Opportunity, AllLinked

\* What a sync writes is a tracker entry.
LEMMA SyncedTyped ==
  ASSUME NEW o \in Opportunity, NEW a \in Entry
  PROVE  Synced(o, a) \in Entry
  BY DEF Synced, OrElse, Entry, Opportunity

-----------------------------------------------------------------------------
(* Sessions *)

\* A handler that has decided carries a row of the right shape.
LEMMA PreparedKeeps ==
  ASSUME SessionsOK, NEW q \in Requests, ses[q].pc = "loaded", NEW new \in Opportunity,
         Prepared(q, new)
  PROVE  SessionsOK'
  BY DEF SessionsOK, Session, Prepared

\* A handler that ends carries nothing.
LEMMA IdleKeeps ==
  ASSUME SessionsOK, NEW q \in Requests, ses' = [ses EXCEPT ![q] = Idle]
  PROVE  SessionsOK'
  BY DEF SessionsOK, Session, Idle

-----------------------------------------------------------------------------
(* Every step preserves the invariant *)

\* Before the opportunity is created, no handler runs.
LEMMA InitIInv == ASSUME Init PROVE IInv
<1>1. States # {} /\ 0 \in Nat
  BY DEF States
<1>2. TablesOK
  BY DEF Init, TablesOK
<1>3. ShownOK
  BY DEF Init, ShownOK
<1>4. SessionsOK
  BY DEF Init, SessionsOK, Session, Idle
<1>. QED  BY <1>2, <1>3, <1>4 DEF Init, IInv, RowOK

\* A handler starts from the row as it stands.
LEMMA LoadInv ==
  ASSUME IInv, NEW q \in Requests, NEW action \in Repairs \union Links, Load(q, action)
  PROVE  IInv'
<1>1. opportunity \in Opportunity
  BY DEF IInv, RowOK, Load
<1>2. SessionsOK'
  BY <1>1 DEF IInv, SessionsOK, Session, Load
<1>. QED  BY <1>2 DEF IInv, Load, TablesOK, ShownOK, RowOK, tables

\* Linking a resume sets the resume, its locale and the state that goes with them.
LEMMA DecideResumeInv ==
  ASSUME IInv, NEW q \in Requests, DecideResume(q)
  PROVE  IInv'
<1>1. PICK r \in Live(resumes, MaxResume) : \E l \in resumes[r].locales :
         Prepared(q, [ses[q].row EXCEPT !.resume = r, !.locale = l, !.state = "resume_linked"])
  BY DEF DecideResume
<1>2. PICK l \in resumes[r].locales :
         Prepared(q, [ses[q].row EXCEPT !.resume = r, !.locale = l, !.state = "resume_linked"])
  BY <1>1
<1>3. r \in Resumes /\ l \in Locales
  BY DEF IInv, TablesOK, Row, Live, Resumes
<1>. DEFINE new == [ses[q].row EXCEPT !.resume = r, !.locale = l, !.state = "resume_linked"]
<1>4. ses[q].pc = "loaded" /\ ses[q].row \in Opportunity
  BY DEF IInv, SessionsOK, DecideResume, Deciding
<1>5. new \in Opportunity
  BY <1>3, <1>4 DEF Opportunity, States
<1>. HIDE DEF new
<1>6. SessionsOK'
  BY <1>2, <1>4, <1>5, PreparedKeeps DEF IInv, new
<1>. QED  BY <1>6 DEF IInv, DecideResume, TablesOK, ShownOK, RowOK, tables

\* So does a report, if it is of the job.
LEMMA DecideReportInv ==
  ASSUME IInv, NEW q \in Requests, DecideReport(q)
  PROVE  IInv'
<1>1. PICK i \in Live(reports, MaxReport) :
         Prepared(q, [ses[q].row EXCEPT !.ats = i, !.state = "ats_report_linked"])
  BY DEF DecideReport
<1>. DEFINE new == [ses[q].row EXCEPT !.ats = i, !.state = "ats_report_linked"]
<1>2. ses[q].pc = "loaded" /\ ses[q].row \in Opportunity
  BY DEF IInv, SessionsOK, DecideReport, Deciding
<1>3. new \in Opportunity
  BY <1>2 DEF Opportunity, States, Live, Reports
<1>. HIDE DEF new
<1>4. SessionsOK'
  BY <1>1, <1>2, <1>3, PreparedKeeps DEF IInv, new
<1>. QED  BY <1>4 DEF IInv, DecideReport, TablesOK, ShownOK, RowOK, tables

\* So does a letter, if it is of the job.
LEMMA DecideLetterInv ==
  ASSUME IInv, NEW q \in Requests, DecideLetter(q)
  PROVE  IInv'
<1>1. PICK i \in Live(letters, MaxLetter) :
         Prepared(q, [ses[q].row EXCEPT !.letter = i, !.state = "cover_letter_linked"])
  BY DEF DecideLetter
<1>. DEFINE new == [ses[q].row EXCEPT !.letter = i, !.state = "cover_letter_linked"]
<1>2. ses[q].pc = "loaded" /\ ses[q].row \in Opportunity
  BY DEF IInv, SessionsOK, DecideLetter, Deciding
<1>3. new \in Opportunity
  BY <1>2 DEF Opportunity, States, Live, Letters
<1>. HIDE DEF new
<1>4. SessionsOK'
  BY <1>1, <1>2, <1>3, PreparedKeeps DEF IInv, new
<1>. QED  BY <1>4 DEF IInv, DecideLetter, TablesOK, ShownOK, RowOK, tables

\* The tracker entry that is created or attached to takes over links of the row.
LEMMA DecideTrackerInv ==
  ASSUME IInv, NEW q \in Requests, DecideTracker(q)
  PROVE  IInv'
<1>. DEFINE o == ses[q].row
<1>1. ses[q].pc = "loaded" /\ o \in Opportunity
  BY DEF IInv, SessionsOK, DecideTracker, Deciding
<1>2. PICK i \in Applications :
         /\ Prepared(q, [o EXCEPT !.app = i, !.state = "tracker_entry_created"])
         /\ \E e \in Entry : applications' = [applications EXCEPT ![i] = e]
  <2>1. CASE Deciding(q, "create_tracker_entry")
               /\ NextId(applications, MaxApplication) \in Applications
               /\ applications' = [applications EXCEPT ![NextId(applications, MaxApplication)] =
                     [job |-> o.job, ats |-> o.ats, letter |-> o.letter]]
               /\ Prepared(q, [o EXCEPT !.app = NextId(applications, MaxApplication),
                                        !.state = "tracker_entry_created"])
    <3>1. [job |-> o.job, ats |-> o.ats, letter |-> o.letter] \in Entry
      BY <1>1 DEF Opportunity, Entry
    <3>. QED  BY <2>1, <3>1
  <2>2. CASE \E i \in Live(applications, MaxApplication) :
               /\ applications' = [applications EXCEPT ![i] =
                    [job |-> OrElse(@.job, o.job), ats |-> OrElse(o.ats, @.ats),
                     letter |-> OrElse(o.letter, @.letter)]]
               /\ Prepared(q, [o EXCEPT !.app = i, !.state = "tracker_entry_created"])
    <3>1. PICK i \in Live(applications, MaxApplication) :
               /\ applications' = [applications EXCEPT ![i] =
                    [job |-> OrElse(@.job, o.job), ats |-> OrElse(o.ats, @.ats),
                     letter |-> OrElse(o.letter, @.letter)]]
               /\ Prepared(q, [o EXCEPT !.app = i, !.state = "tracker_entry_created"])
      BY <2>2
    <3>. DEFINE a == applications[i]
                e == [job |-> OrElse(a.job, o.job), ats |-> OrElse(o.ats, a.ats),
                      letter |-> OrElse(o.letter, a.letter)]
    <3>2. i \in Applications /\ a \in Entry
      BY DEF IInv, TablesOK, Live, Applications
    <3>3. applications' = [applications EXCEPT ![i] = e]
      BY <3>1, <3>2 DEF IInv, TablesOK
    <3>4. e \in Entry
      BY <1>1, <3>2 DEF Opportunity, Entry, OrElse
    <3>. HIDE DEF e
    <3>. QED  BY <3>1, <3>2, <3>3, <3>4
  <2>. QED  BY <2>1, <2>2 DEF DecideTracker
<1>3. PICK e \in Entry : applications' = [applications EXCEPT ![i] = e]
  BY <1>2
<1>. DEFINE new == [o EXCEPT !.app = i, !.state = "tracker_entry_created"]
<1>4. new \in Opportunity
  BY <1>1 DEF Opportunity, States
<1>5. Prepared(q, new)
  BY <1>2
<1>. HIDE DEF new
<1>6. SessionsOK'
  BY <1>1, <1>4, <1>5, PreparedKeeps DEF IInv
<1>7. applications' \in [Applications -> Entry \union {None}]
  BY <1>3 DEF IInv, TablesOK
<1>. QED  BY <1>6, <1>7 DEF IInv, DecideTracker, TablesOK, ShownOK, RowOK

\* The ready route asks for every link before it sets the state.
LEMMA DecideReadyInv ==
  ASSUME IInv, NEW q \in Requests, DecideReady(q)
  PROVE  IInv'
<1>. DEFINE new == [ses[q].row EXCEPT !.state = "ready_to_apply"]
<1>1. ses[q].pc = "loaded" /\ ses[q].row \in Opportunity
  BY DEF IInv, SessionsOK, DecideReady, Deciding
<1>2. new \in Opportunity
  BY <1>1 DEF Opportunity, States
<1>3. Prepared(q, new)
  BY DEF DecideReady
<1>. HIDE DEF new
<1>4. SessionsOK'
  BY <1>1, <1>2, <1>3, PreparedKeeps DEF IInv
<1>. QED  BY <1>4 DEF IInv, DecideReady, TablesOK, ShownOK, RowOK, tables

\* Each repair leaves links of the right shape; the state follows.
LEMMA DecideRepairInv ==
  ASSUME IInv, NEW q \in Requests, DecideRepair(q)
  PROVE  IInv'
<1>1. ses[q].pc = "loaded" /\ ses[q].row \in Opportunity
  BY DEF IInv, SessionsOK, DecideRepair
<1>2. Repaired(ses[q].action, ses[q].row) \in Opportunity
  BY <1>1, RepairedTyped DEF IInv, DecideRepair
<1>3. SessionsOK'
  BY <1>1, <1>2, PreparedKeeps DEF IInv, DecideRepair
<1>. QED  BY <1>3 DEF IInv, DecideRepair, TablesOK, ShownOK, RowOK, tables

\* A refusal changes nothing but the handler.
LEMMA RefuseInv ==
  ASSUME IInv, NEW q \in Requests, Refuse(q)
  PROVE  IInv'
<1>1. SessionsOK'
  BY IdleKeeps DEF IInv, Refuse
<1>. QED  BY <1>1 DEF IInv, Refuse, TablesOK, ShownOK, RowOK, tables

\* So does an opportunity that is gone when it is read again.
LEMMA RowGoneInv ==
  ASSUME IInv, NEW q \in Requests, RowGone(q)
  PROVE  IInv'
<1>1. SessionsOK'
  BY IdleKeeps DEF IInv, RowGone
<1>. QED  BY <1>1 DEF IInv, RowGone, TablesOK, ShownOK, RowOK, tables

\* The row and its transition are committed as they were prepared.
LEMMA CommitTransitionInv ==
  ASSUME IInv, NEW q \in Requests, CommitTransition(q)
  PROVE  IInv'
<1>. DEFINE o == ses[q].row
            i == o.app
<1>1. o \in Opportunity /\ ses[q].new \in Opportunity /\ opportunity \in Opportunity
  BY DEF IInv, SessionsOK, RowOK, CommitTransition
<1>2. SessionsOK'
  BY IdleKeeps DEF IInv, CommitTransition
<1>3. opportunity' \in Opportunity
  BY <1>1, FlushedTyped DEF CommitTransition
<1>4. last' \in States
  BY <1>1 DEF CommitTransition, Opportunity
<1>5. applications' \in [Applications -> Entry \union {None}]
  <2>1. CASE ses[q].action = "sync_application_links" /\ applications[i] # None
    <3>1. applications' = [applications EXCEPT ![i] = Synced(o, applications[i])]
      <4>1. applications' = [applications EXCEPT ![i] = Synced(o, @)]
        BY <2>1 DEF CommitTransition
      <4>. QED  BY <4>1
    <3>2. CASE i \in Applications
      <4>1. applications[i] \in Entry
        BY <2>1, <3>2 DEF IInv, TablesOK
      <4>2. Synced(o, applications[i]) \in Entry
        BY <1>1, <4>1, SyncedTyped
      <4>. QED  BY <3>1, <4>2 DEF IInv, TablesOK
    <3>3. CASE i \notin Applications
      BY <3>1, <3>3 DEF IInv, TablesOK
    <3>. QED  BY <3>2, <3>3
  <2>2. CASE ~ (ses[q].action = "sync_application_links" /\ applications[i] # None)
    BY <2>2 DEF CommitTransition, IInv, TablesOK
  <2>. QED  BY <2>1, <2>2
<1>. QED  BY <1>2, <1>3, <1>4, <1>5 DEF IInv, CommitTransition, TablesOK, ShownOK, RowOK

\* A new opportunity has its job and nothing else.
LEMMA CreateInv ==
  ASSUME IInv, Create
  PROVE  IInv'
<1>1. PICK job \in Live(jobs, MaxJob) \union {None} :
        opportunity' = [state |-> "opportunity_created", job |-> job, resume |-> None,
                        locale |-> None, ats |-> None, letter |-> None, app |-> None]
  BY DEF Create
<1>2. job \in Jobs \union {None}
  BY DEF Live, Jobs
<1>3. opportunity' \in Opportunity /\ last' \in States
  BY <1>1, <1>2 DEF Create, Opportunity, States
<1>. QED  BY <1>3 DEF IInv, Create, TablesOK, ShownOK, RowOK, SessionsOK, tables

\* Jobs come,
LEMMA ScrapeInv ==
  ASSUME IInv, Scrape
  PROVE  IInv'
  BY DEF IInv, Scrape, TablesOK, ShownOK, RowOK, SessionsOK

\* and go: links to them are left as they are, which the shape of a row allows.
LEMMA DeleteJobInv ==
  ASSUME IInv, NEW j \in Jobs, DeleteJob(j)
  PROVE  IInv'
<1>1. reports' \in [Reports -> Report \union {None}] /\ letters' \in [Letters -> Letter \union {None}]
  BY DEF IInv, DeleteJob, TablesOK
<1>. QED  BY <1>1 DEF IInv, DeleteJob, TablesOK, ShownOK, RowOK, SessionsOK

\* What a resume route writes must have its default locale and show one it has.
LEMMA ResumeInv ==
  ASSUME IInv, NEW r \in Resumes, NEW new \in Row, Resume(r, new),
         Default \in new.locales, new.active \in new.locales
  PROVE  IInv'
<1>1. resumes' \in [Resumes -> Row \union {None}] /\ head' \in [Resumes -> Nat]
  BY DEF IInv, Resume, TablesOK
<1>2. ShownOK'
  BY DEF IInv, TablesOK, ShownOK, Resume
<1>. QED  BY <1>1, <1>2 DEF IInv, Resume, TablesOK, RowOK, SessionsOK

\* Resumes, reports and letters come and go beside the opportunity.
LEMMA ResumeRoutesInv ==
  ASSUME IInv, ResumeRoutes
  PROVE  IInv'
<1>1. Default \in Locales
  BY WorkflowAssumption
<1>2. CASE /\ NextId(resumes, MaxResume) \in Resumes
           /\ Resume(NextId(resumes, MaxResume), [locales |-> {Default}, active |-> Default])
  BY <1>1, <1>2, ResumeInv DEF Row
<1>3. ASSUME NEW r \in Live(resumes, MaxResume)
      PROVE  /\ r \in Resumes /\ resumes[r] \in Row
             /\ Default \in resumes[r].locales /\ resumes[r].active \in resumes[r].locales
  BY <1>3 DEF IInv, TablesOK, ShownOK, Live, Resumes
<1>4. ASSUME NEW r \in Live(resumes, MaxResume), Resume(r, resumes[r])
      PROVE  IInv'
  BY <1>3, <1>4, ResumeInv
<1>5. ASSUME NEW r \in Live(resumes, MaxResume), NEW l \in Locales \ {Default},
             Resume(r, IF l \in resumes[r].locales
                       THEN [locales |-> resumes[r].locales \ {l},
                             active |-> IF resumes[r].active = l THEN Default ELSE resumes[r].active]
                       ELSE [locales |-> resumes[r].locales \union {l}, active |-> l])
      PROVE  IInv'
  <2>1. CASE l \in resumes[r].locales
    <3>. DEFINE new == [locales |-> resumes[r].locales \ {l},
                        active |-> IF resumes[r].active = l THEN Default ELSE resumes[r].active]
    <3>1. new \in Row /\ Default \in new.locales /\ new.active \in new.locales
      BY <1>1, <1>3 DEF Row
    <3>2. Resume(r, new)
      BY <1>5, <2>1
    <3>. HIDE DEF new
    <3>. QED  BY <1>3, <3>1, <3>2, ResumeInv
  <2>2. CASE l \notin resumes[r].locales
    <3>. DEFINE new == [locales |-> resumes[r].locales \union {l}, active |-> l]
    <3>1. new \in Row /\ Default \in new.locales /\ new.active \in new.locales
      BY <1>3 DEF Row
    <3>2. Resume(r, new)
      BY <1>5, <2>2
    <3>. HIDE DEF new
    <3>. QED  BY <1>3, <3>1, <3>2, ResumeInv
  <2>. QED  BY <2>1, <2>2
<1>6. ASSUME NEW r \in Live(resumes, MaxResume),
             resumes' = [resumes EXCEPT ![r] = None],
             UNCHANGED <<jobs, reports, letters, applications, head, opportunity, last, ses, scenario>>
      PROVE  IInv'
  <2>1. ShownOK'
    BY <1>6 DEF IInv, TablesOK, ShownOK
  <2>. QED  BY <1>6, <2>1 DEF IInv, TablesOK, RowOK, SessionsOK
<1>. QED  BY <1>2, <1>4, <1>5, <1>6 DEF ResumeRoutes

\* A report or a letter is written with the types of its row.
LEMMA SaveArtifactsInv ==
  ASSUME IInv, SaveArtifacts
  PROVE  IInv'
<1>. DEFINE Saved(job, s) ==
       \/ /\ \E l \in Locales \union {None} :
               reports' = [reports EXCEPT ![NextId(reports, MaxReport)] =
                 [job |-> job, resume |-> s.resume, rev |-> s.rev, locale |-> l]]
          /\ UNCHANGED letters
       \/ /\ letters' = [letters EXCEPT ![NextId(letters, MaxLetter)] =
               [job |-> job, resume |-> s.resume, rev |-> s.rev]]
          /\ UNCHANGED reports
<1>1. PICK job \in Live(jobs, MaxJob) \union {None}, s \in Sources : Saved(job, s)
  BY DEF SaveArtifacts
<1>2. job \in Jobs \union {None}
  BY DEF Live, Jobs
<1>3. s.resume \in Resumes \union {None} /\ s.rev \in Nat
  BY WorkflowAssumption DEF Sources, Live, Resumes
<1>4. reports' \in [Reports -> Report \union {None}]
  <2>1. ASSUME NEW l \in Locales \union {None}
        PROVE  [job |-> job, resume |-> s.resume, rev |-> s.rev, locale |-> l] \in Report
    BY <1>2, <1>3 DEF Report
  <2>. QED  BY <1>1, <2>1 DEF IInv, TablesOK
<1>5. letters' \in [Letters -> Letter \union {None}]
  <2>1. [job |-> job, resume |-> s.resume, rev |-> s.rev] \in Letter
    BY <1>2, <1>3 DEF Letter
  <2>. QED  BY <1>1, <2>1 DEF IInv, TablesOK
<1>6. UNCHANGED <<jobs, resumes, applications, head, opportunity, last, ses, scenario>>
  BY DEF SaveArtifacts
<1>. QED  BY <1>4, <1>5, <1>6 DEF IInv, TablesOK, ShownOK, RowOK, SessionsOK

\* So do the entries of the tracker.
LEMMA TrackerRoutesInv ==
  ASSUME IInv, TrackerRoutes
  PROVE  IInv'
<1>1. applications' \in [Applications -> Entry \union {None}]
  <2>1. ASSUME NEW job \in Jobs \union {None}, NEW ats \in Reports \union {None},
               NEW letter \in Letters \union {None},
               applications' = [applications EXCEPT ![NextId(applications, MaxApplication)] =
                                  [job |-> job, ats |-> ats, letter |-> letter]]
        PROVE  applications' \in [Applications -> Entry \union {None}]
    <3>1. [job |-> job, ats |-> ats, letter |-> letter] \in Entry
      BY DEF Entry
    <3>. QED  BY <2>1, <3>1 DEF IInv, TablesOK
  <2>2. ASSUME NEW i \in Live(applications, MaxApplication), NEW ats \in Reports \union {None},
               NEW letter \in Letters \union {None},
               applications' = [applications EXCEPT ![i] = [@ EXCEPT !.ats = ats, !.letter = letter]]
        PROVE  applications' \in [Applications -> Entry \union {None}]
    <3>1. i \in Applications /\ applications[i] \in Entry
      BY DEF IInv, TablesOK, Live, Applications
    <3>2. [applications[i] EXCEPT !.ats = ats, !.letter = letter] \in Entry
      BY <3>1 DEF Entry
    <3>. QED  BY <2>2, <3>1, <3>2 DEF IInv, TablesOK
  <2>3. ASSUME NEW i \in Live(applications, MaxApplication),
               applications' = [applications EXCEPT ![i] = None]
        PROVE  applications' \in [Applications -> Entry \union {None}]
    BY <2>3 DEF IInv, TablesOK
  <2>. QED  BY <2>1, <2>2, <2>3 DEF TrackerRoutes
<1>. QED  BY <1>1 DEF IInv, TrackerRoutes, TablesOK, ShownOK, RowOK, SessionsOK

\* The purge empties tables and leaves the row.
LEMMA PurgeInv ==
  ASSUME IInv, Purge
  PROVE  IInv'
  BY DEF IInv, Purge, TablesOK, ShownOK, RowOK, SessionsOK

\* Together, one case per action.
LEMMA NextIInv ==
  ASSUME IInv, [Next]_vars
  PROVE  IInv'
<1>1. CASE Create  BY <1>1, CreateInv
<1>2. CASE Scrape  BY <1>2, ScrapeInv
<1>3. CASE ResumeRoutes  BY <1>3, ResumeRoutesInv
<1>4. CASE SaveArtifacts  BY <1>4, SaveArtifactsInv
<1>5. CASE TrackerRoutes  BY <1>5, TrackerRoutesInv
<1>6. CASE Purge  BY <1>6, PurgeInv
<1>7. ASSUME NEW j \in Jobs, DeleteJob(j) PROVE IInv'
  BY <1>7, DeleteJobInv
<1>8. ASSUME NEW q \in Requests, Handler(q) PROVE IInv'
  BY <1>8, LoadInv, DecideResumeInv, DecideReportInv, DecideLetterInv, DecideTrackerInv,
     DecideReadyInv, DecideRepairInv, RefuseInv, CommitTransitionInv, RowGoneInv DEF Handler
<1>9. CASE UNCHANGED vars
  BY <1>9 DEF vars, tables, IInv, TablesOK, ShownOK, RowOK, SessionsOK
<1>. QED  BY <1>1, <1>2, <1>3, <1>4, <1>5, <1>6, <1>7, <1>8, <1>9 DEF Next

\* The tables, the sessions and the opportunity keep their types under any number
\* of handlers, and a resume is always shown in a locale it has.
THEOREM WorkflowInductive == Spec => []IInv
  BY InitIInv, NextIInv, PTL DEF Spec

\* The row of the opportunity has its type, also in every handler that holds a copy.
THEOREM WorkflowTypeOK == Spec => []TypeOK
<1>1. IInv => TypeOK
  BY DEF IInv, TablesOK, SessionsOK, Session, RowOK, TypeOK, Row
<1>. QED  BY <1>1, WorkflowInductive, PTL

-----------------------------------------------------------------------------
(* One workflow handler at a time *)

OneHandler == \A p, q \in Requests : p = q

\* A lone handler holds the stored row, and prepares it ready only with all its links.
Alone(q) ==
  /\ ses[q].pc \in {"loaded", "prepared"} => opportunity # None /\ ses[q].row = opportunity
  /\ ses[q].pc = "prepared" =>
       (ses[q].new.state = "ready_to_apply" => AllLinked(ses[q].new))

AloneOK == "purge" \notin Routes =>
  /\ \A q \in Requests : Alone(q)
  /\ ReadyHasItsLinks
  /\ LastTransitionIsTheState

AloneIInv == IInv /\ AloneOK

\* What the only session becomes, every session becomes.
LEMMA OnlySession ==
  ASSUME OneHandler, SessionsOK, NEW q \in Requests, NEW s, ses' = [ses EXCEPT ![q] = s]
  PROVE  \A p \in Requests : ses'[p] = s
  BY DEF OneHandler, SessionsOK

\* With one handler the row that is loaded is the row that will be replaced.
LEMMA AloneLoad ==
  ASSUME OneHandler, AloneIInv, NEW q \in Requests, NEW action \in Repairs \union Links,
         Load(q, action)
  PROVE  AloneOK'
<1>1. \A p \in Requests :
        ses'[p] = [pc |-> "loaded", action |-> action, row |-> opportunity, new |-> None]
  BY OnlySession DEF AloneIInv, IInv, Load
<1>. QED  BY <1>1 DEF AloneIInv, AloneOK, Alone, ReadyHasItsLinks, LastTransitionIsTheState,
                      Load, Routes

\* A validated row is ready only with its links, so the session may hold it.
LEMMA AlonePrepares ==
  ASSUME OneHandler, AloneIInv, NEW q \in Requests, ses[q].pc = "loaded",
         NEW new \in Opportunity, Prepared(q, new),
         new.state = "ready_to_apply" => AllLinked(new),
         UNCHANGED <<opportunity, last, scenario>>
  PROVE  AloneOK'
<1>1. ses' = [ses EXCEPT ![q] = [ses[q] EXCEPT !.pc = "prepared", !.new = new]]
  BY DEF Prepared, AloneIInv, IInv, SessionsOK, Session
<1>2. \A p \in Requests : ses'[p] = [ses[q] EXCEPT !.pc = "prepared", !.new = new]
  BY <1>1, OnlySession DEF AloneIInv, IInv
<1>3. \A p \in Requests : ses'[p].pc = "prepared" /\ ses'[p].new = new /\ ses'[p].row = ses[q].row
  BY <1>2 DEF AloneIInv, IInv, SessionsOK, Session
<1>. QED  BY <1>3 DEF AloneIInv, AloneOK, Alone, ReadyHasItsLinks, LastTransitionIsTheState, Routes

\* Each decision prepares a transition from the state of the row to the state it writes.
LEMMA AloneDecides ==
  ASSUME OneHandler, AloneIInv, NEW q \in Requests,
         \/ DecideResume(q) \/ DecideReport(q) \/ DecideLetter(q)
         \/ DecideTracker(q) \/ DecideReady(q) \/ DecideRepair(q)
  PROVE  AloneOK'
<1>. DEFINE o == ses[q].row
<1>1. ses[q].pc = "loaded" /\ o \in Opportunity
  BY DEF DecideResume, DecideReport, DecideLetter, DecideTracker, DecideReady, DecideRepair,
         Deciding, AloneIInv, IInv, SessionsOK
<1>2. UNCHANGED <<opportunity, last, scenario>>
  BY DEF DecideResume, DecideReport, DecideLetter, DecideTracker, DecideReady, DecideRepair
<1>3. CASE DecideResume(q)
  <2>1. PICK r \in Resumes : \E l \in Locales :
          Prepared(q, [o EXCEPT !.resume = r, !.locale = l, !.state = "resume_linked"])
    BY <1>3 DEF DecideResume, Live, Resumes, AloneIInv, IInv, TablesOK, Row
  <2>2. PICK l \in Locales :
          Prepared(q, [o EXCEPT !.resume = r, !.locale = l, !.state = "resume_linked"])
    BY <2>1
  <2>. DEFINE new == [o EXCEPT !.resume = r, !.locale = l, !.state = "resume_linked"]
  <2>3. new \in Opportunity /\ new.state # "ready_to_apply"
    BY <1>1 DEF Opportunity, States
  <2>. HIDE DEF new
  <2>. QED  BY <1>1, <1>2, <2>2, <2>3, AlonePrepares DEF new
<1>4. CASE DecideReport(q)
  <2>1. PICK i \in Reports : Prepared(q, [o EXCEPT !.ats = i, !.state = "ats_report_linked"])
    BY <1>4 DEF DecideReport, Live, Reports
  <2>. DEFINE new == [o EXCEPT !.ats = i, !.state = "ats_report_linked"]
  <2>2. new \in Opportunity /\ new.state # "ready_to_apply"
    BY <1>1 DEF Opportunity, States
  <2>. HIDE DEF new
  <2>. QED  BY <1>1, <1>2, <2>1, <2>2, AlonePrepares DEF new
<1>5. CASE DecideLetter(q)
  <2>1. PICK i \in Letters : Prepared(q, [o EXCEPT !.letter = i, !.state = "cover_letter_linked"])
    BY <1>5 DEF DecideLetter, Live, Letters
  <2>. DEFINE new == [o EXCEPT !.letter = i, !.state = "cover_letter_linked"]
  <2>2. new \in Opportunity /\ new.state # "ready_to_apply"
    BY <1>1 DEF Opportunity, States
  <2>. HIDE DEF new
  <2>. QED  BY <1>1, <1>2, <2>1, <2>2, AlonePrepares DEF new
<1>6. CASE DecideTracker(q)
  <2>1. PICK i \in Applications : Prepared(q, [o EXCEPT !.app = i, !.state = "tracker_entry_created"])
    BY <1>6 DEF DecideTracker, Live, Applications
  <2>. DEFINE new == [o EXCEPT !.app = i, !.state = "tracker_entry_created"]
  <2>2. new \in Opportunity /\ new.state # "ready_to_apply"
    BY <1>1 DEF Opportunity, States
  <2>. HIDE DEF new
  <2>. QED  BY <1>1, <1>2, <2>1, <2>2, AlonePrepares DEF new
<1>7. CASE DecideReady(q)
  <2>. DEFINE new == [o EXCEPT !.state = "ready_to_apply"]
  <2>1. Prepared(q, new) /\ AllLinked(o)
    BY <1>7 DEF DecideReady
  <2>2. new \in Opportunity /\ AllLinked(new)
    BY <1>1, <2>1 DEF Opportunity, States, AllLinked
  <2>. HIDE DEF new
  <2>. QED  BY <1>1, <1>2, <2>1, <2>2, AlonePrepares
<1>8. CASE DecideRepair(q)
  <2>. DEFINE new == Repaired(ses[q].action, o)
  <2>1. Prepared(q, new) /\ RepairAccepted(ses[q].action, o) /\ ses[q].action \in Repairs
    BY <1>8 DEF DecideRepair
  <2>2. new \in Opportunity /\ (new.state = "ready_to_apply" => AllLinked(new))
    BY <1>1, <2>1, RepairedTyped DEF AloneIInv, IInv
  <2>. HIDE DEF new
  <2>. QED  BY <1>1, <1>2, <2>1, <2>2, AlonePrepares
<1>. QED  BY <1>3, <1>4, <1>5, <1>6, <1>7, <1>8

\* Nothing moved under the handler: it writes the row it prepared, and the
\* transition it records is the state of that row.
LEMMA AloneCommits ==
  ASSUME OneHandler, AloneIInv, NEW q \in Requests, CommitTransition(q)
  PROVE  AloneOK'
<1>. DEFINE new == ses[q].new
<1>1. \A p \in Requests : ses'[p] = Idle
  BY OnlySession DEF AloneIInv, IInv, CommitTransition
<1>2. SUFFICES ASSUME "purge" \notin Routes PROVE AloneOK'
  BY DEF AloneOK, Routes, CommitTransition
<1>3. new \in Opportunity /\ opportunity \in Opportunity /\ ses[q].row = opportunity
      /\ (new.state = "ready_to_apply" => AllLinked(new))
  BY <1>2 DEF AloneIInv, AloneOK, Alone, IInv, SessionsOK, RowOK, CommitTransition
<1>4. opportunity' = new /\ last' = new.state
  BY <1>3, FlushedWhole DEF CommitTransition
<1>. QED  BY <1>1, <1>3, <1>4 DEF AloneOK, Alone, ReadyHasItsLinks, LastTransitionIsTheState, Idle

\* A refused handler, or one whose opportunity is gone, leaves everything as it was.
LEMMA AloneEnds ==
  ASSUME OneHandler, AloneIInv, NEW q \in Requests, ses' = [ses EXCEPT ![q] = Idle],
         UNCHANGED <<opportunity, last, scenario>>
  PROVE  AloneOK'
<1>1. \A p \in Requests : ses'[p] = Idle
  BY OnlySession DEF AloneIInv, IInv
<1>. QED  BY <1>1 DEF AloneIInv, AloneOK, Alone, ReadyHasItsLinks, LastTransitionIsTheState, Idle,
                      Routes

\* An opportunity is created only where there was none, so no session holds one.
LEMMA AloneCreates ==
  ASSUME AloneIInv, Create
  PROVE  AloneOK'
<1>1. opportunity'.state = "opportunity_created" /\ last' = "opportunity_created"
  BY DEF Create
<1>2. UNCHANGED <<ses, scenario>> /\ opportunity = None
  BY DEF Create
<1>. QED  BY <1>1, <1>2 DEF AloneIInv, AloneOK, Alone, ReadyHasItsLinks,
                            LastTransitionIsTheState, Routes

\* The other routes touch neither the opportunity nor its transitions.
LEMMA AloneOthers ==
  ASSUME AloneIInv, UNCHANGED <<opportunity, last, ses, scenario>>
  PROVE  AloneOK'
  BY DEF AloneIInv, AloneOK, Alone, ReadyHasItsLinks, LastTransitionIsTheState, Routes

\* No transition has been written yet.
LEMMA InitAlone == ASSUME Init PROVE AloneOK
  BY DEF Init, AloneOK, Alone, ReadyHasItsLinks, LastTransitionIsTheState, Idle

\* Together: the other actions leave the row and its transitions alone.
LEMMA NextAlone ==
  ASSUME OneHandler, AloneIInv, [Next]_vars
  PROVE  AloneOK'
<1>1. CASE Create  BY <1>1, AloneCreates
<1>2. CASE Scrape  BY <1>2, AloneOthers DEF Scrape
<1>3. CASE ResumeRoutes  BY <1>3, AloneOthers DEF ResumeRoutes, Resume
<1>4. CASE SaveArtifacts  BY <1>4, AloneOthers DEF SaveArtifacts
<1>5. CASE TrackerRoutes  BY <1>5, AloneOthers DEF TrackerRoutes
<1>6. CASE Purge  BY <1>6 DEF Purge, AloneOK, Routes
<1>7. ASSUME NEW j \in Jobs, DeleteJob(j) PROVE AloneOK'
  BY <1>7, AloneOthers DEF DeleteJob
<1>8. ASSUME NEW q \in Requests, Handler(q) PROVE AloneOK'
  <2>1. ASSUME NEW action \in Repairs \union Links, Load(q, action) PROVE AloneOK'
    BY <2>1, AloneLoad
  <2>2. CASE \/ DecideResume(q) \/ DecideReport(q) \/ DecideLetter(q)
             \/ DecideTracker(q) \/ DecideReady(q) \/ DecideRepair(q)
    BY <2>2, AloneDecides
  <2>3. CASE CommitTransition(q)  BY <2>3, AloneCommits
  <2>4. CASE Refuse(q) \/ RowGone(q)  BY <2>4, AloneEnds DEF Refuse, RowGone
  <2>. QED  BY <1>8, <2>1, <2>2, <2>3, <2>4 DEF Handler
<1>9. CASE UNCHANGED vars  BY <1>9, AloneOthers DEF vars
<1>. QED  BY <1>1, <1>2, <1>3, <1>4, <1>5, <1>6, <1>7, <1>8, <1>9 DEF Next

\* What the two properties of a lone handler follow from.
LEMMA AloneInductive == ASSUME OneHandler PROVE Spec => []AloneIInv
<1>1. Init => AloneIInv
  BY InitIInv, InitAlone DEF AloneIInv
<1>2. AloneIInv /\ [Next]_vars => AloneIInv'
  BY NextIInv, NextAlone DEF AloneIInv
<1>. QED  BY <1>1, <1>2, PTL DEF Spec

\* With one workflow handler at a time, a ready opportunity has all its links,
\* whatever the other routes delete or edit between its steps.
THEOREM LoneHandlerReadyHasItsLinks ==
  ASSUME OneHandler
  PROVE  Spec => []ReadyHasItsLinks
<1>1. AloneIInv => ReadyHasItsLinks
  BY DEF AloneIInv, AloneOK, ReadyHasItsLinks
<1>. QED  BY <1>1, AloneInductive, PTL

\* With one workflow handler at a time, the stored state is that of the newest
\* transition that append_opportunity_transition recorded.
THEOREM LoneHandlerLastTransition ==
  ASSUME OneHandler
  PROVE  Spec => []LastTransitionIsTheState
<1>1. AloneIInv => LastTransitionIsTheState
  BY DEF AloneIInv, AloneOK, LastTransitionIsTheState
<1>. QED  BY <1>1, AloneInductive, PTL

-----------------------------------------------------------------------------
(* What is advertised can be done, and leaves less to do *)

\* ArtifactIssues never reports a missing link: that is told before it is asked.
LEMMA ArtifactIssuesAreNotMissing ==
  ASSUME NEW o, NEW artifact, NEW named
  PROVE  "missing_ats_report_link" \notin ArtifactIssues(o, artifact, named)
         /\ "missing_cover_letter_link" \notin ArtifactIssues(o, artifact, named)
  BY DEF ArtifactIssues

Doable(o) == Advertised(o) \ {"detach_missing_job"}

\* What each advertised repair tells about the opportunity.
LEMMA AdvertisedMeans ==
  ASSUME NEW o, NEW a \in Doable(o)
  PROVE  \/ a = "detach_missing_resume" /\ o.resume # None /\ resumes[o.resume] = None
         \/ /\ a = "reset_resume_locale" /\ o.resume # None /\ resumes[o.resume] # None
            /\ "invalid_resume_locale" \in ResumeIssues(o)
            /\ o.locale \notin resumes[o.resume].locales
         \/ a = "detach_missing_ats_report" /\ o.ats # None /\ reports[o.ats] = None
         \/ a = "relink_ats_report" /\ o.ats # None /\ ReportIssues(o) # {}
         \/ a = "detach_missing_cover_letter" /\ o.letter # None /\ letters[o.letter] = None
         \/ a = "relink_cover_letter" /\ o.letter # None /\ LetterIssues(o) # {}
         \/ a = "detach_missing_application" /\ o.app # None /\ applications[o.app] = None
         \/ a = "relink_application" /\ o.app # None /\ ApplicationIssues(o) # {}
         \/ /\ a = "sync_application_links" /\ o.app # None /\ applications[o.app] # None
            /\ \/ Differ(o.ats, applications[o.app].ats)
               \/ Differ(o.letter, applications[o.app].letter)
<1>1. a \in Advertised(o) /\ a # "detach_missing_job"
  BY DEF Doable
<1>2. CASE a \in {"detach_missing_resume", "reset_resume_locale"}
  BY <1>1, <1>2 DEF Advertised, ResumeIssues
<1>3. CASE a \in {"detach_missing_ats_report", "relink_ats_report"}
  BY <1>1, <1>3, ArtifactIssuesAreNotMissing DEF Advertised, ReportIssues
<1>4. CASE a \in {"detach_missing_cover_letter", "relink_cover_letter"}
  BY <1>1, <1>4, ArtifactIssuesAreNotMissing DEF Advertised, LetterIssues
<1>5. CASE a \in {"detach_missing_application", "relink_application", "sync_application_links"}
  BY <1>1, <1>5 DEF Advertised, ApplicationIssues
<1>6. a \in {"detach_missing_resume", "reset_resume_locale", "detach_missing_ats_report",
             "relink_ats_report", "detach_missing_cover_letter", "relink_cover_letter",
             "detach_missing_application", "relink_application", "sync_application_links"}
  BY <1>1 DEF Advertised
<1>. QED  BY <1>2, <1>3, <1>4, <1>5, <1>6

\* Whatever the tables hold by then, the gateway accepts what its own report advises.
THEOREM AdvertisedIsAccepted == Spec => []AdvertisedRepairsAreAccepted
<1>1. ASSUME NEW a \in Doable(opportunity) PROVE RepairAccepted(a, opportunity)
  <2>. DEFINE o == opportunity
  <2>1. CASE a \in {"detach_missing_resume", "reset_resume_locale", "detach_missing_ats_report",
                    "detach_missing_cover_letter"}
    BY <2>1, AdvertisedMeans DEF RepairAccepted, HasResume
  <2>2. CASE a \in {"relink_ats_report", "relink_cover_letter", "relink_application",
                    "detach_missing_application", "sync_application_links"}
    BY <2>2, AdvertisedMeans DEF RepairAccepted, Relinkable
  <2>. QED  BY <2>1, <2>2, AdvertisedMeans
<1>2. AdvertisedRepairsAreAccepted
  BY <1>1 DEF AdvertisedRepairsAreAccepted, Doable
<1>. QED  BY <1>2, PTL

-----------------------------------------------------------------------------
(* The three parts of what is left to repair *)

LinkFields == {"resume", "ats", "letter", "app"}
LinkDebt(o) == Cardinality({f \in LinkFields : o[f] # None})
LocaleDebt(o) == IF "invalid_resume_locale" \in ResumeIssues(o) THEN 3 ELSE 0
TrackerDebt(o, apps) ==
  LET app == IF o.app = None THEN None ELSE apps[o.app] IN
  IF app = None THEN 0
  ELSE (IF Differ(o.ats, app.ats) THEN 1 ELSE 0) + (IF Differ(o.letter, app.letter) THEN 1 ELSE 0)

\* There are four links that a repair detaches, so those in place can be counted.
LEMMA LinksAreFinite == IsFiniteSet(LinkFields)
<1>. DEFINE none == {}
            one == none \union {"resume"}
            two == one \union {"ats"}
            three == two \union {"letter"}
            four == three \union {"app"}
<1>1. IsFiniteSet(none)
  BY FS_EmptySet
<1>. HIDE DEF none
<1>2. IsFiniteSet(one)
  BY <1>1, FS_AddElement
<1>. HIDE DEF one
<1>3. IsFiniteSet(two)
  BY <1>2, FS_AddElement
<1>. HIDE DEF two
<1>4. IsFiniteSet(three)
  BY <1>3, FS_AddElement
<1>. HIDE DEF three
<1>5. IsFiniteSet(four)
  BY <1>4, FS_AddElement
<1>6. four = LinkFields
  BY DEF four, three, two, one, none, LinkFields
<1>. QED  BY <1>5, <1>6

\* A link weighs more than everything that repairing it can uncover.
LEMMA DebtSplits ==
  ASSUME NEW o, NEW apps
  PROVE  /\ Debt(o, apps) = 6 * LinkDebt(o) + LocaleDebt(o) + TrackerDebt(o, apps)
         /\ LinkDebt(o) \in Nat /\ LocaleDebt(o) \in {0, 3} /\ TrackerDebt(o, apps) \in {0, 1, 2}
<1>1. Debt(o, apps) = 6 * LinkDebt(o) + LocaleDebt(o) + TrackerDebt(o, apps)
  BY DEF Debt, LinkDebt, LocaleDebt, TrackerDebt, LinkFields
<1>3. LinkDebt(o) \in Nat
  BY LinksAreFinite, FS_Subset, FS_CardinalityType DEF LinkDebt
<1>4. LocaleDebt(o) \in {0, 3}
  BY DEF LocaleDebt
<1>5. TrackerDebt(o, apps) \in {0, 1, 2}
  BY DEF TrackerDebt
<1>. QED  BY <1>1, <1>3, <1>4, <1>5

\* A repair that clears one link and keeps the others leaves one link less.
LEMMA OneLinkLess ==
  ASSUME NEW o, NEW r, NEW f \in LinkFields, o[f] # None, r[f] = None,
         \A g \in LinkFields \ {f} : r[g] = o[g]
  PROVE  LinkDebt(r) = LinkDebt(o) - 1
<1>. DEFINE S == {g \in LinkFields : o[g] # None}
<1>2. IsFiniteSet(S) /\ f \in S
  BY LinksAreFinite, FS_Subset
<1>3. {g \in LinkFields : r[g] # None} = S \ {f}
  OBVIOUS
<1>4. Cardinality(S \ {f}) = Cardinality(S) - 1
  BY <1>2, FS_RemoveElement
<1>. QED  BY <1>3, <1>4 DEF LinkDebt

\* The debt depends on the links only.
LEMMA SameLinks ==
  ASSUME NEW o, NEW r, \A g \in LinkFields : r[g] = o[g]
  PROVE  LinkDebt(r) = LinkDebt(o)
<1>1. {g \in LinkFields : r[g] # None} = {g \in LinkFields : o[g] # None}
  OBVIOUS
<1>. QED  BY <1>1 DEF LinkDebt

\* Clearing a link outweighs an invalid locale and two disagreeing tracker fields.
LEMMA ClearingPays ==
  ASSUME NEW o, NEW r, NEW apps, NEW f \in LinkFields, o[f] # None, r[f] = None,
         \A g \in LinkFields \ {f} : r[g] = o[g]
  PROVE  Debt(r, apps) < Debt(o, apps)
<1>. DEFINE n == LinkDebt(o)  m == LinkDebt(r)
            i == LocaleDebt(o)  j == LocaleDebt(r)
            k == TrackerDebt(o, apps)  l == TrackerDebt(r, apps)
<1>1. m = n - 1
  BY OneLinkLess
<1>2. /\ Debt(o, apps) = 6 * n + i + k /\ Debt(r, apps) = 6 * m + j + l
      /\ n \in Nat /\ m \in Nat /\ i \in {0, 3} /\ j \in {0, 3} /\ k \in {0, 1, 2} /\ l \in {0, 1, 2}
  BY DebtSplits
<1>. HIDE DEF n, m, i, j, k, l
<1>. QED  BY <1>1, <1>2

\* Recomputing the state touches no link.
LEMMA RepairedFields ==
  ASSUME NEW a, NEW o, Detached(a, o) \in Opportunity
  PROVE  /\ \A g \in LinkFields : Repaired(a, o)[g] = Detached(a, o)[g]
         /\ Repaired(a, o).locale = Detached(a, o).locale
<1>. DEFINE d == Detached(a, o)
            s == Recomputed(d)
<1>1. Repaired(a, o) = [d EXCEPT !.state = s]
  BY DEF Repaired
<1>. HIDE DEF d, s
<1>. QED  BY <1>1 DEF Opportunity, LinkFields, d

\* What is proved of every reachable state: each advertised repair leaves less to do.
LEMMA ProgressOfEach ==
  ASSUME IInv, NEW o \in Opportunity, NEW a \in Doable(o),
         NEW apps, apps = IF a = "sync_application_links"
                          THEN [applications EXCEPT ![o.app] = Synced(o, @)]
                          ELSE applications
  PROVE  Debt(Repaired(a, o), apps) < Debt(o, applications)
<1>. DEFINE r == Repaired(a, o)
            d == Detached(a, o)
<1>1. CASE a \in {"detach_missing_application", "relink_application"}
  <2>1. d = [o EXCEPT !["app"] = None] /\ o["app"] # None /\ apps = applications
    BY <1>1, AdvertisedMeans DEF Detached, Cleared
  <2>2. d \in Opportunity
    BY <2>1 DEF Opportunity
  <2>3. r["app"] = None /\ \A g \in LinkFields \ {"app"} : r[g] = o[g]
    <3>1. \A g \in LinkFields : r[g] = d[g]
      BY <2>2, RepairedFields
    <3>. HIDE DEF r, d
    <3>. QED  BY <2>1, <3>1 DEF LinkFields, Opportunity
  <2>. HIDE DEF r, d
  <2>4. "app" \in LinkFields
    BY DEF LinkFields
  <2>5. Debt(r, applications) < Debt(o, applications)
    BY <2>1, <2>3, <2>4, ClearingPays
  <2>. QED  BY <2>1, <2>5 DEF r
<1>2. CASE a = "detach_missing_resume"
  <2>1. d = [o EXCEPT !.resume = None, !.locale = None] /\ o["resume"] # None /\ apps = applications
    BY <1>2, AdvertisedMeans DEF Detached
  <2>2. d \in Opportunity
    BY <2>1 DEF Opportunity
  <2>3. r["resume"] = None /\ \A g \in LinkFields \ {"resume"} : r[g] = o[g]
    <3>1. \A g \in LinkFields : r[g] = d[g]
      BY <2>2, RepairedFields
    <3>. HIDE DEF r, d
    <3>. QED  BY <2>1, <3>1 DEF LinkFields, Opportunity
  <2>. HIDE DEF r, d
  <2>4. "resume" \in LinkFields
    BY DEF LinkFields
  <2>5. Debt(r, applications) < Debt(o, applications)
    BY <2>1, <2>3, <2>4, ClearingPays
  <2>. QED  BY <2>1, <2>5 DEF r
<1>3. CASE a \in {"detach_missing_ats_report", "relink_ats_report"}
  <2>1. d = [o EXCEPT !["ats"] = None] /\ o["ats"] # None /\ apps = applications
    BY <1>3, AdvertisedMeans DEF Detached, Cleared
  <2>2. d \in Opportunity
    BY <2>1 DEF Opportunity
  <2>3. r["ats"] = None /\ \A g \in LinkFields \ {"ats"} : r[g] = o[g]
    <3>1. \A g \in LinkFields : r[g] = d[g]
      BY <2>2, RepairedFields
    <3>. HIDE DEF r, d
    <3>. QED  BY <2>1, <3>1 DEF LinkFields, Opportunity
  <2>. HIDE DEF r, d
  <2>4. "ats" \in LinkFields
    BY DEF LinkFields
  <2>5. Debt(r, applications) < Debt(o, applications)
    BY <2>1, <2>3, <2>4, ClearingPays
  <2>. QED  BY <2>1, <2>5 DEF r
<1>4. CASE a \in {"detach_missing_cover_letter", "relink_cover_letter"}
  <2>1. d = [o EXCEPT !["letter"] = None] /\ o["letter"] # None /\ apps = applications
    BY <1>4, AdvertisedMeans DEF Detached, Cleared
  <2>2. d \in Opportunity
    BY <2>1 DEF Opportunity
  <2>3. r["letter"] = None /\ \A g \in LinkFields \ {"letter"} : r[g] = o[g]
    <3>1. \A g \in LinkFields : r[g] = d[g]
      BY <2>2, RepairedFields
    <3>. HIDE DEF r, d
    <3>. QED  BY <2>1, <3>1 DEF LinkFields, Opportunity
  <2>. HIDE DEF r, d
  <2>4. "letter" \in LinkFields
    BY DEF LinkFields
  <2>5. Debt(r, applications) < Debt(o, applications)
    BY <2>1, <2>3, <2>4, ClearingPays
  <2>. QED  BY <2>1, <2>5 DEF r
<1>5. CASE a = "reset_resume_locale"
  <2>1. /\ o.resume # None /\ resumes[o.resume] # None /\ apps = applications
        /\ "invalid_resume_locale" \in ResumeIssues(o)
    BY <1>5, AdvertisedMeans
  <2>2. o.resume \in Resumes /\ resumes[o.resume] \in Row
        /\ resumes[o.resume].active \in resumes[o.resume].locales
    BY <2>1 DEF IInv, TablesOK, ShownOK, Opportunity
  <2>3. d = [o EXCEPT !.locale = resumes[o.resume].active]
    BY <1>5 DEF Detached
  <2>4. d \in Opportunity
    BY <2>2, <2>3 DEF Opportunity, Row
  <2>5. /\ \A g \in LinkFields : r[g] = o[g]
        /\ r.locale = resumes[o.resume].active
    BY <2>3, <2>4, RepairedFields DEF LinkFields, Opportunity
  <2>6. r.resume = o.resume /\ r.ats = o.ats /\ r.letter = o.letter /\ r.app = o.app
    BY <2>5 DEF LinkFields
  <2>. HIDE DEF r, d
  <2>7. LocaleDebt(o) = 3 /\ LocaleDebt(r) = 0
    BY <2>1, <2>2, <2>5, <2>6 DEF LocaleDebt, ResumeIssues
  <2>8. LinkDebt(r) = LinkDebt(o)
    BY <2>5, SameLinks
  <2>9. TrackerDebt(r, applications) = TrackerDebt(o, applications)
    BY <2>6 DEF TrackerDebt
  <2>10. Debt(r, applications) < Debt(o, applications)
    <3>. DEFINE n == LinkDebt(o)  k == TrackerDebt(o, applications)
    <3>1. /\ Debt(o, applications) = 6 * n + 3 + k /\ Debt(r, applications) = 6 * n + 0 + k
          /\ n \in Nat /\ k \in {0, 1, 2}
      BY <2>7, <2>8, <2>9, DebtSplits
    <3>. HIDE DEF n, k
    <3>. QED  BY <3>1
  <2>. QED  BY <2>1, <2>10 DEF r
<1>6. CASE a = "sync_application_links"
  <2>. DEFINE e == applications[o.app]
  <2>1. /\ o.app # None /\ e # None /\ (Differ(o.ats, e.ats) \/ Differ(o.letter, e.letter))
        /\ d = o
    BY <1>6, AdvertisedMeans DEF Detached
  <2>2. /\ \A g \in LinkFields : r[g] = o[g]
        /\ r.locale = o.locale
    BY <2>1, RepairedFields
  <2>3. r.resume = o.resume /\ r.ats = o.ats /\ r.letter = o.letter /\ r.app = o.app
    BY <2>2 DEF LinkFields
  <2>4. o.app \in Applications
    BY <2>1 DEF Opportunity
  <2>5. apps[o.app] = Synced(o, e)
    BY <1>6, <2>4 DEF IInv, TablesOK
  <2>. HIDE DEF r, d
  <2>6. TrackerDebt(r, apps) = 0
    BY <2>3, <2>5 DEF TrackerDebt, Synced, Differ
  <2>7. TrackerDebt(o, applications) \in {1, 2}
    BY <2>1 DEF TrackerDebt
  <2>8. LinkDebt(r) = LinkDebt(o)
    BY <2>2, SameLinks
  <2>9. LocaleDebt(r) = LocaleDebt(o)
    BY <2>2, <2>3 DEF LocaleDebt, ResumeIssues
  <2>10. Debt(r, apps) < Debt(o, applications)
    <3>. DEFINE n == LinkDebt(o)  i == LocaleDebt(o)  k == TrackerDebt(o, applications)
    <3>1. /\ Debt(o, applications) = 6 * n + i + k /\ Debt(r, apps) = 6 * n + i + 0
          /\ n \in Nat /\ i \in {0, 3} /\ k \in {1, 2}
      BY <2>6, <2>7, <2>8, <2>9, DebtSplits
    <3>. HIDE DEF n, i, k
    <3>. QED  BY <3>1
  <2>. QED  BY <2>10 DEF r
<1>. QED  BY <1>1, <1>2, <1>3, <1>4, <1>5, <1>6, AdvertisedMeans

\* Following the integrity report terminates, under any number of handlers: every
\* repair it advertises lowers a natural number.
THEOREM RepairingTerminates == Spec => []RepairsMakeProgress
<1>1. IInv => RepairsMakeProgress
  BY ProgressOfEach DEF IInv, RowOK, RepairsMakeProgress, Doable
<1>. QED  BY <1>1, WorkflowInductive, PTL

=============================================================================
