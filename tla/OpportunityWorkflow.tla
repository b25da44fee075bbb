------------------------ MODULE OpportunityWorkflow ------------------------
(***************************************************************************)
(* The application workflow of the API gateway: one opportunity with links *)
(* to a job, a resume variant, an ATS report, a cover letter and a tracker *)
(* entry; the integrity report computed over those links; and the bounded  *)
(* repairs.                                                                *)
(*                                                                         *)
(* The workflow routes are synchronous, so they run in a thread pool and   *)
(* keep the opportunity they loaded while other routes change or delete    *)
(* what it links to.  A handler loads the opportunity, decides (reads the  *)
(* linked rows and validates) and commits; an UPDATE writes only what      *)
(* differs from the loaded row.  The database enforces no foreign key and  *)
(* reuses the identifiers of deleted rows.                                 *)
(***************************************************************************)
EXTENDS Integers, FiniteSetsExt

CONSTANTS
  Requests,    \* workflow handlers that may be in flight together
  Locales,     \* locales of resume variants
  Default,     \* the default locale of every resume: never removed
  Scenarios,   \* per scenario: the routes that are called and the bounds on the
               \* identifiers each of them may hand out
  MaxJob, MaxResume, MaxReport, MaxLetter, MaxApplication,  \* largest identifiers
  MaxRevision, \* bound on resume revisions
  None

Repairs == {"detach_missing_application", "detach_missing_resume", "detach_missing_ats_report",
            "detach_missing_cover_letter", "reset_resume_locale", "sync_application_links",
            "relink_ats_report", "relink_cover_letter", "relink_application"}
Links == {"link_resume", "link_ats_report", "link_cover_letter", "create_tracker_entry",
          "attach_tracker_entry", "mark_ready_to_apply"}
Events == {"scrape", "delete_job", "create_resume", "edit_resume", "variants", "delete_resume",
           "save_report", "save_letter", "create_application", "patch_application",
           "delete_application", "purge"}

ASSUME WorkflowAssumption ==
  /\ Default \in Locales /\ None \notin Locales
  /\ \A s \in Scenarios :
       /\ s.routes \subseteq Repairs \union Links \union Events
       /\ s.jobs <= MaxJob /\ s.reports <= MaxReport /\ s.letters <= MaxLetter
  /\ {MaxJob, MaxResume, MaxReport, MaxLetter, MaxApplication, MaxRevision} \subseteq Nat

VARIABLES
  jobs, resumes, reports, letters, applications,  \* the tables: id -> row or None
  head,         \* newest revision number of each resume identifier
  opportunity,  \* the opportunity row
  last,         \* the state in the newest transition row
  ses,          \* per handler: step, action, loaded row, row to write
  scenario      \* what this behaviour exercises: never changes

tables == <<jobs, resumes, reports, letters, applications, head>>
vars == <<jobs, resumes, reports, letters, applications, head, opportunity, last, ses, scenario>>

Jobs == 1..MaxJob
Resumes == 1..MaxResume
Reports == 1..MaxReport
Letters == 1..MaxLetter
Applications == 1..MaxApplication

States == {"opportunity_created", "scrape_completed", "resume_linked", "ats_report_linked",
           "cover_letter_linked", "tracker_entry_created", "ready_to_apply"}
Opportunity == [state: States, job: Jobs \union {None}, resume: Resumes \union {None},
                locale: Locales \union {None}, ats: Reports \union {None},
                letter: Letters \union {None}, app: Applications \union {None}]

Idle == [pc |-> "idle", action |-> None, row |-> None, new |-> None]

Routes == scenario.routes

NextId(table, bound) == 1 + Max({0} \union {i \in 1..bound : table[i] # None})
Live(table, bound) == {i \in 1..bound : table[i] # None}

-----------------------------------------------------------------------------
(* Integrity: the issues of a loaded opportunity over the current tables *)

JobIssues(o) == IF o.job # None /\ jobs[o.job] = None THEN {"missing_job_link"} ELSE {}

ResumeIssues(o) ==
  IF o.resume = None THEN {}
  ELSE IF resumes[o.resume] = None THEN {"missing_resume_link"}
  ELSE IF o.locale # None /\ o.locale \notin resumes[o.resume].locales
       THEN {"invalid_resume_locale"} ELSE {}

Differ(a, b) == a # None /\ b # None /\ a # b

HasResume(o) == IF o.resume = None THEN FALSE ELSE resumes[o.resume] # None

\* Mutant: an older revision is tolerated.
ArtifactIssuesUnaged(o, artifact, named) ==
  IF artifact.job # None /\ o.job # None /\ artifact.job # o.job THEN {"mismatched_job"}
  ELSE IF HasResume(o) /\ artifact.resume # None /\ artifact.resume # o.resume
  THEN {"mismatched_resume"} ELSE {}

\* What disqualifies a report or a letter that still exists, in the code's order.
ArtifactIssues(o, artifact, named) ==
  IF Differ(o.job, artifact.job) THEN {"mismatched_job"}
  ELSE IF ~ HasResume(o) THEN {}
  ELSE IF artifact.resume # None /\ artifact.resume # o.resume THEN {"mismatched_resume"}
  ELSE IF named /\ Differ(artifact.locale, o.locale) THEN {"mismatched_locale"}
  ELSE IF artifact.rev < head[o.resume] THEN {"stale_revision"} ELSE {}

ReportIssues(o) ==
  IF o.ats = None THEN {}
  ELSE IF reports[o.ats] = None THEN {"missing_ats_report_link"}
  ELSE ArtifactIssues(o, reports[o.ats], TRUE)

LetterIssues(o) ==
  IF o.letter = None THEN {}
  ELSE IF letters[o.letter] = None THEN {"missing_cover_letter_link"}
  ELSE ArtifactIssues(o, letters[o.letter], FALSE)

ApplicationIssues(o) ==
  IF o.app = None THEN {}
  ELSE LET a == applications[o.app] IN
       IF a = None THEN {"missing_application_link"}
       ELSE (IF Differ(o.job, a.job) THEN {"mismatched_application_job"} ELSE {})
              \union (IF Differ(o.ats, a.ats) THEN {"application_ats_mismatch"} ELSE {})
              \union (IF Differ(o.letter, a.letter) THEN {"application_cover_letter_mismatch"} ELSE {})

Healthy(o) ==
  JobIssues(o) \union ResumeIssues(o) \union ReportIssues(o) \union LetterIssues(o)
    \union ApplicationIssues(o) = {}

\* repair_actions: what the report advertises for those issues.
Advertised(o) ==
  {a \in {"detach_missing_job"} : JobIssues(o) # {}}
    \union {a \in {"detach_missing_resume"} : "missing_resume_link" \in ResumeIssues(o)}
    \union {a \in {"reset_resume_locale"} : "invalid_resume_locale" \in ResumeIssues(o)}
    \union {a \in {"detach_missing_ats_report"} : "missing_ats_report_link" \in ReportIssues(o)}
    \union {a \in {"relink_ats_report"} : ReportIssues(o) \ {"missing_ats_report_link"} # {}}
    \union {a \in {"detach_missing_cover_letter"} : "missing_cover_letter_link" \in LetterIssues(o)}
    \union {a \in {"relink_cover_letter"} : LetterIssues(o) \ {"missing_cover_letter_link"} # {}}
    \union {a \in {"detach_missing_application"} : "missing_application_link" \in ApplicationIssues(o)}
    \union {a \in {"relink_application"} : "mismatched_application_job" \in ApplicationIssues(o)}
    \union {a \in {"sync_application_links"} :
              {"application_ats_mismatch", "application_cover_letter_mismatch"}
                \intersect ApplicationIssues(o) # {}}

-----------------------------------------------------------------------------
(* Workflow state and repairs *)

AllLinked(o) == None \notin {o.resume, o.ats, o.letter, o.app}

\* Mutant: any tracker entry makes the opportunity ready.
RecomputedEarly(o) == IF o.app # None THEN "ready_to_apply" ELSE "opportunity_created"

\* _recompute_opportunity_state
Recomputed(o) ==
  IF AllLinked(o) THEN "ready_to_apply"
  ELSE IF o.app # None THEN "tracker_entry_created"
  ELSE IF o.letter # None THEN "cover_letter_linked"
  ELSE IF o.ats # None THEN "ats_report_linked"
  ELSE IF o.resume # None THEN "resume_linked"
  ELSE IF o.job # None THEN "scrape_completed"
  ELSE "opportunity_created"

\* Mutant: only a link to a deleted row can be relinked.
RelinkableIfMissing(issues) ==
  issues \intersect {"missing_ats_report_link", "missing_cover_letter_link",
                     "missing_application_link"} # {}

\* The relink repairs are accepted for a reference with any issue.
Relinkable(issues) == issues # {}

\* apply_opportunity_repair: when each action is accepted.
RepairAccepted(a, o) ==
  CASE a = "detach_missing_application" -> o.app # None /\ applications[o.app] = None
    [] a = "detach_missing_resume" -> o.resume # None /\ ~ HasResume(o)
    [] a = "detach_missing_ats_report" -> o.ats # None /\ reports[o.ats] = None
    [] a = "detach_missing_cover_letter" -> o.letter # None /\ letters[o.letter] = None
    [] a = "reset_resume_locale" -> HasResume(o) /\ o.locale \notin resumes[o.resume].locales
    [] a = "sync_application_links" -> o.app # None /\ applications[o.app] # None
    [] a = "relink_ats_report" -> Relinkable(ReportIssues(o))
    [] a = "relink_cover_letter" -> Relinkable(LetterIssues(o))
    [] a = "relink_application" -> Relinkable(ApplicationIssues(o))
    [] OTHER -> FALSE

\* Mutant: the reference is not removed.
ClearedLater(o, link) == o

Cleared(o, link) == [o EXCEPT ![link] = None]

Detached(a, o) ==
  CASE a \in {"detach_missing_application", "relink_application"} -> Cleared(o, "app")
    [] a = "detach_missing_resume" -> [o EXCEPT !.resume = None, !.locale = None]
    [] a \in {"detach_missing_ats_report", "relink_ats_report"} -> Cleared(o, "ats")
    [] a \in {"detach_missing_cover_letter", "relink_cover_letter"} -> Cleared(o, "letter")
    [] a = "reset_resume_locale" -> [o EXCEPT !.locale = resumes[o.resume].active]
    [] OTHER -> o

Repaired(a, o) == [Detached(a, o) EXCEPT !.state = Recomputed(Detached(a, o))]

OrElse(value, fallback) == IF value = None THEN fallback ELSE value

\* Mutant: the tracker entry keeps a letter the opportunity no longer has.
SyncedKeepingLetter(o, a) ==
  [job |-> OrElse(o.job, a.job), ats |-> o.ats, letter |-> OrElse(a.letter, o.letter)]

\* sync_application_links also rewrites the tracker entry.
Synced(o, a) == [job |-> OrElse(o.job, a.job), ats |-> o.ats, letter |-> o.letter]

-----------------------------------------------------------------------------
(* Handlers *)

Load(q, action) ==
  /\ ses[q].pc = "idle"
  /\ action \in Routes
  /\ opportunity # None
  /\ ses' = [ses EXCEPT ![q] = [pc |-> "loaded", action |-> action, row |-> opportunity, new |-> None]]
  /\ UNCHANGED <<tables, opportunity, last, scenario>>

\* The handler validated: this is the row it will flush.
Prepared(q, new) == ses' = [ses EXCEPT ![q].pc = "prepared", ![q].new = new]

Deciding(q, action) == ses[q].pc = "loaded" /\ ses[q].action = action

DecideResume(q) ==
  /\ Deciding(q, "link_resume")
  /\ \E r \in Live(resumes, MaxResume) : \E l \in resumes[r].locales :
       Prepared(q, [ses[q].row EXCEPT !.resume = r, !.locale = l, !.state = "resume_linked"])
  /\ UNCHANGED <<tables, opportunity, last, scenario>>

Aligned(o, job) == ~ Differ(o.job, job)

DecideReport(q) ==
  /\ Deciding(q, "link_ats_report")
  /\ \E i \in Live(reports, MaxReport) :
       /\ Aligned(ses[q].row, reports[i].job)
       /\ Prepared(q, [ses[q].row EXCEPT !.ats = i, !.state = "ats_report_linked"])
  /\ UNCHANGED <<tables, opportunity, last, scenario>>

\* Mutant: a state the enumeration does not have.
DecideLetterMisnamed(q) ==
  /\ Deciding(q, "link_cover_letter")
  /\ \E i \in Live(letters, MaxLetter) :
       /\ Aligned(ses[q].row, letters[i].job)
       /\ Prepared(q, [ses[q].row EXCEPT !.letter = i, !.state = "letter_linked"])
  /\ UNCHANGED <<tables, opportunity, last, scenario>>

DecideLetter(q) ==
  /\ Deciding(q, "link_cover_letter")
  /\ \E i \in Live(letters, MaxLetter) :
       /\ Aligned(ses[q].row, letters[i].job)
       /\ Prepared(q, [ses[q].row EXCEPT !.letter = i, !.state = "cover_letter_linked"])
  /\ UNCHANGED <<tables, opportunity, last, scenario>>

\* create_or_attach_opportunity_application commits the tracker entry first.
DecideTracker(q) ==
  LET o == ses[q].row IN
  /\ \/ /\ Deciding(q, "create_tracker_entry")
        /\ NextId(applications, MaxApplication) \in Applications
        /\ applications' = [applications EXCEPT ![NextId(applications, MaxApplication)] =
                              [job |-> o.job, ats |-> o.ats, letter |-> o.letter]]
        /\ Prepared(q, [o EXCEPT !.app = NextId(applications, MaxApplication),
                                 !.state = "tracker_entry_created"])
     \/ /\ Deciding(q, "attach_tracker_entry")
        /\ \E i \in Live(applications, MaxApplication) :
             /\ applications' = [applications EXCEPT ![i] =
                  [job |-> OrElse(@.job, o.job), ats |-> OrElse(o.ats, @.ats),
                   letter |-> OrElse(o.letter, @.letter)]]
             /\ Prepared(q, [o EXCEPT !.app = i, !.state = "tracker_entry_created"])
  /\ UNCHANGED <<jobs, resumes, reports, letters, head, opportunity, last, scenario>>

\* Mutant: readiness is not checked against the links.
DecideReadyUnchecked(q) ==
  /\ Deciding(q, "mark_ready_to_apply")
  /\ Healthy(ses[q].row)
  /\ Prepared(q, [ses[q].row EXCEPT !.state = "ready_to_apply"])
  /\ UNCHANGED <<tables, opportunity, last, scenario>>

DecideReady(q) ==
  /\ Deciding(q, "mark_ready_to_apply")
  /\ AllLinked(ses[q].row)
  /\ Healthy(ses[q].row)
  /\ Prepared(q, [ses[q].row EXCEPT !.state = "ready_to_apply"])
  /\ UNCHANGED <<tables, opportunity, last, scenario>>

DecideRepair(q) ==
  /\ ses[q].pc = "loaded" /\ ses[q].action \in Repairs
  /\ RepairAccepted(ses[q].action, ses[q].row)
  /\ Prepared(q, Repaired(ses[q].action, ses[q].row))
  /\ UNCHANGED <<tables, opportunity, last, scenario>>

\* 404 or 422: a validation failed, or a linked row is gone.
Refuse(q) ==
  /\ ses[q].pc = "loaded"
  /\ ses' = [ses EXCEPT ![q] = Idle]
  /\ UNCHANGED <<tables, opportunity, last, scenario>>

\* Mutant: the transition is recorded without updating the state.
FlushedWithoutState(new, loaded, stored) ==
  [f \in DOMAIN stored |-> IF f # "state" /\ new[f] # loaded[f] THEN new[f] ELSE stored[f]]

Flushed(new, loaded, stored) ==
  [f \in DOMAIN stored |-> IF new[f] # loaded[f] THEN new[f] ELSE stored[f]]

\* append_opportunity_transition: one commit of the row and of its transition,
\* and of the tracker entry that a sync rewrote.
CommitTransition(q) ==
  LET s == ses[q] IN
  /\ s.pc = "prepared"
  /\ opportunity # None
  /\ opportunity' = Flushed(s.new, s.row, opportunity)
  /\ last' = s.new.state
  /\ IF s.action = "sync_application_links" /\ applications[s.row.app] # None
     THEN applications' = [applications EXCEPT ![s.row.app] = Synced(s.row, @)]
     ELSE UNCHANGED applications
  /\ ses' = [ses EXCEPT ![q] = Idle]
  /\ UNCHANGED <<jobs, resumes, reports, letters, head, scenario>>

RowGone(q) ==
  /\ ses[q].pc = "prepared" /\ opportunity = None
  /\ ses' = [ses EXCEPT ![q] = Idle]
  /\ UNCHANGED <<tables, opportunity, last, scenario>>

Create ==
  /\ opportunity = None
  /\ \E job \in Live(jobs, MaxJob) \union {None} :
       opportunity' = [state |-> "opportunity_created", job |-> job, resume |-> None,
                       locale |-> None, ats |-> None, letter |-> None, app |-> None]
  /\ last' = "opportunity_created"
  /\ UNCHANGED <<tables, ses, scenario>>

-----------------------------------------------------------------------------
(* The other routes that change the linked tables, one commit each *)

Scrape ==
  /\ "scrape" \in Routes
  /\ NextId(jobs, MaxJob) <= scenario.jobs
  /\ jobs' = [jobs EXCEPT ![NextId(jobs, MaxJob)] = TRUE]
  /\ UNCHANGED <<resumes, reports, letters, applications, head, opportunity, last, ses, scenario>>

\* delete_job removes the reports and letters of the job and no link to them.
DeleteJob(j) ==
  LET kept(row) == IF row = None THEN None ELSE IF row.job = j THEN None ELSE row IN
  /\ "delete_job" \in Routes
  /\ jobs[j] # None
  /\ jobs' = [jobs EXCEPT ![j] = None]
  /\ reports' = [i \in Reports |-> kept(reports[i])]
  /\ letters' = [i \in Letters |-> kept(letters[i])]
  /\ UNCHANGED <<resumes, applications, head, opportunity, last, ses, scenario>>

\* The resume routes, at the granularity the workflow observes: every change of
\* a resume makes a revision, and revisions outlive their resume.
Resume(r, new) ==
  /\ head[r] < MaxRevision
  /\ resumes' = [resumes EXCEPT ![r] = new]
  /\ head' = [head EXCEPT ![r] = @ + 1]
  /\ UNCHANGED <<jobs, reports, letters, applications, opportunity, last, ses, scenario>>

ResumeRoutes ==
  \/ /\ "create_resume" \in Routes
     /\ NextId(resumes, MaxResume) \in Resumes
     /\ Resume(NextId(resumes, MaxResume), [locales |-> {Default}, active |-> Default])
  \/ \E r \in Live(resumes, MaxResume) :
       \/ "edit_resume" \in Routes /\ Resume(r, resumes[r])
       \/ /\ "variants" \in Routes
          /\ \E l \in Locales \ {Default} :
               Resume(r, IF l \in resumes[r].locales
                         THEN [locales |-> resumes[r].locales \ {l},
                               active |-> IF resumes[r].active = l THEN Default ELSE resumes[r].active]
                         ELSE [locales |-> resumes[r].locales \union {l}, active |-> l])
       \/ /\ "delete_resume" \in Routes
          /\ resumes' = [resumes EXCEPT ![r] = None]
          /\ UNCHANGED <<jobs, reports, letters, applications, head, opportunity, last, ses, scenario>>

\* What a report or a letter was generated from: a revision of a live resume, not
\* necessarily the newest by the time it is saved, or unsaved data (revision 0).
Sources ==
  {[resume |-> r, rev |-> n] : r \in Live(resumes, MaxResume), n \in 1..MaxRevision}
    \union {[resume |-> None, rev |-> 0]}

SaveArtifacts ==
  \E job \in Live(jobs, MaxJob) \union {None}, s \in Sources :
    /\ s.resume # None => s.rev <= head[s.resume]
    /\ \/ /\ "save_report" \in Routes
          /\ NextId(reports, MaxReport) <= scenario.reports
          /\ \E l \in Locales \union {None} :
               reports' = [reports EXCEPT ![NextId(reports, MaxReport)] =
                 [job |-> job, resume |-> s.resume, rev |-> s.rev, locale |-> l]]
          /\ UNCHANGED letters
       \/ /\ "save_letter" \in Routes
          /\ NextId(letters, MaxLetter) <= scenario.letters
          /\ letters' = [letters EXCEPT ![NextId(letters, MaxLetter)] =
               [job |-> job, resume |-> s.resume, rev |-> s.rev]]
          /\ UNCHANGED reports
    /\ UNCHANGED <<jobs, resumes, applications, head, opportunity, last, ses, scenario>>

\* The tracker's own routes accept any identifiers.
TrackerRoutes ==
  /\ \/ /\ "create_application" \in Routes
        /\ NextId(applications, MaxApplication) \in Applications
        /\ \E job \in Jobs \union {None}, ats \in Reports \union {None}, letter \in Letters \union {None} :
             applications' = [applications EXCEPT ![NextId(applications, MaxApplication)] =
               [job |-> job, ats |-> ats, letter |-> letter]]
     \/ /\ "patch_application" \in Routes
        /\ \E i \in Live(applications, MaxApplication), ats \in Reports \union {None},
              letter \in Letters \union {None} :
             applications' = [applications EXCEPT ![i] = [@ EXCEPT !.ats = ats, !.letter = letter]]
     \/ /\ "delete_application" \in Routes
        /\ \E i \in Live(applications, MaxApplication) :
             applications' = [applications EXCEPT ![i] = None]
  /\ UNCHANGED <<jobs, resumes, reports, letters, head, opportunity, last, ses, scenario>>

\* clear_history_ledger keeps the resumes and removes everything else.
Purge ==
  /\ "purge" \in Routes
  /\ jobs' = [i \in Jobs |-> None]
  /\ reports' = [i \in Reports |-> None]
  /\ letters' = [i \in Letters |-> None]
  /\ applications' = [i \in Applications |-> None]
  /\ head' = [r \in Resumes |-> 0]
  /\ opportunity' = None
  /\ UNCHANGED <<resumes, last, ses, scenario>>

-----------------------------------------------------------------------------
Init ==
  /\ jobs = [i \in Jobs |-> None]
  /\ resumes = [r \in Resumes |-> None]
  /\ reports = [i \in Reports |-> None]
  /\ letters = [i \in Letters |-> None]
  /\ applications = [i \in Applications |-> None]
  /\ head = [r \in Resumes |-> 0]
  /\ opportunity = None
  /\ last = None
  /\ ses = [q \in Requests |-> Idle]
  /\ scenario \in Scenarios

Handler(q) ==
  \/ \E action \in Repairs \union Links : Load(q, action)
  \/ DecideResume(q) \/ DecideReport(q) \/ DecideLetter(q) \/ DecideTracker(q)
  \/ DecideReady(q) \/ DecideRepair(q) \/ Refuse(q) \/ CommitTransition(q) \/ RowGone(q)

Next ==
  \/ Create \/ Scrape \/ ResumeRoutes \/ SaveArtifacts \/ TrackerRoutes \/ Purge
  \/ \E j \in Jobs : DeleteJob(j)
  \/ \E q \in Requests : Handler(q)

Spec == Init /\ [][Next]_vars

-----------------------------------------------------------------------------
(* Properties *)

\* The opportunity has the type of its row, also in the sessions of the handlers.
TypeOK ==
  /\ resumes \in [Resumes -> [locales: SUBSET Locales, active: Locales] \union {None}]
  /\ head \in [Resumes -> Nat]
  /\ opportunity \in Opportunity \union {None}
  /\ last \in States \union {None}
  /\ \A q \in Requests : ses[q].row \in Opportunity \union {None}
                         /\ ses[q].new \in Opportunity \union {None}

\* With one workflow handler at a time, an opportunity in the state ready_to_apply
\* has all its links, whatever is deleted or edited meanwhile (the state is
\* recomputed by every repair that detaches a link).  A purge is excepted: a
\* handler that loaded the purged opportunity may write into its successor.
ReadyHasItsLinks ==
  opportunity # None /\ "purge" \notin Routes =>
    (opportunity.state = "ready_to_apply" => AllLinked(opportunity))

\* With one workflow handler at a time, the state of the opportunity is that of
\* its newest transition (append_opportunity_transition), purges excepted too.
LastTransitionIsTheState ==
  opportunity # None /\ "purge" \notin Routes => last = opportunity.state

\* Every repair that the integrity report advertises is accepted on the spot,
\* except detach_missing_job, which no code implements.
AdvertisedRepairsAreAccepted ==
  opportunity # None =>
    \A a \in Advertised(opportunity) \ {"detach_missing_job"} : RepairAccepted(a, opportunity)

\* How much there is left to repair: links, then an invalid locale, then tracker
\* fields that disagree.
Debt(o, apps) ==
  LET app == IF o.app = None THEN None ELSE apps[o.app] IN
  6 * Cardinality({f \in {"resume", "ats", "letter", "app"} : o[f] # None})
    + (IF "invalid_resume_locale" \in ResumeIssues(o) THEN 3 ELSE 0)
    + (IF app = None THEN 0
       ELSE (IF Differ(o.ats, app.ats) THEN 1 ELSE 0) + (IF Differ(o.letter, app.letter) THEN 1 ELSE 0))

\* Repairing terminates: every advertised repair leaves strictly less to repair,
\* so following the report never goes round in circles, although a repair may
\* uncover an issue that was hidden (a new locale, a detached report).
RepairsMakeProgress ==
  opportunity # None =>
    \A a \in Advertised(opportunity) \ {"detach_missing_job"} :
      LET apps == IF a = "sync_application_links"
                  THEN [applications EXCEPT ![opportunity.app] = Synced(opportunity, @)]
                  ELSE applications
      IN Debt(Repaired(a, opportunity), apps) < Debt(opportunity, applications)
=============================================================================
