----------------------- MODULE MCOpportunityWorkflow -----------------------
(***************************************************************************)
(* Instances of OpportunityWorkflow for TLC, and the statements of the     *)
(* documents that the workflow routes do not keep.                         *)
(***************************************************************************)
EXTENDS OpportunityWorkflow, TLC

\* Linking, readiness and the repairs of artifacts, while things are deleted.
LinkScenario ==
  [routes |-> {"scrape", "delete_job", "create_resume", "edit_resume", "save_report", "save_letter",
               "link_resume", "link_ats_report", "link_cover_letter", "create_tracker_entry",
               "mark_ready_to_apply", "detach_missing_ats_report", "relink_ats_report",
               "detach_missing_cover_letter", "relink_cover_letter", "delete_application",
               "detach_missing_application"},
   jobs |-> 1, reports |-> 1, letters |-> 1]

\* Resumes and variants that disappear, and identifiers that come back.
ResumeScenario ==
  [routes |-> {"scrape", "create_resume", "variants", "delete_resume", "save_report", "purge",
               "link_resume", "link_ats_report", "detach_missing_resume", "reset_resume_locale",
               "relink_ats_report"},
   jobs |-> 1, reports |-> 1, letters |-> 0]

\* A tracker entry whose own routes rewrite its links.
TrackerScenario ==
  [routes |-> {"scrape", "save_letter", "create_application", "patch_application",
               "link_cover_letter", "attach_tracker_entry", "sync_application_links",
               "relink_cover_letter", "relink_application"},
   jobs |-> 2, reports |-> 0, letters |-> 2]

AllScenarios == {LinkScenario, ResumeScenario, TrackerScenario}

\* Artifacts that age while the tracker entry is synchronised.
StaleScenario ==
  [routes |-> {"scrape", "create_resume", "edit_resume", "save_report", "save_letter",
               "create_application", "patch_application", "link_resume", "link_ats_report",
               "link_cover_letter", "create_tracker_entry", "attach_tracker_entry",
               "sync_application_links"},
   jobs |-> 1, reports |-> 1, letters |-> 1]
StaleScenarios == {StaleScenario}

Becomes(o, n, state) == o # None /\ n # None /\ o.state # state /\ n.state = state

\* "A degraded opportunity cannot be marked ready": the step that makes an
\* opportunity ready leaves it healthy.
ReadyIsHealthy ==
  [][Becomes(opportunity, opportunity', "ready_to_apply") => Healthy(opportunity)']_vars
=============================================================================
