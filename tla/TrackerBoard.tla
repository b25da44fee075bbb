---------------------------- MODULE TrackerBoard ----------------------------
(***************************************************************************)
(* The application tracker: the rows the gateway keeps, the board of the   *)
(* page, and the edits it acts, each followed by a reload of the board.   *)
(***************************************************************************)
EXTENDS Network

VARIABLES
  applications,  \* the gateway's rows: status and position by id
  reminders,     \* its reminders: application and status by id
  columns,       \* the board shown, or None
  boardLoading,
  boardError,
  query,         \* a search is typed: it matches the first application
  draft,         \* the form: empty, partial or full
  isSubmitting,
  expandedIds,
  reminderDrafts \* the applications whose reminder form is filled in

trackerVars == <<applications, reminders, columns, boardLoading, boardError, query, draft,
                 isSubmitting, expandedIds, reminderDrafts>>
vars == <<calls, acts, trackerVars>>
rows == <<applications, reminders>>

Statuses == {"wishlist", "applied"}

-----------------------------------------------------------------------------
(* The gateway.  Each handler is one turn of its event loop. *)

NextId(table) == Max(DOMAIN table \cup {0}) + 1

Snapshot == [applications |-> applications, reminders |-> reminders]

ListApplications(k) ==
  /\ Waiting(k, "load")
  /\ Reply(k, Snapshot)
  /\ UNCHANGED trackerVars

Commit(k) == Reply(k, Ok) /\ UNCHANGED <<columns, boardLoading, boardError, query, draft,
                                          isSubmitting, expandedIds, reminderDrafts>>

CreateApplication(k) ==
  /\ Waiting(k, "create")
  /\ LET column == {id \in DOMAIN applications : applications[id].status = "wishlist"} IN
       applications' = With(applications, NextId(applications), [status |-> "wishlist", position |-> Cardinality(column)])
  /\ UNCHANGED reminders
  /\ Commit(k)

MoveApplication(k) ==
  /\ Waiting(k, "move") /\ calls[k].arg.application \in DOMAIN applications
  /\ applications' = [applications EXCEPT ![calls[k].arg.application] = [status |-> calls[k].arg.status, position |-> calls[k].arg.position]]
  /\ UNCHANGED reminders
  /\ Commit(k)

\* Mutant: the reminders stay behind.
DeleteApplicationOnly(k) ==
  /\ Waiting(k, "remove") /\ calls[k].arg.application \in DOMAIN applications
  /\ applications' = RestrictDomain(applications, LAMBDA id : id # calls[k].arg.application)
  /\ UNCHANGED reminders
  /\ Commit(k)

DeleteApplication(k) ==
  /\ Waiting(k, "remove") /\ calls[k].arg.application \in DOMAIN applications
  /\ applications' = RestrictDomain(applications, LAMBDA id : id # calls[k].arg.application)
  /\ reminders' = RestrictDomain(reminders, LAMBDA id : reminders[id].application # calls[k].arg.application)
  /\ Commit(k)

CreateApplicationReminder(k) ==
  /\ Waiting(k, "remind") /\ calls[k].arg.application \in DOMAIN applications
  /\ reminders' = With(reminders, NextId(reminders), [application |-> calls[k].arg.application, status |-> "pending"])
  /\ UNCHANGED applications
  /\ Commit(k)

ReminderFound(k) ==
  calls[k].arg.reminder \in DOMAIN reminders /\ reminders[calls[k].arg.reminder].application = calls[k].arg.application

UpdateApplicationReminder(k) ==
  /\ Waiting(k, "reminder") /\ ReminderFound(k)
  /\ reminders' = [reminders EXCEPT ![calls[k].arg.reminder].status = calls[k].arg.status]
  /\ UNCHANGED applications
  /\ Commit(k)

DeleteApplicationReminder(k) ==
  /\ Waiting(k, "forget") /\ ReminderFound(k)
  /\ reminders' = RestrictDomain(reminders, LAMBDA id : id # calls[k].arg.reminder)
  /\ UNCHANGED applications
  /\ Commit(k)

\* A request for a row that another one deleted is not served, and fails: what MoveApplication,
\* DeleteApplication and the others require of the row is their _get_application.
Gateway(k) ==
  \/ ListApplications(k) \/ CreateApplication(k) \/ MoveApplication(k) \/ DeleteApplication(k)
  \/ CreateApplicationReminder(k) \/ UpdateApplicationReminder(k) \/ DeleteApplicationReminder(k)

-----------------------------------------------------------------------------
(* The page.  The cards are hidden while a board is loading. *)

Visible == columns # None /\ ~ boardLoading

\* The cards that match the search.
Shown == IF Visible THEN {id \in DOMAIN columns.applications : query => id = 1} ELSE {}

\* filteredColumns, one column: the cards in the order of their positions.
Column(status) ==
  LET matches == {id \in Shown : columns.applications[id].status = status}
      Before(a, b) == \/ columns.applications[a].position < columns.applications[b].position
                      \/ columns.applications[a].position = columns.applications[b].position /\ a < b
  IN SetToSortSeq(matches, Before)

Type == draft = "empty" /\ draft' = "full" /\ Edit /\ UNCHANGED <<rows, columns, boardLoading, boardError, query,
                                                                   isSubmitting, expandedIds, reminderDrafts>>

Search == ~ query /\ query' = TRUE /\ Edit /\ UNCHANGED <<rows, columns, boardLoading, boardError, draft,
                                                  isSubmitting, expandedIds, reminderDrafts>>

\* toggleExpandedTrackerCard
ToggleExpanded(id) ==
  /\ id \in Shown
  /\ expandedIds' = SymDiff(expandedIds, {id})
  /\ Edit /\ UNCHANGED <<rows, columns, boardLoading, boardError, query, draft, isSubmitting, reminderDrafts>>

\* Mutant: the button of the form stays enabled while it is sent.
CreateAgain ==
  /\ draft = "full"
  /\ Ask("create", None)
  /\ isSubmitting' = TRUE /\ boardError' = FALSE
  /\ UNCHANGED <<rows, columns, boardLoading, query, draft, expandedIds, reminderDrafts>>

\* create: the button is disabled while a creation is under way or the form incomplete.
Create ==
  /\ draft = "full" /\ ~ isSubmitting
  /\ Ask("create", None)
  /\ isSubmitting' = TRUE /\ boardError' = FALSE
  /\ UNCHANGED <<rows, columns, boardLoading, query, draft, expandedIds, reminderDrafts>>

OnCard(id, op, arg) ==
  /\ id \in Shown \cap expandedIds
  /\ Ask(op, arg)
  /\ UNCHANGED <<rows, columns, boardLoading, query, draft, isSubmitting, expandedIds, reminderDrafts>>

\* move: to the index the card has in the column it leaves, as filtered.
Move(id, status) ==
  /\ id \in Shown /\ columns.applications[id].status # status
  /\ LET index == SelectInSeq(Column(columns.applications[id].status), LAMBDA card : card = id) - 1 IN
       OnCard(id, "move", [application |-> id, status |-> status, position |-> index])
  /\ UNCHANGED boardError

\* remove
RemoveCard(id) == OnCard(id, "remove", [application |-> id]) /\ UNCHANGED boardError

TypeReminder(id) ==
  /\ id \in (Shown \cap expandedIds) \ reminderDrafts
  /\ reminderDrafts' = reminderDrafts \cup {id}
  /\ Edit /\ UNCHANGED <<rows, columns, boardLoading, boardError, query, draft, isSubmitting, expandedIds>>

\* createReminder: its title and date are required.
CreateReminder(id) == id \in reminderDrafts /\ OnCard(id, "remind", [application |-> id]) /\ UNCHANGED boardError

EmptyReminder(id) ==
  /\ id \in (Shown \cap expandedIds) \ reminderDrafts /\ ~ boardError
  /\ boardError' = TRUE
  /\ Edit /\ UNCHANGED <<rows, columns, boardLoading, query, draft, isSubmitting, expandedIds, reminderDrafts>>

\* updateReminderStatus and deleteReminder, on the three reminders a card shows.
OnReminder(id) ==
  /\ Visible /\ id \in DOMAIN columns.reminders
  /\ LET application == columns.reminders[id].application IN
       \/ /\ columns.reminders[id].status = "pending"
          /\ OnCard(application, "reminder", [application |-> application, reminder |-> id, status |-> "completed"])
       \/ OnCard(application, "forget", [application |-> application, reminder |-> id])
  /\ UNCHANGED boardError

-----------------------------------------------------------------------------
(* The answers *)

\* load: the board or an error; the flag falls whatever other load is under way.
Loaded(k, fine) ==
  /\ Answered(k, "load", fine)
  /\ boardLoading' = FALSE
  /\ IF fine THEN columns' = calls[k].reply /\ UNCHANGED boardError
                ELSE boardError' = TRUE /\ UNCHANGED columns
  /\ isSubmitting' = IF calls[k].arg.origin = "create" THEN FALSE ELSE isSubmitting
  /\ Done(k)
  /\ UNCHANGED <<rows, query, draft, expandedIds, reminderDrafts>>

\* Every edit that succeeds is followed by a load, which clears the error shown.
Reload(k, origin) == Then(k, "load", [origin |-> origin]) /\ boardLoading' = TRUE /\ boardError' = FALSE

\* Mutant: a creation that fails leaves its flag.
CreatedKeepingFlag(k, fine) ==
  /\ Answered(k, "create", fine)
  /\ IF fine
     THEN Reload(k, "create") /\ draft' = "empty" /\ expandedIds' = {} /\ UNCHANGED isSubmitting
     ELSE Done(k) /\ boardError' = TRUE /\ UNCHANGED <<isSubmitting, boardLoading, draft, expandedIds>>
  /\ UNCHANGED <<rows, columns, query, reminderDrafts>>

Created(k, fine) ==
  /\ Answered(k, "create", fine)
  /\ IF fine
     THEN Reload(k, "create") /\ draft' = "empty" /\ expandedIds' = {} /\ UNCHANGED isSubmitting
     ELSE Done(k) /\ boardError' = TRUE /\ isSubmitting' = FALSE /\ UNCHANGED <<boardLoading, draft, expandedIds>>
  /\ UNCHANGED <<rows, columns, query, reminderDrafts>>

Edited(k, fine) ==
  /\ \E op \in {"move", "remove", "remind", "reminder", "forget"} : Answered(k, op, fine)
  /\ IF fine THEN Reload(k, "edit") ELSE Done(k) /\ boardError' = TRUE /\ UNCHANGED boardLoading
  /\ reminderDrafts' = IF fine /\ calls[k].op = "remind" THEN reminderDrafts \ {calls[k].arg.application} ELSE reminderDrafts
  /\ UNCHANGED <<rows, columns, query, draft, isSubmitting, expandedIds>>

-----------------------------------------------------------------------------

Effects == <<Call("load", [origin |-> "open"])>>

\* The page opens on what the gateway holds, with its first load under way.
PageInit ==
  /\ applications = [id \in 1..2 |-> [status |-> "wishlist", position |-> id - 1]]
  /\ reminders = [id \in {1} |-> [application |-> 1, status |-> "pending"]]
  /\ columns = None /\ boardLoading = TRUE /\ boardError = FALSE
  /\ query = FALSE /\ draft = "full" /\ isSubmitting = FALSE
  /\ expandedIds = {} /\ reminderDrafts = {}

Answers == \E k \in DOMAIN calls : Gateway(k) \/ \E fine \in BOOLEAN : Loaded(k, fine) \/ Created(k, fine) \/ Edited(k, fine)

Cards == 1..(2 + MaxActs)

Next ==
  \/ Type \/ Search \/ Create
  \/ \E id \in Cards : ToggleExpanded(id) \/ RemoveCard(id) \/ TypeReminder(id) \/ CreateReminder(id)
                          \/ EmptyReminder(id) \/ OnReminder(id) \/ (\E status \in Statuses : Move(id, status))
  \/ Answers

Busy == boardLoading \/ isSubmitting

\* The form is not sent twice.
SentOnce == Cardinality(Pending("create")) <= 1

\* Whatever the order of the edits, a reminder belongs to an application of the board.
RemindersHaveTheirApplication == \A id \in DOMAIN reminders : reminders[id].application \in DOMAIN applications

=============================================================================
