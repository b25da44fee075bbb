---------------------------- MODULE PrivacyGate ----------------------------
(***************************************************************************)
(* Consent to cloud calls: what the gateway refuses without one, the       *)
(* dialog that asks for it, the request that is sent again after a yes,    *)
(* and the drawer where the mode is set and consents are revoked.          *)
(* The provider is a cloud one: a local one is asked for nothing.          *)
(***************************************************************************)
EXTENDS Network

VARIABLES
  mode,       \* the gateway's privacy mode
  consents,   \* the scopes, a task and a mode, whose latest decision is a grant
  agreed,     \* history: the scopes of the dialogs the user continued, and has not revoked since
  dialog,     \* the request whose scope the dialog shows, or None
  drawer      \* the drawer: [open, loading, saving, mode, listed]

gateVars == <<mode, consents, agreed, dialog, drawer>>

Modes == {"local", "private", "full"}

\* The tasks a request needs a consent for: a run is cleared for all it will do before it starts.
Needs == [start |-> {"job", "ats"}, score |-> {"ats"}, upload |-> {"parse"}]
Guarded == DOMAIN Needs

-----------------------------------------------------------------------------
(* The gateway *)

\* Mutant: a consent given in one mode serves in the other.
MissingInAnyMode(op) == {task \in Needs[op] : \A m \in Modes : <<task, m>> \notin consents}

\* prepare: the tasks without a consent in the mode of the moment.
Missing(op) == {task \in Needs[op] : <<task, mode>> \notin consents}

Refused == [refused |-> TRUE]

\* The local mode refuses; a missing consent is a 428 that names its scope; else the provider is called.
Serve(k, op) ==
  /\ Waiting(k, op)
  /\ IF mode = "local" THEN Reply(k, Refused)
     ELSE IF Missing(op) = {} THEN Reply(k, Ok)
     ELSE \E task \in Missing(op) : Reply(k, [task |-> task, mode |-> mode])
  /\ UNCHANGED gateVars

PutConsent(k) ==
  /\ Waiting(k, "grant") /\ Reply(k, Ok)
  /\ consents' = consents \cup {<<calls[k].arg.task, calls[k].arg.mode>>}
  /\ UNCHANGED <<mode, agreed, dialog, drawer>>

\* A yes that the gateway has not heard of yet outlives a revocation: the latest decision to arrive counts.
Coming == {<<calls[k].arg.task, calls[k].arg.mode>> : k \in {n \in DOMAIN calls : Waiting(n, "grant")}}

Withdrawn(k) ==
  /\ Waiting(k, "revoke") /\ Reply(k, Ok)
  /\ agreed' = agreed \ ({calls[k].arg.scope} \ Coming)
  /\ UNCHANGED <<mode, dialog, drawer>>

\* Mutant: the decisions are a log, in which an older grant is found first.
RevokedUnheard(k) == Withdrawn(k) /\ UNCHANGED consents

Revoked(k) == Withdrawn(k) /\ consents' = consents \ {calls[k].arg.scope}

PutMode(k) ==
  /\ \E op \in {"configure", "save"} : Waiting(k, op)
  /\ Reply(k, Ok)
  /\ mode' = calls[k].arg.target
  /\ UNCHANGED <<consents, agreed, dialog, drawer>>

Configuration(k) == Waiting(k, "configuration") /\ Reply(k, [mode |-> mode]) /\ UNCHANGED gateVars
Registry(k) == Waiting(k, "registry") /\ Reply(k, [scopes |-> consents]) /\ UNCHANGED gateVars

GateServes(k) ==
  \/ (\E op \in Guarded : Serve(k, op)) \/ PutConsent(k) \/ Revoked(k) \/ PutMode(k) \/ Configuration(k) \/ Registry(k)

-----------------------------------------------------------------------------
(* privacyFetch *)

\* A 428 shows the dialog, in place of the one it shows already.
AskConsent(k) ==
  /\ calls[k].op \in Guarded /\ calls[k].reply \notin {None, Ok, Refused}
  /\ dialog' = [op |-> calls[k].op, run |-> calls[k].arg.run,
                task |-> calls[k].reply.task, mode |-> calls[k].reply.mode]
  /\ calls' = [calls EXCEPT ![k] = Call("ask", dialog')]
  /\ UNCHANGED <<acts, mode, consents, agreed, drawer>>

\* decide: the promise of the request shown is resolved.
Decide(k, op, arg) == calls[k].op = "ask" /\ calls[k].arg = dialog /\ dialog' = None /\ Then(k, op, arg)

Target(to) == [op |-> dialog.op, run |-> dialog.run, target |-> to]

Continue(k) ==
  /\ dialog # None /\ Decide(k, "grant", dialog)
  /\ agreed' = agreed \cup {<<dialog.task, dialog.mode>>}
  /\ UNCHANGED <<mode, consents, drawer>>

\* The full context may be reduced; any mode may be left for the local one.
ChangeMode(k) ==
  /\ dialog # None
  /\ Decide(k, "configure", Target("local")) \/ (dialog.mode = "full" /\ Decide(k, "configure", Target("private")))
  /\ UNCHANGED <<mode, consents, agreed, drawer>>

Cancel(k) == dialog # None /\ Decide(k, "declined", dialog) /\ UNCHANGED <<mode, consents, agreed, drawer>>

\* After a grant or a reduction the request is sent again.
Retry(k) ==
  /\ Answered(k, "grant", TRUE) \/ (Answered(k, "configure", TRUE) /\ calls[k].arg.target = "private")
  /\ Then(k, calls[k].arg.op, [run |-> calls[k].arg.run])
  /\ UNCHANGED gateVars

\* What the caller of privacyFetch hears: the provider's answer, or that there is none.
Settled(k, op, fine) ==
  IF fine THEN calls[k].op = op /\ calls[k].reply = Ok
  ELSE \/ calls[k].op = op
       \/ calls[k].op \in {"declined", "grant", "configure"} /\ calls[k].arg.op = op

-----------------------------------------------------------------------------
(* The drawer.  The dialog covers the page and the drawer. *)

OpenDrawer ==
  /\ dialog = None /\ ~ drawer.open /\ Act
  /\ calls' = calls \o <<Call("configuration", None), Call("registry", None)>>
  /\ drawer' = [drawer EXCEPT !.open = TRUE, !.loading = TRUE]
  /\ UNCHANGED <<mode, consents, agreed, dialog>>

\* loadConfiguration: the settings of the form are those of the gateway, once.
Configured(k, fine) ==
  /\ Answered(k, "configuration", fine) /\ Done(k)
  /\ drawer' = [drawer EXCEPT !.loading = FALSE, !.mode = IF fine THEN calls[k].reply.mode ELSE @]
  /\ UNCHANGED <<mode, consents, agreed, dialog>>

Listed(k, fine) ==
  /\ Answered(k, "registry", fine) /\ Done(k)
  /\ drawer' = [drawer EXCEPT !.listed = IF fine THEN calls[k].reply.scopes ELSE @]
  /\ UNCHANGED <<mode, consents, agreed, dialog>>

InDrawer == dialog = None /\ drawer.open /\ ~ drawer.loading /\ UNCHANGED <<mode, consents, agreed, dialog>>

PickMode(to) == InDrawer /\ drawer.mode # to /\ Edit /\ drawer' = [drawer EXCEPT !.mode = to]

\* saveConfiguration sends every setting of the form.
SaveConfiguration ==
  /\ InDrawer /\ ~ drawer.saving
  /\ Ask("save", [target |-> drawer.mode])
  /\ drawer' = [drawer EXCEPT !.saving = TRUE]

ConfigurationSaved(k, fine) ==
  /\ Answered(k, "save", fine) /\ Done(k)
  /\ drawer' = [drawer EXCEPT !.saving = FALSE]
  /\ UNCHANGED <<mode, consents, agreed, dialog>>

Revoke(scope) == InDrawer /\ scope \in drawer.listed /\ Ask("revoke", [scope |-> scope]) /\ UNCHANGED drawer

\* Any answer reloads the list, also a refusal.
RevokeHeard(k) == (\E fine \in BOOLEAN : Answered(k, "revoke", fine)) /\ Then(k, "registry", None) /\ UNCHANGED gateVars
RevokeFailed(k) == Answered(k, "revoke", FALSE) /\ Done(k) /\ UNCHANGED gateVars

-----------------------------------------------------------------------------

\* The drawer belongs to the shell of all the tools, and may be open since the page before.
GateInit ==
  /\ mode \in {"private", "full"}
  /\ consents = {<<"parse", "private">>, <<"ats", "full">>} /\ agreed = consents
  /\ dialog = None
  /\ drawer \in {[open |-> FALSE, loading |-> FALSE, saving |-> FALSE, mode |-> "local", listed |-> {}],
                 [open |-> TRUE, loading |-> FALSE, saving |-> FALSE, mode |-> mode, listed |-> consents]}

GateActs == OpenDrawer \/ SaveConfiguration \/ (\E to \in Modes : PickMode(to)) \/ (\E scope \in drawer.listed : Revoke(scope))

\* The user answers every dialog in the end.
GateAnswers(k) ==
  \/ GateServes(k) \/ AskConsent(k) \/ Continue(k) \/ ChangeMode(k) \/ Cancel(k) \/ Retry(k)
  \/ (\E fine \in BOOLEAN : Configured(k, fine) \/ Listed(k, fine) \/ ConfigurationSaved(k, fine))
  \/ RevokeHeard(k) \/ RevokeFailed(k)

\* A second dialog took the place of one that was not answered.
Replaced == \E k \in DOMAIN calls : calls[k].op = "ask" /\ calls[k].arg # dialog

=============================================================================
