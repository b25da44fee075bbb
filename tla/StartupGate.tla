---------------------------- MODULE StartupGate ----------------------------
(***************************************************************************)
(* The gate in front of the workspace: it asks the gateway and the         *)
(* renderer whether they are ready until both are, then shows the pages.   *)
(***************************************************************************)
EXTENDS Network

VARIABLES
  services,   \* the state of each service
  probes,     \* what the gate knows of each
  isChecking

startupVars == <<services, probes, isChecking>>

Services == {"api", "renderer"}
ServiceStates == {"ready", "degraded", "unreachable"}

\* A service becomes ready, degraded or unreachable: at most MaxActs times.
ServiceChanges(service, state) ==
  /\ services[service] # state
  /\ Edit
  /\ services' = [services EXCEPT ![service] = state]
  /\ UNCHANGED <<probes, isChecking>>

\* buildRuntimeSummary
Open == \A service \in Services : probes[service] = "ready"

\* One service answers one check, or is given up: normalizeReadinessPayload.
Probe(k, service) ==
  /\ calls[k].op = "check" /\ service \notin DOMAIN calls[k].arg.heard
  /\ calls' = [calls EXCEPT ![k].arg.heard = With(@, service, services[service])]
  /\ UNCHANGED <<acts, startupVars>>

Check(by) == Call("check", [by |-> by, heard |-> <<>>])

\* Mutant: the interval stops at the first answer.
TickUntilHeard ==
  /\ "checking" \in Range(probes) /\ \A k \in DOMAIN calls : calls[k].arg.by # "timer"
  /\ calls' = Append(calls, Check("timer"))
  /\ isChecking' = TRUE
  /\ UNCHANGED <<acts, services, probes>>

\* The interval: a check it started has timed out before the next one.
Tick ==
  /\ ~ Open /\ \A k \in DOMAIN calls : calls[k].arg.by # "timer"
  /\ calls' = Append(calls, Check("timer"))
  /\ isChecking' = TRUE
  /\ UNCHANGED <<acts, services, probes>>

\* The button of the gate, off during a check.
RetryNow ==
  /\ ~ Open /\ ~ isChecking
  /\ Act
  /\ calls' = Append(calls, Check("user"))
  /\ isChecking' = TRUE
  /\ UNCHANGED <<services, probes>>

\* checkServices: what it heard is what the gate knows, also after a later check was heard.
Checked(k) ==
  /\ calls[k].op = "check" /\ DOMAIN calls[k].arg.heard = Services
  /\ Done(k)
  /\ probes' = calls[k].arg.heard /\ isChecking' = FALSE
  /\ UNCHANGED services

-----------------------------------------------------------------------------

Effects == <<>>

\* The gate starts closed, or on a recent answer that is remembered.
PageInit ==
  /\ services \in [Services -> {"ready", "unreachable"}]
  /\ probes \in [Services -> {"checking"}] \cup [Services -> {"ready"}]
  /\ isChecking = ~ Open

Answers == Tick \/ \E k \in DOMAIN calls : Checked(k) \/ \E service \in Services : Probe(k, service)

Next ==
  \/ RetryNow
  \/ (\E service \in Services, state \in ServiceStates : ServiceChanges(service, state))
  \/ Answers

Down == \E service \in Services : services[service] # "ready"

\* Closed, although every service is ready.
Busy == ~ Open /\ ~ Down

=============================================================================
