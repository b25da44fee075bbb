--------------------------- MODULE AgentProposals ---------------------------
(***************************************************************************)
(* Human-gated agent proposals on top of the resume store: a proposal is   *)
(* saved against a revision, then a person rejects it or commits it into   *)
(* the resume, which makes a new revision.                                 *)
(*                                                                         *)
(* The commit tool is an async handler without an await: it runs on the    *)
(* event loop, so no two commits interleave and the history purge waits    *)
(* for it, but its statements interleave with the synchronous routes,      *)
(* rejection among them, that run in the thread pool.  Its update_resume   *)
(* call is ResumeStore's own: it drives the session of request Agent       *)
(* through ResumeStore's steps.                                            *)
(***************************************************************************)
EXTENDS ResumeStore

CONSTANTS
  Agent,        \* the request that runs commit_resume_revision
  MaxProposals  \* bound: proposals are numbered 1..MaxProposals

ASSUME AgentAssumption == Agent \in Requests /\ MaxProposals \in Nat

VARIABLES
  proposals,  \* the resumeagentproposalrecord table
  accepting,  \* the proposal being committed, and the client's base_revision
  rejecting,  \* per request: the pending proposal it read and will reject
  applied     \* history: how many snapshots each proposal's commit made

agentVars == <<proposals, accepting, rejecting, applied>>
allVars == <<resumes, revisions, req, proposals, accepting, rejecting, applied>>

ProposalIds == 1..MaxProposals
Proposal == [resume: Ids, source: Nat, base: Nat, created: Nat \union {None},
             status: {"pending", "invalid", "accepted", "rejected"}]
Commitment == [proposal: ProposalIds, base: Nat, stage: {"read", "checked", "loaded"}]

ASSUME ProposalAssumption == None \notin Proposal /\ None \notin Commitment

-----------------------------------------------------------------------------
(* Saving a proposal *)

\* Mutant: the outcome of the validation is stored under a status nothing reads.
SaveProposalAsDraft(p, id, source, valid) ==
  /\ proposals[p] = None
  /\ Stored(id)
  /\ source \in Numbers(id)
  /\ proposals' = [proposals EXCEPT ![p] =
       [resume |-> id, source |-> source, base |-> LatestRevision(id), created |-> None,
        status |-> IF valid THEN "draft" ELSE "invalid"]]
  /\ UNCHANGED <<resumes, revisions, req, accepting, rejecting, applied>>

\* save_agent_proposal refuses a proposal whose base is not the newest revision;
\* the snapshot it was computed from may be an older one.
SaveProposal(p, id, source, valid) ==
  /\ proposals[p] = None
  /\ \A other \in 1..(p - 1) : proposals[other] # None
  /\ Stored(id)
  /\ source \in Numbers(id)
  /\ proposals' = [proposals EXCEPT ![p] =
       [resume |-> id, source |-> source, base |-> LatestRevision(id), created |-> None,
        status |-> IF valid THEN "pending" ELSE "invalid"]]
  /\ UNCHANGED <<resumes, revisions, req, accepting, rejecting, applied>>

-----------------------------------------------------------------------------
(* commit_resume_revision *)

\* Mutant: any proposal may be committed, not only a pending one.
AcceptReadAny(p, base) ==
  /\ accepting = None /\ req[Agent].pc = "idle"
  /\ proposals[p] # None
  /\ Room(proposals[p].resume)
  /\ accepting' = [proposal |-> p, base |-> base, stage |-> "read"]
  /\ UNCHANGED <<resumes, revisions, req, proposals, rejecting, applied>>

AcceptRead(p, base) ==
  /\ accepting = None /\ req[Agent].pc = "idle"
  /\ proposals[p] # None
  /\ proposals[p].status = "pending"
  /\ Room(proposals[p].resume)
  /\ accepting' = [proposal |-> p, base |-> base, stage |-> "read"]
  /\ UNCHANGED <<resumes, revisions, req, proposals, rejecting, applied>>

\* Mutant: the revision is not compared.
AcceptCheckSkipped ==
  /\ accepting # None /\ accepting.stage = "read"
  /\ accepting' = [accepting EXCEPT !.stage = "checked"]
  /\ UNCHANGED <<resumes, revisions, req, proposals, rejecting, applied>>

\* The client's base, the proposal's source and base and the newest revision must agree.
AcceptCheck ==
  /\ accepting # None /\ accepting.stage = "read"
  /\ LET p == proposals[accepting.proposal] IN
     accepting' =
       IF {p.source, p.base, LatestRevision(p.resume)} = {accepting.base}
       THEN [accepting EXCEPT !.stage = "checked"] ELSE None
  /\ UNCHANGED <<resumes, revisions, req, proposals, rejecting, applied>>

\* The row and the snapshot numbered base; the patch is applied to the snapshot.
AcceptLoad ==
  /\ accepting # None /\ accepting.stage = "checked"
  /\ LET id == proposals[accepting.proposal].resume IN
     IF ~ Stored(id) THEN accepting' = None /\ UNCHANGED req
     ELSE \E snap \in Snapshots(id, accepting.base), patched \in Contents :
            /\ accepting' = [accepting EXCEPT !.stage = "loaded"]
            /\ req' = [req EXCEPT ![Agent] =
                 [Idle EXCEPT !.pc = FirstStep("update", resumes[id].data), !.kind = "update",
                              !.id = id, !.row = resumes[id], !.snap = snap,
                              !.work = Migrated(resumes[id].data),
                              !.in = [NoInput EXCEPT !.content = patched, !.target = snap.active]]]
  /\ UNCHANGED <<resumes, revisions, proposals, rejecting, applied>>

\* update_resume, step by step; it raises when the locale or the row is gone.
AcceptUpdate ==
  /\ accepting # None /\ accepting.stage = "loaded"
  /\ \/ /\ \/ MigrateCommit(Agent) \/ MigrateRefresh(Agent)
           \/ Commit(Agent) \/ Refresh(Agent) \/ NumberSnapshot(Agent)
        /\ UNCHANGED <<accepting, applied>>
     \/ /\ InsertSnapshot(Agent)
        /\ applied' = [applied EXCEPT ![accepting.proposal] = @ + 1]
        /\ UNCHANGED accepting
     \/ /\ Refuse(Agent) \/ RowGone(Agent)
        /\ accepting' = None
        /\ UNCHANGED applied
  /\ UNCHANGED <<proposals, rejecting>>

\* Mutant: the proposal is marked before the revision exists.
AcceptFinishEarly ==
  /\ accepting # None /\ req[Agent].pc \in {"fresh", "serialize"}
  /\ proposals' = [proposals EXCEPT
       ![accepting.proposal].status = "accepted",
       ![accepting.proposal].created = LatestRevision(proposals[accepting.proposal].resume)]
  /\ accepting' = IF req[Agent].pc = "serialize" THEN None ELSE accepting
  /\ UNCHANGED <<resumes, revisions, req, rejecting, applied>>

AcceptFinish ==
  /\ accepting # None /\ req[Agent].pc = "serialize"
  /\ proposals' = [proposals EXCEPT
       ![accepting.proposal].status = "accepted",
       ![accepting.proposal].created = LatestRevision(proposals[accepting.proposal].resume)]
  /\ accepting' = None
  /\ UNCHANGED <<resumes, revisions, req, rejecting, applied>>

AcceptAnswer == accepting = None /\ Serialize(Agent) /\ UNCHANGED agentVars

-----------------------------------------------------------------------------
(* reject_resume_proposal *)

RejectRead(q, p) ==
  /\ rejecting[q] = None /\ req[q].pc = "idle"
  /\ proposals[p] # None
  /\ proposals[p].status = "pending"
  /\ rejecting' = [rejecting EXCEPT ![q] = p]
  /\ UNCHANGED <<resumes, revisions, req, proposals, accepting, applied>>

RejectCommit(q) ==
  /\ rejecting[q] # None
  /\ proposals' = [proposals EXCEPT ![rejecting[q]].status = "rejected"]
  /\ rejecting' = [rejecting EXCEPT ![q] = None]
  /\ UNCHANGED <<resumes, revisions, req, accepting, applied>>

-----------------------------------------------------------------------------
\* Every other route of the store; the purge is on the event loop too.
Route(q) ==
  /\ rejecting[q] = None
  /\ Handler(q)
  /\ accepting # None => ~ Purge(q)
  /\ UNCHANGED agentVars

Restart ==
  /\ Crash
  /\ accepting' = None
  /\ rejecting' = [q \in Requests |-> None]
  /\ UNCHANGED <<proposals, applied>>

AgentInit ==
  /\ Init
  /\ proposals = [p \in ProposalIds |-> None]
  /\ accepting = None
  /\ rejecting = [q \in Requests |-> None]
  /\ applied = [p \in ProposalIds |-> 0]

AgentNext ==
  \/ \E p \in ProposalIds, id \in Ids : \E source \in Numbers(id), valid \in BOOLEAN :
       SaveProposal(p, id, source, valid)
  \/ \E p \in ProposalIds, base \in 1..MaxRevision : AcceptRead(p, base)
  \/ AcceptCheck \/ AcceptLoad \/ AcceptUpdate \/ AcceptFinish \/ AcceptAnswer
  \/ \E q \in Requests \ {Agent} :
       Route(q) \/ RejectCommit(q) \/ \E p \in ProposalIds : RejectRead(q, p)
  \/ Restart

AgentSpec == AgentInit /\ [][AgentNext]_allVars

-----------------------------------------------------------------------------
(* Properties *)

\* The proposals, the acceptance under way and the pending rejections have their types.
AgentTypeOK ==
  /\ TypeOK
  /\ proposals \in [ProposalIds -> Proposal \union {None}]
  /\ accepting \in Commitment \union {None}
  /\ rejecting \in [Requests -> ProposalIds \union {None}]
  /\ applied \in [ProposalIds -> Nat]

\* However often a proposal is committed again after a crash between the new
\* revision and the "accepted" mark, and whatever edits race with it, it makes at
\* most one revision (the revision check of _commit_revision).
AppliedAtMostOnce == \A p \in ProposalIds : applied[p] <= 1

\* An accepted proposal did make its revision, and the one it names as created
\* is newer than its source (the order of writes in _commit_revision).
AcceptedMeansApplied ==
  \A p \in ProposalIds :
    proposals[p] # None /\ proposals[p].status = "accepted"
      => applied[p] > 0 /\ proposals[p].created > proposals[p].source

\* A proposal found invalid when it was saved is never committed.
InvalidIsNeverApplied ==
  \A p \in ProposalIds :
    proposals[p] # None /\ proposals[p].status = "invalid" => applied[p] = 0
=============================================================================
