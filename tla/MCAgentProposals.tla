-------------------------- MODULE MCAgentProposals --------------------------
(***************************************************************************)
(* Instances of AgentProposals for TLC, and what the documents say of      *)
(* proposals that the interleavings and crashes of the handlers break.     *)
(***************************************************************************)
EXTENDS AgentProposals, TLC

Symmetry == Permutations(Contents)

AgentCommits == accepting # None /\ req[Agent].pc = "ready" /\ req'[Agent].pc = "committed"

\* "No agent may silently overwrite a resume": the variant that a commit replaces
\* is the one the proposal was computed from and the person reviewed.
AgentNeverOverwrites ==
  [][AgentCommits
       => LET r == req[Agent] IN
          resumes[r.id].data.variants[r.in.target] = r.snap.variants[r.in.target]]_allVars
=============================================================================
