------------------------- MODULE MCOptimizePipeline -------------------------
(***************************************************************************)
(* Instances of OptimizePipeline for TLC, and the nominal path that the    *)
(* documents describe.                                                     *)
(***************************************************************************)
EXTENDS OptimizePipeline

\* "Nominal path: a persisted resume ... a typed business patch": a run in which
\* no call fails, times out or finds nothing ends with done.
NominalPathCompletes ==
  pipe.pc = "over" /\ ~ fault => \E i \in 1..Len(emitted) : emitted[i] = "done"
=============================================================================
