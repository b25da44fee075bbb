------------------------------ MODULE PagePool ------------------------------
(***************************************************************************)
(* What the browser manager of the renderer promises to its callers: at    *)
(* most MaxPages of them hold a page slot at a time, and every caller that *)
(* got one gives it back, whatever happens to the browser in the meantime. *)
(***************************************************************************)
EXTENDS Integers, FiniteSets

CONSTANTS
  Requests,   \* the callers
  MaxPages    \* maxConcurrentPages

VARIABLE held   \* the callers that hold a slot

Acquire(r) == r \notin held /\ Cardinality(held) < MaxPages /\ held' = held \cup {r}

Release(r) == r \in held /\ held' = held \ {r}

Init == held = {}

Next == \E r \in Requests : Acquire(r) \/ Release(r)

Spec == Init /\ [][Next]_held /\ \A r \in Requests : WF_held(Release(r))
=============================================================================
