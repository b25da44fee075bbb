------------------------------ MODULE Network ------------------------------
(***************************************************************************)
(* The requests of a page of the web client.  A handler sends a request    *)
(* and goes on when the answer comes; the gateway serves requests in any   *)
(* order and the answers come in any order, also after the user has done   *)
(* something else.  A request may fail before or after it was served.      *)
(***************************************************************************)
EXTENDS Integers, SequencesExt, FiniteSetsExt, Functions

CONSTANTS
  MaxActs,   \* bound: actions of the user
  None,
  Ok         \* the answer of a request whose body nobody reads

VARIABLES
  calls,     \* the requests in flight, in the order they were sent
  acts       \* what the user did so far

\* The user acts on the page.
Act == acts < MaxActs /\ acts' = acts + 1
Edit == Act /\ UNCHANGED calls

Call(op, arg) == [op |-> op, arg |-> arg, reply |-> None]

\* fetch, at the user's request.
Ask(op, arg) ==
  /\ Act
  /\ calls' = Append(calls, Call(op, arg))

\* The gateway serves request k.
Waiting(k, op) == calls[k].op = op /\ calls[k].reply = None
Reply(k, reply) == calls' = [calls EXCEPT ![k].reply = reply] /\ UNCHANGED acts

\* The page hears of request k: its answer, or a failure whether or not it was served.
Answered(k, op, fine) == calls[k].op = op /\ (fine => calls[k].reply # None)

\* The handler of request k ends, or sends another request.
Done(k) == calls' = RemoveAt(calls, k) /\ UNCHANGED acts
Then(k, op, arg) == calls' = Append(RemoveAt(calls, k), Call(op, arg)) /\ UNCHANGED acts

\* The requests at the places of a set, in their order, when the others go nowhere: SelectSeq, without its recursion.
Only(requests, kept) ==
  LET Nth(n) == CHOOSE k \in kept : Cardinality({i \in kept : i <= k}) = n
  IN [n \in 1..Cardinality(kept) |-> requests[Nth(n)]]

\* A table with one more entry.
With(table, key, value) == [k \in DOMAIN table \cup {key} |-> IF k = key THEN value ELSE table[k]]

Pending(op) == {k \in DOMAIN calls : calls[k].op = op}

\* A page opens with the requests its effects send.
Opening(requests) == acts = 0 /\ calls = requests

=============================================================================
