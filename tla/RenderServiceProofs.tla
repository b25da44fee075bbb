------------------------ MODULE RenderServiceProofs ------------------------
(***************************************************************************)
(* RenderService implements the pool of page slots, knows every browser    *)
(* that runs and confines a failed log write to its own request, for any   *)
(* finite number of requests, slots, browsers and failures.                *)
(***************************************************************************)
EXTENDS RenderService, FiniteSetTheorems, SequenceTheorems, TLAPS

-----------------------------------------------------------------------------
(* The inductive invariant *)

Call == [pc : Steps, browser : Nat \cup {None}, status : Nat, sent : Nat, lost : BOOLEAN]

RenderTypeOK ==
  /\ call \in [Requests -> Call]
  /\ activePages \in Nat
  /\ browser \in Nat \cup {None}
  /\ launching \in BOOLEAN
  /\ connected \subseteq Nat
  /\ launched \in Nat
  /\ pending \in Seq(Requests)
  /\ faults \in Nat

\* While a launch is under way no browser runs, so the one it brings replaces none.
OneLaunch == launching => connected = {}

\* The counter of the manager is the number of callers between the increment and the finally block.
SlotsCounted == activePages = Cardinality(Holders)

AtMostMaxPages == activePages <= MaxPages

\* A request waits for one log line at a time.
LinesWaitedFor ==
  /\ \A i \in 1..Len(pending) : call[pending[i]].pc \in {"failed", "log"}
  /\ \A i, j \in 1..Len(pending) : pending[i] = pending[j] => i = j

Lost == {r \in Requests : call[r].lost}

LostAreDone == \A r \in Lost : call[r].pc = "done"

Browsers == NoBrowserForgotten /\ OneLaunch

Slots == SlotsCounted /\ AtMostMaxPages

Lines == LinesWaitedFor /\ LostAreDone /\ LogFaultsStayLocal

IInv == RenderTypeOK /\ Browsers /\ Slots /\ Lines

-----------------------------------------------------------------------------
(* One request moves on *)

HolderSteps == {"launch", "open", "work", "close"}

\* A request is moved to record c and nothing else is.
Put(r, c) == call' = [call EXCEPT ![r] = c]

\* The holders that a step of one request may add or remove.
LEMMA HoldersAfterPut ==
  ASSUME RenderTypeOK, NEW r \in Requests, NEW c \in Call, Put(r, c)
  PROVE  Holders' = IF c.pc \in HolderSteps THEN Holders \cup {r} ELSE Holders \ {r}
  BY DEF RenderTypeOK, Put, Holders, HolderSteps

\* There are finitely many holders of a slot, since there are finitely many requests.
LEMMA HoldersFinite ==
  RenderTypeOK => IsFiniteSet(Holders) /\ Cardinality(Holders) \in Nat
<1>1. Holders \subseteq Requests
  BY DEF Holders
<1>2. QED
  BY <1>1, RenderAssumption, FS_Subset, FS_CardinalityType

\* Neither entering nor leaving: the count stays.
LEMMA SlotsKept ==
  ASSUME RenderTypeOK, Slots, UNCHANGED activePages, Holders' = Holders
  PROVE  Slots'
  BY DEF Slots, SlotsCounted, AtMostMaxPages

\* A step of one request between two steps that hold, or do not hold, a slot.
LEMMA SlotsOfPut ==
  ASSUME RenderTypeOK, Slots, NEW r \in Requests, NEW c \in Call, Put(r, c), UNCHANGED activePages,
         c.pc \in HolderSteps <=> call[r].pc \in HolderSteps
  PROVE  Slots' /\ Holders' = Holders
<1>1. r \in Holders <=> c.pc \in HolderSteps
  BY DEF Holders, HolderSteps
<1>2. Holders' = Holders
  BY <1>1, HoldersAfterPut
<1>3. QED
  BY <1>2, SlotsKept

\* A request that waits for no line and has not ended moves on without writing one.
LEMMA LinesOfPut ==
  ASSUME RenderTypeOK, Lines, NEW r \in Requests, NEW c \in Call, Put(r, c), UNCHANGED logs,
         call[r].pc \notin {"failed", "log", "done"}, c.lost = FALSE
  PROVE  Lines'
<1>1. \A i \in 1..Len(pending) : pending[i] \in Requests /\ pending[i] # r
  BY ElementOfSeq DEF RenderTypeOK, Lines, LinesWaitedFor
<1>2. LinesWaitedFor'
  BY <1>1 DEF RenderTypeOK, Put, logs, Lines, LinesWaitedFor
<1>3. r \notin Lost
  BY DEF Lines, LostAreDone, Lost
<1>4. Lost' = Lost
  BY <1>3 DEF RenderTypeOK, Put, Lost
<1>5. LostAreDone'
  BY <1>3, <1>4 DEF RenderTypeOK, Put, Lines, LostAreDone, Lost
<1>6. LogFaultsStayLocal'
  BY <1>4 DEF logs, Lines, LogFaultsStayLocal, Lost
<1>7. QED
  BY <1>2, <1>5, <1>6 DEF Lines

\* It moves on and waits for a line it adds to the chain.
LEMMA LinesOfAppend ==
  ASSUME RenderTypeOK, Lines, NEW r \in Requests, NEW c \in Call, Put(r, c),
         pending' = Append(pending, r), UNCHANGED faults,
         call[r].pc \notin {"failed", "log", "done"}, c.pc \in {"failed", "log"}, c.lost = FALSE
  PROVE  Lines' /\ pending' \in Seq(Requests)
<1>1. \A i \in 1..Len(pending) : pending[i] \in Requests /\ pending[i] # r
  BY ElementOfSeq DEF RenderTypeOK, Lines, LinesWaitedFor
<1>2. /\ pending' \in Seq(Requests) /\ Len(pending) \in Nat /\ Len(pending') = Len(pending) + 1
      /\ \A i \in 1..Len(pending) : pending'[i] = pending[i]
      /\ pending'[Len(pending) + 1] = r
  BY AppendProperties, LenProperties DEF RenderTypeOK
<1>3. LinesWaitedFor'
  <2>1. \A i \in 1..Len(pending') : call'[pending'[i]].pc \in {"failed", "log"}
    BY <1>1, <1>2 DEF RenderTypeOK, Put, Lines, LinesWaitedFor
  <2>2. \A i, j \in 1..Len(pending') : pending'[i] = pending'[j] => i = j
    BY <1>1, <1>2 DEF Lines, LinesWaitedFor
  <2>3. QED
    BY <2>1, <2>2 DEF LinesWaitedFor
<1>4. r \notin Lost
  BY DEF Lines, LostAreDone, Lost
<1>5. Lost' = Lost
  BY <1>4 DEF RenderTypeOK, Put, Lost
<1>6. LostAreDone'
  BY <1>4, <1>5 DEF RenderTypeOK, Put, Lines, LostAreDone, Lost
<1>7. LogFaultsStayLocal'
  BY <1>5 DEF Lines, LogFaultsStayLocal, Lost
<1>8. QED
  BY <1>2, <1>3, <1>6, <1>7 DEF Lines

-----------------------------------------------------------------------------
(* The monitor and the logger *)

\* completeRequest and logRouteError of a request whose slot is already accounted for.
LEMMA CompleteIsAppend ==
  ASSUME RenderTypeOK, Lines, NEW r \in Requests, NEW status \in Nat, UNCHANGED faults,
         call[r].pc \notin {"failed", "log", "done"},
         Complete(r, status) \/ RouteError(r, status)
  PROVE  /\ \E c \in Call : Put(r, c) /\ c.pc \in {"failed", "log"}
         /\ pending' \in Seq(Requests)
         /\ Lines'
<1>1. PICK pc \in {"failed", "log"} : /\ call' = [call EXCEPT ![r] = [Idle EXCEPT !.pc = pc, !.status = status]]
                                      /\ pending' = Append(pending, r)
  BY DEF Complete, RouteError
<1> DEFINE c == [Idle EXCEPT !.pc = pc, !.status = status]
<1>2. c \in Call /\ c.pc \in {"failed", "log"} /\ c.lost = FALSE /\ Put(r, c)
  BY <1>1 DEF Call, Idle, Steps, Put
<1> HIDE DEF c
<1>3. QED
  BY <1>1, <1>2, LinesOfAppend

\* A request that holds no slot ends its work: only its line is new.
LEMMA CompleteIInv ==
  ASSUME IInv, NEW r \in Requests, NEW status \in Nat, call[r].pc \in {"idle", "slot"},
         Complete(r, status) \/ RouteError(r, status), UNCHANGED <<manager, world, faults>>
  PROVE  IInv' /\ Holders' = Holders
<1>1. PICK c \in Call : Put(r, c) /\ c.pc \in {"failed", "log"}
  BY CompleteIsAppend DEF IInv, manager, world
<1>2. pending' \in Seq(Requests) /\ Lines'
  BY CompleteIsAppend DEF IInv, manager, world
<1>3. RenderTypeOK'
  BY <1>1, <1>2 DEF IInv, RenderTypeOK, Put, manager, world
<1>4. Browsers'
  BY DEF IInv, Browsers, NoBrowserForgotten, OneLaunch, manager, world
<1>5. Slots' /\ Holders' = Holders
  BY <1>1, SlotsOfPut DEF IInv, HolderSteps, manager
<1>6. QED
  BY <1>2, <1>3, <1>4, <1>5 DEF IInv

\* Adding a new element keeps the elements of a sequence distinct.
LEMMA AppendDistinct ==
  ASSUME NEW S, NEW s \in Seq(S), NEW e \in S, \A i \in 1..Len(s) : s[i] # e,
         \A i, j \in 1..Len(s) : s[i] = s[j] => i = j
  PROVE  \A i, j \in 1..Len(Append(s, e)) : Append(s, e)[i] = Append(s, e)[j] => i = j
  BY AppendProperties, LenProperties

\* The head of the chain is a request that waits and has not lost a line.
LEMMA HeadWaits ==
  ASSUME RenderTypeOK, Lines, pending # <<>>
  PROVE  LET r == Head(pending) IN
           /\ r \in Requests /\ call[r].pc \in {"failed", "log"} /\ r \notin Lost
           /\ Tail(pending) \in Seq(Requests)
           /\ \A i \in 1..Len(Tail(pending)) : Tail(pending)[i] # r
<1>1. Len(pending) \in Nat /\ Len(pending) > 0 /\ Head(pending) = pending[1]
  BY EmptySeq, LenProperties DEF RenderTypeOK
<1>2. /\ Head(pending) \in Requests /\ Tail(pending) \in Seq(Requests)
      /\ Len(Tail(pending)) = Len(pending) - 1
      /\ \A i \in 1..Len(Tail(pending)) : Tail(pending)[i] = pending[i + 1]
  BY HeadTailProperties DEF RenderTypeOK
<1>3. QED
  BY <1>1, <1>2 DEF Lines, LinesWaitedFor, LostAreDone, Lost

\* What the write of the head's line leaves of the chain without that request.
LEMMA TailWaits ==
  ASSUME RenderTypeOK, Lines, pending # <<>>
  PROVE  /\ Len(Tail(pending)) \in Nat
         /\ \A i \in 1..Len(Tail(pending)) : /\ Tail(pending)[i] \in Requests
                                             /\ call[Tail(pending)[i]].pc \in {"failed", "log"}
         /\ \A i, j \in 1..Len(Tail(pending)) : Tail(pending)[i] = Tail(pending)[j] => i = j
<1>1. Len(pending) \in Nat /\ Len(pending) > 0
  BY EmptySeq, LenProperties DEF RenderTypeOK
<1>2. /\ Tail(pending) \in Seq(Requests)
      /\ Len(Tail(pending)) = Len(pending) - 1
      /\ \A i \in 1..Len(Tail(pending)) : Tail(pending)[i] = pending[i + 1]
  BY HeadTailProperties DEF RenderTypeOK
<1>3. QED
  BY <1>1, <1>2, ElementOfSeq DEF Lines, LinesWaitedFor

\* Write: the request of the line is answered, or waits for the line of its answer, or
\* is lost, and the fault that lost it is counted.
LEMMA WriteIInv ==
  ASSUME IInv, Write
  PROVE  IInv' /\ Holders' = Holders
<1> DEFINE r == Head(pending)
<1>1. RenderTypeOK /\ Lines /\ pending # <<>>
  BY DEF IInv, Write
<1>2. /\ r \in Requests /\ call[r].pc \in {"failed", "log"} /\ r \notin Lost
      /\ Tail(pending) \in Seq(Requests)
      /\ \A i \in 1..Len(Tail(pending)) : Tail(pending)[i] # r
  BY <1>1, HeadWaits
<1>3. /\ Len(Tail(pending)) \in Nat
      /\ \A i \in 1..Len(Tail(pending)) : /\ Tail(pending)[i] \in Requests
                                          /\ call[Tail(pending)[i]].pc \in {"failed", "log"}
      /\ \A i, j \in 1..Len(Tail(pending)) : Tail(pending)[i] = Tail(pending)[j] => i = j
  BY <1>1, TailWaits
<1>4. call[r] \in Call
  BY <1>1, <1>2 DEF RenderTypeOK
<1> HIDE DEF r
<1>5. Browsers'
  BY DEF IInv, Write, Browsers, NoBrowserForgotten, OneLaunch, manager, world
<1>6. CASE AfterWrite(r, FALSE) /\ faults' = faults + 1
  <2> DEFINE c == [pc |-> "done", browser |-> call[r].browser, status |-> call[r].status, sent |-> 500, lost |-> TRUE]
  <2>1. Put(r, c) /\ pending' = Tail(pending)
    BY <1>1, <1>2, <1>4, <1>6 DEF AfterWrite, Put, RenderTypeOK, Call
  <2>2. c \in Call /\ c.pc = "done" /\ c.lost = TRUE
    BY <1>4 DEF Call, Steps
  <2> HIDE DEF c
  <2>3. RenderTypeOK'
    BY <1>1, <1>2, <1>6, <2>1, <2>2 DEF RenderTypeOK, Put, Write, manager, world
  <2>4. Slots' /\ Holders' = Holders
    BY <1>1, <1>2, <2>1, <2>2, SlotsOfPut DEF IInv, HolderSteps, Write, manager
  <2>5. LinesWaitedFor'
    BY <1>1, <1>2, <1>3, <2>1 DEF LinesWaitedFor, Put, RenderTypeOK
  <2>6. Lost' = Lost \cup {r}
    BY <1>1, <1>2, <2>1, <2>2 DEF RenderTypeOK, Put, Lost
  <2>7. LostAreDone'
    BY <1>1, <1>2, <2>1, <2>2, <2>6 DEF RenderTypeOK, Put, Lines, LostAreDone, Lost
  <2>8. IsFiniteSet(Lost)
    BY RenderAssumption, FS_Subset DEF Lost
  <2>9. Cardinality(Lost \cup {r}) = Cardinality(Lost) + 1
    BY <1>2, <2>8, FS_AddElement
  <2>10. LogFaultsStayLocal'
    BY <1>1, <1>6, <2>6, <2>9 DEF Lines, LogFaultsStayLocal, Lost
  <2>11. QED
    BY <1>5, <2>3, <2>4, <2>5, <2>7, <2>10 DEF IInv, Lines
<1>7. CASE AfterWrite(r, TRUE) /\ UNCHANGED faults /\ call[r].pc = "failed"
  <2> DEFINE c == [call[r] EXCEPT !.pc = "log"]
  <2>1. Put(r, c) /\ pending' = Append(Tail(pending), r)
    BY <1>7 DEF AfterWrite, Put, Moved
  <2>2. c \in Call /\ c.pc = "log" /\ c.lost = call[r].lost
    BY <1>4 DEF Call, Steps
  <2> HIDE DEF c
  <2>3. /\ pending' \in Seq(Requests) /\ Len(pending') = Len(Tail(pending)) + 1
        /\ \A i \in 1..Len(Tail(pending)) : pending'[i] = Tail(pending)[i]
        /\ pending'[Len(Tail(pending)) + 1] = r
    BY <1>2, <2>1, AppendProperties
  <2>4. RenderTypeOK'
    BY <1>1, <1>2, <1>7, <2>1, <2>2, <2>3 DEF RenderTypeOK, Put, Write, manager, world
  <2>5. Slots' /\ Holders' = Holders
    BY <1>1, <1>2, <1>7, <2>1, <2>2, SlotsOfPut DEF IInv, HolderSteps, Write, manager
  <2>6. \A i \in 1..Len(pending') : call'[pending'[i]].pc \in {"failed", "log"}
    BY <1>1, <1>2, <1>3, <2>1, <2>2, <2>3 DEF Put, RenderTypeOK
  <2>7. \A i, j \in 1..Len(pending') : pending'[i] = pending'[j] => i = j
    BY <1>2, <1>3, <2>1, AppendDistinct
  <2>8. Lost' = Lost
    BY <1>1, <1>2, <2>1, <2>2 DEF RenderTypeOK, Put, Lost
  <2>9. LostAreDone'
    BY <1>1, <1>2, <2>1, <2>8 DEF RenderTypeOK, Put, Lines, LostAreDone, Lost
  <2>10. LogFaultsStayLocal'
    BY <1>1, <1>7, <2>8 DEF Lines, LogFaultsStayLocal, Lost
  <2>11. QED
    BY <1>5, <2>4, <2>5, <2>6, <2>7, <2>9, <2>10 DEF IInv, Lines, LinesWaitedFor
<1>8. CASE AfterWrite(r, TRUE) /\ UNCHANGED faults /\ call[r].pc = "log"
  <2> DEFINE c == [call[r] EXCEPT !.pc = "done", !.sent = call[r].status]
  <2>1. Put(r, c) /\ pending' = Tail(pending)
    BY <1>8 DEF AfterWrite, Put
  <2>2. c \in Call /\ c.pc = "done" /\ c.lost = call[r].lost
    BY <1>4 DEF Call, Steps
  <2> HIDE DEF c
  <2>3. RenderTypeOK'
    BY <1>1, <1>2, <1>8, <2>1, <2>2 DEF RenderTypeOK, Put, Write, manager, world
  <2>4. Slots' /\ Holders' = Holders
    BY <1>1, <1>2, <1>8, <2>1, <2>2, SlotsOfPut DEF IInv, HolderSteps, Write, manager
  <2>5. LinesWaitedFor'
    BY <1>1, <1>2, <1>3, <2>1 DEF LinesWaitedFor, Put, RenderTypeOK
  <2>6. Lost' = Lost
    BY <1>1, <1>2, <2>1, <2>2 DEF RenderTypeOK, Put, Lost
  <2>7. LostAreDone'
    BY <1>1, <1>2, <2>1, <2>6 DEF RenderTypeOK, Put, Lines, LostAreDone, Lost
  <2>8. LogFaultsStayLocal'
    BY <1>1, <1>8, <2>6 DEF Lines, LogFaultsStayLocal, Lost
  <2>9. QED
    BY <1>5, <2>3, <2>4, <2>5, <2>7, <2>8 DEF IInv, Lines
<1>9. QED
  BY <1>2, <1>6, <1>7, <1>8 DEF Write, r

-----------------------------------------------------------------------------
(* The handlers *)

\* A step of one request that writes no line, enters and leaves no slot and leaves the browsers alone.
LEMMA MoveIInv ==
  ASSUME IInv, NEW r \in Requests, NEW c \in Call, Put(r, c), UNCHANGED <<manager, world, logs>>,
         call[r].pc \notin {"failed", "log", "done"}, c.lost = FALSE,
         c.pc \in HolderSteps <=> call[r].pc \in HolderSteps
  PROVE  IInv' /\ Holders' = Holders
<1>1. RenderTypeOK'
  BY DEF IInv, RenderTypeOK, Put, manager, world, logs
<1>2. Browsers'
  BY DEF IInv, Browsers, NoBrowserForgotten, OneLaunch, manager, world
<1>3. Slots' /\ Holders' = Holders
  BY SlotsOfPut DEF IInv, manager
<1>4. Lines'
  BY LinesOfPut DEF IInv
<1>5. QED
  BY <1>1, <1>2, <1>3, <1>4 DEF IInv

\* A request that has not ended has lost no line.
LEMMA NotLost ==
  ASSUME IInv, NEW r \in Requests, call[r].pc # "done"
  PROVE  call[r] \in Call /\ call[r].lost = FALSE
  BY DEF IInv, RenderTypeOK, Call, Lines, LostAreDone, Lost

\* A probe is answered at once.
LEMMA ProbeIInv ==
  ASSUME IInv, NEW r \in Requests, Probe(r)
  PROVE  IInv' /\ Holders' = Holders
  BY CompleteIInv DEF Probe

\* A document goes on to the slot, or is answered without one.
LEMMA RenderCvIInv ==
  ASSUME IInv, NEW r \in Requests, NEW route \in CvCalls, NEW body \in Bodies, RenderCv(r, route, body)
  PROVE  IInv' /\ Holders' = Holders
<1> DEFINE c == [Idle EXCEPT !.pc = "slot"]
<1>1. c \in Call /\ c.lost = FALSE /\ c.pc = "slot"
  BY DEF Call, Idle, Steps
<1> HIDE DEF c
<1>2. call[r].pc = "idle" /\ UNCHANGED <<manager, world, faults>>
  BY DEF RenderCv
<1>3. CASE \E status \in Nat : Complete(r, status) \/ RouteError(r, status)
  BY <1>2, <1>3, CompleteIInv
<1>4. CASE Put(r, c) /\ UNCHANGED pending
  BY <1>1, <1>2, <1>4, MoveIInv DEF HolderSteps, logs
<1>5. QED
  BY <1>3, <1>4 DEF RenderCv, Put, c

\* Markdown is rendered without a browser.
LEMMA RenderMarkdownIInv ==
  ASSUME IInv, NEW r \in Requests, NEW route, NEW body \in Bodies, RenderMarkdown(r, route, body)
  PROVE  IInv' /\ Holders' = Holders
<1> DEFINE c == [Idle EXCEPT !.pc = "slot"]
<1>1. c \in Call /\ c.lost = FALSE /\ c.pc = "slot"
  BY DEF Call, Idle, Steps
<1> HIDE DEF c
<1>2. call[r].pc = "idle" /\ UNCHANGED <<manager, world, faults>>
  BY DEF RenderMarkdown
<1>3. CASE \E status \in Nat : Complete(r, status) \/ RouteError(r, status)
  BY <1>2, <1>3, CompleteIInv
<1>4. CASE Put(r, c) /\ UNCHANGED pending
  BY <1>1, <1>2, <1>4, MoveIInv DEF HolderSteps, logs
<1>5. QED
  BY <1>3, <1>4 DEF RenderMarkdown, Put, c

-----------------------------------------------------------------------------
(* BrowserManager *)

\* A request that has its browser and one whose work ended are requests still.
LEMMA EndedIsCall ==
  ASSUME NEW c \in Call, NEW status \in Nat
  PROVE  Ended(c, status) \in Call /\ Ended(c, status).pc = "close" /\ Ended(c, status).lost = c.lost
  BY DEF Call, Ended, Steps

\* A call that goes on to open its page keeps its line of the log.
LEMMA OpenedIsCall ==
  ASSUME NEW c \in Call, NEW b \in Nat
  PROVE  Opened(c, b) \in Call /\ Opened(c, b).pc = "open" /\ Opened(c, b).lost = c.lost
  BY DEF Call, Opened, Steps

\* The check and the increment are one step, so the limit holds after it.
LEMMA TakeSlotIInv ==
  ASSUME IInv, NEW r \in Requests, TakeSlot(r)
  PROVE  IInv' /\ r \notin Holders /\ Holders' = Holders \cup {r}
<1> DEFINE c == IF browser \in connected THEN Opened(call[r], browser)
                                         ELSE [call[r] EXCEPT !.pc = "launch"]
<1>1. call[r].pc = "slot" /\ activePages < MaxPages /\ activePages' = activePages + 1 /\ UNCHANGED logs
  BY DEF TakeSlot
<1>2. Put(r, c)
  BY DEF TakeSlot, GetBrowser, Put, Moved
<1>3. c \in Call /\ c.lost = FALSE /\ c.pc \in {"open", "launch"}
  <2>1. call[r] \in Call /\ call[r].lost = FALSE /\ browser \in Nat \cup {None}
    BY <1>1, NotLost DEF IInv, RenderTypeOK
  <2>2. CASE browser \in connected
    BY <2>1, <2>2, OpenedIsCall DEF IInv, RenderTypeOK
  <2>3. CASE browser \notin connected
    BY <2>1, <2>3 DEF Call, Steps
  <2>4. QED
    BY <2>2, <2>3
<1> HIDE DEF c
<1>4. RenderTypeOK'
  <2>1. launching' \in BOOLEAN
    BY DEF IInv, RenderTypeOK, TakeSlot, GetBrowser
  <2>2. QED
    BY <1>1, <1>2, <1>3, <2>1 DEF IInv, RenderTypeOK, Put, TakeSlot, world, logs
<1>5. Browsers'
  BY DEF IInv, Browsers, NoBrowserForgotten, OneLaunch, TakeSlot, GetBrowser, world
<1>6. r \notin Holders /\ Holders' = Holders \cup {r}
  BY <1>1, <1>2, <1>3, HoldersAfterPut DEF IInv, Holders, HolderSteps
<1>7. Slots'
  <2>1. IsFiniteSet(Holders) /\ Cardinality(Holders) \in Nat
    BY HoldersFinite DEF IInv
  <2>2. Cardinality(Holders') = Cardinality(Holders) + 1
    BY <1>6, <2>1, FS_AddElement
  <2>3. QED
    BY <1>1, <2>1, <2>2, RenderAssumption DEF IInv, Slots, SlotsCounted, AtMostMaxPages
<1>8. Lines'
  BY <1>1, <1>2, <1>3, LinesOfPut DEF IInv
<1>9. QED
  BY <1>4, <1>5, <1>6, <1>7, <1>8 DEF IInv

\* The waiters of a launch move on together, from holding a slot to holding it.
LEMMA WaitersMove ==
  ASSUME IInv, UNCHANGED <<activePages, logs>>, NEW moved \in [Requests -> Call],
         \A r \in Waiters : moved[r].pc \in {"open", "close"} /\ moved[r].lost = call[r].lost,
         call' = [r \in Requests |-> IF r \in Waiters THEN moved[r] ELSE call[r]]
  PROVE  call' \in [Requests -> Call] /\ Holders' = Holders /\ Slots' /\ Lines'
<1>1. \A r \in Requests : call[r] \in Call
  BY DEF IInv, RenderTypeOK
<1>2. \A r \in Requests : /\ call'[r] \in Call /\ call'[r].lost = call[r].lost
                          /\ r \in Waiters => call'[r].pc \in {"open", "close"}
                          /\ r \notin Waiters => call'[r] = call[r]
  BY <1>1
<1>3. call' \in [Requests -> Call]
  <2>1. \A r \in Requests : (IF r \in Waiters THEN moved[r] ELSE call[r]) \in Call
    BY <1>1
  <2>2. QED
    BY <2>1, Zenon
<1>4. Holders' = Holders
  BY <1>2 DEF Holders, Waiters
<1>5. Slots'
  BY <1>4, SlotsKept DEF IInv
<1>6. LinesWaitedFor'
  <2>1. \A i \in 1..Len(pending) : pending[i] \in Requests /\ pending[i] \notin Waiters
    BY ElementOfSeq DEF IInv, RenderTypeOK, Lines, LinesWaitedFor, Waiters
  <2>2. QED
    BY <1>2, <2>1 DEF IInv, Lines, LinesWaitedFor, logs
<1>7. Lost' = Lost
  BY <1>2 DEF Lost
<1>8. LostAreDone'
  BY <1>2, <1>7 DEF IInv, Lines, LostAreDone, Lost, Waiters
<1>9. LogFaultsStayLocal'
  BY <1>7 DEF IInv, Lines, LogFaultsStayLocal, Lost, logs
<1>10. QED
  BY <1>3, <1>4, <1>5, <1>6, <1>8, <1>9 DEF Lines

\* No browser runs while one is launched: the new one is the only one, and the one kept.
LEMMA LaunchedIInv ==
  ASSUME IInv, Launched
  PROVE  IInv' /\ Holders' = Holders
<1> DEFINE moved == [r \in Requests |-> Opened(call[r], launched + 1)]
<1>1. /\ call \in [Requests -> Call] /\ launched + 1 \in Nat
      /\ launched' = launched + 1 /\ browser' = launched + 1 /\ launching' = FALSE
      /\ connected' = connected \cup {launched + 1} /\ UNCHANGED <<activePages, logs>>
      /\ call' = [r \in Requests |-> IF r \in Waiters THEN Opened(call[r], launched + 1) ELSE call[r]]
  BY DEF IInv, RenderTypeOK, Launched
<1>2. /\ moved \in [Requests -> Call]
      /\ \A r \in Requests : moved[r].pc = "open" /\ moved[r].lost = call[r].lost
  <2>1. \A r \in Requests : call[r] \in Call
    BY <1>1
  <2>2. \A r \in Requests : /\ moved[r] \in Call
                            /\ moved[r].pc = "open" /\ moved[r].lost = call[r].lost
    BY <1>1, <2>1, OpenedIsCall
  <2>3. QED
    BY <2>2
<1>3. call' = [r \in Requests |-> IF r \in Waiters THEN moved[r] ELSE call[r]]
  BY <1>1
<1>4. Waiters \subseteq Requests
  BY DEF Waiters
<1> HIDE DEF moved
<1>5. call' \in [Requests -> Call] /\ Holders' = Holders /\ Slots' /\ Lines'
  BY <1>1, <1>2, <1>3, <1>4, WaitersMove
<1>6. RenderTypeOK'
  BY <1>1, <1>5 DEF IInv, RenderTypeOK, logs
<1>7. Browsers'
  <2>1. connected = {}
    BY DEF IInv, Browsers, OneLaunch, Launched
  <2>2. QED
    BY <1>1, <2>1 DEF Browsers, NoBrowserForgotten, OneLaunch
<1>8. QED
  BY <1>5, <1>6, <1>7 DEF IInv

\* A failed launch leaves no browser, as there was none.
LEMMA LaunchFailedIInv ==
  ASSUME IInv, LaunchFailed
  PROVE  IInv' /\ Holders' = Holders
<1> DEFINE moved == [r \in Requests |-> Ended(call[r], 500)]
<1>1. /\ call \in [Requests -> Call]
      /\ browser' = None /\ launching' = FALSE /\ UNCHANGED <<activePages, world, logs>>
      /\ call' = [r \in Requests |-> IF r \in Waiters THEN Ended(call[r], 500) ELSE call[r]]
  BY DEF IInv, RenderTypeOK, LaunchFailed
<1>2. /\ moved \in [Requests -> Call]
      /\ \A r \in Requests : moved[r].pc = "close" /\ moved[r].lost = call[r].lost
  <2>1. \A r \in Requests : call[r] \in Call
    BY <1>1
  <2>2. \A r \in Requests : /\ moved[r] \in Call
                            /\ moved[r].pc = "close" /\ moved[r].lost = call[r].lost
    BY <1>1, <2>1, EndedIsCall
  <2>3. QED
    BY <2>2
<1>3. call' = [r \in Requests |-> IF r \in Waiters THEN moved[r] ELSE call[r]]
  BY <1>1
<1>4. Waiters \subseteq Requests
  BY DEF Waiters
<1> HIDE DEF moved
<1>5. call' \in [Requests -> Call] /\ Holders' = Holders /\ Slots' /\ Lines'
  BY <1>1, <1>2, <1>3, <1>4, WaitersMove
<1>6. RenderTypeOK'
  BY <1>1, <1>5 DEF IInv, RenderTypeOK, logs, world
<1>7. Browsers'
  <2>1. connected = {}
    BY DEF IInv, Browsers, OneLaunch, LaunchFailed
  <2>2. QED
    BY <1>1, <2>1 DEF Browsers, NoBrowserForgotten, OneLaunch, world
<1>8. QED
  BY <1>5, <1>6, <1>7 DEF IInv

\* browser.newPage works or fails; the slot is kept either way.
LEMMA OpenPageIInv ==
  ASSUME IInv, NEW r \in Requests, OpenPage(r)
  PROVE  IInv' /\ Holders' = Holders
<1>1. call[r].pc = "open" /\ UNCHANGED <<manager, world, logs>>
  BY DEF OpenPage
<1>2. call[r] \in Call /\ call[r].lost = FALSE
  BY <1>1, NotLost
<1>3. CASE Put(r, Ended(call[r], 500))
  <2> DEFINE c == Ended(call[r], 500)
  <2>1. c \in Call /\ c.lost = FALSE /\ c.pc = "close"
    BY <1>2, EndedIsCall
  <2>2. Put(r, c)
    BY <1>3
  <2> HIDE DEF c
  <2>3. QED
    BY <1>1, <2>1, <2>2, MoveIInv DEF HolderSteps
<1>4. CASE Put(r, [call[r] EXCEPT !.pc = "work"])
  <2> DEFINE c == [call[r] EXCEPT !.pc = "work"]
  <2>1. c \in Call /\ c.lost = FALSE /\ c.pc = "work"
    BY <1>2 DEF Call, Steps
  <2>2. Put(r, c)
    BY <1>4
  <2> HIDE DEF c
  <2>3. QED
    BY <1>1, <2>1, <2>2, MoveIInv DEF HolderSteps
<1>5. QED
  BY <1>3, <1>4 DEF OpenPage, Moved, Put

\* A page is used by the request that holds its slot.
LEMMA UsePageIInv ==
  ASSUME IInv, NEW r \in Requests, UsePage(r)
  PROVE  IInv' /\ Holders' = Holders
<1>1. call[r].pc = "work" /\ UNCHANGED <<manager, world, logs>>
  BY DEF UsePage
<1>2. call[r] \in Call /\ call[r].lost = FALSE
  BY <1>1, NotLost
<1>3. PICK c \in {Ended(call[r], 200), Ended(call[r], 500)} : Put(r, c)
  BY DEF UsePage, Put
<1>4. c \in Call /\ c.lost = FALSE /\ c.pc = "close"
  BY <1>2, <1>3, EndedIsCall
<1>5. QED
  BY <1>1, <1>3, <1>4, MoveIInv DEF HolderSteps

\* The larger of 0 and one less than a positive number.
LEMMA MaxOfPredecessor ==
  ASSUME NEW n \in Nat, n > 0
  PROVE  Max({0, n - 1}) = n - 1
<1>1. n - 1 \in {0, n - 1} /\ \A y \in {0, n - 1} : n - 1 >= y
  OBVIOUS
<1>2. \A x \in {0, n - 1} : (\A y \in {0, n - 1} : x >= y) => x = n - 1
  OBVIOUS
<1>3. QED
  BY <1>1, <1>2 DEF Max

\* The finally block: the slot comes back exactly once.
LEMMA ClosePageIInv ==
  ASSUME IInv, NEW r \in Requests, ClosePage(r)
  PROVE  IInv' /\ r \in Holders /\ Holders' = Holders \ {r}
<1>1. /\ call[r].pc = "close" /\ activePages' = Max({0, activePages - 1})
      /\ UNCHANGED <<browser, launching, world, faults>>
      /\ Complete(r, 200) \/ RouteError(r, 500)
  BY DEF ClosePage
<1>2. PICK c \in Call : Put(r, c) /\ c.pc \in {"failed", "log"}
  BY <1>1, CompleteIsAppend DEF IInv
<1>3. pending' \in Seq(Requests) /\ Lines'
  BY <1>1, CompleteIsAppend DEF IInv
<1>4. r \in Holders /\ Holders' = Holders \ {r}
  BY <1>1, <1>2, HoldersAfterPut DEF IInv, Holders, HolderSteps
<1>5. IsFiniteSet(Holders) /\ Cardinality(Holders) \in Nat /\ Cardinality(Holders') = Cardinality(Holders) - 1
  BY <1>4, HoldersFinite, FS_RemoveElement DEF IInv
<1>6. Cardinality(Holders) > 0
  BY <1>4, <1>5, FS_EmptySet
<1>7. activePages' = activePages - 1 /\ activePages' \in Nat
  BY <1>1, <1>5, <1>6, MaxOfPredecessor DEF IInv, Slots, SlotsCounted
<1>8. RenderTypeOK'
  BY <1>1, <1>2, <1>3, <1>7 DEF IInv, RenderTypeOK, Put, world
<1>9. Browsers'
  BY <1>1 DEF IInv, Browsers, NoBrowserForgotten, OneLaunch, world
<1>10. Slots'
  BY <1>5, <1>7, RenderAssumption DEF IInv, RenderTypeOK, Slots, SlotsCounted, AtMostMaxPages
<1>11. QED
  BY <1>3, <1>4, <1>8, <1>9, <1>10 DEF IInv

\* A browser that ends was not being launched, and its late event forgets no other one.
LEMMA BrowserDiesIInv ==
  ASSUME IInv, NEW b \in 1..launched, BrowserDies(b) \/ Disconnected(b)
  PROVE  IInv' /\ Holders' = Holders
<1>1. UNCHANGED <<call, activePages, launching, launched, logs>>
  BY DEF BrowserDies, Disconnected, manager, world
<1>2. RenderTypeOK'
  BY <1>1 DEF IInv, RenderTypeOK, BrowserDies, Disconnected, manager, world, logs
<1>3. Browsers'
  BY <1>1 DEF IInv, Browsers, NoBrowserForgotten, OneLaunch, BrowserDies, Disconnected, manager, world
<1>4. Holders' = Holders
  BY <1>1 DEF Holders
<1>5. Slots'
  BY <1>1, <1>4, SlotsKept DEF IInv
<1>6. Lines'
  BY <1>1 DEF IInv, Lines, LinesWaitedFor, LostAreDone, LogFaultsStayLocal, Lost, logs
<1>7. QED
  BY <1>2, <1>3, <1>4, <1>5, <1>6 DEF IInv

-----------------------------------------------------------------------------
(* The specification *)

\* At the start no slot is held.
LEMMA InitIInv == Init => IInv
<1> SUFFICES ASSUME Init PROVE IInv
  OBVIOUS
<1>1. Idle \in Call /\ Idle.pc = "idle" /\ Idle.lost = FALSE
  BY DEF Call, Idle, Steps
<1>2. \A r \in Requests : call[r] = Idle
  BY DEF Init
<1>3. RenderTypeOK
  BY <1>1, EmptySeq DEF Init, RenderTypeOK
<1>4. Browsers
  BY DEF Init, Browsers, NoBrowserForgotten, OneLaunch
<1>5. Holders = {} /\ Lost = {}
  BY <1>1, <1>2 DEF Holders, Lost
<1>6. Slots
  BY <1>5, FS_EmptySet, RenderAssumption DEF Init, Slots, SlotsCounted, AtMostMaxPages
<1>7. LinesWaitedFor
  <2>1. pending \in Seq(Requests) /\ Len(pending) = 0
    BY EmptySeq DEF Init
  <2>2. QED
    BY <2>1 DEF LinesWaitedFor
<1>8. LostAreDone /\ LogFaultsStayLocal
  BY <1>5, FS_EmptySet DEF Init, LostAreDone, LogFaultsStayLocal, Lost
<1>9. QED
  BY <1>3, <1>4, <1>6, <1>7, <1>8 DEF IInv, Lines

\* Together, one case per action.
LEMMA NextIInv == IInv /\ [Next]_vars => IInv'
<1> SUFFICES ASSUME IInv, [Next]_vars PROVE IInv'
  OBVIOUS
<1>1. CASE Write
  BY <1>1, WriteIInv
<1>2. CASE Launched
  BY <1>2, LaunchedIInv
<1>3. CASE LaunchFailed
  BY <1>3, LaunchFailedIInv
<1>4. CASE \E r \in Requests : Probe(r)
  BY <1>4, ProbeIInv
<1>5. CASE \E r \in Requests : TakeSlot(r)
  BY <1>5, TakeSlotIInv
<1>6. CASE \E r \in Requests : OpenPage(r)
  BY <1>6, OpenPageIInv
<1>7. CASE \E r \in Requests : UsePage(r)
  BY <1>7, UsePageIInv
<1>8. CASE \E r \in Requests : ClosePage(r)
  BY <1>8, ClosePageIInv
<1>9. CASE \E r \in Requests, body \in Bodies, route \in CvCalls : RenderCv(r, route, body)
  BY <1>9, RenderCvIInv
<1>10. CASE \E r \in Requests, body \in Bodies, route \in {"preview", "markdown"} : RenderMarkdown(r, route, body)
  BY <1>10, RenderMarkdownIInv
<1>11. CASE \E b \in 1..launched : BrowserDies(b) \/ Disconnected(b)
  BY <1>11, BrowserDiesIInv
<1>12. CASE UNCHANGED vars
  BY <1>12 DEF IInv, RenderTypeOK, Browsers, NoBrowserForgotten, OneLaunch, Slots, SlotsCounted, AtMostMaxPages,
               Holders, Lines, LinesWaitedFor, LostAreDone, LogFaultsStayLocal, Lost, vars
<1>13. QED
  BY <1>1, <1>2, <1>3, <1>4, <1>5, <1>6, <1>7, <1>8, <1>9, <1>10, <1>11, <1>12 DEF Next, Work

\* The slots, the browsers and the lines of the log agree with what the requests are doing.
THEOREM RenderInductive == Spec => []IInv
  BY InitIInv, NextIInv, PTL DEF Spec

\* No interleaving of shared launches, failed launches, deaths and late events leaves
\* a browser running that the manager does not know.
THEOREM BrowsersAreKnown == Spec => []NoBrowserForgotten
<1>1. IInv => NoBrowserForgotten
  BY DEF IInv, Browsers
<1>2. QED
  BY <1>1, RenderInductive, PTL

\* Every failed log write costs the answer of exactly one request.
THEOREM LostLinesAreCounted == Spec => []LogFaultsStayLocal
<1>1. IInv => LogFaultsStayLocal
  BY DEF IInv, Lines
<1>2. QED
  BY <1>1, RenderInductive, PTL

\* No more callers between the check of a slot and the finally block than there are slots.
THEOREM SlotsAreBounded == Spec => [](Cardinality(Holders) <= MaxPages)
<1>1. IInv => Cardinality(Holders) <= MaxPages
  BY DEF IInv, Slots, SlotsCounted, AtMostMaxPages
<1>2. QED
  BY <1>1, RenderInductive, PTL

-----------------------------------------------------------------------------
(* The pool *)

\* A step of the renderer is a step of the pool, or none of its business.
LEMMA StepOfPool ==
  ASSUME IInv, [Next]_vars
  PROVE  [Pool!Next]_Holders
<1>1. CASE \E r \in Requests : TakeSlot(r)
  <2>1. PICK r \in Requests : TakeSlot(r)
    BY <1>1
  <2>2. r \notin Holders /\ Holders' = Holders \cup {r}
    BY <2>1, TakeSlotIInv
  <2>3. Cardinality(Holders) < MaxPages
    BY <2>1 DEF TakeSlot, IInv, Slots, SlotsCounted
  <2>4. Pool!Acquire(r)
    BY <2>2, <2>3 DEF Pool!Acquire, Pool!Cardinality, Cardinality
  <2>5. QED
    BY <2>4 DEF Pool!Next
<1>2. CASE \E r \in Requests : ClosePage(r)
  <2>1. PICK r \in Requests : ClosePage(r)
    BY <1>2
  <2>2. r \in Holders /\ Holders' = Holders \ {r}
    BY <2>1, ClosePageIInv
  <2>3. QED
    BY <2>2 DEF Pool!Next, Pool!Release
<1>3. CASE Write \/ Launched \/ LaunchFailed
  BY <1>3, WriteIInv, LaunchedIInv, LaunchFailedIInv
<1>4. CASE \E r \in Requests : Probe(r) \/ OpenPage(r) \/ UsePage(r)
  BY <1>4, ProbeIInv, OpenPageIInv, UsePageIInv
<1>5. CASE \E r \in Requests, body \in Bodies, route \in CvCalls : RenderCv(r, route, body)
  BY <1>5, RenderCvIInv
<1>6. CASE \E r \in Requests, body \in Bodies, route \in {"preview", "markdown"} : RenderMarkdown(r, route, body)
  BY <1>6, RenderMarkdownIInv
<1>7. CASE \E b \in 1..launched : BrowserDies(b) \/ Disconnected(b)
  BY <1>7, BrowserDiesIInv
<1>8. CASE UNCHANGED vars
  BY <1>8 DEF Holders, vars
<1>9. QED
  BY <1>1, <1>2, <1>3, <1>4, <1>5, <1>6, <1>7, <1>8 DEF Next, Work

\* The browser manager implements the pool of slots, its fairness aside: whatever the
\* launches, the browsers, the pages and the log do, callers enter one by one while there
\* is room, and each one that leaves was in.
THEOREM ManagerIsAPool == Spec => Pool!Init /\ [][Pool!Next]_Holders
<1>1. Init => Pool!Init
  BY DEF Init, Idle, Holders, Pool!Init
<1>2. IInv /\ [Next]_vars => [Pool!Next]_Holders
  BY StepOfPool
<1>3. QED
  BY <1>1, <1>2, RenderInductive, PTL DEF Spec

=============================================================================
