----------------------- MODULE OptimizePipelineProofs -----------------------
(***************************************************************************)
(* The event bus of the optimisation pipeline hands out events in order    *)
(* and at most once, a sole reader misses none of them, and a run announces*)
(* one outcome, for any number of streams and iterations.                  *)
(***************************************************************************)
EXTENDS OptimizePipeline, SequenceTheorems, TLAPS

-----------------------------------------------------------------------------
(* The inductive invariant *)

\* A node that has yet to draft may start one more iteration.
Unfinished == {"none", "queued", "retrieving", "draft", "drafting"}

\* The thread exists once the coroutine has handed the workflow over.
RunOK ==
  /\ pipe \in [pc: PipeSteps, resume: BOOLEAN, insight: BOOLEAN]
  /\ worker \in [pc: WorkerSteps, iterations: 0..MaxIterations]
  /\ fault \in BOOLEAN
  /\ worker.pc \in Unfinished => worker.iterations < MaxIterations
  /\ pipe.pc \notin {"invoke", "over"} => worker.pc = "none"

Increasing(s) == \A i, j \in 1..Len(s) : i < j => s[i] < s[j]

\* What is still queued is in order, and newer than all that was delivered.
BusOK ==
  /\ registered \in BOOLEAN
  /\ emitted \in Seq(Kinds)
  /\ queue \in Seq(1..Len(emitted))
  /\ delivered \in Seq(1..Len(emitted))
  /\ Increasing(delivered) /\ Increasing(queue)
  /\ \A i \in 1..Len(delivered), j \in 1..Len(queue) : delivered[i] < queue[j]

All(n) == [i \in 1..n |-> i]

\* Nobody but s has ever connected, and s is there or has yet to come.
Sole(s) ==
  /\ streams[s].here \/ streams[s].pc = "off"
  /\ \A t \in Streams \ {s} : streams[t].pc = "off"

\* The queue of a run nobody listened to holds everything, for its first reader.
ReadersOK ==
  /\ streams \in [Streams -> [pc: StreamSteps, here: BOOLEAN]]
  /\ \A s \in Streams : streams[s].pc = "ended" => ~ registered
  /\ \A s \in Streams : streams[s].here => streams[s].pc \in {"open", "terminal"}
  /\ \A s \in Streams : registered /\ Sole(s) => delivered \o queue = All(Len(emitted))

\* Before the run is submitted there is nothing.
Untouched ==
  /\ ~ registered
  /\ emitted = <<>> /\ queue = <<>> /\ delivered = <<>>
  /\ \A s \in Streams : streams[s].pc = "off" /\ ~ streams[s].here

FreshOK == pipe.pc = "none" => Untouched

\* An outcome ends the coroutine; a success ends the thread too, so nothing follows it.
OutcomeOK ==
  /\ \A i \in 1..Len(emitted) : emitted[i] \in Terminal =>
       /\ pipe.pc = "over"
       /\ \A j \in 1..Len(emitted) : emitted[j] \in Terminal => i = j
       /\ emitted[i] = "done" => i = Len(emitted) /\ worker.pc = "returned"
  /\ worker.pc = "returned" => \E j \in 1..Len(emitted) : emitted[j] = "job_result"

IInv == RunOK /\ BusOK /\ ReadersOK /\ FreshOK /\ OutcomeOK

\* It implies what the runs check.
LEMMA IInvImplies ==
  IInv => TypeOK /\ OrderedAndOnce /\ SoleReaderMissesNothing /\ OneOutcome /\ EndedStreamsLeaveNoQueue
<1> SUFFICES ASSUME IInv
             PROVE  TypeOK /\ OrderedAndOnce /\ SoleReaderMissesNothing /\ OneOutcome /\ EndedStreamsLeaveNoQueue
  OBVIOUS
<1>1. TypeOK
  BY DEF IInv, RunOK, BusOK, ReadersOK, TypeOK
<1>2. OrderedAndOnce
  BY DEF IInv, BusOK, Increasing, OrderedAndOnce
<1>3. SoleReaderMissesNothing
  BY DEF IInv, ReadersOK, Sole, All, SoleReaderMissesNothing
<1>4. OneOutcome
  BY DEF IInv, OutcomeOK, OneOutcome
<1>5. EndedStreamsLeaveNoQueue
  BY DEF IInv, ReadersOK, EndedStreamsLeaveNoQueue
<1>6. QED
  BY <1>1, <1>2, <1>3, <1>4, <1>5

-----------------------------------------------------------------------------
(* The event bus *)

\* A sequence of numbers up to n is one of numbers up to any m that is no less.
LEMMA SeqWiden ==
  ASSUME NEW n \in Nat, NEW m \in Nat, n <= m, NEW s \in Seq(1..n)
  PROVE  s \in Seq(1..m) /\ s \in Seq(Nat) /\ Len(s) \in Nat /\ \A i \in 1..Len(s) : s[i] \in 1..n
<1>1. 1..n \subseteq 1..m /\ 1..n \subseteq Nat
  OBVIOUS
<1>2. s \in Seq(1..m) /\ s \in Seq(Nat)
  BY <1>1, SeqMonotonic, Zenon
<1>3. QED
  BY <1>2, LenProperties, ElementOfSeq

\* What emit appends, and to what.
LEMMA EmitAppends ==
  ASSUME BusOK, NEW kinds \in Seq(Kinds), Emit(kinds)
  PROVE  /\ emitted' \in Seq(Kinds)
         /\ Len(emitted') = Len(emitted) + Len(kinds)
         /\ \A i \in 1..Len(emitted) : emitted'[i] = emitted[i]
         /\ \A i \in 1..Len(kinds) : emitted'[Len(emitted) + i] = kinds[i]
         /\ \A i \in 1..Len(emitted') : i <= Len(emitted) \/ emitted'[i] = kinds[i - Len(emitted)]
<1>1. emitted \in Seq(Kinds) /\ emitted' = emitted \o kinds
  BY DEF BusOK, Emit
<1>2. QED
  BY <1>1, ConcatProperties, LenProperties

\* The numbers that emit adds to a queue.
News(kinds) == [i \in 1..Len(kinds) |-> Len(emitted) + i]

\* What a step emits is numbered on from what was emitted.
LEMMA NewsTyped ==
  ASSUME BusOK, NEW kinds \in Seq(Kinds)
  PROVE  /\ News(kinds) \in Seq(1..(Len(emitted) + Len(kinds))) /\ Len(News(kinds)) = Len(kinds)
         /\ \A i \in 1..Len(kinds) : News(kinds)[i] = Len(emitted) + i
<1>1. Len(emitted) \in Nat /\ Len(kinds) \in Nat
  BY LenProperties DEF BusOK
<1>2. News(kinds) \in [1..Len(kinds) -> 1..(Len(emitted) + Len(kinds))]
  BY <1>1 DEF News
<1>3. QED
  BY <1>1, <1>2 DEF News

\* A concatenation, without a case distinction.
LEMMA Joined ==
  ASSUME NEW S, NEW s \in Seq(S), NEW t \in Seq(S)
  PROVE  /\ s \o t \in Seq(S)
         /\ Len(s) \in Nat /\ Len(t) \in Nat /\ Len(s \o t) = Len(s) + Len(t)
         /\ \A i \in 1..Len(s) : (s \o t)[i] = s[i]
         /\ \A i \in 1..Len(s \o t) : i > Len(s) => i - Len(s) \in 1..Len(t) /\ (s \o t)[i] = t[i - Len(s)]
<1>1. Len(s) \in Nat /\ Len(t) \in Nat
  BY LenProperties, Zenon
<1>2. /\ s \o t \in Seq(S) /\ Len(s \o t) = Len(s) + Len(t)
      /\ \A i \in 1..(Len(s) + Len(t)) : (s \o t)[i] = IF i <= Len(s) THEN s[i] ELSE t[i - Len(s)]
  BY ConcatProperties, Zenon
<1> DEFINE u == s \o t
<1> HIDE DEF u
<1>3. /\ Len(u) = Len(s) + Len(t)
      /\ \A i \in 1..(Len(s) + Len(t)) : u[i] = IF i <= Len(s) THEN s[i] ELSE t[i - Len(s)]
  BY <1>2 DEF u
<1>4. \A i \in 1..Len(s) : u[i] = s[i]
  BY <1>1, <1>3
<1>5. \A i \in 1..Len(u) : i > Len(s) => i - Len(s) \in 1..Len(t) /\ u[i] = t[i - Len(s)]
  BY <1>1, <1>3
<1>6. QED
  BY <1>1, <1>2, <1>4, <1>5 DEF u

\* Concatenation of sequences of numbers is associative.
LEMMA NumbersAssociate ==
  ASSUME NEW s \in Seq(Nat), NEW t \in Seq(Nat), NEW u \in Seq(Nat)
  PROVE  (s \o t) \o u = s \o (t \o u)
BY ConcatAssociative

\* The queue with the new numbers: in order, and above all that was delivered.
LEMMA QueueGrows ==
  ASSUME NEW n \in Nat, NEW k \in Nat, NEW d \in Seq(1..n), NEW q \in Seq(1..n), NEW new \in Seq(1..(n + k)),
         Increasing(q), \A i \in 1..Len(d), j \in 1..Len(q) : d[i] < q[j],
         \A i \in 1..Len(new) : new[i] = n + i
  PROVE  /\ q \o new \in Seq(1..(n + k)) /\ Increasing(q \o new)
         /\ \A i \in 1..Len(d), j \in 1..Len(q \o new) : d[i] < (q \o new)[j]
<1> DEFINE u == q \o new
<1>1. q \in Seq(1..(n + k)) /\ Len(q) \in Nat /\ \A i \in 1..Len(q) : q[i] \in 1..n
  BY SeqWiden
<1>2. Len(d) \in Nat /\ \A i \in 1..Len(d) : d[i] \in 1..n
  BY SeqWiden
<1>3. /\ u \in Seq(1..(n + k)) /\ Len(new) \in Nat /\ Len(u) = Len(q) + Len(new)
      /\ \A i \in 1..Len(q) : u[i] = q[i]
      /\ \A i \in 1..Len(u) : i > Len(q) => i - Len(q) \in 1..Len(new) /\ u[i] = new[i - Len(q)]
  BY <1>1, Joined, Zenon
<1> HIDE DEF u
<1>4. \A i \in 1..Len(u) : \/ i \in 1..Len(q) /\ u[i] = q[i]
                           \/ i > Len(q) /\ u[i] = n + (i - Len(q))
  <2> SUFFICES ASSUME NEW i \in 1..Len(u)
               PROVE  \/ i \in 1..Len(q) /\ u[i] = q[i]
                      \/ i > Len(q) /\ u[i] = n + (i - Len(q))
    OBVIOUS
  <2>1. CASE i > Len(q)
    <3>1. i - Len(q) \in 1..Len(new) /\ u[i] = new[i - Len(q)]
      BY <1>3, <2>1
    <3>2. QED
      BY <2>1, <3>1
  <2>2. CASE ~ (i > Len(q))
    <3>1. i \in 1..Len(q)
      BY <1>1, <1>3, <2>2
    <3>2. QED
      BY <1>3, <3>1
  <2>3. QED
    BY <2>1, <2>2
<1>5. Increasing(u)
  <2> SUFFICES ASSUME NEW i \in 1..Len(u), NEW j \in 1..Len(u), i < j
               PROVE  u[i] < u[j]
    BY DEF Increasing
  <2>1. i \in Nat /\ j \in Nat /\ n \in Nat /\ Len(q) \in Nat
    BY <1>1, <1>3
  <2>2. CASE i \in 1..Len(q) /\ j \in 1..Len(q)
    <3>1. u[i] = q[i] /\ u[j] = q[j] /\ q[i] < q[j]
      BY <1>3, <2>2 DEF Increasing
    <3>2. QED
      BY <3>1
  <2>3. CASE i \in 1..Len(q) /\ j > Len(q)
    <3>1. u[i] = q[i] /\ q[i] \in 1..n /\ u[j] = n + (j - Len(q))
      <4>1. u[i] = q[i] /\ q[i] \in 1..n
        BY <1>1, <1>3, <2>3
      <4>2. ~ (j \in 1..Len(q))
        BY <2>1, <2>3
      <4>3. QED
        BY <1>4, <4>1, <4>2
    <3>2. QED
      BY <2>1, <2>3, <3>1
  <2>4. CASE i > Len(q) /\ j > Len(q)
    <3>1. u[i] = n + (i - Len(q)) /\ u[j] = n + (j - Len(q))
      BY <1>4, <2>1, <2>4
    <3>2. QED
      BY <2>1, <3>1
  <2>5. QED
    BY <1>4, <2>1, <2>2, <2>3, <2>4
<1>6. \A i \in 1..Len(d), j \in 1..Len(u) : d[i] < u[j]
  <2> SUFFICES ASSUME NEW i \in 1..Len(d), NEW j \in 1..Len(u)
               PROVE  d[i] < u[j]
    OBVIOUS
  <2>1. d[i] \in 1..n
    BY <1>2
  <2>2. CASE j \in 1..Len(q)
    BY <1>3, <2>2
  <2>3. CASE j > Len(q)
    <3>1. u[j] = n + (j - Len(q)) /\ j \in Nat /\ Len(q) \in Nat
      BY <1>1, <1>3, <1>4, <2>3
    <3>2. QED
      BY <2>1, <2>3, <3>1
  <2>4. QED
    BY <1>4, <2>2, <2>3
<1>7. QED
  BY <1>3, <1>5, <1>6 DEF u

\* An emission keeps the bus in order: its numbers are larger than all before.
LEMMA EmitBus ==
  ASSUME BusOK, NEW kinds \in Seq(Kinds), Emit(kinds), UNCHANGED <<registered, delivered>>
  PROVE  BusOK'
<1> DEFINE n == Len(emitted)
           k == Len(kinds)
<1>1. emitted' \in Seq(Kinds) /\ Len(emitted') = n + k /\ n \in Nat /\ k \in Nat /\ n + k \in Nat /\ n <= n + k
  BY EmitAppends, LenProperties DEF BusOK
<1>2. News(kinds) \in Seq(1..(n + k)) /\ \A i \in 1..Len(News(kinds)) : News(kinds)[i] = n + i
  BY NewsTyped
<1>3. queue' = IF registered THEN queue \o News(kinds) ELSE queue
  BY DEF Emit, News
<1>4. delivered \in Seq(1..n) /\ queue \in Seq(1..n) /\ delivered' = delivered
  BY DEF BusOK
<1>5. delivered \in Seq(1..(n + k)) /\ queue \in Seq(1..(n + k))
  BY <1>1, <1>4, SeqWiden
<1>6. CASE registered
  <2>1. /\ queue' \in Seq(1..(n + k)) /\ Increasing(queue')
        /\ \A i \in 1..Len(delivered), j \in 1..Len(queue') : delivered[i] < queue'[j]
    <3>1. Increasing(queue) /\ \A i \in 1..Len(delivered), j \in 1..Len(queue) : delivered[i] < queue[j]
      BY DEF BusOK
    <3> HIDE DEF n, k
    <3>2. queue' = queue \o News(kinds)
      BY <1>3, <1>6
    <3>3. QED
      BY <1>1, <1>2, <1>4, <3>1, <3>2, QueueGrows
  <2>2. QED
    BY <1>1, <1>4, <1>5, <2>1 DEF BusOK
<1>7. CASE ~ registered
  BY <1>1, <1>3, <1>4, <1>5, <1>7 DEF BusOK
<1>8. QED
  BY <1>6, <1>7

\* The first n numbers.
LEMMA AllTyped ==
  ASSUME NEW n \in Nat
  PROVE  All(n) \in Seq(Nat) /\ Len(All(n)) = n /\ \A i \in 1..n : All(n)[i] = i
<1>1. All(n) \in [1..n -> Nat]
  BY DEF All
<1>2. QED
  BY <1>1 DEF All

\* The first n numbers and the next k.
LEMMA AllGrows ==
  ASSUME NEW n \in Nat, NEW k \in Nat, NEW new \in Seq(Nat), Len(new) = k,
         \A i \in 1..k : new[i] = n + i
  PROVE  All(n) \o new = All(n + k)
<1> DEFINE u == All(n) \o new
<1>1. All(n) \in Seq(Nat) /\ Len(All(n)) = n /\ \A i \in 1..n : All(n)[i] = i
  BY AllTyped
<1> DEFINE a == All(n)
<1> HIDE DEF a
<1>0. a \in Seq(Nat) /\ Len(a) = n /\ \A i \in 1..n : a[i] = i
  BY <1>1 DEF a
<1>2. /\ u \in Seq(Nat) /\ Len(u) = n + k
      /\ \A i \in 1..n : u[i] = i
      /\ \A i \in 1..Len(u) : i > n => i - n \in 1..k /\ u[i] = new[i - n]
  <2>1. /\ a \o new \in Seq(Nat) /\ Len(a \o new) = Len(a) + Len(new)
        /\ \A i \in 1..Len(a) : (a \o new)[i] = a[i]
        /\ \A i \in 1..Len(a \o new) : i > Len(a) => i - Len(a) \in 1..Len(new) /\ (a \o new)[i] = new[i - Len(a)]
    <3>1. a \in Seq(Nat) /\ new \in Seq(Nat)
      BY <1>0
    <3>2. \A S : \A x, y \in Seq(S) :
            /\ x \o y \in Seq(S) /\ Len(x \o y) = Len(x) + Len(y)
            /\ \A i \in 1..Len(x) : (x \o y)[i] = x[i]
            /\ \A i \in 1..Len(x \o y) : i > Len(x) => i - Len(x) \in 1..Len(y) /\ (x \o y)[i] = y[i - Len(x)]
      BY Joined, Zenon
    <3> HIDE DEF u
    <3>3. QED
      BY <3>1, <3>2
  <2>2. u = a \o new
    BY DEF a
  <2> HIDE DEF u
  <2>3. QED
    BY <1>0, <2>1, <2>2
<1>3. n + k \in Nat /\ All(n + k) \in Seq(Nat) /\ Len(All(n + k)) = n + k /\ \A i \in 1..(n + k) : All(n + k)[i] = i
  BY AllTyped
<1> HIDE DEF u
<1>4. Len(u) = n + k /\ \A i \in 1..Len(u) : u[i] = i
  <2> SUFFICES ASSUME NEW i \in 1..Len(u)
               PROVE  u[i] = i
    BY <1>2
  <2>1. CASE i > n
    BY <1>2, <2>1
  <2>2. CASE ~ (i > n)
    BY <1>2, <2>2
  <2>3. QED
    BY <2>1, <2>2
<1>5. u = All(n + k)
  BY <1>2, <1>3, <1>4, SeqEqual
<1>6. QED
  BY <1>5 DEF u

\* What is emitted into a registered queue is there for a sole reader.
LEMMA EmitReaders ==
  ASSUME BusOK, ReadersOK, NEW kinds \in Seq(Kinds), Emit(kinds), UNCHANGED <<registered, streams, delivered>>
  PROVE  ReadersOK'
<1>1. Len(emitted') = Len(emitted) + Len(kinds)
  BY EmitAppends
<1>2. ASSUME NEW s \in Streams, registered, Sole(s)
      PROVE  delivered \o queue' = All(Len(emitted'))
  <2>1. queue' = queue \o News(kinds)
    BY <1>2 DEF Emit, News
  <2>2. delivered \o queue = All(Len(emitted))
    BY <1>2 DEF ReadersOK
  <2>3. Len(emitted) \in Nat /\ Len(kinds) \in Nat /\ Len(emitted) + Len(kinds) \in Nat
    BY LenProperties DEF BusOK
  <2>4. delivered \in Seq(Nat) /\ queue \in Seq(Nat)
    BY <2>3, SeqWiden DEF BusOK
  <2>5. News(kinds) \in Seq(Nat) /\ Len(News(kinds)) = Len(kinds)
        /\ \A i \in 1..Len(kinds) : News(kinds)[i] = Len(emitted) + i
    BY <2>3, NewsTyped, SeqWiden
  <2>6. (delivered \o queue) \o News(kinds) = delivered \o (queue \o News(kinds))
    BY <2>4, <2>5, NumbersAssociate
  <2>7. All(Len(emitted)) \o News(kinds) = All(Len(emitted) + Len(kinds))
    BY <2>3, <2>5, AllGrows
  <2>8. QED
    BY <1>1, <2>1, <2>2, <2>6, <2>7, Zenon
<1>3. QED
  BY <1>2 DEF ReadersOK, Sole

-----------------------------------------------------------------------------
(* The outcome *)

\* While the coroutine runs nothing is announced; a success was announced only if
\* the thread has returned.
LEMMA NothingYet ==
  ASSUME OutcomeOK
  PROVE  /\ pipe.pc # "over" => \A i \in 1..Len(emitted) : emitted[i] \notin Terminal
         /\ worker.pc # "returned" => \A i \in 1..Len(emitted) : emitted[i] # "done"
<1>1. "done" \in Terminal
  BY DEF Terminal
<1>2. QED
  BY <1>1 DEF OutcomeOK

\* Emitting progress leaves the outcome as it was.
LEMMA Progress ==
  ASSUME IInv, NEW kinds \in Seq(Kinds), Emit(kinds),
         \A i \in 1..Len(kinds) : kinds[i] \notin Terminal,
         pipe.pc = "over" => pipe'.pc = "over" /\ worker.pc # "returned",
         worker'.pc = "returned" => worker.pc = "returned" \/ \E i \in 1..Len(kinds) : kinds[i] = "job_result"
  PROVE  OutcomeOK'
<1> DEFINE n == Len(emitted)
<1>1. /\ n \in Nat /\ Len(kinds) \in Nat /\ Len(emitted') = n + Len(kinds)
      /\ \A i \in 1..n : emitted'[i] = emitted[i]
      /\ \A i \in 1..Len(kinds) : emitted'[n + i] = kinds[i]
      /\ \A i \in 1..Len(emitted') : i <= n \/ emitted'[i] = kinds[i - n]
  BY EmitAppends, LenProperties DEF IInv, BusOK
<1>2. OutcomeOK
  BY DEF IInv
<1>3. \A i \in 1..n : emitted[i] # "done"
  <2>1. "done" \in Terminal
    BY DEF Terminal
  <2>2. CASE pipe.pc = "over"
    BY <1>2, <2>2, NothingYet
  <2>3. CASE pipe.pc # "over"
    BY <1>2, <2>1, <2>3, NothingYet
  <2>4. QED
    BY <2>2, <2>3
<1>4. pipe.pc # "over" => \A i \in 1..n : emitted[i] \notin Terminal
  BY <1>2, NothingYet
<1>5. \A i \in 1..Len(emitted') : emitted'[i] \in Terminal => i \in 1..n /\ emitted[i] \in Terminal
  <2> SUFFICES ASSUME NEW i \in 1..Len(emitted'), emitted'[i] \in Terminal
               PROVE  i \in 1..n /\ emitted[i] \in Terminal
    OBVIOUS
  <2>1. CASE i <= n
    BY <1>1, <2>1
  <2>2. CASE ~ (i <= n)
    <3>1. i - n \in 1..Len(kinds) /\ emitted'[i] = kinds[i - n]
      BY <1>1, <2>2
    <3>2. QED
      BY <3>1
  <2>3. QED
    BY <2>1, <2>2
<1>6. ASSUME NEW i \in 1..Len(emitted'), emitted'[i] \in Terminal
      PROVE  /\ pipe'.pc = "over"
             /\ \A j \in 1..Len(emitted') : emitted'[j] \in Terminal => i = j
             /\ emitted'[i] # "done"
  BY <1>1, <1>2, <1>3, <1>4, <1>5, <1>6 DEF OutcomeOK
<1>7. worker'.pc = "returned" => \E j \in 1..Len(emitted') : emitted'[j] = "job_result"
  <2>1. CASE worker.pc = "returned"
    <3>1. PICK j \in 1..n : emitted[j] = "job_result"
      BY <1>2, <2>1 DEF OutcomeOK
    <3>2. j \in 1..Len(emitted') /\ emitted'[j] = "job_result"
      BY <1>1, <3>1
    <3>3. QED
      BY <3>2
  <2>2. ASSUME NEW i \in 1..Len(kinds), kinds[i] = "job_result"
        PROVE  \E j \in 1..Len(emitted') : emitted'[j] = "job_result"
    <3>1. n + i \in 1..Len(emitted') /\ emitted'[n + i] = "job_result"
      BY <1>1, <2>2
    <3>2. QED
      BY <3>1
  <2>3. QED
    BY <2>1, <2>2
<1>8. QED
  BY <1>6, <1>7 DEF OutcomeOK

\* The coroutine announces its one outcome when it ends.
LEMMA Announce ==
  ASSUME IInv, NEW kinds \in Seq(Kinds), Emit(kinds), pipe.pc # "over", pipe'.pc = "over",
         \A i \in 1..Len(kinds) : kinds[i] \in Terminal =>
           i = Len(kinds) /\ (kinds[i] = "done" => worker'.pc = "returned"),
         worker'.pc = "returned" => worker.pc = "returned"
  PROVE  OutcomeOK'
<1> DEFINE n == Len(emitted)
<1>1. /\ n \in Nat /\ Len(kinds) \in Nat /\ Len(emitted') = n + Len(kinds)
      /\ \A i \in 1..n : emitted'[i] = emitted[i]
      /\ \A i \in 1..Len(emitted') : i <= n \/ emitted'[i] = kinds[i - n]
  BY EmitAppends, LenProperties DEF IInv, BusOK
<1>2. OutcomeOK /\ \A i \in 1..n : emitted[i] \notin Terminal
  BY NothingYet DEF IInv
<1>3. \A i \in 1..Len(emitted') : emitted'[i] \in Terminal =>
        i = Len(emitted') /\ (emitted'[i] = "done" => worker'.pc = "returned")
  <2> SUFFICES ASSUME NEW i \in 1..Len(emitted'), emitted'[i] \in Terminal
               PROVE  i = Len(emitted') /\ (emitted'[i] = "done" => worker'.pc = "returned")
    OBVIOUS
  <2>1. ~ (i <= n)
    BY <1>1, <1>2
  <2>2. i - n \in 1..Len(kinds) /\ emitted'[i] = kinds[i - n]
    BY <1>1, <2>1
  <2>3. QED
    BY <1>1, <2>2
<1>4. worker'.pc = "returned" => \E j \in 1..Len(emitted') : emitted'[j] = "job_result"
  <2> SUFFICES ASSUME worker'.pc = "returned"
               PROVE  \E j \in 1..Len(emitted') : emitted'[j] = "job_result"
    OBVIOUS
  <2>1. PICK j \in 1..n : emitted[j] = "job_result"
    BY <1>2 DEF OutcomeOK
  <2>2. j \in 1..Len(emitted') /\ emitted'[j] = "job_result"
    BY <1>1, <2>1
  <2>3. QED
    BY <2>2
<1>5. QED
  BY <1>3, <1>4 DEF OutcomeOK

-----------------------------------------------------------------------------
(* The coroutine and the thread *)

\* What an emission leaves to show: the outcome, and where the actors are.
LEMMA EmitStep ==
  ASSUME IInv, NEW kinds \in Seq(Kinds), Emit(kinds), UNCHANGED <<registered, streams, delivered>>,
         pipe'.pc # "none", RunOK', OutcomeOK'
  PROVE  IInv'
BY EmitBus, EmitReaders DEF IInv, FreshOK

\* What the steps emit as they go on, and as they end.
LEMMA OneKind ==
  ASSUME NEW a \in Kinds \ Terminal
  PROVE  <<a>> \in Seq(Kinds) /\ \A i \in 1..Len(<<a>>) : <<a>>[i] \notin Terminal
OBVIOUS

\* The sequences of kinds that the steps emit, none of them final,
LEMMA TwoKinds ==
  ASSUME NEW a \in Kinds \ Terminal, NEW b \in Kinds \ Terminal
  PROVE  <<a, b>> \in Seq(Kinds) /\ \A i \in 1..Len(<<a, b>>) : <<a, b>>[i] \notin Terminal
OBVIOUS

\* with the final one alone,
LEMMA LastKind ==
  ASSUME NEW a \in Kinds
  PROVE  <<a>> \in Seq(Kinds) /\ \A i \in 1..Len(<<a>>) : i = Len(<<a>>) /\ <<a>>[i] = a
OBVIOUS

\* or at the end.
LEMMA LastOfTwoKinds ==
  ASSUME NEW b \in Kinds \ Terminal, NEW a \in Kinds
  PROVE  /\ <<b, a>> \in Seq(Kinds)
         /\ \A i \in 1..Len(<<b, a>>) : <<b, a>>[i] \in Terminal => i = Len(<<b, a>>) /\ <<b, a>>[i] = a
OBVIOUS

\* How the emitted sequences are put together.
LEMMA JoinedLiterals ==
  ASSUME NEW S, NEW a \in S, NEW b \in S
  PROVE  <<a>> \o <<b>> = <<a, b>> /\ <<>> \o <<b>> = <<b>>
<1>1. <<a>> \in Seq(S) /\ <<b>> \in Seq(S)
  OBVIOUS
<1> DEFINE u == <<a>> \o <<b>>
<1>2. u \in Seq(S) /\ Len(u) = 2 /\ u[1] = a /\ u[2] = b
  BY ConcatProperties
<1>3. <<a, b>> \in Seq(S) /\ Len(<<a, b>>) = 2 /\ <<a, b>>[1] = a /\ <<a, b>>[2] = b
  OBVIOUS
<1>4. <<>> \o <<b>> = <<b>>
  BY <1>1, ConcatEmptySeq, Zenon
<1> HIDE DEF u
<1>5. \A i \in 1..2 : u[i] = <<a, b>>[i]
  BY <1>2, <1>3
<1>6. u = <<a, b>>
  BY <1>2, <1>3, <1>5, SeqEqual
<1>7. QED
  BY <1>4, <1>6 DEF u

\* The names of the events are kinds, and two of them final.
LEMMA Names ==
  /\ {"pipeline_start", "node_start", "node_done", "job_result", "company_result"} \subseteq Kinds \ Terminal
  /\ {"done", "error"} \subseteq Kinds
BY DEF Kinds, Terminal

\* A step of the coroutine that goes on.
LEMMA GoOn ==
  ASSUME IInv, NEW kinds \in Seq(Kinds), Emit(kinds), UNCHANGED <<registered, streams, delivered>>,
         \A i \in 1..Len(kinds) : kinds[i] \notin Terminal,
         pipe.pc # "over", pipe'.pc # "none", RunOK', worker'.pc = "returned" => worker.pc = "returned"
  PROVE  IInv'
<1>1. OutcomeOK'
  BY Progress
<1>2. QED
  BY <1>1, EmitStep

\* A step of the coroutine that ends it.
LEMMA EndWith ==
  ASSUME IInv, NEW kinds \in Seq(Kinds), Emit(kinds), UNCHANGED <<registered, streams, delivered>>,
         \A i \in 1..Len(kinds) : kinds[i] \in Terminal =>
           i = Len(kinds) /\ (kinds[i] = "done" => worker'.pc = "returned"),
         pipe.pc # "over", pipe'.pc = "over", RunOK', worker'.pc = "returned" => worker.pc = "returned"
  PROVE  IInv'
<1>1. OutcomeOK'
  BY Announce
<1>2. QED
  BY <1>1, EmitStep

\* The coroutine starts, and each of its awaits ends well.
LEMMA CoroutineGoesOn ==
  ASSUME IInv, Start \/ Scrape \/ Analyze \/ Ingest \/ \E insight \in BOOLEAN : Company(insight)
  PROVE  IInv'
<1> USE DEF At, Go, PipeSteps, WorkerSteps, Unfinished
<1>0. RunOK /\ OutcomeOK
  BY DEF IInv
<1>k. /\ <<"pipeline_start", "node_start">> \in Seq(Kinds)
      /\ \A i \in 1..Len(<<"pipeline_start", "node_start">>) : <<"pipeline_start", "node_start">>[i] \notin Terminal
      /\ <<"node_done", "node_start">> \in Seq(Kinds)
      /\ \A i \in 1..Len(<<"node_done", "node_start">>) : <<"node_done", "node_start">>[i] \notin Terminal
      /\ <<"node_done">> \in Seq(Kinds)
      /\ \A i \in 1..Len(<<"node_done">>) : <<"node_done">>[i] \notin Terminal
  <2>1. "pipeline_start" \in Kinds \ Terminal /\ "node_start" \in Kinds \ Terminal /\ "node_done" \in Kinds \ Terminal
    BY Names
  <2>2. QED
    BY <2>1, OneKind, TwoKinds, Zenon
<1>1. CASE Start
  <2>1. /\ RunOK' /\ pipe.pc # "over" /\ pipe'.pc # "none" /\ (worker'.pc = "returned" => worker.pc = "returned")
        /\ UNCHANGED <<registered, streams, delivered>>
    BY <1>0, <1>1 DEF Start, RunOK
  <2>2. Emit(<<"pipeline_start", "node_start">>)
    BY <1>1 DEF Start
  <2>3. QED
    BY <1>k, <2>1, <2>2, GoOn, Zenon
<1>2. CASE Scrape
  <2>1. /\ RunOK' /\ pipe.pc # "over" /\ pipe'.pc # "none" /\ (worker'.pc = "returned" => worker.pc = "returned")
        /\ UNCHANGED <<registered, streams, delivered>>
    BY <1>0, <1>2 DEF Scrape, RunOK
  <2>2. Emit(<<"node_done", "node_start">>)
    BY <1>2 DEF Scrape
  <2>3. QED
    BY <1>k, <2>1, <2>2, GoOn, Zenon
<1>3. CASE Analyze
  <2>1. /\ RunOK' /\ pipe.pc # "over" /\ pipe'.pc = "company"
        /\ UNCHANGED <<worker, registered, queue, streams, delivered, emitted>>
    BY <1>0, <1>3 DEF Analyze, RunOK
  <2>2. QED
    BY <2>1 DEF IInv, BusOK, ReadersOK, Sole, FreshOK, OutcomeOK
<1>4. CASE Ingest
  <2>1. RunOK' /\ pipe.pc # "over" /\ pipe'.pc = "invoke" /\ worker'.pc = "queued"
    BY <1>0, <1>4 DEF Ingest, RunOK
  <2>2. QED
    BY <1>4, <2>1 DEF Ingest, IInv, BusOK, ReadersOK, Sole, FreshOK, OutcomeOK
<1>5. ASSUME NEW insight \in BOOLEAN, Company(insight)
      PROVE  IInv'
  <2>1. /\ RunOK' /\ pipe.pc # "over" /\ pipe'.pc # "none" /\ (worker'.pc = "returned" => worker.pc = "returned")
        /\ UNCHANGED <<registered, streams, delivered>>
    BY <1>0, <1>5 DEF Company, RunOK
  <2>2. Emit(<<"node_done">>)
    BY <1>5 DEF Company
  <2>3. QED
    BY <1>k, <2>1, <2>2, GoOn, Zenon
<1>6. QED
  BY <1>1, <1>2, <1>3, <1>4, <1>5

\* The coroutine ends, and announces how.
LEMMA CoroutineEnds ==
  ASSUME IInv, Awaiting \/ Complete \/ WorkflowRaised \/ WorkflowTimeout
  PROVE  IInv'
<1> USE DEF At, Go, PipeSteps, WorkerSteps, Unfinished
<1>0. RunOK
  BY DEF IInv
<1>1. ASSUME Emit(<<"error">>), UNCHANGED <<registered, streams, delivered>>, pipe.pc # "over", pipe'.pc = "over",
             RunOK', worker'.pc = "returned" => worker.pc = "returned"
      PROVE  IInv'
  <2>1. "error" \in Kinds /\ "job_result" \in Kinds \ Terminal
    BY Names
  <2>2. <<"error">> \in Seq(Kinds) /\ \A i \in 1..Len(<<"error">>) : i = Len(<<"error">>) /\ <<"error">>[i] = "error"
    BY <2>1, LastKind, Zenon
  <2>3. QED
    BY <1>1, <2>2, EndWith, Zenon
<1>2. ASSUME NEW pc \in {"scrape", "analyze", "ingest"}, Fail(pc)
      PROVE  IInv'
  <2>1. RunOK' /\ pipe.pc # "over" /\ pipe'.pc = "over" /\ (worker'.pc = "returned" => worker.pc = "returned")
    BY <1>0, <1>2 DEF Fail, RunOK
  <2>2. Emit(<<"error">>) /\ UNCHANGED <<registered, streams, delivered>>
    BY <1>2 DEF Fail
  <2>3. QED
    BY <1>1, <2>1, <2>2, Zenon
<1>3. CASE WorkflowRaised
  <2>1. RunOK' /\ pipe.pc # "over" /\ pipe'.pc = "over" /\ (worker'.pc = "returned" => worker.pc = "returned")
    BY <1>0, <1>3 DEF WorkflowRaised, RunOK
  <2>2. Emit(<<"error">>) /\ UNCHANGED <<registered, streams, delivered>>
    BY <1>3 DEF WorkflowRaised
  <2>3. QED
    BY <1>1, <2>1, <2>2, Zenon
<1>4. CASE WorkflowTimeout
  <2>1. RunOK' /\ pipe.pc # "over" /\ pipe'.pc = "over" /\ (worker'.pc = "returned" => worker.pc = "returned")
    BY <1>0, <1>4 DEF WorkflowTimeout, RunOK
  <2>2. Emit(<<"error">>) /\ UNCHANGED <<registered, streams, delivered>>
    BY <1>4 DEF WorkflowTimeout
  <2>3. QED
    BY <1>1, <2>1, <2>2, Zenon
<1>5. CASE Complete
  <2>1. /\ RunOK' /\ pipe.pc # "over" /\ pipe'.pc = "over"
        /\ worker.pc = "returned" /\ worker'.pc = "returned"
        /\ UNCHANGED <<registered, streams, delivered>>
    BY <1>0, <1>5 DEF Complete, RunOK
  <2>2. <<"company_result">> \o <<"done">> = <<"company_result", "done">> /\ <<>> \o <<"done">> = <<"done">>
    <3>1. "done" \in Kinds /\ "company_result" \in Kinds
      BY Names
    <3>2. QED
      BY <3>1, JoinedLiterals, Zenon
  <2>3. (IF pipe.insight THEN <<"company_result">> ELSE <<>>) \o <<"done">>
          = (IF pipe.insight THEN <<"company_result", "done">> ELSE <<"done">>)
    BY <2>2, Zenon
  <2>4. Emit(IF pipe.insight THEN <<"company_result", "done">> ELSE <<"done">>)
    BY <1>5, <2>3, Zenon DEF Complete
  <2>5. Emit(<<"done">>) \/ Emit(<<"company_result", "done">>)
    BY <2>4, Zenon
  <2>6. "done" \in Kinds /\ "company_result" \in Kinds \ Terminal
    BY Names
  <2>7. /\ <<"done">> \in Seq(Kinds) /\ \A i \in 1..Len(<<"done">>) : i = Len(<<"done">>) /\ <<"done">>[i] = "done"
        /\ <<"company_result", "done">> \in Seq(Kinds)
        /\ \A i \in 1..Len(<<"company_result", "done">>) : <<"company_result", "done">>[i] \in Terminal =>
             i = Len(<<"company_result", "done">>) /\ <<"company_result", "done">>[i] = "done"
    <3>1. <<"done">> \in Seq(Kinds) /\ \A i \in 1..Len(<<"done">>) : i = Len(<<"done">>) /\ <<"done">>[i] = "done"
      BY <2>6, LastKind, Zenon
    <3>2. /\ <<"company_result", "done">> \in Seq(Kinds)
          /\ \A i \in 1..Len(<<"company_result", "done">>) : <<"company_result", "done">>[i] \in Terminal =>
               i = Len(<<"company_result", "done">>) /\ <<"company_result", "done">>[i] = "done"
      BY <2>6, LastOfTwoKinds, Zenon
    <3>3. QED
      BY <3>1, <3>2
  <2>8. CASE Emit(<<"done">>)
    BY <2>1, <2>7, <2>8, EndWith, Zenon
  <2>9. CASE Emit(<<"company_result", "done">>)
    BY <2>1, <2>7, <2>9, EndWith, Zenon
  <2>10. QED
    BY <2>5, <2>8, <2>9
<1>6. QED
  BY <1>2, <1>3, <1>4, <1>5 DEF Awaiting

\* A step of the thread that emits.
LEMMA WorkStep ==
  ASSUME IInv, NEW kinds \in Seq(Kinds), NEW to \in WorkerSteps \ {"none"}, Emit(kinds),
         worker.pc \notin {"none", "returned"}, worker' = [worker EXCEPT !.pc = to],
         UNCHANGED <<pipe, registered, streams, delivered, fault>>,
         to \in Unfinished => worker.iterations < MaxIterations,
         \A i \in 1..Len(kinds) : kinds[i] \notin Terminal,
         to = "returned" => \E i \in 1..Len(kinds) : kinds[i] = "job_result"
  PROVE  IInv'
<1>1. RunOK
  BY DEF IInv
<1>2. pipe.pc \in {"invoke", "over"} /\ worker'.pc = to /\ worker'.iterations = worker.iterations
  BY <1>1 DEF RunOK
<1>3. RunOK'
  BY <1>1, <1>2 DEF RunOK, Unfinished
<1>4. OutcomeOK'
  BY <1>2, Progress
<1>5. QED
  BY <1>2, <1>3, <1>4, EmitStep

\* The thread of the workflow, one case per step.
LEMMA ThreadStep == IInv /\ Thread => IInv'
<1> SUFFICES ASSUME IInv, Thread
             PROVE  IInv'
  OBVIOUS
<1>0. RunOK
  BY DEF IInv
<1>k. /\ <<"node_start">> \in Seq(Kinds)
      /\ \A i \in 1..Len(<<"node_start">>) : <<"node_start">>[i] \notin Terminal
      /\ <<"node_done">> \in Seq(Kinds)
      /\ \A i \in 1..Len(<<"node_done">>) : <<"node_done">>[i] \notin Terminal
      /\ <<"node_done", "job_result">> \in Seq(Kinds)
      /\ \A i \in 1..Len(<<"node_done", "job_result">>) : <<"node_done", "job_result">>[i] \notin Terminal
  <2>1. "job_result" \in Kinds \ Terminal /\ "node_start" \in Kinds \ Terminal /\ "node_done" \in Kinds \ Terminal
    BY Names
  <2>2. QED
    BY <2>1, OneKind, TwoKinds, Zenon
<1>1. CASE Begin
  <2>1. /\ Emit(<<"node_start">>) /\ worker.pc \notin {"none", "returned"}
        /\ UNCHANGED <<pipe, registered, streams, delivered, fault>>
    BY <1>1 DEF Begin, Work
  <2>2. PICK to \in {"retrieving", "drafting", "scoring"} :
          /\ worker' = [worker EXCEPT !.pc = to]
          /\ to \in Unfinished => worker.iterations < MaxIterations
    BY <1>0, <1>1 DEF Begin, Work, RunOK, Unfinished
  <2>3. to \in WorkerSteps \ {"none"} /\ to # "returned"
    BY DEF WorkerSteps
  <2>4. QED
    BY <1>k, <2>1, <2>2, <2>3, WorkStep, Zenon
<1>2. CASE Retrieved
  <2>1. /\ worker.pc \notin {"none", "returned"} /\ worker.iterations < MaxIterations
        /\ UNCHANGED <<pipe, registered, streams, delivered, fault>>
    BY <1>0, <1>2 DEF Retrieved, Work, RunOK, Unfinished
  <2>2. CASE pipe.resume
    <3>1. Emit(<<>>) /\ worker' = [worker EXCEPT !.pc = "raised"]
      BY <1>2, <2>2 DEF Retrieved, Work
    <3>2. <<>> \in Seq(Kinds) /\ \A i \in 1..Len(<<>>) : <<>>[i] \notin Terminal
      OBVIOUS
    <3>3. "raised" \in WorkerSteps \ {"none"} /\ "raised" # "returned"
      BY DEF WorkerSteps
    <3>4. QED
      BY <2>1, <3>1, <3>2, <3>3, WorkStep, Zenon
  <2>3. CASE ~ pipe.resume
    <3>1. Emit(<<"node_done">>) /\ worker' = [worker EXCEPT !.pc = "draft"]
      BY <1>2, <2>3 DEF Retrieved, Work
    <3>2. "draft" \in WorkerSteps \ {"none"} /\ "draft" # "returned"
      BY DEF WorkerSteps
    <3>3. QED
      BY <1>k, <2>1, <3>1, <3>2, WorkStep, Zenon
  <2>4. QED
    BY <2>2, <2>3
<1>3. CASE Drafted
  <2>1. /\ worker.pc = "drafting" /\ worker.iterations \in 0..MaxIterations /\ worker.iterations < MaxIterations
        /\ worker' = [pc |-> "score", iterations |-> worker.iterations + 1]
        /\ UNCHANGED <<pipe, registered, streams, delivered, fault>>
    BY <1>0, <1>3 DEF Drafted, RunOK, Unfinished
  <2>2. RunOK' /\ pipe.pc \in {"invoke", "over"} /\ worker'.pc = "score"
    BY <1>0, <2>1, PipelineAssumption DEF RunOK, WorkerSteps, PipeSteps, Unfinished
  <2>3. Emit(<<"node_done">>)
    BY <1>3 DEF Drafted
  <2>4. OutcomeOK'
    <3>1. pipe.pc = "over" => pipe'.pc = "over" /\ worker.pc # "returned"
      BY <2>1
    <3>2. worker'.pc # "returned"
      BY <2>2
    <3>3. QED
      BY <1>k, <2>3, <3>1, <3>2, Progress, Zenon
  <2>5. pipe'.pc # "none" /\ UNCHANGED <<registered, streams, delivered>>
    BY <2>1, <2>2
  <2>6. QED
    BY <1>k, <2>2, <2>3, <2>4, <2>5, EmitStep, Zenon
<1>4. ASSUME NEW good \in BOOLEAN, Scored(good)
      PROVE  IInv'
  <2>1. /\ Emit(<<"node_done", "job_result">>) /\ worker.pc \notin {"none", "returned"}
        /\ UNCHANGED <<pipe, registered, streams, delivered, fault>>
    BY <1>4 DEF Scored, Work
  <2>2. PICK to \in {"returned", "draft"} :
          /\ worker' = [worker EXCEPT !.pc = to]
          /\ to = "draft" => ~ (worker.iterations >= MaxIterations)
    BY <1>4 DEF Scored, Work, EndsHere
  <2>3. to \in Unfinished => worker.iterations < MaxIterations
    BY <1>0, <2>2, PipelineAssumption DEF Unfinished, RunOK
  <2>4. to \in WorkerSteps \ {"none"}
    BY DEF WorkerSteps
  <2>5. \E i \in 1..Len(<<"node_done", "job_result">>) : <<"node_done", "job_result">>[i] = "job_result"
    <3>1. 2 \in 1..Len(<<"node_done", "job_result">>) /\ <<"node_done", "job_result">>[2] = "job_result"
      OBVIOUS
    <3>2. QED
      BY <3>1, Zenon
  <2>6. QED
    BY <1>k, <2>1, <2>2, <2>3, <2>4, <2>5, WorkStep, Zenon
<1>5. CASE Raise
  <2>1. RunOK' /\ pipe.pc # "none" /\ pipe' = pipe /\ worker.pc # "returned" /\ worker'.pc = "raised"
        /\ UNCHANGED <<registered, queue, streams, delivered, emitted>>
    BY <1>0, <1>5 DEF Raise, RunOK, WorkerSteps, Unfinished
  <2>2. OutcomeOK'
    BY <2>1 DEF IInv, OutcomeOK
  <2>3. QED
    BY <2>1, <2>2 DEF IInv, BusOK, ReadersOK, Sole, FreshOK
<1>6. QED
  BY <1>1, <1>2, <1>3, <1>4, <1>5 DEF Thread

-----------------------------------------------------------------------------
(* The streams *)

\* Without an emission the bus changes by what leaves the queue.
LEMMA KeptBus ==
  ASSUME BusOK, Kept(queue), registered' \in BOOLEAN, UNCHANGED <<delivered, emitted>>
  PROVE  BusOK' /\ (registered' => queue' = queue)
<1>1. queue' = queue \/ queue' = <<>>
  BY DEF Kept
<1>2. registered' => queue' = queue
  BY DEF Kept
<1>3. CASE queue' = queue
  BY <1>2, <1>3 DEF BusOK
<1>4. CASE queue' = <<>>
  <2>1. queue' \in Seq(1..Len(emitted')) /\ Len(queue') = 0
    BY <1>4
  <2>2. QED
    BY <1>2, <2>1 DEF BusOK, Increasing
<1>5. QED
  BY <1>1, <1>3, <1>4

\* Taking the head of the queue and handing it out keeps the order.
LEMMA Handed ==
  ASSUME NEW n \in Nat, NEW d \in Seq(1..n), NEW q \in Seq(1..n), q # <<>>,
         Increasing(d), Increasing(q), \A i \in 1..Len(d), j \in 1..Len(q) : d[i] < q[j]
  PROVE  /\ Tail(q) \in Seq(1..n) /\ Increasing(Tail(q))
         /\ \A i \in 1..Len(d), j \in 1..Len(Tail(q)) : d[i] < Tail(q)[j]
         /\ Append(d, Head(q)) \in Seq(1..n) /\ Increasing(Append(d, Head(q)))
         /\ \A i \in 1..Len(Append(d, Head(q))), j \in 1..Len(Tail(q)) : Append(d, Head(q))[i] < Tail(q)[j]
         /\ Append(d, Head(q)) \o Tail(q) = d \o q
<1> DEFINE r == Tail(q)
           h == Head(q)
           a == Append(d, h)
<1>1. /\ r \in Seq(1..n) /\ h \in 1..n /\ Len(q) \in Nat /\ Len(q) > 0 /\ Len(r) = Len(q) - 1
      /\ h = q[1] /\ \A j \in 1..Len(r) : r[j] = q[j + 1]
  BY HeadTailProperties, LenProperties, EmptySeq
<1>2. /\ a \in Seq(1..n) /\ Len(d) \in Nat /\ Len(a) = Len(d) + 1
      /\ \A i \in 1..Len(d) : a[i] = d[i]
      /\ a[Len(d) + 1] = h
  BY <1>1, AppendProperties, LenProperties
<1>3. \A i \in 1..Len(d) : d[i] \in 1..n
  BY ElementOfSeq
<1>4. \A j \in 1..Len(q) : q[j] \in 1..n
  BY ElementOfSeq
<1> HIDE DEF r, h, a
<1>5. \A j \in 1..Len(r) : j + 1 \in 1..Len(q) /\ r[j] = q[j + 1] /\ h < r[j]
  <2> SUFFICES ASSUME NEW j \in 1..Len(r)
               PROVE  j + 1 \in 1..Len(q) /\ r[j] = q[j + 1] /\ h < r[j]
    OBVIOUS
  <2>1. j + 1 \in 1..Len(q) /\ 1 \in 1..Len(q) /\ 1 < j + 1
    BY <1>1
  <2>2. QED
    BY <1>1, <2>1 DEF Increasing
<1>6. Increasing(r)
  <2> SUFFICES ASSUME NEW i \in 1..Len(r), NEW j \in 1..Len(r), i < j
               PROVE  r[i] < r[j]
    BY DEF Increasing
  <2>1. i + 1 \in 1..Len(q) /\ j + 1 \in 1..Len(q) /\ i + 1 < j + 1 /\ r[i] = q[i + 1] /\ r[j] = q[j + 1]
    BY <1>1, <1>5
  <2>2. QED
    BY <2>1 DEF Increasing
<1>7. \A i \in 1..Len(d), j \in 1..Len(r) : d[i] < r[j]
  BY <1>5
<1>8. \A i \in 1..Len(d) : d[i] < h
  BY <1>1
<1>9. \A i \in 1..Len(a) : (i \in 1..Len(d) /\ a[i] = d[i]) \/ (i = Len(d) + 1 /\ a[i] = h)
  BY <1>2
<1>10. Increasing(a)
  <2> SUFFICES ASSUME NEW i \in 1..Len(a), NEW j \in 1..Len(a), i < j
               PROVE  a[i] < a[j]
    BY DEF Increasing
  <2>1. i \in 1..Len(d) /\ a[i] = d[i]
    BY <1>2, <1>9
  <2>2. CASE j \in 1..Len(d)
    BY <1>2, <2>1, <2>2 DEF Increasing
  <2>3. CASE a[j] = h
    BY <1>8, <2>1, <2>3
  <2>4. QED
    BY <1>9, <2>2, <2>3
<1>11. \A i \in 1..Len(a), j \in 1..Len(r) : a[i] < r[j]
  BY <1>5, <1>7, <1>9
<1>12. a \o r = d \o q
  <2>1. d \in Seq(1..n) /\ q \in Seq(1..n) /\ <<h>> \in Seq(1..n)
    BY <1>1
  <2>2. a = d \o <<h>>
    BY <1>1, AppendIsConcat DEF a
  <2>3. q = <<h>> \o r
    BY HeadTailProperties, <1>1 DEF r, h
  <2>4. QED
    BY <1>1, <2>1, <2>2, <2>3, ConcatAssociative
<1>13. QED
  BY <1>1, <1>2, <1>6, <1>7, <1>10, <1>11, <1>12 DEF r, h, a

\* Once a stream has gone, or another one connects, there is no sole reader left.
LEMMA NoSole ==
  ASSUME ReadersOK, NEW s \in Streams, NEW now, streams' = [streams EXCEPT ![s] = now],
         now.pc # "off", ~ now.here
  PROVE  \A t \in Streams : ~ Sole(t)'
<1>1. streams'[s] = now
  BY DEF ReadersOK
<1>2. QED
  BY <1>1 DEF Sole

\* A stream that changes but was there, or has just come, is sole if it was.
LEMMA StillSole ==
  ASSUME ReadersOK, NEW s \in Streams, NEW now, streams' = [streams EXCEPT ![s] = now],
         now.pc # "off", streams[s].here \/ streams[s].pc = "off"
  PROVE  \A t \in Streams : Sole(t)' => Sole(t)
<1>1. streams'[s] = now /\ \A u \in Streams \ {s} : streams'[u] = streams[u]
  BY DEF ReadersOK
<1>2. QED
  BY <1>1 DEF Sole

\* What a change of one stream leaves to show.
LEMMA StreamStep ==
  ASSUME IInv, NEW s \in Streams, NEW now \in [pc: StreamSteps, here: BOOLEAN],
         streams' = [streams EXCEPT ![s] = now], UNCHANGED <<pipe, worker, emitted, fault>>,
         pipe.pc # "none", now.pc = "ended" => ~ registered',
         now.here => now.pc \in {"open", "terminal"}, registered' => registered,
         BusOK', \A t \in Streams : registered' /\ Sole(t)' => delivered' \o queue' = All(Len(emitted'))
  PROVE  IInv'
<1>1. streams'[s] = now /\ \A u \in Streams \ {s} : streams'[u] = streams[u]
  BY DEF IInv, ReadersOK
<1>2. ReadersOK'
  BY <1>1 DEF IInv, ReadersOK
<1>3. RunOK' /\ OutcomeOK' /\ FreshOK'
  BY DEF IInv, RunOK, OutcomeOK, FreshOK, Unfinished
<1>4. QED
  BY <1>2, <1>3 DEF IInv

\* A stream that finds no queue ends at once.
LEMMA ConnectStep == ASSUME IInv, NEW s \in Streams, Connect(s) PROVE IInv'
<1> DEFINE now == [pc |-> IF registered THEN "open" ELSE "ended", here |-> registered]
<1>1. /\ streams' = [streams EXCEPT ![s] = now] /\ streams[s].pc = "off" /\ pipe.pc # "none"
      /\ UNCHANGED <<pipe, worker, registered, queue, delivered, emitted, fault>>
  BY DEF Connect
<1>2. now \in [pc: StreamSteps, here: BOOLEAN] /\ now.pc # "off"
      /\ (now.pc = "ended" => ~ registered') /\ (now.here => now.pc \in {"open", "terminal"})
  BY <1>1 DEF IInv, BusOK, StreamSteps
<1> HIDE DEF now
<1>3. BusOK'
  BY <1>1 DEF IInv, BusOK
<1>4. \A t \in Streams : Sole(t)' => Sole(t)
  BY <1>1, <1>2, StillSole DEF IInv
<1>5. \A t \in Streams : registered' /\ Sole(t)' => delivered' \o queue' = All(Len(emitted'))
  BY <1>1, <1>4 DEF IInv, ReadersOK
<1>6. QED
  BY <1>1, <1>2, <1>3, <1>5, StreamStep

\* A client that leaves is found to be gone later.
LEMMA LeaveStep == ASSUME IInv, NEW s \in Streams, Leave(s) PROVE IInv'
<1> DEFINE now == [streams[s] EXCEPT !.here = FALSE]
<1>0. streams \in [Streams -> [pc: StreamSteps, here: BOOLEAN]] /\ streams[s].pc \in {"open", "terminal"}
  BY DEF IInv, ReadersOK, Leave
<1>1. /\ streams' = [streams EXCEPT ![s] = now]
      /\ UNCHANGED <<pipe, worker, registered, queue, delivered, emitted, fault>>
  BY <1>0 DEF Leave
<1>2. now \in [pc: StreamSteps, here: BOOLEAN] /\ now.pc \in {"open", "terminal"} /\ ~ now.here
  BY <1>0
<1> HIDE DEF now
<1>3. BusOK'
  BY <1>1 DEF IInv, BusOK
<1>4. \A t \in Streams : ~ Sole(t)'
  BY <1>1, <1>2, NoSole DEF IInv
<1>5. pipe.pc # "none"
  BY <1>0 DEF IInv, FreshOK, Untouched
<1>6. QED
  BY <1>1, <1>2, <1>3, <1>4, <1>5, StreamStep

\* A stream that closes.
LEMMA CloseStep ==
  ASSUME IInv, NEW s \in Streams, NEW pc \in {"ended", "cancelled"}, Close(s, pc), streams[s].pc # "off",
         pc = "ended" => ~ registered', registered' => registered, BusOK',
         UNCHANGED <<pipe, worker, emitted, fault>>
  PROVE  IInv'
<1> DEFINE now == [pc |-> pc, here |-> FALSE]
<1>1. streams' = [streams EXCEPT ![s] = now]
  BY DEF Close
<1>2. now \in [pc: StreamSteps, here: BOOLEAN] /\ now.pc = pc /\ ~ now.here
  BY DEF StreamSteps
<1> HIDE DEF now
<1>3. \A t \in Streams : ~ Sole(t)'
  BY <1>1, <1>2, NoSole DEF IInv
<1>4. pipe.pc # "none"
  BY DEF IInv, FreshOK, Untouched
<1>5. QED
  BY <1>1, <1>2, <1>3, <1>4, StreamStep

\* A stream that has sent the last event ends and removes the queue.
LEMMA EndStep == ASSUME IInv, NEW s \in Streams, End(s) PROVE IInv'
<1>1. /\ streams[s].pc # "off" /\ Close(s, "ended") /\ registered' = FALSE /\ Kept(queue)
      /\ UNCHANGED <<pipe, worker, delivered, emitted, fault>>
  BY DEF End
<1>2. BusOK'
  BY <1>1, KeptBus DEF IInv
<1>3. QED
  BY <1>1, <1>2, CloseStep

\* The stream of a client that left is cancelled.
LEMMA CancelStep == ASSUME IInv, NEW s \in Streams, Cancel(s) PROVE IInv'
<1>1. /\ streams[s].pc # "off" /\ Close(s, "cancelled") /\ registered' = registered /\ Kept(queue)
      /\ UNCHANGED <<pipe, worker, delivered, emitted, fault>>
  BY DEF Cancel
<1>2. BusOK'
  BY <1>1, KeptBus DEF IInv, BusOK
<1>3. QED
  BY <1>1, <1>2, CloseStep

\* A stream whose deadline has passed ends with an error of its own.
LEMMA ExpireStep == ASSUME IInv, NEW s \in Streams, Expire(s) PROVE IInv'
<1>1. /\ streams[s].pc = "open" /\ registered' = registered /\ Kept(queue)
      /\ UNCHANGED <<pipe, worker, delivered, emitted, fault>>
  BY DEF Expire
<1>2. BusOK' /\ (registered' => queue' = queue)
  BY <1>1, KeptBus DEF IInv, BusOK
<1>3. CASE ~ streams[s].here
  <2>1. Close(s, "cancelled")
    BY <1>3 DEF Expire
  <2>2. QED
    BY <1>1, <1>2, <2>1, CloseStep
<1>4. CASE streams[s].here
  <2> DEFINE now == [streams[s] EXCEPT !.pc = "terminal"]
  <2>0. streams \in [Streams -> [pc: StreamSteps, here: BOOLEAN]]
    BY DEF IInv, ReadersOK
  <2>1. streams' = [streams EXCEPT ![s] = now]
    BY <1>4, <2>0 DEF Expire, Stream
  <2>2. now \in [pc: StreamSteps, here: BOOLEAN] /\ now.pc = "terminal"
    BY <2>0 DEF StreamSteps
  <2> HIDE DEF now
  <2>3. \A t \in Streams : Sole(t)' => Sole(t)
    BY <1>4, <2>1, <2>2, StillSole DEF IInv
  <2>4. \A t \in Streams : registered' /\ Sole(t)' => delivered' \o queue' = All(Len(emitted'))
    BY <1>1, <1>2, <2>3 DEF IInv, ReadersOK
  <2>5. pipe.pc # "none"
    BY <1>1 DEF IInv, FreshOK, Untouched
  <2>6. QED
    BY <1>1, <1>2, <2>1, <2>2, <2>4, <2>5, StreamStep
<1>5. QED
  BY <1>3, <1>4

\* The head of the queue goes to one stream, after all that this stream was sent before.
LEMMA DeliverStep == ASSUME IInv, NEW s \in Streams, Deliver(s) PROVE IInv'
<1>1. /\ streams[s].pc = "open" /\ queue # <<>> /\ Taken(s) /\ Kept(Tail(queue))
      /\ UNCHANGED <<pipe, worker, registered, emitted, fault>>
  BY DEF Deliver
<1> DEFINE n == Len(emitted)
           r == Tail(queue)
           a == Append(delivered, Head(queue))
<1>2. /\ n \in Nat /\ delivered \in Seq(1..n) /\ queue \in Seq(1..n) /\ Increasing(delivered) /\ Increasing(queue)
      /\ \A i \in 1..Len(delivered), j \in 1..Len(queue) : delivered[i] < queue[j]
  BY LenProperties DEF IInv, BusOK
<1>3. /\ r \in Seq(1..n) /\ Increasing(r) /\ a \in Seq(1..n) /\ Increasing(a) /\ a \o r = delivered \o queue
      /\ \A i \in 1..Len(delivered), j \in 1..Len(r) : delivered[i] < r[j]
      /\ \A i \in 1..Len(a), j \in 1..Len(r) : a[i] < r[j]
  BY <1>1, <1>2, Handed
<1>4. (queue' = r \/ queue' = <<>>) /\ (registered' => queue' = r)
  BY <1>1 DEF Kept
<1>5. delivered' = a \/ delivered' = delivered
  BY <1>1 DEF Taken
<1> HIDE DEF r, a
<1>6. BusOK'
  <2>1. /\ delivered' \in Seq(1..n) /\ Increasing(delivered')
        /\ \A i \in 1..Len(delivered'), j \in 1..Len(r) : delivered'[i] < r[j]
    BY <1>2, <1>3, <1>5
  <2>2. /\ queue' \in Seq(1..n) /\ Increasing(queue')
        /\ \A i \in 1..Len(delivered'), j \in 1..Len(queue') : delivered'[i] < queue'[j]
    <3>1. <<>> \in Seq(1..n) /\ Len(<<>>) = 0
      OBVIOUS
    <3>2. CASE queue' = r
      BY <1>3, <2>1, <3>2
    <3>3. CASE queue' = <<>>
      BY <3>1, <3>3 DEF Increasing
    <3>4. QED
      BY <1>4, <3>2, <3>3
  <2>3. QED
    BY <1>1, <2>1, <2>2 DEF IInv, BusOK
<1>7. CASE ~ streams[s].here
  <2>1. Close(s, "cancelled")
    BY <1>1, <1>7 DEF Taken
  <2>2. QED
    BY <1>1, <1>6, <2>1, CloseStep
<1>8. CASE streams[s].here
  <2>1. PICK pc \in {"open", "terminal"} : streams' = [streams EXCEPT ![s].pc = pc]
    BY <1>1, <1>8 DEF Taken, Stream
  <2> DEFINE now == [streams[s] EXCEPT !.pc = pc]
  <2>2. streams \in [Streams -> [pc: StreamSteps, here: BOOLEAN]]
    BY DEF IInv, ReadersOK
  <2>3. streams' = [streams EXCEPT ![s] = now] /\ now \in [pc: StreamSteps, here: BOOLEAN] /\ now.pc = pc
    BY <2>1, <2>2 DEF StreamSteps
  <2> HIDE DEF now
  <2>4. \A t \in Streams : Sole(t)' => Sole(t)
    BY <1>8, <2>1, <2>3, StillSole DEF IInv
  <2>5. delivered' = a
    BY <1>1, <1>8 DEF Taken, a
  <2>6. \A t \in Streams : registered' /\ Sole(t)' => delivered' \o queue' = All(Len(emitted'))
    BY <1>1, <1>3, <1>4, <2>4, <2>5 DEF IInv, ReadersOK
  <2>7. pipe.pc # "none"
    BY <1>1 DEF IInv, FreshOK, Untouched
  <2>8. QED
    BY <1>1, <1>6, <2>1, <2>3, <2>6, <2>7, StreamStep
<1>9. QED
  BY <1>7, <1>8

-----------------------------------------------------------------------------
(* The theorems *)

\* A submission opens a queue with no event.
LEMMA SubmitStep == ASSUME IInv, NEW resume \in BOOLEAN, Submit(resume) PROVE IInv'
<1>1. /\ pipe.pc = "none" /\ pipe' = [pipe EXCEPT !.pc = "submitted", !.resume = resume] /\ registered' = TRUE
      /\ UNCHANGED <<worker, queue, streams, delivered, emitted, fault>>
  BY DEF Submit
<1>2. Untouched
  BY <1>1 DEF IInv, FreshOK
<1>3. RunOK' /\ pipe'.pc = "submitted"
  BY <1>1 DEF IInv, RunOK, PipeSteps, Unfinished
<1>4. BusOK'
  BY <1>1 DEF IInv, BusOK
<1>5. ReadersOK'
  <2>1. delivered' \o queue' = All(Len(emitted'))
    <3>1. <<>> \o <<>> = <<>> /\ Len(<<>>) = 0
      OBVIOUS
    <3>2. All(0) = <<>>
      BY AllTyped, EmptySeq
    <3>3. QED
      BY <1>1, <1>2, <3>1, <3>2 DEF Untouched
  <2>2. QED
    BY <1>1, <1>2, <2>1 DEF IInv, ReadersOK, Untouched
<1>6. OutcomeOK'
  BY <1>1, <1>2, <1>3 DEF IInv, RunOK, OutcomeOK, Untouched
<1>7. QED
  BY <1>3, <1>4, <1>5, <1>6 DEF IInv, FreshOK

\* The cleanup forgets the queue, which a stream may go on reading.
LEMMA EvictStep == ASSUME IInv, Evict PROVE IInv'
<1>1. /\ registered /\ registered' = FALSE /\ Kept(queue)
      /\ UNCHANGED <<pipe, worker, streams, delivered, emitted, fault>>
  BY DEF Evict
<1>2. BusOK'
  BY <1>1, KeptBus DEF IInv
<1>3. pipe.pc # "none"
  BY <1>1 DEF IInv, FreshOK, Untouched
<1>4. QED
  BY <1>1, <1>2, <1>3 DEF IInv, RunOK, ReadersOK, OutcomeOK, FreshOK, Unfinished

\* Before the submission there is no event.
LEMMA InitIInv == Init => IInv
<1> SUFFICES ASSUME Init
             PROVE  IInv
  OBVIOUS
<1>1. RunOK
  <2>1. 0 \in 0..MaxIterations /\ 0 < MaxIterations
    BY PipelineAssumption
  <2>2. pipe \in [pc: PipeSteps, resume: BOOLEAN, insight: BOOLEAN] /\ fault \in BOOLEAN
    BY DEF Init, PipeSteps
  <2>3. worker = [pc |-> "none", iterations |-> 0]
    BY DEF Init
  <2>4. worker \in [pc: WorkerSteps, iterations: 0..MaxIterations] /\ worker.pc = "none" /\ worker.iterations = 0
    BY <2>1, <2>3 DEF WorkerSteps
  <2>5. QED
    BY <2>1, <2>2, <2>4 DEF RunOK
<1>0. /\ \A S : <<>> \in Seq(S) /\ Len(<<>>) = 0
      /\ 1..0 = {}
  OBVIOUS
<1>2. BusOK
  <2>1. emitted = <<>> /\ queue = <<>> /\ delivered = <<>> /\ registered = FALSE
    BY DEF Init
  <2>2. emitted \in Seq(Kinds) /\ queue \in Seq(1..Len(emitted)) /\ delivered \in Seq(1..Len(emitted))
    BY <1>0, <2>1
  <2>3. Increasing(delivered) /\ Increasing(queue) /\ \A i \in 1..Len(delivered) : FALSE
    BY <1>0, <2>1 DEF Increasing
  <2>4. QED
    BY <2>1, <2>2, <2>3 DEF BusOK
<1>3. ReadersOK
  <2>1. registered = FALSE /\ streams = [s \in Streams |-> [pc |-> "off", here |-> FALSE]]
    BY DEF Init
  <2>2. QED
    BY <2>1 DEF ReadersOK, StreamSteps
<1>4. FreshOK /\ OutcomeOK
  BY DEF Init, FreshOK, OutcomeOK, Untouched
<1>5. QED
  BY <1>1, <1>2, <1>3, <1>4 DEF IInv

\* Together, one case per action.
LEMMA NextIInv == IInv /\ [Next]_vars => IInv'
<1> SUFFICES ASSUME IInv, [Next]_vars
             PROVE  IInv'
  OBVIOUS
<1>1. ASSUME NEW resume \in BOOLEAN, Submit(resume)
      PROVE  IInv'
  BY <1>1, SubmitStep
<1>2. CASE Evict
  BY <1>2, EvictStep
<1>3. CASE Coroutine
  BY <1>3, CoroutineGoesOn, CoroutineEnds DEF Coroutine
<1>4. CASE Thread
  BY <1>4, ThreadStep
<1>5. ASSUME NEW s \in Streams, Connect(s) \/ Leave(s) \/ Reader(s)
      PROVE  IInv'
  BY <1>5, ConnectStep, LeaveStep, DeliverStep, EndStep, ExpireStep, CancelStep DEF Reader
<1>6. CASE UNCHANGED vars
  BY <1>6 DEF vars, IInv, RunOK, BusOK, ReadersOK, Sole, FreshOK, Untouched, OutcomeOK, Unfinished
<1>7. QED
  BY <1>1, <1>2, <1>3, <1>4, <1>5, <1>6 DEF Next

\* The strengthened invariant holds in every reachable state of every run.
THEOREM PipelineInductive == Spec => []IInv
BY InitIInv, NextIInv, PTL DEF Spec

\* The state of the run, the queue and the streams has its types.
THEOREM PipelineTypeOK == Spec => []TypeOK
BY PipelineInductive, IInvImplies, PTL

\* However many streams compete for the events of a run, they are handed out in the
\* order in which the coroutine and its thread emitted them, and none twice.
THEOREM PipelineOrderedAndOnce == Spec => []OrderedAndOnce
BY PipelineInductive, IInvImplies, PTL

\* The only client ever to connect misses no event as long as the queue is registered.
THEOREM PipelineSoleReaderMissesNothing == Spec => []SoleReaderMissesNothing
BY PipelineInductive, IInvImplies, PTL

\* A run announces one outcome, whatever the thread does after a timeout.
THEOREM PipelineOneOutcome == Spec => []OneOutcome
BY PipelineInductive, IInvImplies, PTL

\* A stream that ended by itself has left no queue behind in the registry.
THEOREM PipelineEndedStreamsLeaveNoQueue == Spec => []EndedStreamsLeaveNoQueue
BY PipelineInductive, IInvImplies, PTL

=============================================================================
