--------------------------- MODULE WebPagesProofs ---------------------------
(***************************************************************************)
(* The steps of the pages of the web client, for any number of actions of  *)
(* the user: what each makes of the requests in flight, of the consents    *)
(* and of what the page disables meanwhile.                                *)
(***************************************************************************)
EXTENDS WebClient, Integers, Sequences, SequenceTheorems, FiniteSetTheorems, WellFoundedInduction, TLAPS

-----------------------------------------------------------------------------
(* The requests in flight *)

IsSequence(s) == \E S : s \in Seq(S)

IsRequest(c) == c = [op |-> c.op, arg |-> c.arg, reply |-> c.reply]

\* A sequence of requests, each with its operation, its argument and its reply.
Requests(s) == IsSequence(s) /\ \A k \in DOMAIN s : IsRequest(s[k])

\* r holds requests of s, each once, and none of those at the places that are dropped; and new ones.
Keeps(r, s, dropped, new) ==
  \E place \in [DOMAIN r \ new -> DOMAIN s \ dropped] :
    /\ \A i, j \in DOMAIN r \ new : place[i] = place[j] => i = j
    /\ \A i \in DOMAIN r \ new : r[i] = s[place[i]]

\* What a step makes of the requests s: a reply is put, one is sent, one is heard of,
\* one is heard of and followed by another, or those at some places go on.
Replies(r, s, k, reply) == r = [s EXCEPT ![k].reply = reply]
Sends(r, s, c) == IsRequest(c) /\ r = Append(s, c)
Ends(r, s, k) == r = Tracker!RemoveAt(s, k)
Follows(r, s, k, c) == IsRequest(c) /\ r = Append(Tracker!RemoveAt(s, k), c)
Selects(r, s, kept) == r = Tracker!Only(s, kept)
Puts(r, s, k, c) == IsRequest(c) /\ r = [s EXCEPT ![k] = c]

\* What is known of the requests r after each.
AfterReply(r, s, k, reply) ==
  /\ Requests(r) /\ DOMAIN r = DOMAIN s /\ Len(r) = Len(s)
  /\ \A i \in DOMAIN s \ {k} : r[i] = s[i]
  /\ r[k] = [op |-> s[k].op, arg |-> s[k].arg, reply |-> reply]
  /\ \A i \in DOMAIN s : r[i].op = s[i].op /\ r[i].arg = s[i].arg
AfterSend(r, s, c) ==
  /\ Requests(r) /\ DOMAIN r = DOMAIN s \cup {Len(s) + 1} /\ Len(s) + 1 \notin DOMAIN s
  /\ Len(r) = Len(s) + 1
  /\ \A k \in DOMAIN s : r[k] = s[k]
  /\ Keeps(r, s, {}, {Len(s) + 1})
  /\ r[Len(s) + 1] = c
AfterEnd(r, s, k) ==
  /\ Requests(r) /\ Len(r) = Len(s) - 1
  /\ \A i \in DOMAIN r : r[i] = IF i < k THEN s[i] ELSE s[i + 1]
  /\ Keeps(r, s, {k}, {})
AfterFollow(r, s, k, c) ==
  /\ Requests(r) /\ DOMAIN r = DOMAIN s /\ Len(r) = Len(s) /\ Len(s) \in DOMAIN s
  /\ \A i \in DOMAIN s : i < Len(s) => r[i] = IF i < k THEN s[i] ELSE s[i + 1]
  /\ Keeps(r, s, {k}, {Len(s)})
  /\ r[Len(s)] = c
AfterSelect(r, s, kept) ==
  /\ Requests(r) /\ Len(r) = Cardinality(kept) /\ Len(r) <= Len(s)
  /\ Keeps(r, s, DOMAIN s \ kept, {})

AfterPut(r, s, k, c) ==
  /\ Requests(r) /\ DOMAIN r = DOMAIN s /\ Len(r) = Len(s)
  /\ \A i \in DOMAIN s : r[i] = IF i = k THEN c ELSE s[i]

\* What Send appends.
LEMMA NewRequest ==
  ASSUME NEW op, NEW arg, NEW c, c = [op |-> op, arg |-> arg, reply |-> None]
  PROVE  IsRequest(c) /\ c.op = op /\ c.arg = arg /\ c.reply = None
  BY DEF IsRequest

\* The places of a sequence are its numbers.
LEMMA Places ==
  ASSUME NEW s, IsSequence(s)
  PROVE  Len(s) \in Nat /\ DOMAIN s = 1..Len(s)
<1>1. PICK S : s \in Seq(S)
  BY DEF IsSequence
<1> QED BY <1>1, LenProperties

\* A request is sent: it comes last.
LEMMA Sent ==
  ASSUME NEW s, Requests(s), NEW c, NEW r, Sends(r, s, c)
  PROVE  AfterSend(r, s, c)
<1>1. PICK S : s \in Seq(S)
  BY DEF Requests, IsSequence
<1>2. s \in Seq(S \cup {c}) /\ c \in S \cup {c}
  BY <1>1, SeqMonotonic
<1>3. Len(s) \in Nat /\ DOMAIN s = 1..Len(s)
  BY <1>1, LenProperties
<1>4. /\ r \in Seq(S \cup {c}) /\ Len(r) = Len(s) + 1
      /\ \A i \in 1..Len(s) : r[i] = s[i]
      /\ r[Len(s) + 1] = c
  BY <1>2, AppendProperties DEF Sends
<1>5. DOMAIN r = 1..(Len(s) + 1)
  BY <1>4, LenProperties
<1>6. DOMAIN r = DOMAIN s \cup {Len(s) + 1} /\ Len(s) + 1 \notin DOMAIN s
  BY <1>3, <1>5
<1>7. IsSequence(r)
  BY <1>4 DEF IsSequence
<1>8. Requests(r) /\ \A k \in DOMAIN s : r[k] = s[k]
  BY <1>3, <1>4, <1>6, <1>7 DEF Requests, Sends
<1>9. Keeps(r, s, {}, {Len(s) + 1})
  <2> DEFINE place == [i \in DOMAIN s |-> i]
  <2>1. DOMAIN s = DOMAIN r \ {Len(s) + 1}
    BY <1>6
  <2>2. /\ place \in [DOMAIN r \ {Len(s) + 1} -> DOMAIN s \ {}]
        /\ \A i \in DOMAIN r \ {Len(s) + 1} : place[i] = i
    BY <2>1
  <2> HIDE DEF place
  <2> QED BY <1>8, <2>1, <2>2 DEF Keeps
<1> QED BY <1>4, <1>6, <1>8, <1>9 DEF AfterSend

\* A reply changes nothing else.
LEMMA Replied ==
  ASSUME NEW s, Requests(s), NEW k \in DOMAIN s, NEW reply, NEW r, Replies(r, s, k, reply)
  PROVE  AfterReply(r, s, k, reply)
<1> DEFINE c == [op |-> s[k].op, arg |-> s[k].arg, reply |-> reply]
<1>1. PICK S : s \in Seq(S)
  BY DEF Requests, IsSequence
<1>2. s \in Seq(S \cup {c}) /\ c \in S \cup {c}
  BY <1>1, SeqMonotonic
<1>3. IsRequest(c) /\ c.op = s[k].op /\ c.arg = s[k].arg
  BY DEF IsRequest
<1>4. Len(s) \in Nat /\ DOMAIN s = 1..Len(s)
  BY <1>1, LenProperties
<1>5. s[k] = [op |-> s[k].op, arg |-> s[k].arg, reply |-> s[k].reply]
  BY DEF Requests, IsRequest
<1>6. [s[k] EXCEPT !.reply = reply] = c
  <2>1. \A op, arg, old : [[op |-> op, arg |-> arg, reply |-> old] EXCEPT !.reply = reply]
                            = [op |-> op, arg |-> arg, reply |-> reply]
    OBVIOUS
  <2> QED BY <1>5, <2>1
<1>7a. r = [s EXCEPT ![k] = c]
  BY <1>6 DEF Replies
<1> HIDE DEF c
<1>7. /\ r \in Seq(S \cup {c}) /\ Len(r) = Len(s)
      /\ \A i \in 1..Len(s) : r[i] = IF i = k THEN c ELSE s[i]
  BY <1>2, <1>4, <1>7a, ExceptSeq
<1>8. DOMAIN r = DOMAIN s
  BY <1>7a
<1>9. IsSequence(r)
  BY <1>7 DEF IsSequence
<1>10. \A i \in DOMAIN r : IsRequest(r[i])
  BY <1>3, <1>4, <1>7, <1>8 DEF Requests
<1>11. Requests(r)
  BY <1>9, <1>10 DEF Requests
<1>12. /\ r[k] = c
       /\ \A i \in DOMAIN s \ {k} : r[i] = s[i]
       /\ \A i \in DOMAIN s : r[i].op = s[i].op /\ r[i].arg = s[i].arg
  BY <1>3, <1>4, <1>7
<1> QED BY <1>7, <1>8, <1>11, <1>12 DEF c, AfterReply

\* A request is heard of: it is gone, the others are kept.
LEMMA Heard ==
  ASSUME NEW s, Requests(s), NEW k \in DOMAIN s, NEW r, Ends(r, s, k)
  PROVE  AfterEnd(r, s, k)
<1> DEFINE before == SubSeq(s, 1, k - 1)
           after == SubSeq(s, k + 1, Len(s))
<1>10. r = before \o after
  BY DEF Ends, Tracker!RemoveAt
<1>1. PICK S : s \in Seq(S)
  BY DEF Requests, IsSequence
<1>2. Len(s) \in Nat /\ DOMAIN s = 1..Len(s) /\ k \in 1..Len(s) /\ \A i \in 1..Len(s) : s[i] \in S
  BY <1>1, LenProperties
<1>3. /\ before \in Seq(S) /\ Len(before) = k - 1
      /\ \A i \in 1..(k - 1) : before[i] = s[i]
  <2>1. \A i \in 1..(k - 1) : s[i] \in S
    BY <1>2
  <2>2. /\ before \in Seq(S) /\ Len(before) = IF 1 <= k - 1 THEN (k - 1) - 1 + 1 ELSE 0
        /\ \A i \in 1..((k - 1) - 1 + 1) : before[i] = s[1 + i - 1]
    BY <1>2, <2>1, SubSeqProperties
  <2> HIDE DEF before
  <2> QED BY <1>2, <2>2
<1>4. /\ after \in Seq(S) /\ Len(after) = Len(s) - k
      /\ \A i \in 1..(Len(s) - k) : after[i] = s[k + i]
  <2>1. \A i \in (k + 1)..Len(s) : s[i] \in S
    BY <1>2
  <2>2. /\ after \in Seq(S) /\ Len(after) = IF k + 1 <= Len(s) THEN Len(s) - (k + 1) + 1 ELSE 0
        /\ \A i \in 1..(Len(s) - (k + 1) + 1) : after[i] = s[(k + 1) + i - 1]
    BY <1>2, <2>1, SubSeqProperties
  <2> HIDE DEF after
  <2>3. Len(s) - (k + 1) + 1 = Len(s) - k /\ Len(after) = Len(s) - k
    BY <1>2, <2>2
  <2>4. ASSUME NEW i \in 1..(Len(s) - k) PROVE after[i] = s[k + i]
    <3>1. i \in 1..(Len(s) - (k + 1) + 1) /\ (k + 1) + i - 1 = k + i
      BY <1>2, <2>3
    <3> QED BY <2>2, <3>1
  <2> QED BY <2>2, <2>3, <2>4
<1> HIDE DEF before, after
<1>5. /\ r \in Seq(S) /\ Len(r) = Len(before) + Len(after)
      /\ \A i \in 1..(Len(before) + Len(after)) : r[i] = IF i <= Len(before) THEN before[i] ELSE after[i - Len(before)]
  BY <1>3, <1>4, <1>10, ConcatProperties
<1>6. Len(r) = Len(s) - 1 /\ DOMAIN r = 1..(Len(s) - 1)
  BY <1>2, <1>3, <1>4, <1>5, LenProperties
<1>7. ASSUME NEW i \in DOMAIN r PROVE r[i] = IF i < k THEN s[i] ELSE s[i + 1]
  <2>1. i \in 1..(Len(s) - 1) /\ i \in 1..(Len(before) + Len(after))
    BY <1>2, <1>3, <1>4, <1>6
  <2>2. CASE i < k
    BY <1>2, <1>3, <1>5, <2>1, <2>2
  <2>3. CASE ~ (i < k)
    <3>1. i - Len(before) \in 1..(Len(s) - k) /\ k + (i - Len(before)) = i + 1 /\ ~ (i <= Len(before))
      BY <1>2, <1>3, <2>1, <2>3
    <3> QED BY <1>4, <1>5, <2>1, <2>3, <3>1
  <2> QED BY <2>2, <2>3
<1>8. Requests(r)
  <2>1. \A i \in DOMAIN r : IsRequest(r[i])
    BY <1>2, <1>6, <1>7 DEF Requests
  <2> QED BY <1>5, <2>1 DEF Requests, IsSequence
<1>9. Keeps(r, s, {k}, {})
  <2> DEFINE place == [i \in DOMAIN r |-> IF i < k THEN i ELSE i + 1]
  <2>1. place \in [DOMAIN r -> DOMAIN s \ {k}]
    BY <1>2, <1>6
  <2>2. \A i, j \in DOMAIN r : place[i] = place[j] => i = j
    BY <1>2, <1>6
  <2>3. \A i \in DOMAIN r : r[i] = s[place[i]]
    BY <1>7
  <2> HIDE DEF place
  <2> QED BY <2>1, <2>2, <2>3 DEF Keeps
<1> QED BY <1>6, <1>7, <1>8, <1>9 DEF AfterEnd

\* The requests at some places are kept, each once; the others go nowhere.
LEMMA Selected ==
  ASSUME NEW s, Requests(s), NEW kept \in SUBSET (DOMAIN s), NEW r, Selects(r, s, kept)
  PROVE  AfterSelect(r, s, kept)
<1> DEFINE n == Cardinality(kept)
           Count(k) == {i \in kept : i <= k}
           Nth(m) == CHOOSE k \in kept : Cardinality(Count(k)) = m
           count == [k \in kept |-> Cardinality(Count(k))]
<1>13. r = [m \in 1..n |-> s[Nth(m)]]
  BY DEF Selects, Tracker!Only, n, Nth, Count, Tracker!Cardinality, Cardinality
<1>1. PICK S : s \in Seq(S)
  BY DEF Requests, IsSequence
<1>2. Len(s) \in Nat /\ DOMAIN s = 1..Len(s) /\ \A i \in 1..Len(s) : s[i] \in S
  BY <1>1, LenProperties
<1>3. IsFiniteSet(kept) /\ n \in Nat /\ n <= Len(s)
  <2>1. IsFiniteSet(1..Len(s)) /\ Cardinality(1..Len(s)) = Len(s)
    BY <1>2, FS_Interval
  <2> QED BY <1>2, <2>1, FS_Subset, FS_CardinalityType
<1>30. /\ \A k \in kept : Count(k) \subseteq kept /\ k \in Count(k)
       /\ \A j, k \in kept : j < k => Count(j) \subseteq Count(k) /\ k \notin Count(j)
  BY <1>2
<1> HIDE DEF Count
<1>4. \A k \in kept : IsFiniteSet(Count(k)) /\ Cardinality(Count(k)) \in 1..n /\ Cardinality(Count(k)) \in Nat
  <2> TAKE k \in kept
  <2>1. Count(k) \subseteq kept /\ k \in Count(k)
    BY <1>30
  <2>2. IsFiniteSet(Count(k)) /\ Cardinality(Count(k)) <= n /\ Cardinality(Count(k)) \in Nat
    BY <1>3, <2>1, FS_Subset, FS_CardinalityType
  <2>3. Cardinality(Count(k)) # 0
    BY <2>1, <2>2, FS_EmptySet
  <2> HIDE DEF n
  <2> QED BY <1>3, <2>2, <2>3
<1>5. \A j, k \in kept : j < k => Cardinality(Count(j)) < Cardinality(Count(k))
  <2> TAKE j, k \in kept
  <2> HAVE j < k
  <2>1. Count(j) \subseteq Count(k) /\ k \in Count(k) /\ k \notin Count(j)
    BY <1>30
  <2>2. IsFiniteSet(Count(j)) /\ IsFiniteSet(Count(k)) /\ Cardinality(Count(j)) \in Nat /\ Cardinality(Count(k)) \in Nat
    BY <1>4
  <2>3. Cardinality(Count(j)) <= Cardinality(Count(k)) /\ (Cardinality(Count(j)) = Cardinality(Count(k)) => Count(j) = Count(k))
    BY <2>1, <2>2, FS_Subset
  <2> QED BY <2>1, <2>2, <2>3
<1>6. count \in Injection(kept, 1..n)
  <2>1. count \in [kept -> 1..n]
    BY <1>4
  <2>2. \A j, k \in kept : count[j] = count[k] => j = k
    BY <1>2, <1>3, <1>4, <1>5
  <2> HIDE DEF count
  <2> QED BY <2>1, <2>2 DEF Injection, IsInjective
<1>7. count \in Surjection(kept, 1..n)
  <2>1. IsFiniteSet(1..n) /\ Cardinality(1..n) = n
    <3> HIDE DEF n
    <3> QED BY <1>3, FS_Interval
  <2> HIDE DEF count
  <2> QED BY <1>6, <2>1, FS_Injection
<1>8. \A m \in 1..n : Nth(m) \in kept /\ Cardinality(Count(Nth(m))) = m
  <2> TAKE m \in 1..n
  <2>1. \E k \in kept : count[k] = m
    <3> HIDE DEF count
    <3> QED BY <1>7 DEF Surjection
  <2> QED BY <2>1
<1> HIDE DEF Nth, n
<1>9. r \in Seq(S) /\ Len(r) = n
  <2>1. r \in [1..n -> S]
    BY <1>2, <1>8, <1>13
  <2> QED BY <1>3, <2>1, LenProperties, SeqDef
<1>10. DOMAIN r = 1..n /\ \A m \in 1..n : r[m] = s[Nth(m)]
  BY <1>13
<1>11. Requests(r)
  <2>1. \A i \in DOMAIN r : IsRequest(r[i])
    BY <1>2, <1>8, <1>10 DEF Requests
  <2> QED BY <1>9, <2>1 DEF Requests, IsSequence
<1>12. Keeps(r, s, DOMAIN s \ kept, {})
  <2> DEFINE place == [i \in DOMAIN r |-> Nth(i)]
  <2>1. place \in [DOMAIN r -> DOMAIN s \ (DOMAIN s \ kept)]
    BY <1>8, <1>10
  <2>2. \A i, j \in DOMAIN r : place[i] = place[j] => i = j
    BY <1>8, <1>10
  <2>3. \A i \in DOMAIN r : r[i] = s[place[i]]
    BY <1>10
  <2> HIDE DEF place
  <2> QED BY <2>1, <2>2, <2>3 DEF Keeps
<1> QED BY <1>3, <1>9, <1>11, <1>12 DEF n, AfterSelect

\* A request is heard of and followed by another.
LEMMA Followed ==
  ASSUME NEW s, Requests(s), NEW k \in DOMAIN s, NEW c, NEW r, Follows(r, s, k, c)
  PROVE  AfterFollow(r, s, k, c)
<1> DEFINE q == Tracker!RemoveAt(s, k)
<1>0. Ends(q, s, k) /\ Sends(r, q, c)
  BY DEF Ends, Follows, Sends
<1> HIDE DEF q
<1>1. /\ Requests(q) /\ Len(q) = Len(s) - 1
      /\ \A i \in DOMAIN q : q[i] = IF i < k THEN s[i] ELSE s[i + 1]
      /\ Keeps(q, s, {k}, {})
  BY <1>0, Heard DEF AfterEnd
<1>a. AfterSend(r, q, c)
  BY <1>0, <1>1, Sent
<1>2. /\ Requests(r) /\ DOMAIN r = DOMAIN q \cup {Len(q) + 1} /\ Len(q) + 1 \notin DOMAIN q
      /\ Len(r) = Len(q) + 1
      /\ \A i \in DOMAIN q : r[i] = q[i]
      /\ r[Len(q) + 1] = c
  BY <1>a DEF AfterSend
<1>3. Len(s) \in Nat /\ DOMAIN s = 1..Len(s) /\ DOMAIN q = 1..Len(q)
  BY <1>1, Places DEF Requests
<1>4. Len(q) + 1 = Len(s) /\ Len(s) \in DOMAIN s /\ DOMAIN r = DOMAIN s /\ Len(r) = Len(s)
  BY <1>1, <1>2, <1>3
<1>5. \A i \in DOMAIN s : i < Len(s) => r[i] = IF i < k THEN s[i] ELSE s[i + 1]
  BY <1>1, <1>2, <1>3, <1>4
<1>6. Keeps(r, s, {k}, {Len(s)})
  <2>1. PICK place \in [DOMAIN q \ {} -> DOMAIN s \ {k}] :
          /\ \A i, j \in DOMAIN q \ {} : place[i] = place[j] => i = j
          /\ \A i \in DOMAIN q \ {} : q[i] = s[place[i]]
    BY <1>1 DEF Keeps
  <2>2. DOMAIN q \ {} = DOMAIN q /\ DOMAIN q = DOMAIN r \ {Len(s)}
    BY <1>2, <1>4
  <2>3. \A i \in DOMAIN r \ {Len(s)} : r[i] = s[place[i]]
    BY <1>2, <2>1, <2>2
  <2> QED BY <2>1, <2>2, <2>3 DEF Keeps
<1> QED BY <1>2, <1>4, <1>5, <1>6 DEF AfterFollow

\* A request is replaced by another.
LEMMA Put ==
  ASSUME NEW s, Requests(s), NEW k \in DOMAIN s, NEW c, NEW r, Puts(r, s, k, c)
  PROVE  AfterPut(r, s, k, c)
<1>1. PICK S : s \in Seq(S)
  BY DEF Requests, IsSequence
<1>2. s \in Seq(S \cup {c}) /\ c \in S \cup {c}
  BY <1>1, SeqMonotonic
<1>3. Len(s) \in Nat /\ DOMAIN s = 1..Len(s)
  BY <1>1, LenProperties
<1>4. IsRequest(c) /\ r = [s EXCEPT ![k] = c]
  BY DEF Puts
<1>5. r \in Seq(S \cup {c}) /\ Len(r) = Len(s)
  BY <1>2, <1>3, <1>4, ExceptSeq
<1>6. /\ DOMAIN r = DOMAIN s
      /\ \A i \in DOMAIN s : r[i] = IF i = k THEN c ELSE s[i]
  BY <1>4
<1>7. IsSequence(r)
  BY <1>5 DEF IsSequence
<1>8. Requests(r)
  BY <1>4, <1>6, <1>7 DEF Requests
<1> QED BY <1>5, <1>6, <1>8 DEF AfterPut

\* Two requests are sent one after the other.
LEMMA Twice ==
  ASSUME NEW s, Requests(s), NEW c, NEW d
  PROVE  s \o <<c, d>> = Append(Append(s, c), d) /\ s \o <<c>> = Append(s, c) /\ s \o <<>> = s
<1>1. PICK S : s \in Seq(S)
  BY DEF Requests, IsSequence
<1>2. s \in Seq(S \cup {c, d}) /\ c \in S \cup {c, d} /\ d \in S \cup {c, d}
  BY <1>1, SeqMonotonic
<1> QED BY <1>2

\* A page opens with one request, or two.
LEMMA Opened ==
  ASSUME NEW c, IsRequest(c), NEW d, IsRequest(d)
  PROVE  /\ Requests(<<c>>) /\ DOMAIN <<c>> = {1} /\ <<c>>[1] = c
         /\ Requests(<<c, d>>) /\ DOMAIN <<c, d>> = {1, 2} /\ <<c, d>>[1] = c /\ <<c, d>>[2] = d
         /\ Requests(<<>>) /\ DOMAIN <<>> = {}
<1>1. /\ <<c>> \in Seq({c, d}) /\ DOMAIN <<c>> = {1} /\ <<c>>[1] = c
      /\ <<c, d>> \in Seq({c, d}) /\ DOMAIN <<c, d>> = {1, 2} /\ <<c, d>>[1] = c /\ <<c, d>>[2] = d
      /\ <<>> \in Seq({c, d}) /\ DOMAIN <<>> = {}
  OBVIOUS
<1> QED BY <1>1 DEF Requests, IsSequence

-----------------------------------------------------------------------------
(* The requests that are sent one at a time *)

\* The tags stand for requests and those that follow them: an entry of the tracker with the load after it,
\* the import of a PDF, a deletion of the history with its load, a version of a letter with its list, the two
\* exports, an import of the builder, a letter and its draft, the stream of a run; and for those a page never
\* has: the ones that need a consent, and the ones that were served.
OfKind(tag, c) ==
  \/ tag = "create" /\ (c.op = "create" \/ (c.op = "load" /\ c.arg.origin = "create"))
  \/ tag = "import" /\ (c.op = "parse" \/ (c.op = "create" /\ c.arg.by = "pdf"))
  \/ tag = "clear" /\ (c.op = "clear" \/ (c.op = "ledger" /\ "after" \in DOMAIN c.arg))
  \/ tag = "version" /\ (c.op = "version" \/ (c.op = "letters" /\ c.arg.origin = "save"))
  \/ tag \in {"pdf", "docx", "upload", "stream"} /\ c.op = tag
  \/ tag = "letter" /\ c.op \in {"letter", "draft"}
  \/ tag = "guarded" /\ c.op \in Ats!Guarded
  \/ tag = "served" /\ c.reply # None

\* One request of the kind at most, and only while a flag is up.
Once(tag, s, flag) ==
  /\ \A j, k \in DOMAIN s : OfKind(tag, s[j]) /\ OfKind(tag, s[k]) => j = k
  /\ \A k \in DOMAIN s : OfKind(tag, s[k]) => flag

\* What is kept is still sent once; a flag may come down when its request was dropped.
LEMMA OnceKept ==
  ASSUME NEW s, NEW r, NEW dropped, NEW new, Keeps(r, s, dropped, new), NEW tag, NEW flag, Once(tag, s, flag),
         \A i \in DOMAIN r \cap new : ~ OfKind(tag, r[i])
  PROVE  /\ Once(tag, r, flag)
         /\ (\A k \in DOMAIN s \ dropped : ~ OfKind(tag, s[k])) => Once(tag, r, FALSE)
<1>1. PICK place \in [DOMAIN r \ new -> DOMAIN s \ dropped] :
        /\ \A i, j \in DOMAIN r \ new : place[i] = place[j] => i = j
        /\ \A i \in DOMAIN r \ new : r[i] = s[place[i]]
  BY DEF Keeps
<1>2. \A i \in DOMAIN r : OfKind(tag, r[i]) => /\ i \in DOMAIN r \ new /\ place[i] \in DOMAIN s \ dropped
                                               /\ OfKind(tag, s[place[i]])
  BY <1>1
<1>3. Once(tag, r, flag)
  BY <1>1, <1>2 DEF Once
<1>4. (\A k \in DOMAIN s \ dropped : ~ OfKind(tag, s[k])) => Once(tag, r, FALSE)
  BY <1>1, <1>2 DEF Once
<1> QED BY <1>3, <1>4

\* A request is sent: at most one of its kind if there was none.
LEMMA OnceSent ==
  ASSUME NEW s, Requests(s), NEW c, NEW r, Sends(r, s, c), NEW tag, NEW flag, Once(tag, s, flag)
  PROVE  /\ ~ OfKind(tag, c) => Once(tag, r, flag)
         /\ Once(tag, s, FALSE) => Once(tag, r, TRUE)
<1>1. AfterSend(r, s, c)
  BY Sent
<1>2. /\ DOMAIN r = DOMAIN s \cup {Len(s) + 1} /\ \A k \in DOMAIN s : r[k] = s[k]
      /\ Keeps(r, s, {}, {Len(s) + 1}) /\ r[Len(s) + 1] = c
  BY <1>1 DEF AfterSend
<1>3. ASSUME ~ OfKind(tag, c) PROVE Once(tag, r, flag)
  <2> DEFINE new == {Len(s) + 1}
  <2>1. Keeps(r, s, {}, new) /\ \A i \in DOMAIN r \cap new : ~ OfKind(tag, r[i])
    BY <1>2, <1>3
  <2> HIDE DEF new
  <2> QED BY <2>1, OnceKept
<1>4. Once(tag, s, FALSE) => Once(tag, r, TRUE)
  BY <1>2 DEF Once
<1> QED BY <1>3, <1>4

\* The gateway answers: the request stays in flight.
LEMMA OnceReplied ==
  ASSUME NEW s, Requests(s), NEW k \in DOMAIN s, NEW reply, NEW r, Replies(r, s, k, reply),
         NEW tag, tag # "served", NEW flag, Once(tag, s, flag)
  PROVE  Once(tag, r, flag)
<1>1. AfterReply(r, s, k, reply)
  BY Replied
<1>2. DOMAIN r = DOMAIN s /\ \A i \in DOMAIN s : r[i].op = s[i].op /\ r[i].arg = s[i].arg
  BY <1>1 DEF AfterReply
<1>3. \A i \in DOMAIN s : OfKind(tag, r[i]) <=> OfKind(tag, s[i])
  BY <1>2 DEF OfKind
<1> QED BY <1>2, <1>3 DEF Once

\* An answer is handled: there is none of its kind left.
LEMMA OnceEnded ==
  ASSUME NEW s, Requests(s), NEW k \in DOMAIN s, NEW r, Ends(r, s, k), NEW tag, NEW flag, Once(tag, s, flag)
  PROVE  /\ Once(tag, r, flag)
         /\ OfKind(tag, s[k]) => flag /\ Once(tag, r, FALSE)
<1>1. AfterEnd(r, s, k)
  BY Heard
<1>2. Keeps(r, s, {k}, {})
  BY <1>1 DEF AfterEnd
<1>3. OfKind(tag, s[k]) => flag /\ \A j \in DOMAIN s \ {k} : ~ OfKind(tag, s[j])
  BY DEF Once
<1>4. \A i \in DOMAIN r \cap {} : ~ OfKind(tag, r[i])
  OBVIOUS
<1>5. /\ Once(tag, r, flag)
      /\ (\A j \in DOMAIN s \ {k} : ~ OfKind(tag, s[j])) => Once(tag, r, FALSE)
  BY <1>2, <1>4, OnceKept
<1> QED BY <1>3, <1>5

\* An answer is handled and the next request of the same chain sent.
LEMMA OnceFollowed ==
  ASSUME NEW s, Requests(s), NEW k \in DOMAIN s, NEW c, NEW r, Follows(r, s, k, c), NEW tag, NEW flag,
         Once(tag, s, flag), OfKind(tag, c) => OfKind(tag, s[k])
  PROVE  Once(tag, r, flag)
<1> DEFINE q == Tracker!RemoveAt(s, k)
<1>1. Ends(q, s, k) /\ Sends(r, q, c)
  BY DEF Ends, Follows, Sends
<1> HIDE DEF q
<1>2. Requests(q) /\ Once(tag, q, flag) /\ (OfKind(tag, s[k]) => flag /\ Once(tag, q, FALSE))
  BY <1>1, Heard, OnceEnded DEF AfterEnd
<1>3. /\ ~ OfKind(tag, c) => Once(tag, r, flag)
      /\ Once(tag, q, FALSE) => Once(tag, r, TRUE)
  BY <1>1, <1>2, OnceSent
<1>4. CASE ~ OfKind(tag, c)
  BY <1>3, <1>4
<1>5. CASE OfKind(tag, c)
  <2>1. flag /\ Once(tag, r, TRUE)
    BY <1>2, <1>3, <1>5
  <2> QED BY <2>1 DEF Once
<1> QED BY <1>4, <1>5

\* Requests are dropped, as when a page stops waiting for them.
LEMMA OnceSelected ==
  ASSUME NEW s, Requests(s), NEW kept \in SUBSET (DOMAIN s), NEW r, Selects(r, s, kept), NEW tag, NEW flag,
         Once(tag, s, flag)
  PROVE  /\ Once(tag, r, flag)
         /\ (\A k \in kept : ~ OfKind(tag, s[k])) => Once(tag, r, FALSE)
<1>1. AfterSelect(r, s, kept)
  BY Selected
<1>2. Keeps(r, s, DOMAIN s \ kept, {}) /\ DOMAIN s \ (DOMAIN s \ kept) = kept
  BY <1>1 DEF AfterSelect
<1>3. \A i \in DOMAIN r \cap {} : ~ OfKind(tag, r[i])
  OBVIOUS
<1>4. /\ Once(tag, r, flag)
      /\ (\A k \in DOMAIN s \ (DOMAIN s \ kept) : ~ OfKind(tag, s[k])) => Once(tag, r, FALSE)
  BY <1>2, <1>3, OnceKept
<1> QED BY <1>2, <1>4

\* A set with one element at most.
LEMMA AtMostOne ==
  ASSUME NEW S, \A j, k \in S : j = k
  PROVE  Cardinality(S) <= 1
<1>1. CASE S = {}
  BY <1>1, FS_EmptySet
<1>2. ASSUME NEW x \in S PROVE Cardinality(S) <= 1
  <2>1. S = {x}
    BY <1>2
  <2> QED BY <2>1, FS_Singleton
<1> QED BY <1>1, <1>2

\* The requests of some kinds are sent once, and only those whose flag is up are under way.
Watched(s, tags, up) == Requests(s) /\ \A tag \in tags : Once(tag, s, tag \in up)

\* More flags may be up than there are requests.
LEMMA WatchedMore ==
  ASSUME NEW s, NEW tags, NEW up, Watched(s, tags, up), NEW more, up \subseteq more
  PROVE  Watched(s, tags, more)
  BY DEF Watched, Once

\* The same for all the kinds a page watches: a flag is raised with the request it guards,
LEMMA WatchedSent ==
  ASSUME NEW s, NEW tags, NEW up, Watched(s, tags, up), NEW c, NEW r, Sends(r, s, c),
         NEW raised, raised \cap up = {}, \A tag \in tags \ raised : ~ OfKind(tag, c)
  PROVE  Watched(r, tags, up \cup raised)
<1>1. Requests(r)
  BY Sent DEF Watched, AfterSend
<1>2. ASSUME NEW tag \in tags PROVE Once(tag, r, tag \in up \cup raised)
  <2>1. Requests(s) /\ Once(tag, s, tag \in up)
    BY DEF Watched
  <2>2. CASE tag \in raised
    <3>1. Once(tag, s, FALSE)
      BY <2>1, <2>2 DEF Once
    <3>2. Once(tag, r, TRUE)
      BY <2>1, <3>1, OnceSent
    <3> QED BY <2>2, <3>2 DEF Once
  <2>3. CASE tag \notin raised
    <3>1. Once(tag, r, tag \in up)
      BY <2>1, <2>3, OnceSent
    <3> QED BY <3>1 DEF Once
  <2> QED BY <2>2, <2>3
<1> QED BY <1>1, <1>2 DEF Watched

\* stays up while the request is served,
LEMMA WatchedReplied ==
  ASSUME NEW s, NEW tags, NEW up, Watched(s, tags, up), "served" \notin tags,
         NEW k \in DOMAIN s, NEW reply, NEW r, Replies(r, s, k, reply)
  PROVE  Watched(r, tags, up)
<1>1. Requests(r)
  BY Replied DEF Watched, AfterReply
<1>2. ASSUME NEW tag \in tags PROVE Once(tag, r, tag \in up)
  <2>1. Requests(s) /\ Once(tag, s, tag \in up) /\ tag # "served"
    BY DEF Watched
  <2> QED BY <2>1, OnceReplied
<1> QED BY <1>1, <1>2 DEF Watched

\* The request at place k ends: what it holds up comes down.
LEMMA WatchedEnded ==
  ASSUME NEW s, NEW tags, NEW up, Watched(s, tags, up), NEW k \in DOMAIN s, NEW r, Ends(r, s, k),
         NEW lowered, \A tag \in lowered : OfKind(tag, s[k])
  PROVE  Watched(r, tags, up \ lowered)
<1>1. Requests(r)
  BY Heard DEF Watched, AfterEnd
<1>2. ASSUME NEW tag \in tags PROVE Once(tag, r, tag \in up \ lowered)
  <2>1. Requests(s) /\ Once(tag, s, tag \in up)
    BY DEF Watched
  <2>2. Once(tag, r, tag \in up) /\ (OfKind(tag, s[k]) => Once(tag, r, FALSE))
    BY <2>1, OnceEnded
  <2> QED BY <2>2 DEF Once
<1> QED BY <1>1, <1>2 DEF Watched

\* stays up along a chain,
LEMMA WatchedFollowed ==
  ASSUME NEW s, NEW tags, NEW up, Watched(s, tags, up), NEW k \in DOMAIN s, NEW c, NEW r, Follows(r, s, k, c),
         \A tag \in tags : OfKind(tag, c) => OfKind(tag, s[k]),
         NEW lowered, \A tag \in lowered : OfKind(tag, s[k]) /\ ~ OfKind(tag, c)
  PROVE  Watched(r, tags, up \ lowered)
<1> DEFINE q == Tracker!RemoveAt(s, k)
<1>1. Ends(q, s, k) /\ Sends(r, q, c)
  BY DEF Ends, Follows, Sends
<1> HIDE DEF q
<1>2. Requests(r) /\ Requests(q)
  <2>1. Requests(q)
    BY <1>1, Heard DEF Watched, AfterEnd
  <2> QED BY <1>1, <2>1, Sent DEF AfterSend
<1>3. ASSUME NEW tag \in tags PROVE Once(tag, r, tag \in up \ lowered)
  <2>1. /\ Requests(s) /\ Once(tag, s, tag \in up)
        /\ OfKind(tag, c) => OfKind(tag, s[k])
    BY DEF Watched
  <2>2. Once(tag, r, tag \in up)
    BY <2>1, OnceFollowed
  <2>3. CASE tag \in lowered
    <3>1. OfKind(tag, s[k]) /\ ~ OfKind(tag, c)
      BY <2>3
    <3>2. Once(tag, q, FALSE)
      BY <1>1, <2>1, <3>1, OnceEnded
    <3>3. Once(tag, r, FALSE)
      BY <1>1, <1>2, <3>1, <3>2, OnceSent
    <3> QED BY <3>3 DEF Once
  <2> QED BY <2>2, <2>3 DEF Once
<1> QED BY <1>2, <1>3 DEF Watched

\* and may be lowered when no request of its kind is kept.
LEMMA WatchedSelected ==
  ASSUME NEW s, NEW tags, NEW up, Watched(s, tags, up), NEW kept \in SUBSET (DOMAIN s), NEW r, Selects(r, s, kept),
         NEW lowered, \A tag \in lowered : \A k \in kept : ~ OfKind(tag, s[k])
  PROVE  Watched(r, tags, up \ lowered)
<1>1. Requests(r)
  BY Selected DEF Watched, AfterSelect
<1>2. ASSUME NEW tag \in tags PROVE Once(tag, r, tag \in up \ lowered)
  <2>1. Requests(s) /\ Once(tag, s, tag \in up)
    BY DEF Watched
  <2>2. Once(tag, r, tag \in up) /\ ((\A k \in kept : ~ OfKind(tag, s[k])) => Once(tag, r, FALSE))
    BY <2>1, OnceSelected
  <2> QED BY <2>2 DEF Once
<1> QED BY <1>1, <1>2 DEF Watched

\* A page opens with requests of no kind that is watched.
LEMMA WatchedOpened ==
  ASSUME NEW s, Requests(s), NEW tags, \A tag \in tags : \A k \in DOMAIN s : ~ OfKind(tag, s[k])
  PROVE  Watched(s, tags, {})
  BY DEF Watched, Once

-----------------------------------------------------------------------------
(* The tracker *)

TrackerTags == {"create", "guarded"}
TrackerUp == {tag \in {"create"} : isSubmitting}

\* The creation is sent once, while its flag is up; and no request needs a consent.
TrackerIInv == Watched(calls, TrackerTags, TrackerUp)

\* The user acts.
LEMMA TrackerActs ==
  ASSUME TrackerIInv, NEW id,
         \/ Tracker!Type \/ Tracker!Search \/ Tracker!Create
         \/ Tracker!ToggleExpanded(id) \/ Tracker!RemoveCard(id) \/ Tracker!TypeReminder(id) \/ Tracker!CreateReminder(id)
         \/ Tracker!EmptyReminder(id) \/ Tracker!OnReminder(id) \/ (\E status \in Tracker!Statuses : Tracker!Move(id, status))
  PROVE  TrackerIInv' /\ UNCHANGED Tracker!rows
<1>1. CASE Tracker!Type \/ Tracker!Search \/ Tracker!ToggleExpanded(id) \/ Tracker!TypeReminder(id) \/ Tracker!EmptyReminder(id)
  <2>1. UNCHANGED <<calls, isSubmitting, Tracker!rows>>
    BY <1>1 DEF Tracker!Type, Tracker!Search, Tracker!ToggleExpanded, Tracker!TypeReminder, Tracker!EmptyReminder, Tracker!Edit
  <2> QED BY <2>1 DEF TrackerIInv, TrackerUp
<1>2. CASE Tracker!Create
  <2> DEFINE c == [op |-> "create", arg |-> None, reply |-> None]
  <2>1. /\ ~ isSubmitting /\ isSubmitting' = TRUE
        /\ calls' = Append(calls, c) /\ UNCHANGED Tracker!rows
    BY <1>2 DEF Tracker!Create, Tracker!Ask, Tracker!Call
  <2>2. IsRequest(c) /\ c.op = "create"
    BY NewRequest
  <2> HIDE DEF c
  <2>3. Sends(calls', calls, c) /\ {"create"} \cap TrackerUp = {}
    BY <2>1, <2>2 DEF Sends, TrackerUp
  <2>4. \A tag \in TrackerTags \ {"create"} : ~ OfKind(tag, c)
    BY <2>2 DEF OfKind, TrackerTags, Ats!Guarded, Ats!Needs
  <2>5. Watched(calls', TrackerTags, TrackerUp \cup {"create"})
    BY <2>3, <2>4, WatchedSent DEF TrackerIInv
  <2>6. TrackerUp \cup {"create"} = TrackerUp'
    BY <2>1 DEF TrackerUp
  <2> QED BY <2>1, <2>5, <2>6 DEF TrackerIInv
<1>3. CASE \/ Tracker!RemoveCard(id) \/ Tracker!CreateReminder(id) \/ Tracker!OnReminder(id)
           \/ \E status \in Tracker!Statuses : Tracker!Move(id, status)
  <2>1. \E card, arg : \E op \in {"remove", "remind", "reminder", "forget", "move"} : Tracker!OnCard(card, op, arg)
    <3>1. ASSUME NEW status, Tracker!Move(id, status)
          PROVE  \E arg : Tracker!OnCard(id, "move", arg)
      BY <3>1, Zenon DEF Tracker!Move
    <3>2. CASE Tracker!RemoveCard(id)
      BY <3>2 DEF Tracker!RemoveCard
    <3>3. CASE Tracker!CreateReminder(id)
      BY <3>3 DEF Tracker!CreateReminder
    <3>4. CASE Tracker!OnReminder(id)
      BY <3>4 DEF Tracker!OnReminder
    <3> QED BY <1>3, <3>1, <3>2, <3>3, <3>4
  <2>2. PICK card, arg : \E op \in {"remove", "remind", "reminder", "forget", "move"} : Tracker!OnCard(card, op, arg)
    BY <2>1
  <2>3. PICK op \in {"remove", "remind", "reminder", "forget", "move"} : Tracker!OnCard(card, op, arg)
    BY <2>2
  <2>4. Tracker!Ask(op, arg) /\ UNCHANGED <<isSubmitting, Tracker!rows>>
    BY <2>3, Zenon DEF Tracker!OnCard
  <2> DEFINE c == [op |-> op, arg |-> arg, reply |-> None]
  <2>5. IsRequest(c) /\ c.op = op
    BY NewRequest
  <2>6. Sends(calls', calls, c)
    BY <2>4, <2>5 DEF Tracker!Ask, Tracker!Call, Sends
  <2> HIDE DEF c
  <2>7. \A tag \in TrackerTags \ {} : ~ OfKind(tag, c)
    BY <2>5 DEF OfKind, TrackerTags, Ats!Guarded, Ats!Needs
  <2>8. Watched(calls', TrackerTags, TrackerUp \cup {})
    BY <2>6, <2>7, WatchedSent DEF TrackerIInv
  <2> QED BY <2>4, <2>8 DEF TrackerIInv, TrackerUp
<1> QED BY <1>1, <1>2, <1>3

\* The gateway serves a request.
LEMMA TrackerServes ==
  ASSUME TrackerIInv, Tracker!RemindersHaveTheirApplication, NEW k \in DOMAIN calls, Tracker!Gateway(k)
  PROVE  TrackerIInv' /\ Tracker!RemindersHaveTheirApplication'
<1>1. UNCHANGED isSubmitting /\ \E reply : Replies(calls', calls, k, reply)
  BY DEF Tracker!Gateway, Tracker!ListApplications, Tracker!CreateApplication, Tracker!MoveApplication,
         Tracker!DeleteApplication, Tracker!CreateApplicationReminder, Tracker!UpdateApplicationReminder,
         Tracker!DeleteApplicationReminder, Tracker!Commit, Tracker!Reply, Tracker!trackerVars, Replies
<1>2. TrackerIInv'
  <2>1. PICK reply : Replies(calls', calls, k, reply)
    BY <1>1
  <2>2. "served" \notin TrackerTags
    BY DEF TrackerTags
  <2>3. Watched(calls', TrackerTags, TrackerUp)
    BY <2>1, <2>2, WatchedReplied DEF TrackerIInv
  <2> QED BY <1>1, <2>3 DEF TrackerIInv, TrackerUp
<1>3. Tracker!RemindersHaveTheirApplication'
  <2>1. CASE Tracker!ListApplications(k)
    BY <2>1 DEF Tracker!ListApplications, Tracker!trackerVars, Tracker!RemindersHaveTheirApplication
  <2>2. CASE Tracker!CreateApplication(k)
    <3>1. UNCHANGED reminders /\ DOMAIN applications \subseteq DOMAIN applications'
      BY <2>2 DEF Tracker!CreateApplication, Tracker!With
    <3> QED BY <3>1 DEF Tracker!RemindersHaveTheirApplication
  <2>3. CASE Tracker!MoveApplication(k)
    BY <2>3 DEF Tracker!MoveApplication, Tracker!RemindersHaveTheirApplication
  <2>4. CASE Tracker!DeleteApplication(k)
    BY <2>4 DEF Tracker!DeleteApplication, Tracker!RestrictDomain, Tracker!Restrict, Tracker!RemindersHaveTheirApplication
  <2>5. CASE Tracker!CreateApplicationReminder(k)
    BY <2>5 DEF Tracker!CreateApplicationReminder, Tracker!With, Tracker!RemindersHaveTheirApplication
  <2>6. CASE Tracker!UpdateApplicationReminder(k)
    BY <2>6 DEF Tracker!UpdateApplicationReminder, Tracker!ReminderFound, Tracker!RemindersHaveTheirApplication
  <2>7. CASE Tracker!DeleteApplicationReminder(k)
    BY <2>7 DEF Tracker!DeleteApplicationReminder, Tracker!RestrictDomain, Tracker!Restrict, Tracker!RemindersHaveTheirApplication
  <2> QED BY <2>1, <2>2, <2>3, <2>4, <2>5, <2>6, <2>7 DEF Tracker!Gateway
<1> QED BY <1>2, <1>3

\* The page hears of a request; of a creation, it loads the board before the flag comes down.
LEMMA TrackerHears ==
  ASSUME TrackerIInv, NEW k \in DOMAIN calls, NEW fine \in BOOLEAN,
         Tracker!Loaded(k, fine) \/ Tracker!Created(k, fine) \/ Tracker!Edited(k, fine)
  PROVE  TrackerIInv' /\ UNCHANGED Tracker!rows
<1>0. UNCHANGED Tracker!rows
  BY DEF Tracker!Loaded, Tracker!Created, Tracker!Edited
<1>1. CASE Tracker!Loaded(k, fine)
  <2> DEFINE lowered == {tag \in {"create"} : calls[k].arg.origin = "create"}
  <2>1. calls[k].op = "load" /\ Ends(calls', calls, k)
    BY <1>1 DEF Tracker!Loaded, Tracker!Answered, Tracker!Done, Ends
  <2>2. \A tag \in lowered : OfKind(tag, calls[k])
    BY <2>1 DEF OfKind
  <2>3. isSubmitting' = IF calls[k].arg.origin = "create" THEN FALSE ELSE isSubmitting
    BY <1>1 DEF Tracker!Loaded
  <2>4. TrackerUp \ lowered = TrackerUp'
    BY <2>3 DEF TrackerUp
  <2> HIDE DEF lowered
  <2>5. Watched(calls', TrackerTags, TrackerUp \ lowered)
    BY <2>1, <2>2, WatchedEnded DEF TrackerIInv
  <2> QED BY <1>0, <2>4, <2>5 DEF TrackerIInv
<1>2. ASSUME NEW op \in {"create", "move", "remove", "remind", "reminder", "forget"}, NEW origin, calls[k].op = op,
             Tracker!Reload(k, origin), origin = "create" => op = "create", UNCHANGED isSubmitting
      PROVE  TrackerIInv'
  <2> DEFINE c == [op |-> "load", arg |-> [origin |-> origin], reply |-> None]
  <2>1. IsRequest(c) /\ c.op = "load" /\ c.arg.origin = origin
    BY NewRequest
  <2>2. Follows(calls', calls, k, c)
    BY <1>2, <2>1 DEF Tracker!Reload, Tracker!Then, Tracker!Call, Follows
  <2> HIDE DEF c
  <2>3. \A tag \in TrackerTags : OfKind(tag, c) => OfKind(tag, calls[k])
    BY <1>2, <2>1 DEF OfKind, TrackerTags, Ats!Guarded, Ats!Needs
  <2>4. Watched(calls', TrackerTags, TrackerUp \ {})
    BY <2>2, <2>3, WatchedFollowed DEF TrackerIInv
  <2> QED BY <1>2, <2>4 DEF TrackerIInv, TrackerUp
<1>3. CASE Tracker!Created(k, fine)
  <2>1. CASE fine
    <3>1. calls[k].op = "create" /\ Tracker!Reload(k, "create") /\ UNCHANGED isSubmitting
      BY <1>3, <2>1 DEF Tracker!Created, Tracker!Answered
    <3> QED BY <1>0, <1>2, <3>1
  <2>2. CASE ~ fine
    <3>1. calls[k].op = "create" /\ Ends(calls', calls, k) /\ isSubmitting' = FALSE
      BY <1>3, <2>2 DEF Tracker!Created, Tracker!Answered, Tracker!Done, Ends
    <3> DEFINE lowered == {"create"}
    <3>2. \A tag \in lowered : OfKind(tag, calls[k])
      BY <3>1 DEF OfKind
    <3>4. TrackerUp \ lowered = TrackerUp'
      BY <3>1 DEF TrackerUp
    <3> HIDE DEF lowered
    <3>3. Watched(calls', TrackerTags, TrackerUp \ lowered)
      BY <3>1, <3>2, WatchedEnded DEF TrackerIInv
    <3> QED BY <1>0, <3>3, <3>4 DEF TrackerIInv
  <2> QED BY <2>1, <2>2
<1>4. CASE Tracker!Edited(k, fine)
  <2>1. PICK op \in {"move", "remove", "remind", "reminder", "forget"} : calls[k].op = op
    BY <1>4 DEF Tracker!Edited, Tracker!Answered
  <2>2. CASE fine
    <3>1. Tracker!Reload(k, "edit") /\ UNCHANGED isSubmitting
      BY <1>4, <2>2 DEF Tracker!Edited
    <3> QED BY <1>0, <1>2, <2>1, <3>1
  <2>3. CASE ~ fine
    <3>1. Ends(calls', calls, k) /\ UNCHANGED isSubmitting
      BY <1>4, <2>3 DEF Tracker!Edited, Tracker!Done, Ends
    <3>2. Watched(calls', TrackerTags, TrackerUp \ {})
      BY <3>1, WatchedEnded DEF TrackerIInv
    <3> QED BY <1>0, <3>1, <3>2 DEF TrackerIInv, TrackerUp
  <2> QED BY <2>2, <2>3
<1> QED BY <1>1, <1>3, <1>4

\* A step of the page.
LEMMA TrackerStep ==
  ASSUME TrackerIInv, Tracker!RemindersHaveTheirApplication, Tracker!Next
  PROVE  TrackerIInv' /\ Tracker!RemindersHaveTheirApplication'
<1>1. ASSUME UNCHANGED Tracker!rows PROVE Tracker!RemindersHaveTheirApplication'
  BY <1>1 DEF Tracker!rows, Tracker!RemindersHaveTheirApplication
<1>2. CASE Tracker!Answers
  <2>1. PICK k \in DOMAIN calls :
          Tracker!Gateway(k) \/ \E fine \in BOOLEAN : Tracker!Loaded(k, fine) \/ Tracker!Created(k, fine) \/ Tracker!Edited(k, fine)
    BY <1>2, Zenon DEF Tracker!Answers
  <2> QED BY <1>1, <2>1, TrackerServes, TrackerHears, Zenon
<1>3. CASE ~ Tracker!Answers
  <2>1. PICK id : \/ Tracker!Type \/ Tracker!Search \/ Tracker!Create
                  \/ Tracker!ToggleExpanded(id) \/ Tracker!RemoveCard(id) \/ Tracker!TypeReminder(id) \/ Tracker!CreateReminder(id)
                  \/ Tracker!EmptyReminder(id) \/ Tracker!OnReminder(id) \/ (\E status \in Tracker!Statuses : Tracker!Move(id, status))
    BY <1>3, Zenon DEF Tracker!Next
  <2> QED BY <1>1, <2>1, TrackerActs, Zenon
<1> QED BY <1>2, <1>3

-----------------------------------------------------------------------------
(* The dashboard *)

LibraryTags == {"import", "guarded"}
LibraryUp == {tag \in {"import"} : importing}

\* The store lists its active resume.
Listed(store) == {"active", "list"} \subseteq DOMAIN store /\ store.active \in store.list

\* A PDF is imported once, while its flag is up; no request needs a consent; and the active resume is listed.
LibraryIInv == Watched(calls, LibraryTags, LibraryUp) /\ Listed(library)

\* Requests of no kind that is watched here.
LibraryPlain(c) == \A tag \in LibraryTags : ~ OfKind(tag, c)

\* Requests of the dashboard that no flag guards.
LEMMA LibraryPlainOps ==
  ASSUME NEW op, NEW arg, NEW c, c = [op |-> op, arg |-> arg, reply |-> None],
         op \in {"revisions", "current", "load", "delete", "snapshot", "restore", "compare", "download", "package", "create"},
         op = "create" => arg.by # "pdf"
  PROVE  IsRequest(c) /\ LibraryPlain(c)
<1>1. IsRequest(c) /\ c.op = op /\ c.arg = arg
  BY NewRequest
<1> QED BY <1>1 DEF LibraryPlain, LibraryTags, OfKind, Ats!Guarded, Ats!Needs

\* Such a request is sent.
LEMMA LibrarySends ==
  ASSUME NEW s, NEW up, Watched(s, LibraryTags, up), NEW c, LibraryPlain(c), NEW r, Sends(r, s, c)
  PROVE  Watched(r, LibraryTags, up)
<1>1. \A tag \in LibraryTags \ {} : ~ OfKind(tag, c)
  BY DEF LibraryPlain
<1>2. Watched(r, LibraryTags, up \cup {})
  BY <1>1, WatchedSent
<1> QED BY <1>2

\* A request of the dashboard ends.
LEMMA LibraryEnds ==
  ASSUME NEW s, NEW up, Watched(s, LibraryTags, up), NEW k \in DOMAIN s, NEW r, Ends(r, s, k)
  PROVE  Watched(r, LibraryTags, up)
<1>1. Watched(r, LibraryTags, up \ {})
  BY WatchedEnded
<1> QED BY <1>1

\* The page is left.
LEMMA LibraryOutlasts ==
  ASSUME NEW s, NEW up, Watched(s, LibraryTags, up), NEW r, r = Library!Outlasting(s)
  PROVE  Watched(r, LibraryTags, up)
<1> DEFINE kept == {k \in DOMAIN s : s[k].op \notin {"revisions", "compare", "download"}}
<1>1. r = Library!Only(s, kept)
  BY DEF Library!Outlasting
<1>2. Selects(r, s, kept)
  BY <1>1 DEF Selects, Library!Only, Tracker!Only, Library!Cardinality, Tracker!Cardinality
<1>3. kept \in SUBSET (DOMAIN s)
  OBVIOUS
<1> HIDE DEF kept
<1>4. Watched(r, LibraryTags, up \ {})
  BY <1>2, <1>3, WatchedSelected
<1> QED BY <1>4

\* The store holds another list, of which one is active.
LEMMA LibraryHolds ==
  ASSUME NEW s, NEW up, Watched(s, LibraryTags, up), NEW list, NEW one \in list, NEW waits,
         Library!Hold(s, list, one, waits)
  PROVE  Watched(calls', LibraryTags, up) /\ Listed(library)'
<1>1. Listed(library)'
  BY DEF Library!Hold, Listed
<1> DEFINE c == [op |-> "revisions", arg |-> [id |-> one], reply |-> None]
<1>2. calls' = s \/ calls' = Append(s, c)
  BY DEF Library!Hold, Library!Call
<1>3. IsRequest(c) /\ LibraryPlain(c)
  BY LibraryPlainOps
<1> HIDE DEF c
<1>4. CASE calls' = s
  BY <1>1, <1>4
<1>5. CASE calls' = Append(s, c)
  <2>1. Sends(calls', s, c)
    BY <1>3, <1>5 DEF Sends
  <2> QED BY <1>1, <1>3, <2>1, LibrarySends
<1> QED BY <1>2, <1>4, <1>5

\* A resume is opened.
LEMMA LibraryOpens ==
  ASSUME NEW s, NEW up, Watched(s, LibraryTags, up), Listed(library), NEW id, Library!Open(id, s)
  PROVE  Watched(calls', LibraryTags, up) /\ Listed(library)' /\ UNCHANGED importing
<1>1. Watched(calls', LibraryTags, up)
  BY LibraryOutlasts DEF Library!Open
<1>2. Listed(library)'
  BY DEF Library!Open, Listed
<1> QED BY <1>1, <1>2 DEF Library!Open

\* The user acts.
LEMMA LibraryActs ==
  ASSUME LibraryIInv,
         \/ Library!CreateFromTemplate \/ Library!JsonImport \/ Library!PdfImport \/ Library!TemplateImport \/ Library!Download
         \/ Library!CreateSnapshot \/ Library!RestoreRevision \/ Library!CompareRevision \/ Library!ClearComparison
         \/ \E id \in library.list : Library!OpenResume(id) \/ Library!DuplicateResume(id) \/ Library!Delete(id)
  PROVE  LibraryIInv'
<1>1. ASSUME NEW op, NEW arg, Library!Send(op, arg), UNCHANGED importing,
             op \in {"delete", "snapshot", "restore", "compare", "download", "package", "create"},
             op = "create" => arg.by # "pdf"
      PROVE  LibraryIInv'
  <2> DEFINE c == [op |-> op, arg |-> arg, reply |-> None]
  <2>1. calls' = Append(calls, c) /\ UNCHANGED library
    BY <1>1 DEF Library!Send, Library!Ask, Library!Call
  <2>2. IsRequest(c) /\ LibraryPlain(c)
    BY <1>1, LibraryPlainOps
  <2> HIDE DEF c
  <2>3. Sends(calls', calls, c)
    BY <2>1, <2>2 DEF Sends
  <2>4. Watched(calls', LibraryTags, LibraryUp)
    BY <2>2, <2>3, LibrarySends DEF LibraryIInv
  <2> QED BY <1>1, <2>1, <2>4 DEF LibraryIInv, LibraryUp
<1>2. CASE Library!CreateFromTemplate \/ Library!JsonImport
  <2>1. \E by \in {"template", "json"} : Library!Send("create", [source |-> None, by |-> by]) /\ UNCHANGED importing
    BY <1>2 DEF Library!CreateFromTemplate, Library!JsonImport
  <2>2. PICK by \in {"template", "json"} : Library!Send("create", [source |-> None, by |-> by]) /\ UNCHANGED importing
    BY <2>1
  <2> QED BY <1>1, <2>2
<1>3. CASE Library!TemplateImport
  BY <1>1, <1>3 DEF Library!TemplateImport
<1>4. CASE Library!Download
  BY <1>1, <1>4 DEF Library!Download
<1>5. CASE Library!CreateSnapshot
  BY <1>1, <1>5 DEF Library!CreateSnapshot
<1>6. CASE Library!RestoreRevision
  BY <1>1, <1>6 DEF Library!RestoreRevision
<1>7. CASE Library!CompareRevision
  BY <1>1, <1>7 DEF Library!CompareRevision
<1>8. CASE Library!ClearComparison
  BY <1>8 DEF Library!ClearComparison, Library!Edit, LibraryIInv, LibraryUp
<1>9. CASE Library!PdfImport
  <2> DEFINE c == [op |-> "parse", arg |-> None, reply |-> None]
  <2>1. calls' = Append(calls, c) /\ UNCHANGED library /\ ~ importing /\ importing' = TRUE
    BY <1>9 DEF Library!PdfImport, Library!Send, Library!Ask, Library!Call
  <2>2. IsRequest(c) /\ c.op = "parse"
    BY NewRequest
  <2> HIDE DEF c
  <2> DEFINE raised == {"import"}
  <2>3. Sends(calls', calls, c) /\ raised \cap LibraryUp = {} /\ LibraryUp \cup raised = LibraryUp'
    BY <2>1, <2>2 DEF Sends, LibraryUp
  <2>4. \A tag \in LibraryTags \ raised : ~ OfKind(tag, c)
    BY <2>2 DEF OfKind, LibraryTags, Ats!Guarded, Ats!Needs
  <2> HIDE DEF raised
  <2>5. Watched(calls', LibraryTags, LibraryUp \cup raised)
    BY <2>3, <2>4, WatchedSent DEF LibraryIInv
  <2> QED BY <2>1, <2>3, <2>5 DEF LibraryIInv
<1>10. ASSUME NEW id \in library.list, Library!OpenResume(id) PROVE LibraryIInv'
  <2>1. Library!Open(id, calls)
    BY <1>10 DEF Library!OpenResume
  <2>2. Watched(calls', LibraryTags, LibraryUp) /\ Listed(library)' /\ UNCHANGED importing
    BY <2>1, LibraryOpens DEF LibraryIInv
  <2> QED BY <2>2 DEF LibraryIInv, LibraryUp
<1>11. ASSUME NEW id \in library.list, Library!DuplicateResume(id) PROVE LibraryIInv'
  <2>1. Library!Send("create", [source |-> id, by |-> "copy"]) /\ UNCHANGED importing
    BY <1>11 DEF Library!DuplicateResume
  <2> QED BY <1>1, <2>1
<1>12. ASSUME NEW id \in library.list, Library!Delete(id) PROVE LibraryIInv'
  BY <1>1, <1>12 DEF Library!Delete
<1> QED BY <1>2, <1>3, <1>4, <1>5, <1>6, <1>7, <1>8, <1>9, <1>10, <1>11, <1>12

\* The page hears of a request.
LEMMA LibraryHears ==
  ASSUME LibraryIInv, NEW k \in DOMAIN calls, NEW fine \in BOOLEAN, Library!OnAnswer(k, fine)
  PROVE  LibraryIInv'
<1> DEFINE rest == Library!RemoveAt(calls, k)
<1>1. Ends(rest, calls, k)
  BY DEF Ends, Library!RemoveAt, Tracker!RemoveAt
<1>2. Watched(rest, LibraryTags, LibraryUp)
  <2> HIDE DEF rest
  <2> QED BY <1>1, LibraryEnds DEF LibraryIInv
<1>3. ASSUME Library!Done(k), Listed(library)', UNCHANGED importing PROVE LibraryIInv'
  <2>1. calls' = rest
    BY <1>3 DEF Library!Done
  <2> HIDE DEF rest
  <2> QED BY <1>2, <1>3, <2>1 DEF LibraryIInv, LibraryUp
<1>4. ASSUME NEW op \in {"load", "create"}, NEW arg, Library!Then(k, op, arg), Listed(library)', UNCHANGED importing,
             op = "create" => arg.by # "pdf"
      PROVE  LibraryIInv'
  <2> DEFINE c == [op |-> op, arg |-> arg, reply |-> None]
  <2>1. calls' = Append(rest, c)
    BY <1>4 DEF Library!Then, Library!Call
  <2>2. IsRequest(c) /\ LibraryPlain(c)
    BY <1>4, LibraryPlainOps
  <2> HIDE DEF c, rest
  <2>3. Sends(calls', rest, c)
    BY <2>1, <2>2 DEF Sends
  <2>4. Watched(calls', LibraryTags, LibraryUp)
    BY <1>2, <2>2, <2>3, LibrarySends
  <2> QED BY <1>4, <2>4 DEF LibraryIInv, LibraryUp
<1>5. Listed(library)
  BY DEF LibraryIInv
<1>6. CASE Library!ResumesLoaded(k, fine)
  <2>0. UNCHANGED importing
    BY <1>6 DEF Library!ResumesLoaded
  <2>1. CASE ~ fine
    <3>1. Library!Done(k) /\ library' = [library EXCEPT !.loading = FALSE]
      BY <1>6, <2>1 DEF Library!ResumesLoaded
    <3>2. Listed(library)'
      BY <1>5, <3>1 DEF Listed
    <3> QED BY <1>3, <2>0, <3>1, <3>2
  <2>2. CASE fine /\ calls[k].reply.ids = {}
    <3>1. Library!Then(k, "create", [source |-> None, by |-> "load"]) /\ UNCHANGED library
      BY <1>6, <2>2 DEF Library!ResumesLoaded
    <3>2. Listed(library)' /\ [source |-> None, by |-> "load"].by # "pdf"
      BY <1>5, <3>1 DEF Listed
    <3> QED BY <1>4, <2>0, <3>1, <3>2
  <2>3. CASE fine /\ calls[k].reply.ids # {}
    <3>1. \E one \in Library!Kept(calls[k].reply.ids) : Library!Hold(rest, calls[k].reply.ids, one, FALSE)
      BY <1>6, <2>3 DEF Library!ResumesLoaded
    <3> HIDE DEF rest
    <3>2. PICK one \in calls[k].reply.ids : Library!Hold(rest, calls[k].reply.ids, one, FALSE)
      BY <3>1 DEF Library!Kept
    <3>3. Watched(calls', LibraryTags, LibraryUp) /\ Listed(library)'
      BY <1>2, <3>2, LibraryHolds
    <3> QED BY <2>0, <3>3 DEF LibraryIInv, LibraryUp
  <2> QED BY <2>1, <2>2, <2>3
<1>7. CASE Library!ResumeDeleted(k, fine)
  <2>0. UNCHANGED importing
    BY <1>7 DEF Library!ResumeDeleted
  <2> DEFINE list == library.list \ {calls[k].arg.id}
  <2>1. CASE fine /\ list # {}
    <3>1. \E one \in Library!Kept(list) : Library!Hold(rest, list, one, library.loading)
      BY <1>7, <2>1 DEF Library!ResumeDeleted
    <3> HIDE DEF rest, list
    <3>2. PICK one \in list : Library!Hold(rest, list, one, library.loading)
      BY <3>1 DEF Library!Kept
    <3>3. Watched(calls', LibraryTags, LibraryUp) /\ Listed(library)'
      BY <1>2, <3>2, LibraryHolds
    <3> QED BY <2>0, <3>3 DEF LibraryIInv, LibraryUp
  <2>2. CASE ~ (fine /\ list # {})
    <3>1. Library!Done(k) /\ UNCHANGED library
      BY <1>7, <2>2 DEF Library!ResumeDeleted
    <3> QED BY <1>3, <1>5, <2>0, <3>1 DEF Listed
  <2> QED BY <2>1, <2>2
<1>8. CASE Library!ResumeAdded(k, fine)
  <2> DEFINE by == calls[k].arg.by
             id == calls[k].reply.id
             waits == library.loading /\ by # "load"
             lowered == {tag \in {"import"} : by = "pdf"}
  <2>1. calls[k].op = "create" /\ importing' = (importing /\ by # "pdf")
    BY <1>8 DEF Library!ResumeAdded, Library!Answered
  <2>2. \A tag \in lowered : OfKind(tag, calls[k])
    BY <2>1 DEF OfKind
  <2>3. LibraryUp \ lowered = LibraryUp'
    BY <2>1 DEF LibraryUp
  <2>4. Watched(rest, LibraryTags, LibraryUp')
    <3> HIDE DEF rest, lowered
    <3>1. Watched(rest, LibraryTags, LibraryUp \ lowered)
      BY <1>1, <2>2, WatchedEnded DEF LibraryIInv
    <3> QED BY <2>3, <3>1
  <2>5. CASE ~ fine
    <3>1. calls' = rest /\ library' = [library EXCEPT !.loading = waits]
      BY <1>8, <2>5 DEF Library!ResumeAdded
    <3>2. Listed(library)'
      BY <1>5, <3>1 DEF Listed
    <3> HIDE DEF rest
    <3> QED BY <2>4, <3>1, <3>2 DEF LibraryIInv
  <2>6. CASE fine /\ by \in {"template", "pdf"}
    <3>1. calls' = Library!Outlasting(rest) /\ library' = [list |-> library.list \cup {id}, active |-> id, loading |-> waits]
      BY <1>8, <2>6 DEF Library!ResumeAdded
    <3>2. Listed(library)'
      BY <3>1 DEF Listed
    <3> HIDE DEF rest
    <3>3. Watched(calls', LibraryTags, LibraryUp')
      BY <2>4, <3>1, LibraryOutlasts
    <3> QED BY <3>2, <3>3 DEF LibraryIInv
  <2>7. CASE fine /\ by \notin {"template", "pdf"}
    <3> DEFINE c == [op |-> "current", arg |-> [id |-> id], reply |-> None]
               s == IF by = "json" THEN Append(rest, c) ELSE rest
               list == library.list \cup {id}
    <3>1. Library!Hold(s, list, id, waits)
      BY <1>8, <2>7 DEF Library!ResumeAdded, Library!Call
    <3>2. IsRequest(c) /\ LibraryPlain(c)
      BY LibraryPlainOps
    <3>3. Watched(s, LibraryTags, LibraryUp')
      <4>1. CASE by = "json"
        <5>1. s = Append(rest, c)
          BY <4>1
        <5> HIDE DEF s, rest, c
        <5>2. Sends(s, rest, c)
          BY <3>2, <5>1 DEF Sends
        <5> QED BY <2>4, <3>2, <5>2, LibrarySends
      <4>2. CASE by # "json"
        BY <2>4, <4>2
      <4> QED BY <4>1, <4>2
    <3>4. id \in list
      OBVIOUS
    <3> HIDE DEF s, list, waits, id
    <3>5. Watched(calls', LibraryTags, LibraryUp') /\ Listed(library)'
      BY <3>1, <3>3, <3>4, LibraryHolds
    <3> QED BY <3>5 DEF LibraryIInv
  <2> QED BY <2>5, <2>6, <2>7
<1>9. CASE Library!PdfParsed(k, fine)
  <2>1. calls[k].op = "parse" /\ UNCHANGED library
    BY <1>9 DEF Library!PdfParsed, Library!Heard
  <2>2. CASE fine
    <3> DEFINE c == [op |-> "create", arg |-> [source |-> None, by |-> "pdf"], reply |-> None]
    <3>1. calls' = Append(rest, c) /\ UNCHANGED importing
      BY <1>9, <2>2 DEF Library!PdfParsed, Library!Then, Library!Call
    <3>2. IsRequest(c) /\ c.op = "create"
      BY NewRequest
    <3>3. Follows(calls', calls, k, c)
      BY <3>1, <3>2 DEF Follows, Library!RemoveAt, Tracker!RemoveAt
    <3> HIDE DEF rest, c
    <3>4. \A tag \in LibraryTags : OfKind(tag, c) => OfKind(tag, calls[k])
      BY <2>1, <3>2 DEF OfKind, LibraryTags, Ats!Guarded, Ats!Needs
    <3>5. Watched(calls', LibraryTags, LibraryUp \ {})
      BY <3>3, <3>4, WatchedFollowed DEF LibraryIInv
    <3> QED BY <2>1, <3>1, <3>5 DEF LibraryIInv, LibraryUp
  <2>3. CASE ~ fine
    <3>1. calls' = rest /\ importing' = FALSE
      BY <1>9, <2>3 DEF Library!PdfParsed, Library!Done
    <3> DEFINE lowered == {"import"}
    <3>2. \A tag \in lowered : OfKind(tag, calls[k])
      BY <2>1 DEF OfKind
    <3>3. LibraryUp \ lowered = LibraryUp'
      BY <3>1 DEF LibraryUp
    <3> HIDE DEF rest, lowered
    <3>4. Watched(calls', LibraryTags, LibraryUp \ lowered)
      BY <1>1, <3>1, <3>2, WatchedEnded DEF LibraryIInv
    <3> QED BY <2>1, <3>3, <3>4 DEF LibraryIInv
  <2> QED BY <2>2, <2>3
<1>10. CASE Library!RevisionsLoaded(k, fine) \/ Library!SnapshotTaken(k, fine) \/ Library!RevisionsCompared(k, fine)
  <2>1. Library!Done(k) /\ UNCHANGED <<library, importing>>
    BY <1>10 DEF Library!RevisionsLoaded, Library!SnapshotTaken, Library!RevisionsCompared
  <2> QED BY <1>3, <1>5, <2>1 DEF Listed
<1>11. CASE Library!RevisionRestored(k, fine)
  <2>0. UNCHANGED importing
    BY <1>11 DEF Library!RevisionRestored
  <2>1. CASE fine
    <3>1. Library!Then(k, "load", None) /\ library' = [library EXCEPT !.loading = TRUE]
      BY <1>11, <2>1 DEF Library!RevisionRestored
    <3>2. Listed(library)'
      BY <1>5, <3>1 DEF Listed
    <3> QED BY <1>4, <2>0, <3>1, <3>2
  <2>2. CASE ~ fine
    <3>1. Library!Done(k) /\ UNCHANGED library
      BY <1>11, <2>2 DEF Library!RevisionRestored
    <3> QED BY <1>3, <1>5, <2>0, <3>1 DEF Listed
  <2> QED BY <2>1, <2>2
<1> QED BY <1>6, <1>7, <1>8, <1>9, <1>10, <1>11 DEF Library!OnAnswer

\* A step of the page.
LEMMA LibraryStep ==
  ASSUME LibraryIInv, Library!Next
  PROVE  LibraryIInv'
<1>1. ASSUME NEW k \in DOMAIN calls, Library!Gateway(k) PROVE LibraryIInv'
  <2>1. UNCHANGED <<library, importing>> /\ \E reply : Replies(calls', calls, k, reply)
    BY <1>1 DEF Library!Gateway, Library!ListResumes, Library!CreateResume, Library!DeleteResume, Library!ListRevisions,
                Library!AddRevision, Library!Server, Library!Reply, Replies
  <2>2. PICK reply : Replies(calls', calls, k, reply)
    BY <2>1
  <2>3. "served" \notin LibraryTags
    BY DEF LibraryTags
  <2>4. Watched(calls', LibraryTags, LibraryUp)
    BY <2>2, <2>3, WatchedReplied DEF LibraryIInv
  <2> QED BY <2>1, <2>4 DEF LibraryIInv, LibraryUp
<1>2. ASSUME NEW k \in DOMAIN calls, NEW s, Ends(s, calls, k) PROVE Watched(s, LibraryTags, LibraryUp)
  BY <1>2, LibraryEnds DEF LibraryIInv
<1>3. ASSUME NEW k \in DOMAIN calls, Library!CurrentReplaced(k) PROVE LibraryIInv'
  <2> DEFINE rest == Library!RemoveAt(calls, k)
  <2>1. Ends(rest, calls, k)
    BY DEF Ends, Library!RemoveAt, Tracker!RemoveAt
  <2>2. Library!Open(calls[k].arg.id, rest)
    BY <1>3 DEF Library!CurrentReplaced
  <2> HIDE DEF rest
  <2>3. Watched(rest, LibraryTags, LibraryUp) /\ Listed(library)
    BY <1>2, <2>1 DEF LibraryIInv
  <2>4. Watched(calls', LibraryTags, LibraryUp) /\ Listed(library)' /\ UNCHANGED importing
    BY <2>2, <2>3, LibraryOpens
  <2> QED BY <2>4 DEF LibraryIInv, LibraryUp
<1>4. ASSUME NEW k \in DOMAIN calls, Library!Downloaded(k) PROVE LibraryIInv'
  <2>1. Ends(calls', calls, k) /\ UNCHANGED <<library, importing>>
    BY <1>4 DEF Library!Downloaded, Library!Done, Library!libraryVars, Library!RemoveAt, Tracker!RemoveAt, Ends
  <2>2. Watched(calls', LibraryTags, LibraryUp)
    BY <1>2, <2>1
  <2> QED BY <2>1, <2>2 DEF LibraryIInv, LibraryUp
<1>5. CASE Library!Answers
  <2>1. PICK k \in DOMAIN calls :
          \/ Library!Gateway(k) \/ Library!CurrentReplaced(k) \/ Library!Downloaded(k)
          \/ \E fine \in BOOLEAN : Library!OnAnswer(k, fine)
    BY <1>5, Zenon DEF Library!Answers
  <2> QED BY <1>1, <1>3, <1>4, <2>1, LibraryHears, Zenon
<1>6. CASE ~ Library!Answers
  BY <1>6, LibraryActs, Zenon DEF Library!Next
<1> QED BY <1>5, <1>6

-----------------------------------------------------------------------------
(* The pages of the letters *)

LetterTags == {"clear", "version", "pdf", "docx", "guarded"}

\* The flag of each kind.
LetterUp ==
  {tag \in {"clear", "version", "pdf", "docx"} :
     \/ tag = "clear" /\ ledger.clearing
     \/ tag = "version" /\ editor.saving
     \/ tag \in {"pdf", "docx"} /\ tag \in editor.exporting}

\* The fields of the records that hold the flags.
Flagged(store, names) == names \subseteq DOMAIN store

\* A deletion, a version and each export are sent once, while the flag is up; no request needs a consent.
LettersIInv ==
  /\ Watched(calls, LetterTags, LetterUp)
  /\ Flagged(ledger, {"clearing", "subject"}) /\ Flagged(editor, {"saving", "exporting", "id", "job"})

LetterPlain(c) == \A tag \in LetterTags : ~ OfKind(tag, c)

\* Requests of the letters that no flag guards.
LEMMA LetterPlainOps ==
  ASSUME NEW op, NEW arg, NEW c, c = [op |-> op, arg |-> arg, reply |-> None],
         op \in {"ledger", "open", "saveDraft", "letters", "loadDraft", "letter", "deleteDraft", "preview"},
         op = "ledger" => "after" \notin DOMAIN arg, op = "letters" => arg.origin # "save"
  PROVE  IsRequest(c) /\ LetterPlain(c)
<1>1. IsRequest(c) /\ c.op = op /\ c.arg = arg
  BY NewRequest
<1> QED BY <1>1 DEF LetterPlain, LetterTags, OfKind, Ats!Guarded, Ats!Needs

\* Such a request is sent.
LEMMA LetterSends ==
  ASSUME NEW s, NEW up, Watched(s, LetterTags, up), NEW c, LetterPlain(c), NEW r, Sends(r, s, c)
  PROVE  Watched(r, LetterTags, up)
<1>1. \A tag \in LetterTags \ {} : ~ OfKind(tag, c)
  BY DEF LetterPlain
<1>2. Watched(r, LetterTags, up \cup {})
  BY <1>1, WatchedSent
<1> QED BY <1>2

\* A request of the letters ends.
LEMMA LetterEnds ==
  ASSUME NEW s, NEW up, Watched(s, LetterTags, up), NEW k \in DOMAIN s, NEW r, Ends(r, s, k)
  PROVE  Watched(r, LetterTags, up)
<1>1. Watched(r, LetterTags, up \ {})
  BY WatchedEnded
<1> QED BY <1>1

\* What holds the flags, when they stay.
LEMMA LetterFlagsStay ==
  ASSUME LettersIInv, Watched(calls', LetterTags, LetterUp),
         Flagged(ledger, {"clearing", "subject"})', Flagged(editor, {"saving", "exporting", "id", "job"})',
         ledger.clearing' = ledger.clearing, editor.saving' = editor.saving, editor.exporting' = editor.exporting
  PROVE  LettersIInv'
<1>1. LetterUp' = LetterUp
  BY DEF LetterUp
<1> QED BY <1>1 DEF LettersIInv

\* A request of no kind that is watched is sent by the user.
LEMMA LetterAsks ==
  ASSUME LettersIInv, NEW op, NEW arg, Letters!Ask(op, arg),
         op \in {"ledger", "open", "saveDraft", "letters", "loadDraft", "letter", "deleteDraft", "preview"},
         op = "ledger" => "after" \notin DOMAIN arg, op = "letters" => arg.origin # "save"
  PROVE  Watched(calls', LetterTags, LetterUp)
<1> DEFINE c == [op |-> op, arg |-> arg, reply |-> None]
<1>1. calls' = Append(calls, c)
  BY DEF Letters!Ask, Letters!Call
<1>2. IsRequest(c) /\ LetterPlain(c)
  BY LetterPlainOps
<1> HIDE DEF c
<1>3. Sends(calls', calls, c)
  BY <1>1, <1>2 DEF Sends
<1> QED BY <1>2, <1>3, LetterSends DEF LettersIInv

\* One that is watched is sent when its flag is down, and its flag goes up.
LEMMA LetterAsksOnce ==
  ASSUME LettersIInv, NEW tag \in {"clear", "version", "pdf", "docx"}, NEW arg, Letters!Ask(tag, arg),
         tag \notin LetterUp, LetterUp' = LetterUp \cup {tag},
         Flagged(ledger, {"clearing", "subject"})', Flagged(editor, {"saving", "exporting", "id", "job"})'
  PROVE  LettersIInv'
<1> DEFINE c == [op |-> tag, arg |-> arg, reply |-> None]
           raised == {tag}
<1>1. calls' = Append(calls, c)
  BY DEF Letters!Ask, Letters!Call
<1>2. IsRequest(c) /\ c.op = tag
  BY NewRequest
<1> HIDE DEF c
<1>3. Sends(calls', calls, c) /\ raised \cap LetterUp = {} /\ LetterUp' = LetterUp \cup raised
  BY <1>1, <1>2 DEF Sends
<1>4. \A other \in LetterTags \ raised : ~ OfKind(other, c)
  BY <1>2 DEF OfKind, LetterTags, Ats!Guarded, Ats!Needs
<1> HIDE DEF raised
<1>5. Watched(calls', LetterTags, LetterUp \cup raised)
  BY <1>3, <1>4, WatchedSent DEF LettersIInv
<1> QED BY <1>3, <1>5 DEF LettersIInv

\* The user acts on the history.
LEMMA LettersActOnHistory ==
  ASSUME LettersIInv,
         \/ (\E subject \in {"all", "cover_letter"} : Letters!Filter(subject)) \/ Letters!ClearHistory
         \/ Letters!OpenInMarkdown \/ (\E id \in 0..2 : Letters!Select(id))
  PROVE  LettersIInv'
<1>0. UNCHANGED editor /\ Flagged(ledger, {"clearing", "subject"}) /\ Flagged(editor, {"saving", "exporting", "id", "job"})
  BY DEF Letters!Filter, Letters!ClearHistory, Letters!OpenInMarkdown, Letters!Select, Letters!OnHistory, LettersIInv
<1>1. ASSUME NEW subject, Letters!Filter(subject) PROVE LettersIInv'
  <2>1. /\ Letters!Ask("ledger", [subject |-> subject]) /\ "after" \notin DOMAIN [subject |-> subject]
        /\ ledger' = [ledger EXCEPT !.subject = subject, !.loading = TRUE, !.error = FALSE]
    BY <1>1 DEF Letters!Filter
  <2>2. Flagged(ledger, {"clearing", "subject"})' /\ ledger.clearing' = ledger.clearing
    BY <1>0, <2>1 DEF Flagged
  <2>3. Watched(calls', LetterTags, LetterUp)
    BY <2>1, LetterAsks
  <2> QED BY <1>0, <2>2, <2>3, LetterFlagsStay DEF Flagged
<1>2. CASE Letters!ClearHistory
  <2>1. /\ Letters!Ask("clear", [subject |-> ledger.subject]) /\ ~ ledger.clearing
        /\ ledger' = [ledger EXCEPT !.clearing = TRUE, !.error = FALSE]
    BY <1>2 DEF Letters!ClearHistory
  <2>2. Flagged(ledger, {"clearing", "subject"})' /\ ledger.clearing' = TRUE
    BY <1>0, <2>1 DEF Flagged
  <2>3. "clear" \notin LetterUp /\ LetterUp' = LetterUp \cup {"clear"}
    BY <1>0, <2>1, <2>2 DEF LetterUp
  <2> QED BY <1>0, <2>1, <2>2, <2>3, LetterAsksOnce DEF Flagged
<1>3. CASE Letters!OpenInMarkdown
  <2>1. Letters!Ask("open", [id |-> Letters!SelectedItem]) /\ UNCHANGED ledger
    BY <1>3 DEF Letters!OpenInMarkdown
  <2>2. Watched(calls', LetterTags, LetterUp)
    BY <2>1, LetterAsks
  <2> QED BY <1>0, <2>1, <2>2, LetterFlagsStay DEF Flagged
<1>4. ASSUME NEW id, Letters!Select(id) PROVE LettersIInv'
  <2>1. UNCHANGED calls /\ ledger' = [ledger EXCEPT !.selected = id]
    BY <1>4 DEF Letters!Select, Letters!Edit
  <2>2. Flagged(ledger, {"clearing", "subject"})' /\ ledger.clearing' = ledger.clearing
    BY <1>0, <2>1 DEF Flagged
  <2>3. Watched(calls', LetterTags, LetterUp)
    BY <2>1 DEF LettersIInv
  <2> QED BY <1>0, <2>2, <2>3, LetterFlagsStay DEF Flagged
<1> QED BY <1>1, <1>2, <1>3, <1>4

\* The user acts on the editor, or its timer ends.
LEMMA LettersActOnMarkdown ==
  ASSUME LettersIInv,
         \/ Letters!TypeText \/ (\E text \in {Letters!Template, None} : Letters!ApplyTemplate(text))
         \/ Letters!SaveCoverLetterVersion \/ (\E id \in 1..3 : Letters!OpenLetter(id))
         \/ (\E kind \in {"pdf", "docx"} : Letters!Export(kind)) \/ Letters!PreviewDue
  PROVE  LettersIInv'
<1>0. UNCHANGED ledger /\ Flagged(ledger, {"clearing", "subject"}) /\ Flagged(editor, {"saving", "exporting", "id", "job"})
  BY DEF Letters!TypeText, Letters!ApplyTemplate, Letters!SaveCoverLetterVersion, Letters!OpenLetter, Letters!Export,
         Letters!PreviewDue, Letters!OnMarkdown, LettersIInv
<1>1. ASSUME UNCHANGED <<editor.saving, editor.exporting>>, Flagged(editor, {"saving", "exporting", "id", "job"})',
             Watched(calls', LetterTags, LetterUp)
      PROVE  LettersIInv'
  BY <1>0, <1>1, LetterFlagsStay DEF Flagged
<1>2. ASSUME Letters!TypeText \/ \E text \in {Letters!Template, None} : Letters!ApplyTemplate(text)
      PROVE  LettersIInv'
  <2>1. /\ UNCHANGED calls
        /\ \E text : editor' = [editor EXCEPT !.text = text] \/ editor' = [editor EXCEPT !.text = text, !.id = None, !.job = None]
    BY <1>2 DEF Letters!TypeText, Letters!ApplyTemplate, Letters!Edit
  <2>2. UNCHANGED <<editor.saving, editor.exporting>> /\ Flagged(editor, {"saving", "exporting", "id", "job"})'
    BY <1>0, <2>1 DEF Flagged
  <2>3. Watched(calls', LetterTags, LetterUp)
    BY <2>1 DEF LettersIInv
  <2> QED BY <1>1, <2>2, <2>3
<1>3. CASE Letters!SaveCoverLetterVersion
  <2>1. /\ Letters!Ask("version", [id |-> editor.id, job |-> editor.job]) /\ ~ editor.saving
        /\ editor' = [editor EXCEPT !.saving = TRUE]
    BY <1>3 DEF Letters!SaveCoverLetterVersion
  <2>2. /\ Flagged(editor, {"saving", "exporting", "id", "job"})'
        /\ editor.saving' = TRUE /\ editor.exporting' = editor.exporting
    BY <1>0, <2>1 DEF Flagged
  <2>3. "version" \notin LetterUp /\ LetterUp' = LetterUp \cup {"version"}
    BY <1>0, <2>1, <2>2 DEF LetterUp
  <2> QED BY <1>0, <2>1, <2>2, <2>3, LetterAsksOnce DEF Flagged
<1>4. ASSUME NEW id, Letters!OpenLetter(id) PROVE LettersIInv'
  <2>1. Letters!Ask("letter", [id |-> id]) /\ editor' = [editor EXCEPT !.loading = TRUE]
    BY <1>4 DEF Letters!OpenLetter
  <2>2. UNCHANGED <<editor.saving, editor.exporting>> /\ Flagged(editor, {"saving", "exporting", "id", "job"})'
    BY <1>0, <2>1 DEF Flagged
  <2>3. Watched(calls', LetterTags, LetterUp)
    BY <2>1, LetterAsks
  <2> QED BY <1>1, <2>2, <2>3
<1>5. ASSUME NEW kind \in {"pdf", "docx"}, Letters!Export(kind) PROVE LettersIInv'
  <2>1. /\ Letters!Ask(kind, None) /\ kind \notin editor.exporting
        /\ editor' = [editor EXCEPT !.exporting = @ \cup {kind}]
    BY <1>5 DEF Letters!Export
  <2>2. /\ Flagged(editor, {"saving", "exporting", "id", "job"})'
        /\ editor.saving' = editor.saving /\ editor.exporting' = editor.exporting \cup {kind}
    BY <1>0, <2>1 DEF Flagged
  <2>3. kind \notin LetterUp /\ LetterUp' = LetterUp \cup {kind}
    BY <1>0, <2>1, <2>2 DEF LetterUp
  <2> QED BY <1>0, <2>1, <2>2, <2>3, LetterAsksOnce DEF Flagged
<1>6. CASE Letters!PreviewDue
  <2>0. UNCHANGED editor
    BY <1>6 DEF Letters!PreviewDue
  <2> DEFINE c == [op |-> "preview", arg |-> None, reply |-> None]
  <2>1. UNCHANGED calls \/ calls' = Append(calls, c)
    BY <1>6 DEF Letters!PreviewDue, Letters!Call
  <2>2. IsRequest(c) /\ LetterPlain(c)
    BY LetterPlainOps
  <2> HIDE DEF c
  <2>3. UNCHANGED calls \/ Sends(calls', calls, c)
    BY <2>1, <2>2 DEF Sends
  <2>4. Watched(calls', LetterTags, LetterUp)
    BY <2>2, <2>3, LetterSends DEF LettersIInv
  <2> QED BY <1>0, <1>1, <2>0, <2>4
<1> QED BY <1>2, <1>3, <1>4, <1>5, <1>6

\* The page hears of a request.
LEMMA LettersHear ==
  ASSUME LettersIInv, NEW k \in DOMAIN calls, NEW fine \in BOOLEAN, Letters!OnAnswer(k, fine)
  PROVE  LettersIInv'
<1> DEFINE rest == Letters!RemoveAt(calls, k)
<1>0. /\ Watched(calls, LetterTags, LetterUp)
      /\ Flagged(ledger, {"clearing", "subject"}) /\ Flagged(editor, {"saving", "exporting", "id", "job"})
  BY DEF LettersIInv
<1>1. Ends(rest, calls, k)
  BY DEF Ends, Letters!RemoveAt, Tracker!RemoveAt
<1>2. Watched(rest, LetterTags, LetterUp)
  <2> HIDE DEF rest
  <2> QED BY <1>0, <1>1, LetterEnds
\* It ends, and the flags stay.
<1>3. ASSUME Letters!Done(k), UNCHANGED <<ledger.clearing, editor.saving, editor.exporting>>,
             Flagged(ledger, {"clearing", "subject"})', Flagged(editor, {"saving", "exporting", "id", "job"})'
      PROVE  LettersIInv'
  <2>1. calls' = rest
    BY <1>3 DEF Letters!Done
  <2> HIDE DEF rest
  <2> QED BY <1>2, <1>3, <2>1, LetterFlagsStay
\* It ends, and its flag comes down.
<1>4. ASSUME NEW tag \in {"clear", "version"}, Letters!Done(k), OfKind(tag, calls[k]), LetterUp' = LetterUp \ {tag},
             Flagged(ledger, {"clearing", "subject"})', Flagged(editor, {"saving", "exporting", "id", "job"})'
      PROVE  LettersIInv'
  <2> DEFINE lowered == {tag}
  <2>1. calls' = rest /\ (\A other \in lowered : OfKind(other, calls[k])) /\ LetterUp' = LetterUp \ lowered
    BY <1>4 DEF Letters!Done
  <2> HIDE DEF rest, lowered
  <2>2. Watched(calls', LetterTags, LetterUp \ lowered)
    BY <1>0, <1>1, <2>1, WatchedEnded
  <2> QED BY <1>4, <2>1, <2>2 DEF LettersIInv
\* Another one follows, of the same kind if of any, and the flags stay.
<1>5. ASSUME NEW op, NEW arg, Letters!Then(k, op, arg), UNCHANGED <<ledger.clearing, editor.saving, editor.exporting>>,
             op \in {"ledger", "saveDraft", "deleteDraft", "letters"},
             op = "ledger" => calls[k].op = "clear", op = "letters" => calls[k].op = "version",
             Flagged(ledger, {"clearing", "subject"})', Flagged(editor, {"saving", "exporting", "id", "job"})'
      PROVE  LettersIInv'
  <2> DEFINE c == [op |-> op, arg |-> arg, reply |-> None]
  <2>1. calls' = Append(rest, c)
    BY <1>5 DEF Letters!Then, Letters!Call
  <2>2. IsRequest(c) /\ c.op = op
    BY NewRequest
  <2>3. Follows(calls', calls, k, c)
    BY <2>1, <2>2 DEF Follows, Letters!RemoveAt, Tracker!RemoveAt
  <2> HIDE DEF c, rest
  <2>4. \A tag \in LetterTags : OfKind(tag, c) => OfKind(tag, calls[k])
    BY <1>5, <2>2 DEF OfKind, LetterTags, Ats!Guarded, Ats!Needs
  <2>5. Watched(calls', LetterTags, LetterUp \ {})
    BY <1>0, <2>3, <2>4, WatchedFollowed
  <2>6. Watched(calls', LetterTags, LetterUp)
    BY <2>5
  <2> QED BY <1>5, <2>6, LetterFlagsStay
<1>6. CASE Letters!LedgerLoaded(k, fine)
  <2> DEFINE last == "after" \in DOMAIN calls[k].arg
  <2>1. /\ calls[k].op = "ledger" /\ Letters!Done(k) /\ UNCHANGED editor
        /\ \/ ledger' = [ledger EXCEPT !.items = calls[k].reply.items, !.loading = FALSE, !.clearing = @ /\ ~ last]
           \/ ledger' = [ledger EXCEPT !.error = TRUE, !.loading = FALSE, !.clearing = @ /\ ~ last]
    BY <1>6 DEF Letters!LedgerLoaded, Letters!Answered, Letters!OnHistory
  <2>2. Flagged(ledger, {"clearing", "subject"})' /\ ledger.clearing' = (ledger.clearing /\ ~ last)
    BY <1>0, <2>1 DEF Flagged
  <2>3. CASE last
    <3>1. OfKind("clear", calls[k])
      BY <2>1, <2>3 DEF OfKind
    <3>2. LetterUp' = LetterUp \ {"clear"}
      BY <2>1, <2>2, <2>3 DEF LetterUp
    <3> QED BY <1>0, <1>4, <2>1, <2>2, <3>1, <3>2 DEF Flagged
  <2>4. CASE ~ last
    <3>1. LetterUp' = LetterUp
      BY <2>1, <2>2, <2>4 DEF LetterUp
    <3>2. calls' = rest
      BY <2>1 DEF Letters!Done
    <3> HIDE DEF rest
    <3> QED BY <1>0, <1>2, <2>1, <2>2, <3>1, <3>2 DEF LettersIInv, Flagged
  <2> QED BY <2>3, <2>4
<1>7. CASE Letters!HistoryCleared(k, fine)
  <2>1. calls[k].op = "clear" /\ UNCHANGED editor
    BY <1>7 DEF Letters!HistoryCleared, Letters!Answered, Letters!OnHistory
  <2>2. CASE fine
    <3>1. /\ Letters!Then(k, "ledger", [subject |-> calls[k].arg.subject, after |-> "clear"])
          /\ ledger' = [ledger EXCEPT !.items = {}, !.selected = None, !.loading = TRUE, !.error = FALSE]
      BY <1>7, <2>2 DEF Letters!HistoryCleared
    <3>2. Flagged(ledger, {"clearing", "subject"})' /\ ledger.clearing' = ledger.clearing
      BY <1>0, <3>1 DEF Flagged
    <3> QED BY <1>0, <1>5, <2>1, <3>1, <3>2 DEF Flagged
  <2>3. CASE ~ fine
    <3>1. Letters!Done(k) /\ ledger' = [ledger EXCEPT !.error = TRUE, !.clearing = FALSE]
      BY <1>7, <2>3 DEF Letters!HistoryCleared
    <3>2. Flagged(ledger, {"clearing", "subject"})' /\ ledger.clearing' = FALSE
      BY <1>0, <3>1 DEF Flagged
    <3>3. OfKind("clear", calls[k]) /\ LetterUp' = LetterUp \ {"clear"}
      BY <2>1, <3>2 DEF OfKind, LetterUp
    <3> QED BY <1>0, <1>4, <2>1, <3>1, <3>2, <3>3 DEF Flagged
  <2> QED BY <2>2, <2>3
<1>8. CASE Letters!LetterRead(k, fine)
  <2>1. calls[k].op = "open" /\ UNCHANGED editor
    BY <1>8 DEF Letters!LetterRead, Letters!Answered, Letters!OnHistory
  <2>2. CASE fine
    <3>1. Letters!Then(k, "saveDraft", calls[k].reply) /\ UNCHANGED ledger
      BY <1>8, <2>2 DEF Letters!LetterRead
    <3> QED BY <1>0, <1>5, <2>1, <3>1 DEF Flagged
  <2>3. CASE ~ fine
    <3>1. Letters!Done(k) /\ ledger' = [ledger EXCEPT !.error = TRUE]
      BY <1>8, <2>3 DEF Letters!LetterRead
    <3>2. Flagged(ledger, {"clearing", "subject"})' /\ ledger.clearing' = ledger.clearing
      BY <1>0, <3>1 DEF Flagged
    <3> QED BY <1>0, <1>3, <2>1, <3>1, <3>2 DEF Flagged
  <2> QED BY <2>2, <2>3
<1>9. CASE Letters!EditorOpens(k, fine)
  <2>1. UNCHANGED editor
    BY <1>9 DEF Letters!EditorOpens
  <2>2. CASE fine
    <3> DEFINE c == [op |-> "letters", arg |-> [origin |-> "open"], reply |-> None]
               d == [op |-> "loadDraft", arg |-> [origin |-> "open"], reply |-> None]
               kept == Letters!Pending("clear")
               s == Letters!Only(calls, kept)
    <3>1. UNCHANGED ledger /\ calls' = s \o <<c, d>>
      BY <1>9, <2>2 DEF Letters!EditorOpens, Letters!EditorEffects, Letters!Call
    <3>2. IsRequest(c) /\ LetterPlain(c) /\ IsRequest(d) /\ LetterPlain(d)
      BY LetterPlainOps
    <3>3. Selects(s, calls, kept)
      BY DEF Selects, Letters!Only, Tracker!Only, Letters!Cardinality, Tracker!Cardinality
    <3>4. kept \in SUBSET (DOMAIN calls)
      BY DEF Letters!Pending
    <3> HIDE DEF c, d, kept, s
    <3>5. Watched(s, LetterTags, LetterUp \ {})
      BY <1>0, <3>3, <3>4, WatchedSelected
    <3>6. Watched(s, LetterTags, LetterUp) /\ Requests(s)
      BY <3>5 DEF Watched
    <3> DEFINE t == Append(s, c)
    <3>7. calls' = Append(t, d)
      BY <3>1, <3>6, Twice
    <3>8. Sends(t, s, c) /\ Sends(calls', t, d)
      BY <3>2, <3>7 DEF Sends
    <3> HIDE DEF t
    <3>9. Watched(t, LetterTags, LetterUp)
      BY <3>2, <3>6, <3>8, LetterSends
    <3>10. Watched(calls', LetterTags, LetterUp)
      BY <3>2, <3>8, <3>9, LetterSends
    <3> QED BY <1>0, <2>1, <3>1, <3>10, LetterFlagsStay DEF Flagged
  <2>3. CASE ~ fine
    <3>1. Letters!Done(k) /\ ledger' = [ledger EXCEPT !.error = TRUE]
      BY <1>9, <2>3 DEF Letters!EditorOpens
    <3>2. Flagged(ledger, {"clearing", "subject"})' /\ ledger.clearing' = ledger.clearing
      BY <1>0, <3>1 DEF Flagged
    <3> QED BY <1>0, <1>3, <2>1, <3>1, <3>2 DEF Flagged
  <2> QED BY <2>2, <2>3
<1>10. CASE Letters!LetterOpened(k, fine)
  <2>1. /\ Letters!Done(k) /\ UNCHANGED ledger
        /\ \/ editor' = [editor EXCEPT !.loading = FALSE]
           \/ editor' = [editor EXCEPT !.text = calls[k].reply.id, !.id = calls[k].reply.id,
                                       !.job = calls[k].reply.job, !.loading = FALSE]
    BY <1>10 DEF Letters!LetterOpened, Letters!OnMarkdown
  <2>2. UNCHANGED <<editor.saving, editor.exporting>> /\ Flagged(editor, {"saving", "exporting", "id", "job"})'
    BY <1>0, <2>1 DEF Flagged
  <2> QED BY <1>0, <1>3, <2>1, <2>2 DEF Flagged
<1>11. CASE Letters!DraftLoaded(k, fine)
  <2> DEFINE letter == calls[k].reply.draft
  <2>0. UNCHANGED ledger
    BY <1>11 DEF Letters!DraftLoaded, Letters!OnMarkdown
  <2>1. CASE fine /\ letter # None
    <3>1. /\ Letters!Then(k, "deleteDraft", [id |-> letter.id])
          /\ editor' = [editor EXCEPT !.text = letter.id, !.id = letter.id, !.job = letter.job]
      BY <1>11, <2>1 DEF Letters!DraftLoaded
    <3>2. UNCHANGED <<editor.saving, editor.exporting>> /\ Flagged(editor, {"saving", "exporting", "id", "job"})'
      BY <1>0, <3>1 DEF Flagged
    <3> QED BY <1>0, <1>5, <2>0, <3>1, <3>2 DEF Flagged
  <2>2. CASE ~ (fine /\ letter # None)
    <3>1. Letters!Done(k) /\ UNCHANGED editor
      BY <1>11, <2>2 DEF Letters!DraftLoaded
    <3> QED BY <1>0, <1>3, <2>0, <3>1 DEF Flagged
  <2> QED BY <2>1, <2>2
<1>12. CASE Letters!DraftDeleted(k, fine)
  <2>1. Letters!Done(k) /\ UNCHANGED <<ledger, editor>>
    BY <1>12 DEF Letters!DraftDeleted, Letters!OnMarkdown
  <2> QED BY <1>0, <1>3, <2>1 DEF Flagged
<1>13. CASE Letters!LettersListed(k, fine)
  <2> DEFINE last == calls[k].arg.origin = "save"
  <2>1. /\ calls[k].op = "letters" /\ Letters!Done(k) /\ UNCHANGED ledger
        /\ editor' = [editor EXCEPT !.list = IF fine THEN calls[k].reply.list ELSE @, !.saving = @ /\ ~ last]
    BY <1>13 DEF Letters!LettersListed, Letters!Answered, Letters!OnMarkdown
  <2>2. /\ Flagged(editor, {"saving", "exporting", "id", "job"})' /\ editor.exporting' = editor.exporting
        /\ editor.saving' = (editor.saving /\ ~ last)
    BY <1>0, <2>1 DEF Flagged
  <2>3. CASE last
    <3>1. OfKind("version", calls[k])
      BY <2>1, <2>3 DEF OfKind
    <3>2. LetterUp' = LetterUp \ {"version"}
      BY <2>1, <2>2, <2>3 DEF LetterUp
    <3> QED BY <1>0, <1>4, <2>1, <2>2, <3>1, <3>2 DEF Flagged
  <2>4. CASE ~ last
    <3>1. LetterUp' = LetterUp
      BY <2>1, <2>2, <2>4 DEF LetterUp
    <3>2. calls' = rest
      BY <2>1 DEF Letters!Done
    <3> HIDE DEF rest
    <3> QED BY <1>0, <1>2, <2>1, <2>2, <3>1, <3>2 DEF LettersIInv, Flagged
  <2> QED BY <2>3, <2>4
<1>14. CASE Letters!VersionSaved(k, fine)
  <2>1. calls[k].op = "version" /\ UNCHANGED ledger
    BY <1>14 DEF Letters!VersionSaved, Letters!Answered, Letters!OnMarkdown
  <2>2. CASE fine
    <3>1. /\ Letters!Then(k, "letters", [origin |-> "save"])
          /\ editor' = [editor EXCEPT !.id = calls[k].reply.id, !.job = calls[k].reply.job]
      BY <1>14, <2>2 DEF Letters!VersionSaved
    <3>2. UNCHANGED <<editor.saving, editor.exporting>> /\ Flagged(editor, {"saving", "exporting", "id", "job"})'
      BY <1>0, <3>1 DEF Flagged
    <3> QED BY <1>0, <1>5, <2>1, <3>1, <3>2 DEF Flagged
  <2>3. CASE ~ fine
    <3>1. Letters!Done(k) /\ editor' = [editor EXCEPT !.saving = FALSE]
      BY <1>14, <2>3 DEF Letters!VersionSaved
    <3>2. /\ Flagged(editor, {"saving", "exporting", "id", "job"})'
          /\ editor.saving' = FALSE /\ editor.exporting' = editor.exporting
      BY <1>0, <3>1 DEF Flagged
    <3>3. OfKind("version", calls[k]) /\ LetterUp' = LetterUp \ {"version"}
      BY <2>1, <3>2 DEF OfKind, LetterUp
    <3> QED BY <1>0, <1>4, <2>1, <3>1, <3>2, <3>3 DEF Flagged
  <2> QED BY <2>2, <2>3
<1> QED BY <1>6, <1>7, <1>8, <1>9, <1>10, <1>11, <1>12, <1>13, <1>14 DEF Letters!OnAnswer

\* A step of the pages.
LEMMA LettersStep ==
  ASSUME LettersIInv, Letters!Next
  PROVE  LettersIInv'
<1>0. /\ Watched(calls, LetterTags, LetterUp)
      /\ Flagged(ledger, {"clearing", "subject"}) /\ Flagged(editor, {"saving", "exporting", "id", "job"})
  BY DEF LettersIInv
<1>1. ASSUME NEW k \in DOMAIN calls, Letters!Gateway(k) PROVE LettersIInv'
  <2>1. UNCHANGED <<ledger, editor>> /\ \E reply : Replies(calls', calls, k, reply)
    BY <1>1 DEF Letters!Gateway, Letters!ListLedger, Letters!ClearLedger, Letters!GetLetter, Letters!ListLetters,
                Letters!PutDraft, Letters!GetDraft, Letters!DeleteDraft, Letters!SaveVersion, Letters!Server,
                Letters!Reply, Replies
  <2>2. PICK reply : Replies(calls', calls, k, reply)
    BY <2>1
  <2>3. "served" \notin LetterTags
    BY DEF LetterTags
  <2>4. Watched(calls', LetterTags, LetterUp)
    BY <1>0, <2>2, <2>3, WatchedReplied
  <2> QED BY <1>0, <2>1, <2>4, LetterFlagsStay DEF Flagged
<1>2. ASSUME NEW k \in DOMAIN calls, Letters!PreviewShown(k) PROVE LettersIInv'
  <2>1. Ends(calls', calls, k) /\ UNCHANGED <<ledger, editor>>
    BY <1>2 DEF Letters!PreviewShown, Letters!Rendered, Letters!Done, Letters!OnMarkdown, Letters!RemoveAt,
                Tracker!RemoveAt, Ends
  <2>2. Watched(calls', LetterTags, LetterUp)
    BY <1>0, <2>1, LetterEnds
  <2> QED BY <1>0, <2>1, <2>2, LetterFlagsStay DEF Flagged
<1>3. ASSUME NEW k \in DOMAIN calls, Letters!Exported(k) PROVE LettersIInv'
  <2>1. /\ calls[k].op \in {"pdf", "docx"} /\ Ends(calls', calls, k) /\ UNCHANGED ledger
        /\ editor' = [editor EXCEPT !.exporting = @ \ {calls[k].op}]
    BY <1>3 DEF Letters!Exported, Letters!Rendered, Letters!Waiting, Letters!Done, Letters!OnMarkdown, Letters!RemoveAt,
                Tracker!RemoveAt, Ends
  <2>2. /\ Flagged(editor, {"saving", "exporting", "id", "job"})'
        /\ editor.saving' = editor.saving /\ editor.exporting' = editor.exporting \ {calls[k].op}
    BY <1>0, <2>1 DEF Flagged
  <2> DEFINE lowered == {calls[k].op}
  <2>3. (\A tag \in lowered : OfKind(tag, calls[k])) /\ LetterUp' = LetterUp \ lowered
    BY <2>1, <2>2 DEF OfKind, LetterUp
  <2> HIDE DEF lowered
  <2>4. Watched(calls', LetterTags, LetterUp \ lowered)
    BY <1>0, <2>1, <2>3, WatchedEnded
  <2> QED BY <1>0, <2>1, <2>2, <2>3, <2>4 DEF LettersIInv, Flagged
<1>4. CASE Letters!Answers
  <2>1. CASE Letters!PreviewDue
    BY <2>1, LettersActOnMarkdown
  <2>2. CASE ~ Letters!PreviewDue
    <3>1. PICK k \in DOMAIN calls :
            \/ Letters!Gateway(k) \/ Letters!PreviewShown(k) \/ Letters!Exported(k)
            \/ \E fine \in BOOLEAN : Letters!OnAnswer(k, fine)
      BY <1>4, <2>2, Zenon DEF Letters!Answers
    <3> QED BY <1>1, <1>2, <1>3, <3>1, LettersHear, Zenon
  <2> QED BY <2>1, <2>2
<1>5. CASE ~ Letters!Answers
  <2>1. CASE \/ (\E subject \in {"all", "cover_letter"} : Letters!Filter(subject)) \/ Letters!ClearHistory
             \/ Letters!OpenInMarkdown \/ (\E id \in 0..2 : Letters!Select(id))
    BY <2>1, LettersActOnHistory, Zenon
  <2>2. CASE \/ Letters!TypeText \/ (\E text \in {Letters!Template, None} : Letters!ApplyTemplate(text))
             \/ Letters!SaveCoverLetterVersion \/ (\E id \in 1..3 : Letters!OpenLetter(id))
             \/ (\E kind \in {"pdf", "docx"} : Letters!Export(kind))
    BY <2>2, LettersActOnMarkdown, Zenon
  <2> QED BY <1>5, <2>1, <2>2, Zenon DEF Letters!Next
<1> QED BY <1>4, <1>5

-----------------------------------------------------------------------------
(* The resume builder *)

TailorTags == {"upload", "letter", "stream", "served"}

TailorUp ==
  {tag \in {"upload", "letter", "stream"} :
     \/ tag = "upload" /\ flags.uploading
     \/ tag = "letter" /\ flags.generating
     \/ tag = "stream" /\ builder.ghost}

\* What is read is the run of the page.
Reads(s, job) == \A k \in DOMAIN s : s[k].op = "stream" => s[k].arg = job

TailorFields == Flagged(builder, {"job", "ghost"}) /\ Flagged(flags, {"uploading", "generating"})

\* An import and a letter are sent once, while the flag is up; one stream is read, that of the run the
\* page holds, and only while the pane is shown; and no answer waits to be heard.
TailorIInv == Watched(calls, TailorTags, TailorUp) /\ Reads(calls, builder.job) /\ TailorFields

TailorPlain(c) == \A tag \in TailorTags : ~ OfKind(tag, c)

\* Requests of the builder that no flag guards.
LEMMA TailorPlainOps ==
  ASSUME NEW op, NEW arg, NEW c, c = [op |-> op, arg |-> arg, reply |-> None], op \in {"optimize", "score", "load"}
  PROVE  IsRequest(c) /\ TailorPlain(c) /\ c.op # "stream"
<1>1. IsRequest(c) /\ c.op = op /\ c.reply = None
  BY NewRequest
<1> QED BY <1>1 DEF TailorPlain, TailorTags, OfKind

\* Such a request is sent: the stream that is read stays the one of the job.
LEMMA TailorSends ==
  ASSUME NEW s, NEW up, Watched(s, TailorTags, up), NEW c, TailorPlain(c), c.op # "stream", NEW r, Sends(r, s, c),
         NEW job, Reads(s, job)
  PROVE  Watched(r, TailorTags, up) /\ Reads(r, job)
<1>1. \A tag \in TailorTags \ {} : ~ OfKind(tag, c)
  BY DEF TailorPlain
<1>2. Watched(r, TailorTags, up \cup {})
  BY <1>1, WatchedSent
<1>3. AfterSend(r, s, c)
  BY Sent DEF Watched
<1> QED BY <1>2, <1>3 DEF AfterSend, Reads

\* A request is heard of: those that are read are still read.
LEMMA ReadsOn ==
  ASSUME NEW s, Requests(s), NEW job, Reads(s, job), NEW k \in DOMAIN s, NEW r,
         Ends(r, s, k) \/ \E c : c.op # "stream" /\ Follows(r, s, k, c)
  PROVE  Reads(r, job)
<1>1. CASE Ends(r, s, k)
  <2>1. AfterEnd(r, s, k)
    BY <1>1, Heard
  <2> QED BY <2>1 DEF AfterEnd, Keeps, Reads
<1>2. ASSUME NEW c, c.op # "stream", Follows(r, s, k, c) PROVE Reads(r, job)
  <2>1. AfterFollow(r, s, k, c)
    BY <1>2, Followed
  <2>2. Keeps(r, s, {k}, {Len(s)}) /\ r[Len(s)] = c
    BY <2>1 DEF AfterFollow
  <2>3. PICK place \in [DOMAIN r \ {Len(s)} -> DOMAIN s \ {k}] : \A i \in DOMAIN r \ {Len(s)} : r[i] = s[place[i]]
    BY <2>2 DEF Keeps
  <2> QED BY <1>2, <2>2, <2>3 DEF Reads
<1> QED BY <1>1, <1>2

\* A request of the builder ends.
LEMMA TailorEnds ==
  ASSUME NEW s, NEW up, Watched(s, TailorTags, up), NEW k \in DOMAIN s, NEW r, Ends(r, s, k), NEW job, Reads(s, job)
  PROVE  Watched(r, TailorTags, up) /\ Reads(r, job)
<1>1. Watched(r, TailorTags, up \ {})
  BY WatchedEnded
<1>2. Reads(r, job)
  BY ReadsOn DEF Watched
<1> QED BY <1>1, <1>2

\* The pane reads the run it is given, once, after it stopped reading the other one.
LEMMA TailorReads ==
  ASSUME NEW s, NEW up, Watched(s, TailorTags, up), Reads(s, builder.job), TailorFields,
         "stream" \in up <=> builder.ghost, NEW job, NEW ghost, Tailor!Read(s, job, ghost)
  PROVE  /\ Watched(calls', TailorTags, (up \ {"stream"}) \cup {tag \in {"stream"} : ghost}) /\ Reads(calls', job)
         /\ Flagged(builder, {"job", "ghost"})' /\ builder.job' = job /\ builder.ghost' = ghost
<1> DEFINE upon == (up \ {"stream"}) \cup {tag \in {"stream"} : ghost}
<1>1. Flagged(builder, {"job", "ghost"})' /\ builder.job' = job /\ builder.ghost' = ghost
  BY DEF Tailor!Read, TailorFields, Flagged
<1>2. CASE job = builder.job /\ ghost = builder.ghost
  <2>1. calls' = s
    BY <1>2 DEF Tailor!Read
  <2>2. up \subseteq upon
    BY <1>2
  <2> HIDE DEF upon
  <2>3. Watched(calls', TailorTags, upon)
    BY <2>1, <2>2, WatchedMore
  <2> QED BY <1>1, <1>2, <2>1, <2>3 DEF upon
<1>3. CASE ~ (job = builder.job /\ ghost = builder.ghost)
  <2> DEFINE kept == {k \in DOMAIN s : s[k].op # "stream"}
             q == Tailor!Only(s, kept)
             c == [op |-> "stream", arg |-> job, reply |-> None]
             lowered == {"stream"}
  <2>1. calls' = q \o (IF ghost /\ job # None THEN <<c>> ELSE <<>>)
    BY <1>3 DEF Tailor!Read, Tailor!Aborted, Tailor!Call
  <2>2. Selects(q, s, kept)
    BY DEF Selects, Tailor!Only, Tracker!Only, Tailor!Cardinality, Tracker!Cardinality
  <2>3. kept \in SUBSET (DOMAIN s) /\ \A tag \in lowered : \A k \in kept : ~ OfKind(tag, s[k])
    BY DEF OfKind
  <2>4. IsRequest(c) /\ c.op = "stream" /\ c.arg = job /\ c.reply = None
    BY NewRequest
  <2> HIDE DEF kept, q, c, lowered
  <2>5. Watched(q, TailorTags, up \ lowered)
    BY <2>2, <2>3, WatchedSelected
  <2>6. Requests(q) /\ \A k \in DOMAIN q : q[k].op # "stream"
    <3>1. "stream" \in TailorTags /\ "stream" \notin up \ lowered
      BY DEF TailorTags, lowered
    <3>2. Requests(q) /\ Once("stream", q, "stream" \in up \ lowered)
      BY <2>5, <3>1 DEF Watched
    <3>3. \A k \in DOMAIN q : ~ OfKind("stream", q[k])
      BY <3>1, <3>2 DEF Once
    <3> QED BY <3>2, <3>3 DEF OfKind
  <2>7. CASE ~ (ghost /\ job # None)
    <3>1. calls' = q
      BY <2>1, <2>6, <2>7, Twice
    <3>2. up \ lowered \subseteq upon
      BY DEF lowered
    <3> HIDE DEF upon
    <3>3. Watched(calls', TailorTags, upon)
      BY <2>5, <3>1, <3>2, WatchedMore
    <3>4. Reads(calls', job)
      BY <2>6, <3>1 DEF Reads
    <3> QED BY <1>1, <3>3, <3>4 DEF upon
  <2>8. CASE ghost /\ job # None
    <3>1. calls' = Append(q, c)
      BY <2>1, <2>6, <2>8, Twice
    <3>2. Sends(calls', q, c) /\ lowered \cap (up \ lowered) = {}
      BY <2>4, <3>1 DEF Sends
    <3>3. \A tag \in TailorTags \ lowered : ~ OfKind(tag, c)
      BY <2>4 DEF TailorTags, OfKind, lowered
    <3>4. Watched(calls', TailorTags, (up \ lowered) \cup lowered)
      BY <2>5, <3>2, <3>3, WatchedSent
    <3>5. (up \ lowered) \cup lowered = upon
      BY <2>8 DEF lowered
    <3>6. AfterSend(calls', q, c)
      BY <2>6, <3>2, Sent
    <3>7. Reads(calls', job)
      BY <2>4, <2>6, <3>6 DEF AfterSend, Reads
    <3> QED BY <1>1, <3>4, <3>5, <3>7
  <2> QED BY <2>7, <2>8
<1> QED BY <1>2, <1>3

\* A step that reads another run, or the same; the flags stay.
LEMMA TailorReadsOn ==
  ASSUME TailorIInv, NEW s, Watched(s, TailorTags, TailorUp), Reads(s, builder.job), NEW job, NEW ghost,
         Tailor!Read(s, job, ghost), Flagged(flags, {"uploading", "generating"})',
         UNCHANGED <<flags.uploading, flags.generating>>
  PROVE  TailorIInv'
<1>1. TailorFields /\ ("stream" \in TailorUp <=> builder.ghost)
  BY DEF TailorIInv, TailorUp
<1>2. /\ Watched(calls', TailorTags, (TailorUp \ {"stream"}) \cup {tag \in {"stream"} : ghost}) /\ Reads(calls', job)
      /\ Flagged(builder, {"job", "ghost"})' /\ builder.job' = job /\ builder.ghost' = ghost
  BY <1>1, TailorReads
<1>3. (TailorUp \ {"stream"}) \cup {tag \in {"stream"} : ghost} = TailorUp'
  BY <1>2 DEF TailorUp
<1> QED BY <1>2, <1>3 DEF TailorIInv, TailorFields

\* A step on the requests that leaves the run, the pane and the flags.
LEMMA TailorStays ==
  ASSUME TailorIInv, Watched(calls', TailorTags, TailorUp), Reads(calls', builder.job),
         Flagged(builder, {"job", "ghost"})', UNCHANGED <<builder.job, builder.ghost>>,
         Flagged(flags, {"uploading", "generating"})', UNCHANGED <<flags.uploading, flags.generating>>
  PROVE  TailorIInv'
<1>1. TailorUp' = TailorUp
  BY DEF TailorUp
<1> QED BY <1>1 DEF TailorIInv, TailorFields

\* The user acts.
LEMMA TailorActs ==
  ASSUME TailorIInv,
         \/ Tailor!Optimize \/ Tailor!ToggleGhost \/ Tailor!TogglePanel \/ Tailor!Score \/ Tailor!ClearInsights \/ Tailor!UploadPdf
         \/ Tailor!OpenModal \/ Tailor!CloseModal \/ Tailor!Generate \/ \E id \in Tailor!Library : Tailor!SelectResume(id)
  PROVE  TailorIInv'
<1>0. /\ Watched(calls, TailorTags, TailorUp) /\ Reads(calls, builder.job)
      /\ Flagged(builder, {"job", "ghost"}) /\ Flagged(flags, {"uploading", "generating"})
  BY DEF TailorIInv, TailorFields
<1>1. CASE Tailor!Optimize
  <2> DEFINE c == [op |-> "optimize", arg |-> [run |-> acts + 1, resume |-> active], reply |-> None]
             s == Append(calls, c)
  <2>1. Tailor!Read(s, None, TRUE) /\ flags' = [flags EXCEPT !.optimizing = TRUE]
    BY <1>1 DEF Tailor!Optimize, Tailor!Call
  <2>2. IsRequest(c) /\ TailorPlain(c) /\ c.op # "stream"
    BY TailorPlainOps
  <2>3. Flagged(flags, {"uploading", "generating"})' /\ UNCHANGED <<flags.uploading, flags.generating>>
    BY <1>0, <2>1 DEF Flagged
  <2> HIDE DEF c
  <2>4. Sends(s, calls, c)
    BY <2>2 DEF Sends
  <2> HIDE DEF s
  <2>5. Watched(s, TailorTags, TailorUp) /\ Reads(s, builder.job)
    BY <1>0, <2>2, <2>4, TailorSends
  <2> QED BY <2>1, <2>3, <2>5, TailorReadsOn
<1>2. CASE Tailor!ToggleGhost
  <2>1. Tailor!Read(calls, builder.job, ~ builder.ghost) /\ UNCHANGED flags
    BY <1>2 DEF Tailor!ToggleGhost
  <2> QED BY <1>0, <2>1, TailorReadsOn DEF Flagged
<1>3. CASE \/ Tailor!TogglePanel \/ Tailor!ClearInsights \/ Tailor!OpenModal \/ Tailor!CloseModal
           \/ \E id \in Tailor!Library : Tailor!SelectResume(id)
  <2>1. /\ UNCHANGED calls
        /\ \/ UNCHANGED builder
           \/ \E panel : builder' = [builder EXCEPT !.panel = panel]
           \/ \E modal : builder' = [builder EXCEPT !.modal = modal]
        /\ UNCHANGED flags \/ flags' = [flags EXCEPT !.scoring = FALSE]
    BY <1>3 DEF Tailor!TogglePanel, Tailor!ClearInsights, Tailor!OpenModal, Tailor!CloseModal, Tailor!SelectResume, Tailor!Edit
  <2>2. /\ Flagged(builder, {"job", "ghost"})' /\ UNCHANGED <<builder.job, builder.ghost>>
        /\ Flagged(flags, {"uploading", "generating"})' /\ UNCHANGED <<flags.uploading, flags.generating>>
    BY <1>0, <2>1 DEF Flagged
  <2>3. Watched(calls', TailorTags, TailorUp) /\ Reads(calls', builder.job)
    BY <1>0, <2>1
  <2> QED BY <2>2, <2>3, TailorStays
<1>4. CASE Tailor!Score
  <2> DEFINE c == [op |-> "score", arg |-> [insights |-> insights, panel |-> builder.panel], reply |-> None]
  <2>1. calls' = Append(calls, c) /\ UNCHANGED builder /\ flags' = [flags EXCEPT !.scoring = TRUE]
    BY <1>4 DEF Tailor!Score, Tailor!Ask, Tailor!Call
  <2>2. IsRequest(c) /\ TailorPlain(c) /\ c.op # "stream"
    BY TailorPlainOps
  <2>3. Flagged(flags, {"uploading", "generating"})' /\ UNCHANGED <<flags.uploading, flags.generating>>
    BY <1>0, <2>1 DEF Flagged
  <2> HIDE DEF c
  <2>4. Sends(calls', calls, c)
    BY <2>1, <2>2 DEF Sends
  <2>5. Watched(calls', TailorTags, TailorUp) /\ Reads(calls', builder.job)
    BY <1>0, <2>2, <2>4, TailorSends
  <2> QED BY <1>0, <2>1, <2>3, <2>5, TailorStays DEF Flagged
<1>5. CASE Tailor!UploadPdf \/ Tailor!Generate
  <2> DEFINE op == IF Tailor!UploadPdf THEN "upload" ELSE "letter"
             c == [op |-> op, arg |-> None, reply |-> None]
             raised == {op}
  <2>1. /\ calls' = Append(calls, c) /\ UNCHANGED builder
        /\ \/ op = "upload" /\ ~ flags.uploading /\ flags' = [flags EXCEPT !.uploading = TRUE]
           \/ op = "letter" /\ ~ flags.generating /\ flags' = [flags EXCEPT !.generating = TRUE]
    BY <1>5 DEF Tailor!UploadPdf, Tailor!Generate, Tailor!Ask, Tailor!Call
  <2>2. IsRequest(c) /\ c.op = op /\ c.reply = None
    BY NewRequest
  <2> HIDE DEF c, op
  <2>3. /\ Flagged(flags, {"uploading", "generating"})'
        /\ \/ op = "upload" /\ flags.uploading' = TRUE /\ flags.generating' = flags.generating
           \/ op = "letter" /\ flags.uploading' = flags.uploading /\ flags.generating' = TRUE
    BY <1>0, <2>1 DEF Flagged
  <2>4. Sends(calls', calls, c) /\ raised \cap TailorUp = {} /\ TailorUp' = TailorUp \cup raised
    BY <2>1, <2>2, <2>3 DEF Sends, TailorUp
  <2>5. \A tag \in TailorTags \ raised : ~ OfKind(tag, c)
    BY <2>1, <2>2 DEF TailorTags, OfKind
  <2>6. c.op # "stream"
    BY <2>1, <2>2
  <2> HIDE DEF raised
  <2>7. Watched(calls', TailorTags, TailorUp')
    BY <1>0, <2>4, <2>5, WatchedSent
  <2>8. AfterSend(calls', calls, c)
    BY <1>0, <2>4, Sent DEF Watched
  <2>9. Reads(calls', builder.job)
    BY <1>0, <2>6, <2>8 DEF AfterSend, Reads
  <2> QED BY <1>0, <2>1, <2>3, <2>7, <2>9 DEF TailorIInv, TailorFields, Flagged
<1> QED BY <1>1, <1>2, <1>3, <1>4, <1>5

\* The page hears of a request, or of an event of the run it reads.
LEMMA TailorHears ==
  ASSUME TailorIInv, NEW k \in DOMAIN calls,
         \/ Tailor!JobResult(k) \/ Tailor!CompanyResult(k) \/ Tailor!RunDone(k) \/ Tailor!RunFails(k) \/ Tailor!Uploaded(k)
         \/ \E fine \in BOOLEAN :
              \/ Tailor!Started(k, fine) \/ Tailor!Scored(k, fine) \/ Tailor!ResumesLoaded(k, fine)
              \/ Tailor!LetterHeard(k, fine) \/ Tailor!DraftSaved(k, fine)
  PROVE  TailorIInv'
<1> DEFINE rest == Tailor!RemoveAt(calls, k)
<1>0. /\ Watched(calls, TailorTags, TailorUp) /\ Reads(calls, builder.job)
      /\ Flagged(builder, {"job", "ghost"}) /\ Flagged(flags, {"uploading", "generating"})
  BY DEF TailorIInv, TailorFields
<1>1. Ends(rest, calls, k)
  BY DEF Ends, Tailor!RemoveAt, Tracker!RemoveAt
<1>2. Watched(rest, TailorTags, TailorUp) /\ Reads(rest, builder.job)
  <2> HIDE DEF rest
  <2> QED BY <1>0, <1>1, TailorEnds
\* It ends, and a flag comes down.
<1>3. ASSUME NEW tag \in {"upload", "letter"}, Tailor!Done(k), OfKind(tag, calls[k]),
             TailorUp' = TailorUp \ {tag}, UNCHANGED builder, Flagged(flags, {"uploading", "generating"})'
      PROVE  TailorIInv'
  <2> DEFINE lowered == {tag}
  <2>1. calls' = rest /\ (\A other \in lowered : OfKind(other, calls[k])) /\ TailorUp' = TailorUp \ lowered
    BY <1>3 DEF Tailor!Done
  <2> HIDE DEF rest, lowered
  <2>2. Watched(calls', TailorTags, TailorUp \ lowered)
    BY <1>0, <1>1, <2>1, WatchedEnded
  <2>3. Reads(calls', builder.job)
    BY <1>2, <2>1
  <2> QED BY <1>0, <1>3, <2>1, <2>2, <2>3 DEF TailorIInv, TailorFields, Flagged
<1>4. CASE Tailor!JobResult(k) \/ Tailor!CompanyResult(k)
  <2>1. /\ UNCHANGED <<calls, flags>>
        /\ UNCHANGED builder \/ \E panel : builder' = [builder EXCEPT !.panel = panel]
    BY <1>4 DEF Tailor!JobResult, Tailor!CompanyResult
  <2>2. Flagged(builder, {"job", "ghost"})' /\ UNCHANGED <<builder.job, builder.ghost>>
    BY <1>0, <2>1 DEF Flagged
  <2>3. Watched(calls', TailorTags, TailorUp) /\ Reads(calls', builder.job)
    BY <1>0, <2>1
  <2> QED BY <1>0, <2>1, <2>2, <2>3, TailorStays DEF Flagged
<1>5. CASE Tailor!RunDone(k)
  <2>1. Tailor!Read(rest, builder.job, FALSE) /\ flags' = [flags EXCEPT !.optimizing = FALSE]
    BY <1>5 DEF Tailor!RunDone
  <2>2. Flagged(flags, {"uploading", "generating"})' /\ UNCHANGED <<flags.uploading, flags.generating>>
    BY <1>0, <2>1 DEF Flagged
  <2> HIDE DEF rest
  <2> QED BY <1>2, <2>1, <2>2, TailorReadsOn
<1>6. ASSUME NEW fine \in BOOLEAN, Tailor!Started(k, fine) PROVE TailorIInv'
  <2>1. /\ \E job, ghost : Tailor!Read(rest, job, ghost)
        /\ UNCHANGED flags \/ flags' = [flags EXCEPT !.optimizing = FALSE]
    BY <1>6 DEF Tailor!Started
  <2>2. Flagged(flags, {"uploading", "generating"})' /\ UNCHANGED <<flags.uploading, flags.generating>>
    BY <1>0, <2>1 DEF Flagged
  <2> HIDE DEF rest
  <2> QED BY <1>2, <2>1, <2>2, TailorReadsOn
<1>7. ASSUME Tailor!RunFails(k) \/ \E fine \in BOOLEAN : Tailor!Scored(k, fine) \/ Tailor!ResumesLoaded(k, fine)
      PROVE  TailorIInv'
  <2>1. /\ Tailor!Done(k) /\ UNCHANGED builder
        /\ \/ UNCHANGED flags
           \/ flags' = [flags EXCEPT !.optimizing = FALSE]
           \/ flags' = [flags EXCEPT !.scoring = @ /\ calls[k].arg.panel # builder.panel]
    BY <1>7 DEF Tailor!RunFails, Tailor!Scored, Tailor!ResumesLoaded
  <2>2. Flagged(flags, {"uploading", "generating"})' /\ UNCHANGED <<flags.uploading, flags.generating>>
    BY <1>0, <2>1 DEF Flagged
  <2>3. calls' = rest
    BY <2>1 DEF Tailor!Done
  <2> HIDE DEF rest
  <2> QED BY <1>0, <1>2, <2>1, <2>2, <2>3, TailorStays DEF Flagged
<1>8. CASE Tailor!Uploaded(k)
  <2>1. calls[k].op = "upload" /\ Tailor!Done(k) /\ UNCHANGED builder /\ flags' = [flags EXCEPT !.uploading = FALSE]
    BY <1>8 DEF Tailor!Uploaded, Tailor!Heard
  <2>2. /\ Flagged(flags, {"uploading", "generating"})'
        /\ flags.uploading' = FALSE /\ flags.generating' = flags.generating
    BY <1>0, <2>1 DEF Flagged
  <2>3. OfKind("upload", calls[k]) /\ TailorUp' = TailorUp \ {"upload"}
    BY <2>1, <2>2 DEF OfKind, TailorUp
  <2> QED BY <1>3, <2>1, <2>2, <2>3
<1>9. ASSUME NEW fine \in BOOLEAN, Tailor!LetterHeard(k, fine) PROVE TailorIInv'
  <2>1. calls[k].op = "letter" /\ UNCHANGED builder
    BY <1>9 DEF Tailor!LetterHeard, Tailor!Heard
  <2>2. CASE fine
    <3> DEFINE c == [op |-> "draft", arg |-> None, reply |-> None]
    <3>1. calls' = Append(rest, c) /\ UNCHANGED flags
      BY <1>9, <2>2 DEF Tailor!LetterHeard, Tailor!Then, Tailor!Call
    <3>2. IsRequest(c) /\ c.op = "draft" /\ c.reply = None
      BY NewRequest
    <3>3. Follows(calls', calls, k, c)
      BY <3>1, <3>2 DEF Follows, Tailor!RemoveAt, Tracker!RemoveAt
    <3> HIDE DEF c, rest
    <3>4. \A tag \in TailorTags : OfKind(tag, c) => OfKind(tag, calls[k])
      BY <2>1, <3>2 DEF OfKind, TailorTags
    <3>5. Watched(calls', TailorTags, TailorUp \ {})
      BY <1>0, <3>3, <3>4, WatchedFollowed
    <3>6. c.op # "stream"
      BY <3>2
    <3>7. Reads(calls', builder.job)
      BY <1>0, <3>3, <3>6, ReadsOn DEF Watched
    <3>8. Watched(calls', TailorTags, TailorUp)
      BY <3>5
    <3> QED BY <1>0, <2>1, <3>1, <3>7, <3>8, TailorStays DEF Flagged
  <2>3. CASE ~ fine
    <3>1. Tailor!Done(k) /\ flags' = [flags EXCEPT !.generating = FALSE]
      BY <1>9, <2>3 DEF Tailor!LetterHeard
    <3>2. /\ Flagged(flags, {"uploading", "generating"})'
          /\ flags.uploading' = flags.uploading /\ flags.generating' = FALSE
      BY <1>0, <3>1 DEF Flagged
    <3>3. OfKind("letter", calls[k]) /\ TailorUp' = TailorUp \ {"letter"}
      BY <2>1, <3>2 DEF OfKind, TailorUp
    <3> QED BY <1>3, <2>1, <3>1, <3>2, <3>3
  <2> QED BY <2>2, <2>3
<1>10. ASSUME NEW fine \in BOOLEAN, Tailor!DraftSaved(k, fine) PROVE TailorIInv'
  <2>1. calls[k].op = "draft" /\ flags' = [flags EXCEPT !.generating = FALSE]
    BY <1>10 DEF Tailor!DraftSaved, Tailor!Heard
  <2>2. /\ Flagged(flags, {"uploading", "generating"})'
        /\ flags.uploading' = flags.uploading /\ flags.generating' = FALSE
    BY <1>0, <2>1 DEF Flagged
  <2>3. CASE ~ fine
    <3>1. Tailor!Done(k) /\ UNCHANGED builder
      BY <1>10, <2>3 DEF Tailor!DraftSaved
    <3>2. OfKind("letter", calls[k]) /\ TailorUp' = TailorUp \ {"letter"}
      BY <2>1, <2>2, <3>1 DEF OfKind, TailorUp
    <3> QED BY <1>3, <2>2, <3>1, <3>2
  <2>4. CASE fine
    <3> DEFINE kept == Tailor!Pending("load") \cup Tailor!Pending("score")
               lowered == {"letter"}
    <3>1. calls' = Tailor!Only(calls, kept) /\ builder' = [builder EXCEPT !.modal = FALSE]
      BY <1>10, <2>4 DEF Tailor!DraftSaved
    <3>2. Selects(calls', calls, kept)
      BY <3>1 DEF Selects, Tailor!Only, Tracker!Only, Tailor!Cardinality, Tracker!Cardinality
    <3>3. /\ kept \in SUBSET (DOMAIN calls)
          /\ \A i \in kept : calls[i].op \in {"load", "score"}
      BY DEF Tailor!Pending
    <3>4. Flagged(builder, {"job", "ghost"})' /\ UNCHANGED <<builder.job, builder.ghost>>
      BY <1>0, <3>1 DEF Flagged
    <3> HIDE DEF kept
    <3>5. \A tag \in lowered : \A i \in kept : ~ OfKind(tag, calls[i])
      BY <3>3 DEF OfKind
    <3>6. TailorUp' = TailorUp \ lowered
      BY <2>2, <3>4 DEF TailorUp
    <3> HIDE DEF lowered
    <3>7. Watched(calls', TailorTags, TailorUp')
      BY <1>0, <3>2, <3>3, <3>5, <3>6, WatchedSelected
    <3>8. Reads(calls', builder.job)
      <4>1. AfterSelect(calls', calls, kept)
        BY <1>0, <3>2, <3>3, Selected DEF Watched
      <4> QED BY <1>0, <4>1 DEF AfterSelect, Keeps, Reads
    <3> QED BY <2>2, <3>4, <3>7, <3>8 DEF TailorIInv, TailorFields
  <2> QED BY <2>3, <2>4
<1> QED BY <1>4, <1>5, <1>6, <1>7, <1>8, <1>9, <1>10

\* A step of the page.
LEMMA TailorStep ==
  ASSUME TailorIInv, Tailor!Next
  PROVE  TailorIInv'
<1>1. CASE Tailor!EventLost
  <2>1. UNCHANGED <<calls, builder, flags>>
    BY <1>1 DEF Tailor!EventLost
  <2> QED BY <2>1 DEF TailorIInv, TailorUp, TailorFields
<1>2. CASE Tailor!Answers
  <2>1. CASE ~ Tailor!EventLost
    <3>1. PICK k \in DOMAIN calls :
            \/ Tailor!JobResult(k) \/ Tailor!CompanyResult(k) \/ Tailor!RunDone(k) \/ Tailor!RunFails(k) \/ Tailor!Uploaded(k)
            \/ \E fine \in BOOLEAN :
                 \/ Tailor!Started(k, fine) \/ Tailor!Scored(k, fine) \/ Tailor!ResumesLoaded(k, fine)
                 \/ Tailor!LetterHeard(k, fine) \/ Tailor!DraftSaved(k, fine)
      BY <1>2, <2>1, Zenon DEF Tailor!Answers
    <3> QED BY <3>1, TailorHears, Zenon
  <2> QED BY <1>1, <2>1
<1>3. CASE ~ Tailor!Answers
  BY <1>3, TailorActs, Zenon DEF Tailor!Next
<1> QED BY <1>2, <1>3

-----------------------------------------------------------------------------
(* Steps on the requests, and the calls of a provider *)

\* What a step does to the requests, c being the one it writes.
Moves(r, s, c) ==
  \/ r = s
  \/ Sends(r, s, c)
  \/ \E k \in DOMAIN s : Ends(r, s, k) \/ Follows(r, s, k, c) \/ Puts(r, s, k, c)
  \/ \E kept \in SUBSET (DOMAIN s) : kept # DOMAIN s /\ Selects(r, s, kept)

\* Every request of r is the one that was written or one of s.
From(r, s, c) == \A i \in DOMAIN r : r[i] = c \/ \E j \in DOMAIN s : r[i] = s[j]

\* What stays in flight was in flight, or is the request that was sent.
LEMMA MovesKeep ==
  ASSUME NEW s, Requests(s), NEW c, NEW r, Moves(r, s, c)
  PROVE  Requests(r) /\ From(r, s, c)
<1>1. CASE r = s
  BY <1>1 DEF From
<1>2. CASE Sends(r, s, c)
  <2>1. AfterSend(r, s, c)
    BY <1>2, Sent
  <2> QED BY <2>1 DEF AfterSend, From
<1>3. ASSUME NEW k \in DOMAIN s, Ends(r, s, k) PROVE Requests(r) /\ From(r, s, c)
  <2>1. AfterEnd(r, s, k)
    BY <1>3, Heard
  <2> QED BY <2>1 DEF AfterEnd, Keeps, From
<1>4. ASSUME NEW k \in DOMAIN s, Follows(r, s, k, c) PROVE Requests(r) /\ From(r, s, c)
  <2>1. AfterFollow(r, s, k, c)
    BY <1>4, Followed
  <2>2. Requests(r) /\ Keeps(r, s, {k}, {Len(s)}) /\ r[Len(s)] = c
    BY <2>1 DEF AfterFollow
  <2>3. PICK place \in [DOMAIN r \ {Len(s)} -> DOMAIN s \ {k}] : \A i \in DOMAIN r \ {Len(s)} : r[i] = s[place[i]]
    BY <2>2 DEF Keeps
  <2> QED BY <2>2, <2>3 DEF From
<1>5. ASSUME NEW k \in DOMAIN s, Puts(r, s, k, c) PROVE Requests(r) /\ From(r, s, c)
  <2>1. AfterPut(r, s, k, c)
    BY <1>5, Put
  <2> QED BY <2>1 DEF AfterPut, From
<1>6. ASSUME NEW kept \in SUBSET (DOMAIN s), Selects(r, s, kept) PROVE Requests(r) /\ From(r, s, c)
  <2>1. AfterSelect(r, s, kept)
    BY <1>6, Selected
  <2> QED BY <2>1 DEF AfterSelect, Keeps, From
<1> QED BY <1>1, <1>2, <1>3, <1>4, <1>5, <1>6 DEF Moves

\* A reply writes the request it answers.
LEMMA RepliesMove ==
  ASSUME NEW s, Requests(s), NEW k \in DOMAIN s, NEW reply, NEW r, Replies(r, s, k, reply)
  PROVE  Moves(r, s, [op |-> s[k].op, arg |-> s[k].arg, reply |-> reply])
<1> DEFINE c == [op |-> s[k].op, arg |-> s[k].arg, reply |-> reply]
<1>1. s[k] = [op |-> s[k].op, arg |-> s[k].arg, reply |-> s[k].reply]
  BY DEF Requests, IsRequest
<1>2. [s[k] EXCEPT !.reply = reply] = c
  <2>1. \A op, arg, old : [[op |-> op, arg |-> arg, reply |-> old] EXCEPT !.reply = reply]
                            = [op |-> op, arg |-> arg, reply |-> reply]
    OBVIOUS
  <2> QED BY <1>1, <2>1
<1>3. IsRequest(c)
  BY DEF IsRequest
<1>4. r = [s EXCEPT ![k] = c]
  BY <1>2 DEF Replies
<1> HIDE DEF c
<1>5. Moves(r, s, c)
  BY <1>3, <1>4 DEF Moves, Puts
<1> QED BY <1>5 DEF c

\* A provider is called for the request at place k.
Provided(r, s, k) == s[k].reply = None /\ Replies(r, s, k, Ok)

\* Every set of natural numbers has a least one, as < is well founded.
LEMMA Least ==
  ASSUME NEW T \in SUBSET Nat, T # {}
  PROVE  \E x \in T : \A y \in T : x <= y
<1>1. IsWellFoundedOn(OpToRel(<,Nat), Nat)
  BY NatLessThanWellFounded
<1> DEFINE R == OpToRel(<, Nat)
<1>2. \A x, y \in Nat : x < y => <<x, y>> \in R
  BY DEF OpToRel
<1>3. IsWellFoundedOn(R, Nat)
  BY <1>1
<1> HIDE DEF R
<1>4. PICK x \in T : \A y \in T : ~ (<<y, x>> \in R)
  BY <1>3, WFMin
<1>5. \A y \in T : ~ (y < x)
  BY <1>2, <1>4
<1> QED BY <1>5

\* A request that is heard of and followed by another does not look like a call: the requests after it
\* would all be answered, and the last one is not.
LEMMA FollowingIsNoCall ==
  ASSUME NEW s, Requests(s), NEW j \in DOMAIN s, NEW c, c.reply = None, NEW r, Follows(r, s, j, c), NEW k \in DOMAIN s
  PROVE  ~ Provided(r, s, k)
<1> SUFFICES ASSUME Provided(r, s, k) PROVE FALSE
  OBVIOUS
<1> DEFINE n == Len(s)
<1>1. n \in Nat /\ DOMAIN s = 1..n
  BY Places DEF Requests
<1>a. Ok # None
  BY AnswersAssumption
<1>2. /\ \A i \in DOMAIN s : i < n => r[i] = IF i < j THEN s[i] ELSE s[i + 1]
      /\ r[n] = c
  <2>1. AfterFollow(r, s, j, c)
    BY Followed
  <2> QED BY <2>1 DEF AfterFollow
<1>3. /\ s[k].reply = None /\ r[k].reply = Ok
      /\ \A i \in DOMAIN s \ {k} : r[i] = s[i]
  <2>1. AfterReply(r, s, k, Ok)
    BY Replied DEF Provided
  <2>2. \A op, arg : [op |-> op, arg |-> arg, reply |-> Ok].reply = Ok
    OBVIOUS
  <2> QED BY <2>1, <2>2 DEF AfterReply, Provided
<1> HIDE DEF n
<1>4. k < n /\ s[n].reply = None
  BY <1>1, <1>a, <1>2, <1>3
<1>5. s[k + 1].reply = Ok
  BY <1>1, <1>a, <1>2, <1>3, <1>4
<1> DEFINE T == {i \in (k + 1)..n : s[i].reply # Ok}
<1>6. T \in SUBSET Nat /\ n \in T
  BY <1>1, <1>a, <1>4
<1>7. PICK x \in T : \A y \in T : x <= y
  <2> HIDE DEF T
  <2> QED BY <1>6, Least
<1>8. x - 1 \in (k + 1)..n /\ x - 1 < n /\ x - 1 # k /\ x - 1 + 1 = x /\ x - 1 \in DOMAIN s
  BY <1>1, <1>4, <1>5, <1>7
<1>9. j <= k
  BY <1>1, <1>a, <1>2, <1>3, <1>4
<1>10. s[x - 1] = s[x]
  BY <1>1, <1>2, <1>3, <1>8, <1>9
<1>11. x - 1 \in T
  BY <1>7, <1>8, <1>10
<1> QED BY <1>1, <1>7, <1>8, <1>11

\* No step but a reply looks like a call.
LEMMA MovesCallNothing ==
  ASSUME NEW s, Requests(s), NEW c, c.reply = None, NEW r, Moves(r, s, c), NEW k \in DOMAIN s
  PROVE  ~ Provided(r, s, k)
<1> SUFFICES ASSUME Provided(r, s, k) PROVE FALSE
  OBVIOUS
<1>1. /\ Len(r) = Len(s) /\ s[k].reply = None /\ r[k].reply = Ok
      /\ \A i \in DOMAIN s \ {k} : r[i] = s[i]
  <2>1. AfterReply(r, s, k, Ok)
    BY Replied DEF Provided
  <2>2. \A op, arg : [op |-> op, arg |-> arg, reply |-> Ok].reply = Ok
    OBVIOUS
  <2> QED BY <2>1, <2>2 DEF AfterReply, Provided
<1>2. Len(s) \in Nat /\ DOMAIN s = 1..Len(s) /\ Ok # None
  BY Places, AnswersAssumption DEF Requests
<1>3. CASE r = s
  BY <1>1, <1>2, <1>3
<1>4. CASE Sends(r, s, c)
  <2>1. AfterSend(r, s, c)
    BY <1>4, Sent
  <2> QED BY <1>1, <1>2, <2>1 DEF AfterSend
<1>5. ASSUME NEW j \in DOMAIN s, Ends(r, s, j) PROVE FALSE
  <2>1. AfterEnd(r, s, j)
    BY <1>5, Heard
  <2> QED BY <1>1, <1>2, <2>1 DEF AfterEnd
<1>6. ASSUME NEW j \in DOMAIN s, Follows(r, s, j, c) PROVE FALSE
  BY <1>6, FollowingIsNoCall
<1>7. ASSUME NEW j \in DOMAIN s, Puts(r, s, j, c) PROVE FALSE
  <2>1. AfterPut(r, s, j, c)
    BY <1>7, Put
  <2> QED BY <1>1, <1>2, <2>1 DEF AfterPut
<1>8. ASSUME NEW kept \in SUBSET (DOMAIN s), kept # DOMAIN s, Selects(r, s, kept) PROVE FALSE
  <2>1. AfterSelect(r, s, kept)
    BY <1>8, Selected
  <2> DEFINE n == Len(s)
  <2>2. n \in Nat /\ DOMAIN s = 1..n
    BY <1>2
  <2> HIDE DEF n
  <2>3. IsFiniteSet(1..n) /\ Cardinality(1..n) = n
    BY <2>2, FS_Interval
  <2>4. IsFiniteSet(DOMAIN s) /\ Cardinality(DOMAIN s) = Len(s)
    BY <2>2, <2>3 DEF n
  <2>5. Cardinality(kept) <= Cardinality(DOMAIN s) /\ Cardinality(kept) # Cardinality(DOMAIN s)
    BY <1>8, <2>4, FS_Subset
  <2> QED BY <1>1, <2>1, <2>4, <2>5 DEF AfterSelect
<1> QED BY <1>3, <1>4, <1>5, <1>6, <1>7, <1>8 DEF Moves

\* A reply calls a provider for the request it answers, and says so.
LEMMA RepliesCallOne ==
  ASSUME NEW s, Requests(s), NEW j \in DOMAIN s, NEW reply, NEW r, Replies(r, s, j, reply), NEW k \in DOMAIN s, Provided(r, s, k)
  PROVE  j = k /\ reply = Ok
<1>1. AfterReply(r, s, j, reply) /\ AfterReply(r, s, k, Ok)
  BY Replied DEF Provided
<1>2. s[k].reply = None /\ Ok # None
  BY AnswersAssumption DEF Provided
<1>3. \A op, arg, answer : [op |-> op, arg |-> arg, reply |-> answer].reply = answer
  OBVIOUS
<1>4. r[k].reply = Ok /\ r[j].reply = reply /\ (k # j => r[k] = s[k])
  BY <1>1, <1>3 DEF AfterReply
<1> QED BY <1>2, <1>4

-----------------------------------------------------------------------------
(* The page that scores a resume *)

\* The scope of a dialog.
Scope(asked) == <<asked.task, asked.mode>>

\* What the gate knows of a request: whose consent is granted, that the user gave it while it is on its way, and
\* the modes that are asked for and told.
Sound(c, yes) ==
  /\ c.op \in {"grant", "configure"} => c.arg.op \in Ats!Guarded
  /\ c.op = "grant" /\ c.reply = None => Scope(c.arg) \in yes
  /\ c.op \in {"configure", "save"} => c.arg.target \in Ats!Modes
  /\ c.op = "configuration" /\ c.reply # None => c.reply.mode \in Ats!Modes

\* The consents the gateway keeps were all given by the user, and so are those under way to it.
AtsIInv ==
  /\ Requests(calls) /\ \A k \in DOMAIN calls : Sound(calls[k], agreed)
  /\ consents \subseteq agreed
  /\ dialog # None => dialog.op \in Ats!Guarded
  /\ mode \in Ats!Modes
  /\ "mode" \in DOMAIN drawer /\ drawer.mode \in Ats!Modes

\* A provider is called for the request at place k of the page, and the user agreed to it.
AgreedCall(k) ==
  calls[k].op \in Ats!Guarded /\ calls[k].reply = None /\ calls' = [calls EXCEPT ![k].reply = Ok]
    => Ats!Needs[calls[k].op] \X {mode} \subseteq agreed

\* A consent that was given stays so.
LEMMA SoundOn ==
  ASSUME NEW c, NEW yes, NEW more, yes \subseteq more, Sound(c, yes)
  PROVE  Sound(c, more)
  BY DEF Sound

\* The requests the gate has nothing to know of.
LEMMA SoundOps ==
  ASSUME NEW c, c.op \notin {"grant", "configure", "save"}, c.reply = None, NEW yes
  PROVE  Sound(c, yes)
  BY DEF Sound

\* A step whose requests are sound keeps them so, and calls no provider when it answers nothing.
LEMMA GateMoves ==
  ASSUME AtsIInv, NEW c, Moves(calls', calls, c), agreed \subseteq agreed', Sound(c, agreed')
  PROVE  /\ Requests(calls)' /\ \A k \in DOMAIN calls' : Sound(calls'[k], agreed')
         /\ c.reply = None => \A k \in DOMAIN calls : AgreedCall(k)
<1>1. Requests(calls) /\ \A k \in DOMAIN calls : Sound(calls[k], agreed')
  BY SoundOn DEF AtsIInv
<1>2. Requests(calls') /\ From(calls', calls, c)
  BY <1>1, MovesKeep
<1>3. \A k \in DOMAIN calls' : Sound(calls'[k], agreed')
  BY <1>1, <1>2 DEF From
<1>4. ASSUME c.reply = None, NEW k \in DOMAIN calls PROVE AgreedCall(k)
  <2>1. ~ Provided(calls', calls, k)
    BY <1>1, <1>4, MovesCallNothing
  <2> QED BY <2>1 DEF AgreedCall, Provided, Replies
<1> QED BY <1>2, <1>3, <1>4

\* The page sends a request, hears of one or drops some, after which it may send another.
Moving(op, arg) ==
  \/ UNCHANGED calls
  \/ Ats!Ask(op, arg)
  \/ \E k \in DOMAIN calls : Ats!Done(k) \/ Ats!Then(k, op, arg) \/ Ats!Abort(k)

\* A step of the page, in which what is sent is a grant or a change of mode.
LEMMA AtsMoves ==
  ASSUME AtsIInv, NEW op, op \notin {"grant", "configure", "save"}, NEW arg, agreed \subseteq agreed', Moving(op, arg)
  PROVE  /\ Requests(calls)' /\ \A k \in DOMAIN calls' : Sound(calls'[k], agreed')
         /\ \A k \in DOMAIN calls : AgreedCall(k)
<1> DEFINE c == [op |-> op, arg |-> arg, reply |-> None]
<1>1. IsRequest(c) /\ c.op = op /\ c.reply = None
  BY NewRequest
<1>2. Sound(c, agreed')
  BY <1>1, SoundOps
<1>3. Ats!Call(op, arg) = c
  BY DEF Ats!Call
<1> HIDE DEF c
<1>4. Moves(calls', calls, c)
  <2>1. CASE UNCHANGED calls
    BY <2>1 DEF Moves
  <2>2. CASE Ats!Ask(op, arg)
    BY <1>1, <1>3, <2>2 DEF Ats!Ask, Moves, Sends
  <2>3. ASSUME NEW k \in DOMAIN calls, Ats!Done(k) PROVE Moves(calls', calls, c)
    <3>1. Ends(calls', calls, k)
      BY <2>3 DEF Ats!Done, Ends, Ats!RemoveAt, Tracker!RemoveAt
    <3> QED BY <3>1 DEF Moves
  <2>4. ASSUME NEW k \in DOMAIN calls, Ats!Then(k, op, arg) PROVE Moves(calls', calls, c)
    <3>1. Follows(calls', calls, k, c)
      BY <1>1, <1>3, <2>4 DEF Ats!Then, Follows, Ats!RemoveAt, Tracker!RemoveAt
    <3> QED BY <3>1 DEF Moves
  <2>5. ASSUME NEW k \in DOMAIN calls, Ats!Abort(k) PROVE Moves(calls', calls, c)
    <3> DEFINE kept == {n \in DOMAIN calls \ {k} : ~ (calls[n].op = "stream" /\ calls[n].arg.run = calls[k].arg.run)}
    <3>1. calls' = Ats!Only(calls, kept)
      BY <2>5 DEF Ats!Abort
    <3>2. kept \in SUBSET (DOMAIN calls) /\ kept # DOMAIN calls
      OBVIOUS
    <3> HIDE DEF kept
    <3>3. Selects(calls', calls, kept)
      BY <3>1 DEF Selects, Ats!Only, Tracker!Only, Ats!Cardinality, Tracker!Cardinality
    <3> QED BY <3>2, <3>3 DEF Moves
  <2> QED BY <2>1, <2>2, <2>3, <2>4, <2>5 DEF Moving
<1> QED BY <1>1, <1>2, <1>4, GateMoves

\* The same, when the gate itself does not move.
LEMMA AtsMovesOn ==
  ASSUME AtsIInv, NEW op, op \notin {"grant", "configure", "save"}, NEW arg, UNCHANGED Ats!gateVars, Moving(op, arg)
  PROVE  AtsIInv' /\ \A k \in DOMAIN calls : AgreedCall(k)
<1>1. UNCHANGED <<mode, consents, agreed, dialog, drawer>>
  BY DEF Ats!gateVars
<1>2. agreed \subseteq agreed'
  BY <1>1
<1>3. /\ Requests(calls)' /\ \A k \in DOMAIN calls' : Sound(calls'[k], agreed')
      /\ \A k \in DOMAIN calls : AgreedCall(k)
  BY <1>2, AtsMoves
<1> QED BY <1>1, <1>3 DEF AtsIInv

\* The gateway answers a request that needs no consent.
LEMMA AtsReplies ==
  ASSUME AtsIInv, NEW k \in DOMAIN calls, NEW reply, Ats!Reply(k, reply), UNCHANGED agreed,
         calls[k].op \notin Ats!Guarded, calls[k].reply = None, calls[k].op = "configuration" => reply.mode \in Ats!Modes
  PROVE  /\ Requests(calls)' /\ \A n \in DOMAIN calls' : Sound(calls'[n], agreed')
         /\ \A n \in DOMAIN calls : AgreedCall(n)
<1> DEFINE c == [op |-> calls[k].op, arg |-> calls[k].arg, reply |-> reply]
<1>1. c.op = calls[k].op /\ c.arg = calls[k].arg /\ c.reply = reply
  OBVIOUS
<1>2. Requests(calls) /\ Replies(calls', calls, k, reply)
  BY DEF AtsIInv, Ats!Reply, Replies
<1>3. Moves(calls', calls, c)
  BY <1>2, RepliesMove
<1> HIDE DEF c
<1>4. Sound(c, agreed') /\ agreed \subseteq agreed'
  BY <1>1 DEF AtsIInv, Sound
<1>5. Requests(calls)' /\ \A n \in DOMAIN calls' : Sound(calls'[n], agreed')
  BY <1>3, <1>4, GateMoves
<1>6. ASSUME NEW n \in DOMAIN calls PROVE AgreedCall(n)
  <2>1. Provided(calls', calls, n) => n = k
    BY <1>2, RepliesCallOne
  <2> QED BY <2>1 DEF AgreedCall, Provided, Replies
<1> QED BY <1>5, <1>6

\* A step that adds requests calls no provider.
LEMMA GrowingIsNoCall ==
  ASSUME Requests(calls), Len(calls') # Len(calls), NEW k \in DOMAIN calls
  PROVE  AgreedCall(k)
<1>1. Replies(calls', calls, k, Ok) => Len(calls') = Len(calls)
  BY Replied DEF AfterReply
<1> QED BY <1>1 DEF AgreedCall, Replies

\* What happens on the page and not at the gate.
LEMMA AtsActs ==
  ASSUME AtsIInv,
         \/ Ats!Analyze \/ Ats!NewAnalysis \/ Ats!UseCurrentCV \/ Ats!LoadJson \/ Ats!UploadPdf
         \/ \E k \in DOMAIN calls :
              \/ Ats!StreamFails(k) \/ Ats!StreamEnds(k)
              \/ \E fine \in BOOLEAN : \/ Ats!Started(k, fine) \/ Ats!Scored(k, fine) \/ Ats!DraftSaved(k, fine)
                                       \/ Ats!DraftShown(k, fine) \/ Ats!Uploaded(k, fine) \/ Ats!CvKept(k, fine)
  PROVE  AtsIInv' /\ \A k \in DOMAIN calls : AgreedCall(k)
<1>1. UNCHANGED Ats!gateVars
  BY DEF Ats!Analyze, Ats!NewAnalysis, Ats!UseCurrentCV, Ats!LoadJson, Ats!UploadPdf, Ats!StreamFails, Ats!StreamEnds,
         Ats!Started, Ats!Scored, Ats!DraftSaved, Ats!DraftShown, Ats!Uploaded, Ats!CvKept, Ats!atsVars
<1> DEFINE Goal == \E op, arg : op \notin {"grant", "configure", "save"} /\ Moving(op, arg)
<1>2. ASSUME NEW k \in DOMAIN calls, Ats!Done(k) \/ Ats!Abort(k) \/ UNCHANGED calls PROVE Goal
  <2>1. Moving("none", None)
    BY <1>2 DEF Moving
  <2> QED BY <2>1
<1>3. ASSUME NEW k \in DOMAIN calls, NEW op, op \notin {"grant", "configure", "save"}, NEW arg, Ats!Then(k, op, arg) PROVE Goal
  <2>1. Moving(op, arg)
    BY <1>3 DEF Moving
  <2> QED BY <1>3, <2>1
<1>4. Goal
  <2>1. CASE Ats!NewAnalysis \/ Ats!UseCurrentCV
    <3>1. Moving("none", None)
      BY <2>1 DEF Ats!NewAnalysis, Ats!UseCurrentCV, Ats!Edit, Moving
    <3> QED BY <3>1
  <2>2. CASE Ats!Analyze \/ Ats!LoadJson \/ Ats!UploadPdf
    <3>1. PICK op, arg : op \in {"start", "json", "upload"} /\ Ats!Ask(op, arg)
      BY <2>2 DEF Ats!Analyze, Ats!LoadJson, Ats!UploadPdf
    <3>2. Moving(op, arg)
      BY <3>1 DEF Moving
    <3> QED BY <3>1, <3>2
  <2> HIDE DEF Goal
  <2>3. ASSUME NEW k \in DOMAIN calls, Ats!StreamFails(k) \/ Ats!StreamEnds(k) PROVE Goal
    BY <1>2, <2>3 DEF Ats!StreamFails, Ats!StreamEnds
  <2>4. ASSUME NEW k \in DOMAIN calls, NEW fine \in BOOLEAN, Ats!DraftSaved(k, fine) \/ Ats!DraftShown(k, fine) PROVE Goal
    BY <1>2, <2>4 DEF Ats!DraftSaved, Ats!DraftShown
  <2>5. ASSUME NEW k \in DOMAIN calls, NEW fine \in BOOLEAN, Ats!CvKept(k, fine) PROVE Goal
    BY <1>2, <2>5 DEF Ats!CvKept
  <2>6. ASSUME NEW k \in DOMAIN calls, NEW fine \in BOOLEAN, Ats!Started(k, fine) \/ Ats!Scored(k, fine) \/ Ats!Uploaded(k, fine)
        PROVE Goal
    <3>1. \/ Ats!Done(k) \/ Ats!Abort(k)
          \/ \E op, arg : op \in {"stream", "saveDraft", "keep"} /\ Ats!Then(k, op, arg)
      BY <2>6 DEF Ats!Started, Ats!Scored, Ats!Uploaded
    <3> QED BY <1>2, <1>3, <3>1
  <2> QED BY <2>1, <2>2, <2>3, <2>4, <2>5, <2>6
<1> QED BY <1>1, <1>4, AtsMovesOn

\* The stream brings the offer: the run it reads on is the same, and a score is asked for.
LEMMA AtsJobResult ==
  ASSUME AtsIInv, NEW k \in DOMAIN calls, Ats!JobResult(k)
  PROVE  AtsIInv' /\ \A n \in DOMAIN calls : AgreedCall(n)
<1> DEFINE arg == [calls[k].arg EXCEPT !.offer = TRUE]
           d == [op |-> calls[k].op, arg |-> arg, reply |-> calls[k].reply]
           q == [calls EXCEPT ![k].arg.offer = TRUE]
           c == [op |-> "score", arg |-> [run |-> calls[k].arg.run], reply |-> None]
<1>1. calls' = Append(q, c) /\ calls[k].op = "stream" /\ UNCHANGED <<mode, consents, agreed, dialog, drawer>>
  BY DEF Ats!JobResult, Ats!Waiting, Ats!Call, Ats!atsVars, Ats!gateVars
<1>2. IsRequest(c) /\ c.op = "score" /\ c.reply = None
  BY NewRequest
<1>3. IsRequest(d) /\ d.op = "stream"
  BY <1>1 DEF IsRequest
<1>4. q = [calls EXCEPT ![k] = d]
  <2>1. calls[k] = [op |-> calls[k].op, arg |-> calls[k].arg, reply |-> calls[k].reply]
    BY DEF AtsIInv, Requests, IsRequest
  <2>2. \A op, old, new, reply : [[op |-> op, arg |-> old, reply |-> reply] EXCEPT !.arg = new]
                                   = [op |-> op, arg |-> new, reply |-> reply]
    OBVIOUS
  <2>3. q = [calls EXCEPT ![k] = [calls[k] EXCEPT !.arg = arg]]
    OBVIOUS
  <2> HIDE DEF arg, q
  <2>4. [calls[k] EXCEPT !.arg = arg] = d
    BY <2>1, <2>2
  <2> QED BY <2>3, <2>4
<1> HIDE DEF arg, c, d, q
<1>5. Requests(calls) /\ Puts(q, calls, k, d)
  BY <1>3, <1>4 DEF AtsIInv, Puts
<1>6. AfterPut(q, calls, k, d)
  BY <1>5, Put
<1>7. Requests(q) /\ Sends(calls', q, c)
  BY <1>1, <1>2, <1>6 DEF AfterPut, Sends
<1>8. AfterSend(calls', q, c)
  BY <1>7, Sent
<1>9. Sound(c, agreed) /\ Sound(d, agreed)
  BY <1>2, <1>3 DEF Sound
<1>10. \A n \in DOMAIN calls' : Sound(calls'[n], agreed)
  <2>1. \A n \in DOMAIN q : Sound(q[n], agreed)
    BY <1>6, <1>9 DEF AfterPut, AtsIInv
  <2> QED BY <1>8, <1>9, <2>1 DEF AfterSend
<1>11. Len(calls') = Len(calls) + 1 /\ Len(calls) \in Nat
  BY <1>5, <1>6, <1>8, Places DEF AfterPut, AfterSend, Requests
<1>12. \A n \in DOMAIN calls : AgreedCall(n)
  BY <1>5, <1>11, GrowingIsNoCall
<1> QED BY <1>1, <1>8, <1>10, <1>12 DEF AtsIInv, AfterSend

\* The gateway keeps a report draft or a resume, or tells the draft: no provider is called.
LEMMA AtsServes ==
  ASSUME AtsIInv, NEW k \in DOMAIN calls, Ats!PutDraft(k) \/ Ats!GetDraft(k) \/ Ats!KeepCurrent(k)
  PROVE  AtsIInv' /\ \A n \in DOMAIN calls : AgreedCall(n)
<1>1. UNCHANGED <<mode, consents, agreed, dialog, drawer>>
  BY DEF Ats!PutDraft, Ats!GetDraft, Ats!KeepCurrent, Ats!atsVars, Ats!gateVars
<1>2. PICK reply : Ats!Reply(k, reply)
  BY DEF Ats!PutDraft, Ats!GetDraft, Ats!KeepCurrent
<1>3. calls[k].op \notin Ats!Guarded /\ calls[k].op # "configuration" /\ calls[k].reply = None
  BY DEF Ats!PutDraft, Ats!GetDraft, Ats!KeepCurrent, Ats!Waiting, Ats!Guarded, Ats!Needs
<1>4. /\ Requests(calls)' /\ \A n \in DOMAIN calls' : Sound(calls'[n], agreed')
      /\ \A n \in DOMAIN calls : AgreedCall(n)
  BY <1>1, <1>2, <1>3, AtsReplies
<1> QED BY <1>1, <1>4 DEF AtsIInv

\* The gateway calls the provider only when it has every consent, and the user gave those it has.
LEMMA GateServesGuarded ==
  ASSUME AtsIInv, NEW k \in DOMAIN calls, NEW op \in Ats!Guarded, Ats!Serve(k, op)
  PROVE  AtsIInv' /\ \A n \in DOMAIN calls : AgreedCall(n)
<1>1. UNCHANGED <<mode, consents, agreed, dialog, drawer>> /\ calls[k].op = op
  BY DEF Ats!Serve, Ats!gateVars, Ats!Waiting
<1>2. PICK reply : /\ Ats!Reply(k, reply)
                   /\ reply # Ok \/ Ats!Missing(op) = {}
  <2>1. CASE mode = "local"
    BY <2>1, AnswersAssumption DEF Ats!Serve
  <2>2. CASE mode # "local" /\ Ats!Missing(op) = {}
    BY <2>2 DEF Ats!Serve
  <2>3. CASE mode # "local" /\ Ats!Missing(op) # {}
    <3>1. PICK task \in Ats!Missing(op) : Ats!Reply(k, [task |-> task, mode |-> mode])
      BY <2>3 DEF Ats!Serve
    <3>2. task \in Ats!Needs[op] /\ mode \in Ats!Modes
      BY DEF Ats!Missing, AtsIInv
    <3>3. Ok # [task |-> task, mode |-> mode]
      BY <3>2, AnswersAssumption
    <3> QED BY <3>1, <3>3
  <2> QED BY <2>1, <2>2, <2>3
<1> DEFINE c == [op |-> calls[k].op, arg |-> calls[k].arg, reply |-> reply]
<1>3. Requests(calls) /\ Replies(calls', calls, k, reply)
  BY <1>2 DEF AtsIInv, Ats!Reply, Replies
<1>4. Moves(calls', calls, c)
  BY <1>3, RepliesMove
<1>5. c.op = op
  BY <1>1
<1> HIDE DEF c
<1>6. Sound(c, agreed') /\ agreed \subseteq agreed'
  <2>1. op \in {"start", "score", "upload"}
    BY DEF Ats!Guarded, Ats!Needs
  <2> QED BY <1>1, <1>5, <2>1 DEF Sound
<1>7. Requests(calls)' /\ \A n \in DOMAIN calls' : Sound(calls'[n], agreed')
  BY <1>4, <1>6, GateMoves
<1>8. ASSUME NEW n \in DOMAIN calls PROVE AgreedCall(n)
  <2>1. Provided(calls', calls, n) => k = n /\ reply = Ok
    BY <1>3, RepliesCallOne
  <2>2. Ats!Missing(op) = {} => Ats!Needs[op] \X {mode} \subseteq agreed
    <3> SUFFICES ASSUME Ats!Missing(op) = {}, NEW task \in Ats!Needs[op] PROVE <<task, mode>> \in agreed
      OBVIOUS
    <3>1. <<task, mode>> \in consents
      BY DEF Ats!Missing
    <3> QED BY <3>1 DEF AtsIInv
  <2> QED BY <1>1, <1>2, <2>1, <2>2 DEF AgreedCall, Provided, Replies
<1> QED BY <1>1, <1>7, <1>8 DEF AtsIInv

\* The gateway keeps a consent, changes the mode, or tells what it keeps.
LEMMA GateServesPlain ==
  ASSUME AtsIInv, NEW k \in DOMAIN calls,
         Ats!PutConsent(k) \/ Ats!PutMode(k) \/ Ats!Configuration(k) \/ Ats!Registry(k)
  PROVE  AtsIInv' /\ \A n \in DOMAIN calls : AgreedCall(n)
<1>1. UNCHANGED <<agreed, dialog, drawer>>
  BY DEF Ats!PutConsent, Ats!PutMode, Ats!Configuration, Ats!Registry, Ats!gateVars
<1>2. PICK reply : Ats!Reply(k, reply) /\ (calls[k].op = "configuration" => reply.mode \in Ats!Modes)
  <2>1. CASE Ats!PutConsent(k)
    BY <2>1 DEF Ats!PutConsent, Ats!Waiting
  <2>2. CASE Ats!PutMode(k)
    BY <2>2 DEF Ats!PutMode, Ats!Waiting
  <2>3. CASE Ats!Configuration(k)
    <3>1. mode \in Ats!Modes
      BY DEF AtsIInv
    <3> QED BY <2>3, <3>1 DEF Ats!Configuration
  <2>4. CASE Ats!Registry(k)
    BY <2>4 DEF Ats!Registry, Ats!Waiting
  <2> QED BY <2>1, <2>2, <2>3, <2>4
<1>3. calls[k].op \notin Ats!Guarded /\ calls[k].reply = None
  <2>1. calls[k].op \in {"grant", "configure", "save", "configuration", "registry"} /\ calls[k].reply = None
    BY DEF Ats!PutConsent, Ats!PutMode, Ats!Configuration, Ats!Registry, Ats!Waiting
  <2> QED BY <2>1 DEF Ats!Guarded, Ats!Needs
<1>4. /\ Requests(calls)' /\ \A n \in DOMAIN calls' : Sound(calls'[n], agreed')
      /\ \A n \in DOMAIN calls : AgreedCall(n)
  BY <1>1, <1>2, <1>3, AtsReplies
<1>5. consents' \subseteq agreed'
  <2>1. CASE Ats!PutConsent(k)
    <3>1. calls[k].op = "grant" /\ calls[k].reply = None /\ consents' = consents \cup {<<calls[k].arg.task, calls[k].arg.mode>>}
      BY <2>1 DEF Ats!PutConsent, Ats!Waiting
    <3>2. <<calls[k].arg.task, calls[k].arg.mode>> \in agreed
      BY <3>1 DEF AtsIInv, Sound, Scope
    <3> QED BY <1>1, <3>1, <3>2 DEF AtsIInv
  <2>2. CASE ~ Ats!PutConsent(k)
    <3>1. consents' \subseteq consents
      BY <2>2 DEF Ats!PutMode, Ats!Configuration, Ats!Registry, Ats!gateVars
    <3> QED BY <1>1, <3>1 DEF AtsIInv
  <2> QED BY <2>1, <2>2
<1>6. mode' \in Ats!Modes
  <2>1. CASE Ats!PutMode(k)
    <3>1. calls[k].op \in {"configure", "save"} /\ mode' = calls[k].arg.target
      BY <2>1 DEF Ats!PutMode, Ats!Waiting
    <3> QED BY <3>1 DEF AtsIInv, Sound
  <2>2. CASE ~ Ats!PutMode(k)
    <3>1. UNCHANGED mode
      BY <2>2 DEF Ats!PutConsent, Ats!Configuration, Ats!Registry, Ats!gateVars
    <3> QED BY <3>1 DEF AtsIInv
  <2> QED BY <2>1, <2>2
<1> QED BY <1>1, <1>4, <1>5, <1>6 DEF AtsIInv

\* The gateway forgets a consent: a yes on its way there is still one.
LEMMA GateForgets ==
  ASSUME AtsIInv, NEW k \in DOMAIN calls, Ats!Revoked(k)
  PROVE  AtsIInv' /\ \A n \in DOMAIN calls : AgreedCall(n)
<1> DEFINE gone == {calls[k].arg.scope}
           c == [op |-> calls[k].op, arg |-> calls[k].arg, reply |-> Ok]
<1>1. /\ UNCHANGED <<mode, dialog, drawer>> /\ calls[k].op = "revoke"
      /\ consents' = consents \ gone /\ agreed' = agreed \ (gone \ Ats!Coming)
      /\ Requests(calls) /\ Replies(calls', calls, k, Ok)
  BY DEF AtsIInv, Ats!Revoked, Ats!Withdrawn, Ats!Waiting, Ats!Reply, Replies
<1> HIDE DEF gone
<1>2. Moves(calls', calls, c)
  BY <1>1, RepliesMove
<1>3. c.op = "revoke"
  BY <1>1
<1> HIDE DEF c
<1>4. Sound(c, agreed')
  BY <1>3 DEF Sound
<1>5. ASSUME NEW n \in DOMAIN calls PROVE Sound(calls[n], agreed')
  <2>1. Sound(calls[n], agreed)
    BY DEF AtsIInv
  <2>2. ASSUME calls[n].op = "grant", calls[n].reply = None PROVE Scope(calls[n].arg) \in agreed'
    <3>1. Scope(calls[n].arg) \in Ats!Coming
      BY <2>2 DEF Scope, Ats!Coming, Ats!Waiting
    <3>2. Scope(calls[n].arg) \in agreed
      BY <2>1, <2>2 DEF Sound
    <3> QED BY <1>1, <3>1, <3>2
  <2> QED BY <2>1, <2>2 DEF Sound
<1>6. Requests(calls') /\ From(calls', calls, c)
  BY <1>1, <1>2, MovesKeep
<1>7. Requests(calls)' /\ \A n \in DOMAIN calls' : Sound(calls'[n], agreed')
  BY <1>4, <1>5, <1>6 DEF From
<1>8. consents' \subseteq agreed'
  BY <1>1 DEF AtsIInv
<1>9. ASSUME NEW n \in DOMAIN calls PROVE AgreedCall(n)
  <2>1. Provided(calls', calls, n) => n = k
    BY <1>1, RepliesCallOne
  <2>2. calls[k].op \notin Ats!Guarded
    BY <1>1 DEF Ats!Guarded, Ats!Needs
  <2> QED BY <2>1, <2>2 DEF AgreedCall, Provided, Replies
<1> QED BY <1>1, <1>7, <1>8, <1>9 DEF AtsIInv

\* The dialog opens on a request that was refused, and is answered: with a yes its scope is agreed.
LEMMA GateAsks ==
  ASSUME AtsIInv, NEW k \in DOMAIN calls, Ats!AskConsent(k)
  PROVE  AtsIInv' /\ \A n \in DOMAIN calls : AgreedCall(n)
<1> DEFINE c == [op |-> "ask", arg |-> dialog', reply |-> None]
<1>1. /\ calls' = [calls EXCEPT ![k] = c] /\ dialog'.op \in Ats!Guarded
      /\ UNCHANGED <<mode, consents, agreed, drawer>>
  BY DEF Ats!AskConsent, Ats!Call
<1>2. IsRequest(c) /\ c.op = "ask" /\ c.reply = None
  BY NewRequest
<1> HIDE DEF c
<1>3. Moves(calls', calls, c)
  BY <1>1, <1>2 DEF Moves, Puts
<1>4. Sound(c, agreed') /\ agreed \subseteq agreed'
  BY <1>1, <1>2 DEF Sound
<1>5. /\ Requests(calls)' /\ \A n \in DOMAIN calls' : Sound(calls'[n], agreed')
      /\ \A n \in DOMAIN calls : AgreedCall(n)
  BY <1>2, <1>3, <1>4, GateMoves
<1> QED BY <1>1, <1>5 DEF AtsIInv

\* A dialog is answered: what is sent on carries the mode that was agreed on.
LEMMA GateDecides ==
  ASSUME AtsIInv, NEW k \in DOMAIN calls, Ats!Continue(k) \/ Ats!ChangeMode(k) \/ Ats!Cancel(k)
  PROVE  AtsIInv' /\ \A n \in DOMAIN calls : AgreedCall(n)
<1>1. /\ dialog # None /\ dialog' = None /\ UNCHANGED <<mode, consents, drawer>> /\ agreed \subseteq agreed'
      /\ dialog.op \in Ats!Guarded
  BY DEF Ats!Continue, Ats!ChangeMode, Ats!Cancel, Ats!Decide, AtsIInv
<1>2. PICK op, arg : /\ calls' = Append(Ats!RemoveAt(calls, k), [op |-> op, arg |-> arg, reply |-> None])
                     /\ \/ op = "grant" /\ arg = dialog /\ Scope(dialog) \in agreed'
                        \/ op = "configure" /\ arg.op = dialog.op /\ arg.target \in Ats!Modes
                        \/ op = "declined"
  <2>1. CASE Ats!Continue(k)
    BY <2>1 DEF Ats!Continue, Ats!Decide, Ats!Then, Ats!Call, Scope
  <2>2. CASE Ats!ChangeMode(k)
    <3>1. PICK to \in {"local", "private"} : Ats!Decide(k, "configure", Ats!Target(to))
      BY <2>2 DEF Ats!ChangeMode
    <3>2. Ats!Target(to).op = dialog.op /\ Ats!Target(to).target \in Ats!Modes
      BY DEF Ats!Target, Ats!Modes
    <3> QED BY <3>1, <3>2 DEF Ats!Decide, Ats!Then, Ats!Call
  <2>3. CASE Ats!Cancel(k)
    BY <2>3 DEF Ats!Cancel, Ats!Decide, Ats!Then, Ats!Call
  <2> QED BY <2>1, <2>2, <2>3
<1> DEFINE c == [op |-> op, arg |-> arg, reply |-> None]
<1>3. IsRequest(c) /\ c.op = op /\ c.arg = arg /\ c.reply = None
  BY NewRequest
<1>4. calls' = Append(Tracker!RemoveAt(calls, k), c)
  BY <1>2 DEF Ats!RemoveAt, Tracker!RemoveAt
<1> HIDE DEF c
<1>5. Moves(calls', calls, c)
  BY <1>3, <1>4 DEF Moves, Follows
<1>6. Sound(c, agreed')
  BY <1>1, <1>2, <1>3 DEF Sound
<1>7. /\ Requests(calls)' /\ \A n \in DOMAIN calls' : Sound(calls'[n], agreed')
      /\ \A n \in DOMAIN calls : AgreedCall(n)
  BY <1>1, <1>3, <1>5, <1>6, GateMoves
<1> QED BY <1>1, <1>7 DEF AtsIInv

\* The request is sent again.
LEMMA GateRetries ==
  ASSUME AtsIInv, NEW k \in DOMAIN calls, Ats!Retry(k)
  PROVE  AtsIInv' /\ \A n \in DOMAIN calls : AgreedCall(n)
<1>1. calls[k].op \in {"grant", "configure"} /\ UNCHANGED Ats!gateVars
  BY DEF Ats!Retry, Ats!Answered
<1>2. calls[k].arg.op \in {"start", "score", "upload"}
  BY <1>1 DEF AtsIInv, Sound, Ats!Guarded, Ats!Needs
<1>3. Moving(calls[k].arg.op, [run |-> calls[k].arg.run])
  BY DEF Ats!Retry, Moving
<1> QED BY <1>1, <1>2, <1>3, AtsMovesOn

\* The drawer hears of a request, or of the end of one.
LEMMA DrawerHears ==
  ASSUME AtsIInv, NEW k \in DOMAIN calls,
         \/ Ats!RevokeHeard(k) \/ Ats!RevokeFailed(k)
         \/ \E fine \in BOOLEAN : Ats!Configured(k, fine) \/ Ats!Listed(k, fine) \/ Ats!ConfigurationSaved(k, fine)
  PROVE  AtsIInv' /\ \A n \in DOMAIN calls : AgreedCall(n)
<1>1. UNCHANGED <<mode, consents, agreed, dialog>>
  BY DEF Ats!RevokeHeard, Ats!RevokeFailed, Ats!Configured, Ats!Listed, Ats!ConfigurationSaved, Ats!gateVars
<1>2. "mode" \in DOMAIN drawer' /\ drawer'.mode \in Ats!Modes
  <2>1. "mode" \in DOMAIN drawer /\ drawer.mode \in Ats!Modes
    BY DEF AtsIInv
  <2>2. CASE Ats!RevokeHeard(k) \/ Ats!RevokeFailed(k)
    BY <2>1, <2>2 DEF Ats!RevokeHeard, Ats!RevokeFailed, Ats!gateVars
  <2>3. ASSUME NEW fine \in BOOLEAN, Ats!Configured(k, fine) PROVE "mode" \in DOMAIN drawer' /\ drawer'.mode \in Ats!Modes
    <3>1. fine => calls[k].reply.mode \in Ats!Modes
      BY <2>3 DEF Ats!Configured, Ats!Answered, AtsIInv, Sound
    <3>2. PICK to \in Ats!Modes : drawer' = [drawer EXCEPT !.loading = FALSE, !.mode = to]
      BY <2>1, <2>3, <3>1 DEF Ats!Configured
    <3> QED BY <2>1, <3>2
  <2>4. ASSUME NEW fine \in BOOLEAN, Ats!Listed(k, fine) \/ Ats!ConfigurationSaved(k, fine)
        PROVE  "mode" \in DOMAIN drawer' /\ drawer'.mode \in Ats!Modes
    BY <2>1, <2>4 DEF Ats!Listed, Ats!ConfigurationSaved
  <2> QED BY <2>2, <2>3, <2>4
<1>3. PICK op, arg : op \in {"registry", "none"} /\ Moving(op, arg)
  <2>1. CASE Ats!RevokeHeard(k)
    <3>1. Moving("registry", None)
      BY <2>1 DEF Ats!RevokeHeard, Moving
    <3> QED BY <3>1
  <2>2. CASE ~ Ats!RevokeHeard(k)
    <3>1. Moving("none", None)
      BY <2>2 DEF Ats!RevokeFailed, Ats!Configured, Ats!Listed, Ats!ConfigurationSaved, Moving
    <3> QED BY <3>1
  <2> QED BY <2>1, <2>2
<1>4. /\ Requests(calls)' /\ \A n \in DOMAIN calls' : Sound(calls'[n], agreed')
      /\ \A n \in DOMAIN calls : AgreedCall(n)
  BY <1>1, <1>3, AtsMoves
<1> QED BY <1>1, <1>2, <1>4 DEF AtsIInv

\* The user acts on the drawer.
LEMMA DrawerActs ==
  ASSUME AtsIInv, Ats!GateActs
  PROVE  AtsIInv' /\ \A k \in DOMAIN calls : AgreedCall(k)
<1>1. UNCHANGED <<mode, consents, agreed, dialog>>
  BY DEF Ats!GateActs, Ats!OpenDrawer, Ats!SaveConfiguration, Ats!PickMode, Ats!Revoke, Ats!InDrawer
<1>2. "mode" \in DOMAIN drawer' /\ drawer'.mode \in Ats!Modes
  BY DEF AtsIInv, Ats!GateActs, Ats!OpenDrawer, Ats!SaveConfiguration, Ats!PickMode, Ats!Revoke
<1>3. /\ Requests(calls)' /\ \A n \in DOMAIN calls' : Sound(calls'[n], agreed')
      /\ \A n \in DOMAIN calls : AgreedCall(n)
  <2>1. CASE Ats!OpenDrawer
    <3> DEFINE c == [op |-> "configuration", arg |-> None, reply |-> None]
               d == [op |-> "registry", arg |-> None, reply |-> None]
               q == Append(calls, c)
    <3>1. IsRequest(c) /\ c.op = "configuration" /\ c.reply = None /\ IsRequest(d) /\ d.op = "registry" /\ d.reply = None
      BY NewRequest
    <3>2. calls' = calls \o <<c, d>>
      BY <2>1 DEF Ats!OpenDrawer, Ats!Call
    <3>3. Requests(calls)
      BY DEF AtsIInv
    <3>4. calls' = Append(q, d)
      <4> HIDE DEF c, d
      <4> QED BY <3>2, <3>3, Twice
    <3> HIDE DEF c, d
    <3>5. AfterSend(q, calls, c)
      BY <3>1, <3>3, Sent DEF Sends
    <3> HIDE DEF q
    <3>6. AfterSend(calls', q, d)
      <4>1. Requests(q) /\ Sends(calls', q, d)
        BY <3>1, <3>4, <3>5 DEF Sends, AfterSend
      <4> QED BY <4>1, Sent
    <3>7. Sound(c, agreed) /\ Sound(d, agreed)
      BY <3>1 DEF Sound
    <3>8. \A n \in DOMAIN q : Sound(q[n], agreed)
      BY <3>5, <3>7 DEF AfterSend, AtsIInv
    <3>9. Requests(calls') /\ \A n \in DOMAIN calls' : Sound(calls'[n], agreed)
      BY <3>6, <3>7, <3>8 DEF AfterSend
    <3>10. Len(calls') # Len(calls)
      BY <3>3, <3>5, <3>6, Places DEF AfterSend, Requests
    <3> QED BY <1>1, <3>3, <3>9, <3>10, GrowingIsNoCall
  <2>2. CASE Ats!SaveConfiguration
    <3> DEFINE c == [op |-> "save", arg |-> [target |-> drawer.mode], reply |-> None]
    <3>1. IsRequest(c) /\ c.op = "save" /\ c.arg.target = drawer.mode /\ c.reply = None
      BY NewRequest
    <3>2. calls' = Append(calls, c)
      BY <2>2 DEF Ats!SaveConfiguration, Ats!Ask, Ats!Call
    <3> HIDE DEF c
    <3>3. Moves(calls', calls, c)
      BY <3>1, <3>2 DEF Moves, Sends
    <3>4. Sound(c, agreed') /\ agreed \subseteq agreed'
      BY <1>1, <3>1 DEF Sound, AtsIInv
    <3> QED BY <3>1, <3>3, <3>4, GateMoves
  <2>3. ASSUME NEW to \in Ats!Modes, Ats!PickMode(to) PROVE Moving("none", None)
    BY <2>3 DEF Ats!PickMode, Ats!Edit, Moving
  <2>4. ASSUME NEW scope \in drawer.listed, Ats!Revoke(scope) PROVE Moving("revoke", [scope |-> scope])
    BY <2>4 DEF Ats!Revoke, Moving
  <2>5. agreed \subseteq agreed'
    BY <1>1
  <2> QED BY <2>1, <2>2, <2>3, <2>4, <2>5, AtsMoves DEF Ats!GateActs
<1> QED BY <1>1, <1>2, <1>3 DEF AtsIInv

\* A step of the page: what is called was agreed to.
LEMMA AtsStep ==
  ASSUME AtsIInv, Ats!Next
  PROVE  AtsIInv' /\ \A k \in DOMAIN calls : AgreedCall(k)
<1>1. CASE Ats!Answers
  <2>1. PICK k \in DOMAIN calls :
          \/ Ats!GateAnswers(k)
          \/ Ats!JobResult(k) \/ Ats!StreamFails(k) \/ Ats!StreamEnds(k) \/ Ats!PutDraft(k) \/ Ats!GetDraft(k) \/ Ats!KeepCurrent(k)
          \/ \E fine \in BOOLEAN :
               \/ Ats!Started(k, fine) \/ Ats!Scored(k, fine) \/ Ats!DraftSaved(k, fine) \/ Ats!DraftShown(k, fine)
               \/ Ats!Uploaded(k, fine) \/ Ats!CvKept(k, fine)
    BY <1>1, Zenon DEF Ats!Answers
  <2>2. CASE Ats!GateAnswers(k)
    <3>1. CASE Ats!GateServes(k)
      <4>1. \/ \E op \in Ats!Guarded : Ats!Serve(k, op)
            \/ Ats!PutConsent(k) \/ Ats!Revoked(k) \/ Ats!PutMode(k) \/ Ats!Configuration(k) \/ Ats!Registry(k)
        BY <3>1, Zenon DEF Ats!GateServes
      <4> QED BY <4>1, GateServesGuarded, GateServesPlain, GateForgets, Zenon
    <3>2. CASE ~ Ats!GateServes(k)
      <4>1. \/ Ats!AskConsent(k) \/ Ats!Continue(k) \/ Ats!ChangeMode(k) \/ Ats!Cancel(k) \/ Ats!Retry(k)
            \/ Ats!RevokeHeard(k) \/ Ats!RevokeFailed(k)
            \/ \E fine \in BOOLEAN : Ats!Configured(k, fine) \/ Ats!Listed(k, fine) \/ Ats!ConfigurationSaved(k, fine)
        BY <2>2, <3>2, Zenon DEF Ats!GateAnswers
      <4> QED BY <4>1, GateAsks, GateDecides, GateRetries, DrawerHears, Zenon
    <3> QED BY <3>1, <3>2
  <2>3. CASE ~ Ats!GateAnswers(k)
    BY <2>1, <2>3, AtsJobResult, AtsServes, AtsActs, Zenon
  <2> QED BY <2>2, <2>3
<1>2. CASE ~ Ats!Answers
  <2>1. Ats!Analyze \/ Ats!NewAnalysis \/ Ats!UseCurrentCV \/ Ats!LoadJson \/ Ats!UploadPdf \/ Ats!GateActs
    BY <1>2, Zenon DEF Ats!Next
  <2> QED BY <2>1, AtsActs, DrawerActs, Zenon
<1> QED BY <1>1, <1>2

-----------------------------------------------------------------------------
(* The pages that need no consent and whose requests may be sent again *)

\* No request of the page needs a consent.
QuietIInv == Requests(calls) /\ \A k \in DOMAIN calls : calls[k].op \notin Ats!Guarded

\* The requests of these pages.
QuietOps == {"load", "link", "tracker-create", "ready", "repair", "create", "open", "loadDraft", "saveDraft", "check", "none"}

\* A step that writes a request of these pages.
LEMMA QuietMoves ==
  ASSUME QuietIInv, NEW c, c.op \in QuietOps, Moves(calls', calls, c)
  PROVE  QuietIInv'
<1>1. c.op \notin Ats!Guarded
  BY DEF QuietOps, Ats!Guarded, Ats!Needs
<1>2. Requests(calls') /\ From(calls', calls, c)
  BY MovesKeep DEF QuietIInv
<1>3. \A i \in DOMAIN calls' : calls'[i].op \notin Ats!Guarded
  BY <1>1, <1>2 DEF QuietIInv, From
<1> QED BY <1>2, <1>3 DEF QuietIInv

\* What their handlers do: a request is sent, served, heard of or followed by another.
Handling(op, arg) ==
  LET c == [op |-> op, arg |-> arg, reply |-> None] IN
  \/ UNCHANGED calls
  \/ calls' = Append(calls, c)
  \/ \E k \in DOMAIN calls :
       \/ calls' = Tracker!RemoveAt(calls, k) \/ calls' = Append(Tracker!RemoveAt(calls, k), c)
       \/ \E reply : calls' = [calls EXCEPT ![k].reply = reply]

\* A handler of these pages: what it sends needs no consent.
LEMMA QuietHandling ==
  ASSUME QuietIInv, NEW op \in QuietOps, NEW arg, Handling(op, arg)
  PROVE  QuietIInv'
<1> DEFINE c == [op |-> op, arg |-> arg, reply |-> None]
<1>1. IsRequest(c) /\ c.op = op
  BY NewRequest
<1>2. ASSUME NEW k \in DOMAIN calls, NEW reply, calls' = [calls EXCEPT ![k].reply = reply] PROVE QuietIInv'
  <2>1. AfterReply(calls', calls, k, reply)
    BY <1>2, Replied DEF Replies, QuietIInv
  <2> QED BY <2>1 DEF AfterReply, QuietIInv
<1>3. \/ UNCHANGED calls
      \/ calls' = Append(calls, c)
      \/ \E k \in DOMAIN calls : \/ calls' = Tracker!RemoveAt(calls, k)
                                 \/ calls' = Append(Tracker!RemoveAt(calls, k), c)
                                 \/ \E reply : calls' = [calls EXCEPT ![k].reply = reply]
  BY DEF Handling
<1> HIDE DEF c
<1>4. CASE Moves(calls', calls, c)
  BY <1>1, <1>4, QuietMoves
<1> QED BY <1>1, <1>2, <1>3, <1>4 DEF Moves, Sends, Ends, Follows

\* A step of the page of the workflow.
LEMMA WorkflowStep ==
  ASSUME QuietIInv, Workflow!Next
  PROVE  QuietIInv'
<1>1. ASSUME \/ \E id : Workflow!SelectOpportunity(id)
             \/ \E choice : Workflow!Fill(choice)
             \/ \E kind, id : Workflow!Choose(kind, id)
      PROVE  Handling("none", None)
  BY <1>1 DEF Workflow!SelectOpportunity, Workflow!Fill, Workflow!Choose, Workflow!Edit, Handling
<1>2. ASSUME Workflow!CreateTrackerEntry \/ Workflow!MarkReady \/ Workflow!Repair \/ Workflow!CreateWorkflow
             \/ Workflow!OpenActiveCoverLetter \/ \E kind : Workflow!Link(kind)
      PROVE  \E op, arg : op \in QuietOps /\ Handling(op, arg)
  <2>1. \A op, arg : Workflow!Ask(op, arg) => Handling(op, arg)
    BY DEF Workflow!Ask, Workflow!Call, Handling
  <2>2. \A op \in QuietOps : \A action, arg : Workflow!RunAction(action, op, arg) \/ Workflow!Ask(op, arg)
          => \E o, a : o \in QuietOps /\ Handling(o, a)
    BY <2>1 DEF Workflow!RunAction
  <2>3. {"tracker-create", "ready", "repair", "create", "open", "link"} \subseteq QuietOps
    BY DEF QuietOps
  <2> DEFINE Goal == \E o, a : o \in QuietOps /\ Handling(o, a)
  <2> HIDE DEF Goal
  <2>4. CASE Workflow!CreateTrackerEntry \/ Workflow!MarkReady \/ Workflow!Repair
    BY <2>2, <2>3, <2>4 DEF Workflow!CreateTrackerEntry, Workflow!MarkReady, Workflow!Repair, Goal
  <2>5. CASE Workflow!CreateWorkflow \/ Workflow!OpenActiveCoverLetter
    BY <2>2, <2>3, <2>5 DEF Workflow!CreateWorkflow, Workflow!OpenActiveCoverLetter, Goal
  <2>6. ASSUME NEW kind, Workflow!Link(kind) PROVE Goal
    BY <2>2, <2>3, <2>6 DEF Workflow!Link, Goal
  <2> QED BY <1>2, <2>4, <2>5, <2>6 DEF Goal
<1>3. ASSUME NEW k \in DOMAIN calls, Workflow!Gateway(k) PROVE Handling("none", None)
  <2>1. PICK reply : Workflow!Reply(k, reply)
    BY <1>3 DEF Workflow!Gateway, Workflow!ListAll, Workflow!LinkArtifact, Workflow!CreateTracker, Workflow!MarkReadyToApply,
                Workflow!RepairOpportunity, Workflow!CreateOpportunity, Workflow!ReadLetter, Workflow!Commit
  <2> QED BY <2>1 DEF Workflow!Reply, Handling
<1>4. ASSUME NEW k \in DOMAIN calls, NEW fine \in BOOLEAN,
             Workflow!Loaded(k, fine) \/ Workflow!ActionHeard(k, fine) \/ Workflow!LetterHeard(k, fine)
      PROVE  Handling("load", [origin |-> "action"])
  <2>1. Workflow!Done(k) \/ Workflow!Then(k, "load", [origin |-> "action"])
    BY <1>4 DEF Workflow!Loaded, Workflow!ActionHeard, Workflow!LetterHeard
  <2>2. Workflow!RemoveAt(calls, k) = Tracker!RemoveAt(calls, k)
    BY DEF Workflow!RemoveAt, Tracker!RemoveAt
  <2> QED BY <2>1, <2>2 DEF Workflow!Done, Workflow!Then, Workflow!Call, Handling
<1>5. \E op, arg : op \in QuietOps /\ Handling(op, arg)
  <2>1. "none" \in QuietOps /\ "load" \in QuietOps
    BY DEF QuietOps
  <2>2. CASE Workflow!Answers
    <3>1. PICK k \in DOMAIN calls :
            \/ Workflow!Gateway(k)
            \/ \E fine \in BOOLEAN : Workflow!Loaded(k, fine) \/ Workflow!ActionHeard(k, fine) \/ Workflow!LetterHeard(k, fine)
      BY <2>2, Zenon DEF Workflow!Answers
    <3> QED BY <1>3, <1>4, <2>1, <3>1, Zenon
  <2>3. CASE ~ Workflow!Answers
    <3>1. \/ (\E id : Workflow!SelectOpportunity(id)) \/ (\E choice : Workflow!Fill(choice))
          \/ (\E kind, id : Workflow!Choose(kind, id))
          \/ Workflow!CreateTrackerEntry \/ Workflow!MarkReady \/ Workflow!Repair \/ Workflow!CreateWorkflow
          \/ Workflow!OpenActiveCoverLetter \/ \E kind : Workflow!Link(kind)
      BY <2>3, Zenon DEF Workflow!Next
    <3> QED BY <1>1, <1>2, <2>1, <3>1, Zenon
  <2> QED BY <2>2, <2>3
<1> QED BY <1>5, QuietHandling

\* A step of the guide.
LEMMA GuideStep ==
  ASSUME QuietIInv, Guide!Next
  PROVE  QuietIInv'
<1>1. ASSUME NEW path, Guide!SelectPath(path) PROVE Handling("none", None)
  BY <1>1 DEF Guide!SelectPath, Guide!Edit, Handling
<1>2. ASSUME NEW item, Guide!ToggleChecklist(item) PROVE Handling("saveDraft", [done |-> completed'])
  BY <1>2 DEF Guide!ToggleChecklist, Guide!Ask, Guide!Call, Handling
<1>3. ASSUME NEW k \in DOMAIN calls, Guide!GetDraft(k) \/ Guide!PutDraft(k) PROVE Handling("none", None)
  BY <1>3 DEF Guide!GetDraft, Guide!PutDraft, Guide!Reply, Handling
<1>4. ASSUME NEW k \in DOMAIN calls, NEW fine \in BOOLEAN, Guide!ProgressLoaded(k, fine) \/ Guide!DraftSaved(k, fine)
      PROVE  Handling("none", None)
  BY <1>4 DEF Guide!ProgressLoaded, Guide!DraftSaved, Guide!Done, Guide!RemoveAt, Tracker!RemoveAt, Handling
<1>5. \E op, arg : op \in QuietOps /\ Handling(op, arg)
  <2>1. "none" \in QuietOps /\ "saveDraft" \in QuietOps
    BY DEF QuietOps
  <2> QED BY <1>1, <1>2, <1>3, <1>4, <2>1, Zenon DEF Guide!Next, Guide!Answers
<1> QED BY <1>5, QuietHandling

\* A step of the gate of the workspace: a probe writes what was heard into the check.
LEMMA StartupStep ==
  ASSUME QuietIInv, Startup!Next
  PROVE  QuietIInv'
<1>1. ASSUME \E service, state : Startup!ServiceChanges(service, state) PROVE Handling("none", None)
  BY <1>1 DEF Startup!ServiceChanges, Startup!Edit, Handling
<1>2. ASSUME Startup!RetryNow \/ Startup!Tick PROVE \E arg : Handling("check", arg)
  BY <1>2 DEF Startup!RetryNow, Startup!Tick, Startup!Check, Startup!Call, Handling
<1>3. ASSUME NEW k \in DOMAIN calls, Startup!Checked(k) PROVE Handling("none", None)
  BY <1>3 DEF Startup!Checked, Startup!Done, Startup!RemoveAt, Tracker!RemoveAt, Handling
<1>4. ASSUME NEW k \in DOMAIN calls, NEW service, Startup!Probe(k, service) PROVE QuietIInv'
  <2> DEFINE arg == [calls[k].arg EXCEPT !.heard = Startup!With(@, service, services[service])]
             c == [op |-> calls[k].op, arg |-> arg, reply |-> calls[k].reply]
  <2>1. calls' = [calls EXCEPT ![k] = [calls[k] EXCEPT !.arg = arg]] /\ calls[k].op = "check"
    BY <1>4 DEF Startup!Probe
  <2>2. calls[k] = [op |-> calls[k].op, arg |-> calls[k].arg, reply |-> calls[k].reply]
    BY DEF QuietIInv, Requests, IsRequest
  <2>3. \A op, old, new, reply : [[op |-> op, arg |-> old, reply |-> reply] EXCEPT !.arg = new]
                                   = [op |-> op, arg |-> new, reply |-> reply]
    OBVIOUS
  <2> HIDE DEF arg
  <2>4. [calls[k] EXCEPT !.arg = arg] = c
    BY <2>2, <2>3
  <2>5. IsRequest(c) /\ c.op \in QuietOps
    BY <2>1 DEF IsRequest, QuietOps
  <2> HIDE DEF c
  <2>6. Moves(calls', calls, c)
    BY <2>1, <2>4, <2>5 DEF Moves, Puts
  <2> QED BY <2>5, <2>6, QuietMoves
<1>5. ASSUME \E op, arg : op \in QuietOps /\ Handling(op, arg) PROVE QuietIInv'
  BY <1>5, QuietHandling
<1>6. "none" \in QuietOps /\ "check" \in QuietOps
  BY DEF QuietOps
<1> QED BY <1>1, <1>2, <1>3, <1>4, <1>5, <1>6, Zenon DEF Startup!Next, Startup!Answers

=============================================================================
