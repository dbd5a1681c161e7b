---------------------- MODULE ConversationTurnsProofs ----------------------
(***************************************************************************)
(* Proofs about ConversationTurns, for any number of requests,              *)
(* conversations and messages.                                              *)
(***************************************************************************)
EXTENDS ConversationTurns, Integers, FiniteSetTheorems, SequenceTheorems,
        WellFoundedInduction, TLAPS

(***************************************************************************)
(* The invariant                                                            *)
(***************************************************************************)

\* Where a request has no Run yet, and where it works on a conversation.
Waiting  == {"idle", "lookup", "begin", "deleting"}
Assigned == {"begin"} \cup Executing

Pc(c) == call[c].pc

\* Run r started before Run q.
Earlier(r, q) ==
  \E i, j \in DOMAIN order : i < j /\ order[i] = r /\ order[j] = q

\* A request starts one Run, with what the request is about.
Started(c) ==
  /\ Pc(c) \in Waiting => c \notin ToSet(order)
  /\ Pc(c) \in Assigned => call[c].conversation \in Conversations
  /\ Turn(c) => /\ runs[c].conversation = call[c].conversation
                /\ runs[c].user = call[c].user

\* Who works holds the locks.
LocksHeld(c) ==
  /\ Turn(c) => Locked(c)
  /\ Pc(c) \in Assigned /\ call[c].user # Nil => Holds(c, call[c].user)

\* What a retry has read of the newest attempt stays true while it waits for
\* the conversation, unless the conversation is deleted.
Attempting(c) ==
  /\ Pc(c) = "lookup" => call[c].previous = Nil
  /\ Pc(c) = "begin" =>
       /\ call[c].previous = Nil /\ call[c].user # Nil => AttemptsOf(call[c].user) = {}
       /\ call[c].previous # Nil =>
            /\ call[c].user # Nil
            /\ call[c].previous \in ToSet(order)
            /\ call[c].previous \in DOMAIN runs =>
                 /\ runs[call[c].previous].user = call[c].user
                 /\ runs[call[c].previous].conversation = call[c].conversation
                 /\ runs[call[c].previous].status = call[c].status

\* A conversation has a last message and a last summary.
HistoriesEnd ==
  \A v \in Conversations :
    /\ \E n \in Nat : \A m \in messages[v] : m.sequence <= n
    /\ \E n \in Nat : \A s \in summaries[v] : s.revision <= n

OrderIsStrict == \A i, j \in DOMAIN order : order[i] = order[j] => i = j

\* All attempts at a user message are in one conversation.
AttemptsTogether ==
  \A r, q \in DOMAIN runs :
    runs[r].user = runs[q].user /\ runs[r].user # Nil =>
      runs[r].conversation = runs[q].conversation

\* A history has the numbers 1, 2, 3, ...
Counted(h) ==
  /\ IsFiniteSet(h)
  /\ \A m, n \in h : m.sequence = n.sequence => m = n
  /\ {m.sequence : m \in h} = 1..Cardinality(h)

\* Run r is the last one of its conversation.
IsNewest(r, v) == \A q \in RunsOf(v) : q = r \/ Earlier(q, r)

\* The messages of a history are in the order of their Runs, and of all the
\* attempts at a user message only the newest has messages.
ByRun(v) ==
  /\ \A m, n \in messages[v] : m.sequence < n.sequence => m.run = n.run \/ Earlier(m.run, n.run)
  /\ \A m \in messages[v], q \in RunsOf(v) :
       runs[q].user = runs[m.run].user /\ runs[q].user # Nil => q = m.run \/ Earlier(q, m.run)

\* The summaries of a conversation load, and are in the order of their Runs.
Summarized(v) ==
  /\ Loadable(v, messages[v])
  /\ \A s, t \in summaries[v] :
       s.revision < t.revision => s.source = t.source \/ Earlier(s.source, t.source)

History(v) == Counted(messages[v]) /\ Paired(messages[v]) /\ ByRun(v) /\ Summarized(v)

\* A turn is the last one of its conversation, and where it is says how the
\* history ends.
Working(c) ==
  Turn(c) =>
    LET h == messages[call[c].conversation]
    IN  /\ IsNewest(c, call[c].conversation)
        /\ Pc(c) = "load" => \A m \in h : m.run # c
        /\ Pc(c) \in {"compact", "model"} => ~EndsInCall(h)
        /\ Pc(c) \in {"limit", "tool", "reject"} => EndsInCall(h)

\* What holds whatever the clock does, and what needs one that advances.
RunsInv ==
  /\ TypeOK
  /\ OrderIsStrict
  /\ AttemptsTogether
  /\ HistoriesEnd
  /\ \A c \in Calls : Started(c) /\ LocksHeld(c) /\ Attempting(c)

HistoryInv ==
  /\ \A v \in Conversations : History(v)
  /\ \A c \in Calls : Working(c)

TurnsInv == RunsInv /\ (ClockAdvances => HistoryInv)

-----------------------------------------------------------------------------
(* Numbers, sequences and sets *)

\* A set of natural numbers has a least one.
LEMMA Least ==
  ASSUME NEW T \in SUBSET Nat, T # {}
  PROVE  \E x \in T : \A y \in T : x <= y
<1> DEFINE R == {ss \in Nat \X Nat : ss[1] < ss[2]}
<1>1. IsWellFoundedOn(R, Nat)
  BY NatLessThanWellFounded DEF OpToRel
<1>2. \E x \in T : \A y \in T : ~(<<y, x>> \in R)
  <2> HIDE DEF R
  <2> QED BY <1>1, WFMin
<1>3. PICK x \in T : \A y \in T : ~(<<y, x>> \in R)
  BY <1>2
<1>4. ASSUME NEW y \in T PROVE x <= y
  <2>1. x \in Nat /\ y \in Nat
    OBVIOUS
  <2>2. ~(y < x)
    BY <1>3, <2>1
  <2> QED BY <2>1, <2>2
<1> QED BY <1>4

\* And a bounded one a greatest.
LEMMA Greatest ==
  ASSUME NEW T \in SUBSET Nat, T # {}, NEW n \in Nat, \A x \in T : x <= n
  PROVE  \E x \in T : \A y \in T : y <= x
<1> DEFINE B == {b \in Nat : \A x \in T : x <= b}
<1>1. PICK b \in B : \A c \in B : b <= c
  <2>1. n \in B
    OBVIOUS
  <2>2. B \in SUBSET Nat /\ B # {}
    BY <2>1
  <2> HIDE DEF B
  <2> QED BY <2>2, Least
<1>2. b \in T
  <2> SUFFICES ASSUME b \notin T PROVE FALSE
    OBVIOUS
  <2>1. PICK x \in T : TRUE
    OBVIOUS
  <2>2. \A y \in T : y <= b - 1
    BY <1>1
  <2>3. b - 1 \in B
    BY <2>1, <2>2
  <2> QED BY <1>1, <2>3
<1> QED BY <1>1, <1>2

LEMMA MaxIsGreatest ==
  ASSUME NEW T \in SUBSET Nat, T # {}, NEW n \in Nat, \A x \in T : x <= n
  PROVE  Max(T) \in T /\ \A x \in T : x <= Max(T)
<1>1. PICK x \in T : \A y \in T : x >= y
  BY Greatest
<1> QED BY <1>1 DEF Max

LEMMA MinIsLeast ==
  ASSUME NEW T \in SUBSET Nat, T # {}
  PROVE  Min(T) \in T /\ \A x \in T : Min(T) <= x
<1>1. PICK x \in T : \A y \in T : x <= y
  BY Least
<1> QED BY <1>1 DEF Min

\* To remove an element leaves who stands before it.
LEMMA RemovedFirst ==
  ASSUME NEW S, NEW s \in Seq(S), NEW e
  PROVE  /\ RemoveFirst(s, e) \in Seq(S)
         /\ s # <<>> /\ Head(s) # e =>
              RemoveFirst(s, e) # <<>> /\ Head(RemoveFirst(s, e)) = Head(s)
<1> DEFINE I == {i \in 1..Len(s) : s[i] = e}
<1>1. CASE I = {}
  BY <1>1 DEF RemoveFirst
<1>2. CASE I # {}
  <2> DEFINE i == Min(I)
  <2>1. i \in 1..Len(s) /\ s[i] = e
    <3>1. I \in SUBSET Nat
      OBVIOUS
    <3>2. Min(I) \in I
      BY <1>2, <3>1, MinIsLeast
    <3> QED BY <3>2
  <2>2. RemoveFirst(s, e) = SubSeq(s, 1, i - 1) \o SubSeq(s, i + 1, Len(s))
    BY <1>2 DEF RemoveFirst, RemoveAt, SelectInSeq
  <2> HIDE DEF i
  <2>3. SubSeq(s, 1, i - 1) \in Seq(S) /\ SubSeq(s, i + 1, Len(s)) \in Seq(S)
    BY <2>1
  <2>4. RemoveFirst(s, e) \in Seq(S)
    BY <2>2, <2>3
  <2>5. ASSUME s # <<>>, Head(s) # e
        PROVE  RemoveFirst(s, e) # <<>> /\ Head(RemoveFirst(s, e)) = Head(s)
    <3>1. i > 1
      BY <2>1, <2>5
    <3>2. Len(SubSeq(s, 1, i - 1)) = i - 1 /\ SubSeq(s, 1, i - 1)[1] = s[1]
      BY <2>1, <3>1
    <3>3. (SubSeq(s, 1, i - 1) \o SubSeq(s, i + 1, Len(s)))[1] = SubSeq(s, 1, i - 1)[1]
          /\ Len(SubSeq(s, 1, i - 1) \o SubSeq(s, i + 1, Len(s))) > 0
      <4> DEFINE a == SubSeq(s, 1, i - 1)
                 b == SubSeq(s, i + 1, Len(s))
      <4>1. a \in Seq(S) /\ b \in Seq(S) /\ Len(a) > 0
        BY <2>1, <2>3, <3>1, <3>2
      <4> HIDE DEF a, b
      <4>2. (a \o b)[1] = a[1] /\ Len(a \o b) > 0
        BY <4>1
      <4> QED BY <4>2 DEF a, b
    <3>4. RemoveFirst(s, e)[1] = s[1] /\ Len(RemoveFirst(s, e)) > 0
      BY <2>2, <3>2, <3>3
    <3> QED BY <2>4, <2>5, <3>4
  <2> QED BY <2>4, <2>5
<1> QED BY <1>1, <1>2

LEMMA Joined ==
  ASSUME NEW S, NEW a \in Seq(S), NEW b \in Seq(S)
  PROVE  /\ a \o b \in Seq(S) /\ Len(a \o b) = Len(a) + Len(b)
         /\ \A j \in 1..Len(a) : (a \o b)[j] = a[j]
         /\ \A j \in 1..Len(b) : (a \o b)[Len(a) + j] = b[j]
  OBVIOUS

\* What InsertAt makes of a sequence.
LEMMA Inserted ==
  ASSUME NEW S, NEW s \in Seq(S), NEW e \in S, NEW i \in 1..Len(s) + 1
  PROVE  /\ InsertAt(s, i, e) \in Seq(S)
         /\ Len(InsertAt(s, i, e)) = Len(s) + 1
         /\ \A j \in 1..Len(s) + 1 :
              /\ j < i => InsertAt(s, i, e)[j] = s[j]
              /\ j = i => InsertAt(s, i, e)[j] = e
              /\ j > i => InsertAt(s, i, e)[j] = s[j - 1]
<1> DEFINE a == SubSeq(s, 1, i - 1)
           b == SubSeq(s, i, Len(s))
           n == Len(s)
<1>0. n \in Nat /\ i \in 1..n + 1
  OBVIOUS
<1>1. a \in Seq(S) /\ Len(a) = i - 1 /\ \A j \in 1..i - 1 : a[j] = s[j]
  OBVIOUS
<1>2. b \in Seq(S) /\ Len(b) = n + 1 - i /\ \A j \in 1..n + 1 - i : b[j] = s[i + j - 1]
  OBVIOUS
<1>3. InsertAt(s, i, e) = (a \o <<e>>) \o b
  BY DEF InsertAt
<1> HIDE DEF a, b, n
<1> DEFINE c == a \o <<e>>
<1>4. c \in Seq(S) /\ Len(c) = i /\ \A j \in 1..i : c[j] = IF j = i THEN e ELSE a[j]
  BY <1>0, <1>1
<1> HIDE DEF c
<1>5. c \o b \in Seq(S) /\ Len(c \o b) = n + 1
  <2>1. c \o b \in Seq(S) /\ Len(c \o b) = Len(c) + Len(b)
    BY <1>2, <1>4, Joined
  <2> QED BY <1>0, <1>2, <1>4, <2>1
<1>6. ASSUME NEW j \in 1..n + 1
      PROVE  /\ j < i => (c \o b)[j] = s[j]
             /\ j = i => (c \o b)[j] = e
             /\ j > i => (c \o b)[j] = s[j - 1]
  <2>1. CASE j <= i
    <3>1. (c \o b)[j] = c[j]
      BY <1>0, <1>2, <1>4, <2>1, Joined
    <3> QED BY <1>0, <1>1, <1>4, <2>1, <3>1
  <2>2. CASE j > i
    <3>1. j - i \in 1..n + 1 - i
      BY <1>0, <2>2
    <3>2. (c \o b)[i + (j - i)] = b[j - i]
      <4>1. \A k \in 1..Len(b) : (c \o b)[Len(c) + k] = b[k]
        BY <1>2, <1>4, Joined, SMTT(60)
      <4> QED BY <1>2, <1>4, <3>1, <4>1
    <3>3. b[j - i] = s[i + (j - i) - 1]
      BY <1>2, <3>1
    <3>4. i + (j - i) = j /\ i + (j - i) - 1 = j - 1 /\ ~(j < i) /\ j # i
      BY <1>0, <2>2
    <3>5. (c \o b)[j] = b[j - i] /\ b[j - i] = s[j - 1]
      BY <3>2, <3>3, <3>4
    <3> QED BY <3>4, <3>5
  <2>3. j <= i \/ j > i
    BY <1>0
  <2> QED BY <2>1, <2>2, <2>3, Zenon
<1> QED BY <1>3, <1>5, <1>6 DEF c, n

\* Names of Runs are not the absent identity.
LEMMA NoNil == Nil \notin Calls /\ Nil \notin Conversations /\ Nil \notin UserMessages
  BY ConversationAssumption

\* The newest Run of a set is in the set, and every other started before it.
LEMMA Newest ==
  ASSUME order \in Seq(Calls), NEW R, R \subseteq ToSet(order)
  PROVE  /\ R = {} => NewestOf(R) = Nil
         /\ R # {} => NewestOf(R) \in R /\ \A q \in R : q = NewestOf(R) \/ Earlier(q, NewestOf(R))
<1> DEFINE I == {i \in 1..Len(order) : order[i] \in R}
<1>1. NewestOf(R) = IF I = {} THEN Nil ELSE order[Max(I)]
  <2>1. SelectLastInSeq(order, LAMBDA r : r \in R) = IF I # {} THEN Max(I) ELSE 0
    BY DEF SelectLastInSeq
  <2>2. I # {} => Max(I) # 0
    <3>1. I \in SUBSET Nat /\ Len(order) \in Nat /\ \A i \in I : i <= Len(order) /\ i > 0
      OBVIOUS
    <3>2. I # {} => Max(I) \in I
      <4> HIDE DEF I
      <4> QED BY <3>1, MaxIsGreatest
    <3> QED BY <3>2
  <2> QED BY <2>1, <2>2 DEF NewestOf
<1>2. CASE R = {}
  BY <1>1, <1>2
<1>3. CASE R # {}
  <2>1. I # {}
    BY <1>3 DEF ToSet
  <2>2. Max(I) \in I /\ \A i \in I : i <= Max(I)
    <3>1. I \in SUBSET Nat /\ Len(order) \in Nat /\ \A i \in I : i <= Len(order)
      OBVIOUS
    <3> HIDE DEF I
    <3> QED BY <2>1, <3>1, MaxIsGreatest
  <2>3. ASSUME NEW q \in R PROVE q = NewestOf(R) \/ Earlier(q, NewestOf(R))
    <3>1. PICK i \in I : order[i] = q
      BY DEF ToSet
    <3>2. i <= Max(I)
      BY <2>2
    <3>3. CASE i = Max(I)
      BY <1>1, <2>1, <3>1, <3>3
    <3>4. CASE i < Max(I)
      <4>1. NewestOf(R) = order[Max(I)]
        BY <1>1, <2>1
      <4>2. i \in DOMAIN order /\ Max(I) \in DOMAIN order
        BY <2>2
      <4> HIDE DEF I
      <4> QED BY <3>1, <3>4, <4>1, <4>2 DEF Earlier
    <3> QED BY <2>2, <3>2, <3>3, <3>4
  <2> QED BY <1>1, <1>3, <2>1, <2>2, <2>3
<1> QED BY <1>2, <1>3

-----------------------------------------------------------------------------
(* Histories *)

LEMMA LastOfCounted ==
  ASSUME NEW h \in SUBSET Message, Counted(h)
  PROVE  /\ Cardinality(h) \in Nat
         /\ LastSequence(h) = Cardinality(h)
         /\ \A m \in h : m.sequence \in 1..Cardinality(h)
         /\ \A i \in 1..Cardinality(h) : \E m \in h : m.sequence = i
<1> DEFINE n == Cardinality(h)
           T == {0} \cup {m.sequence : m \in h}
<1>1. n \in Nat
  BY FS_CardinalityType DEF Counted
<1>2. {m.sequence : m \in h} = 1..n
  BY DEF Counted
<1>3. T \in SUBSET Nat /\ T # {} /\ n \in T /\ \A x \in T : x <= n
  BY <1>1, <1>2
<1> HIDE DEF n
<1>4. Max(T) \in T /\ Max(T) >= n
  <2> HIDE DEF T
  <2> QED BY <1>1, <1>3, MaxIsGreatest
<1>5. Max(T) = n
  BY <1>1, <1>2, <1>4
<1> QED BY <1>1, <1>2, <1>5 DEF LastSequence, n

\* A set that is numbered 1, 2, ..., n has n members.
LEMMA CountedBy ==
  ASSUME NEW h \in SUBSET Message, NEW n \in Nat,
         \A m, k \in h : m.sequence = k.sequence => m = k,
         {m.sequence : m \in h} = 1..n
  PROVE  Counted(h) /\ Cardinality(h) = n
<1> DEFINE f == [m \in h |-> m.sequence]
<1>1. f \in Bijection(h, 1..n)
  BY DEF Bijection, Injection, Surjection, IsInjective
<1>2. IsFiniteSet(1..n) /\ Cardinality(1..n) = n
  BY FS_Interval
<1>3. f \in Surjection(h, 1..n) /\ f \in Injection(h, 1..n)
  BY <1>1 DEF Bijection
<1>4. IsFiniteSet(h)
  BY <1>1, <1>2, FS_Injection, <1>3
<1>5. Cardinality(h) = n
  BY <1>2, <1>3, FS_Injection
<1> QED BY <1>4, <1>5 DEF Counted

Row(i, r, kind) == [sequence |-> i, run |-> r, kind |-> kind]

\* One more message.
LEMMA OneMore ==
  ASSUME NEW h \in SUBSET Message, Counted(h), NEW r \in Calls, NEW kind \in Kinds,
         NEW g, g = h \cup {Row(Cardinality(h) + 1, r, kind)}
  PROVE  /\ g \in SUBSET Message /\ Counted(g) /\ Cardinality(g) = Cardinality(h) + 1
         /\ EndsInCall(g) <=> kind = "call"
         /\ Paired(h) /\ (kind = "result" <=> EndsInCall(h)) => Paired(g)
<1> DEFINE n == Cardinality(h)
           m == Row(n + 1, r, kind)
<1>1. n \in Nat /\ LastSequence(h) = n /\ \A x \in h : x.sequence \in 1..n
  BY LastOfCounted
<1>2. \A i \in 1..n : \E x \in h : x.sequence = i
  BY LastOfCounted
<1> HIDE DEF n
<1>3. m \in Message /\ m.sequence = n + 1 /\ m.run = r /\ m.kind = kind
  BY <1>1 DEF Message, Row
<1> HIDE DEF m
<1>4. g = h \cup {m} /\ g \in SUBSET Message /\ m \notin h
  BY <1>1, <1>3 DEF n, m
<1>5. \A x \in h : x.sequence < m.sequence
  BY <1>1, <1>3
<1>6. Counted(g) /\ Cardinality(g) = n + 1
  <2>1. \A x, y \in g : x.sequence = y.sequence => x = y
    BY <1>1, <1>4, <1>5 DEF Counted, Message
  <2>2. {x.sequence : x \in g} = 1..n + 1
    <3>1. \A x \in g : x.sequence \in 1..n + 1
      BY <1>1, <1>3, <1>4
    <3>2. ASSUME NEW i \in 1..n + 1 PROVE \E x \in g : x.sequence = i
      <4>1. CASE i = n + 1
        BY <1>3, <1>4, <4>1
      <4>2. CASE i # n + 1
        BY <1>1, <1>2, <1>4, <4>2
      <4> QED BY <4>1, <4>2
    <3> QED BY <3>1, <3>2
  <2> QED BY <1>1, <1>4, <2>1, <2>2, CountedBy
<1>7. LastSequence(g) = n + 1
  BY <1>4, <1>6, LastOfCounted
<1>8. EndsInCall(g) <=> kind = "call"
  BY <1>1, <1>3, <1>4, <1>7 DEF EndsInCall
<1>9. ASSUME Paired(h), kind = "result" <=> EndsInCall(h)
      PROVE  Paired(g)
  <2>1. ASSUME NEW x \in h, NEW y \in g
        PROVE  IsBefore(g, y, x) <=> y \in h /\ IsBefore(h, y, x)
    BY <1>1, <1>3, <1>4, <1>5 DEF IsBefore, Message
  <2>2. ASSUME NEW y \in g
        PROVE  IsBefore(g, y, m) <=> y \in h /\ y.sequence = n
    <3>1. CASE y = m
      BY <1>1, <1>3, <1>4, <3>1 DEF IsBefore
    <3>2. CASE y \in h /\ y.sequence = n
      BY <1>1, <1>3, <1>4, <1>5, <3>2 DEF IsBefore
    <3>3. CASE y \in h /\ y.sequence # n
      <4>1. y.sequence \in 1..n /\ n \in 1..n
        BY <1>1, <3>3
      <4>2. PICK z \in h : z.sequence = n
        BY <1>2, <4>1
      <4> QED BY <1>1, <1>3, <1>4, <3>3, <4>1, <4>2 DEF IsBefore
    <3> QED BY <1>4, <3>1, <3>2, <3>3
  <2>3. ASSUME NEW x \in h
        PROVE  x.kind = "result" <=> \E y \in g : y.kind = "call" /\ IsBefore(g, y, x)
    BY <1>4, <1>9, <2>1 DEF Paired
  <2>4. m.kind = "result" <=> \E y \in g : y.kind = "call" /\ IsBefore(g, y, m)
    BY <1>1, <1>3, <1>4, <1>9, <2>2 DEF EndsInCall
  <2> QED BY <1>4, <2>3, <2>4 DEF Paired
<1> QED BY <1>4, <1>6, <1>8, <1>9 DEF n

\* The first messages of a history are a history.
LEMMA FirstMessages ==
  ASSUME NEW h \in SUBSET Message, Counted(h), NEW c \in Nat,
         NEW p, p = {m \in h : m.sequence <= c}
  PROVE  /\ p \in SUBSET Message /\ Counted(p)
         /\ Paired(h) => Paired(p)
<1> DEFINE n == Cardinality(h)
           k == IF c <= n THEN c ELSE n
<1>1. n \in Nat /\ \A x \in h : x.sequence \in 1..n
  BY LastOfCounted
<1>2. \A i \in 1..n : \E x \in h : x.sequence = i
  BY LastOfCounted
<1> HIDE DEF n
<1>3. k \in Nat /\ {x.sequence : x \in p} = 1..k
  <2>1. k \in Nat /\ k <= n /\ k <= c /\ \A i \in 1..n : i <= c => i <= k
    BY <1>1
  <2> HIDE DEF k
  <2>2. \A x \in p : x.sequence \in 1..k
    BY <1>1, <2>1
  <2>3. \A i \in 1..k : \E x \in p : x.sequence = i
    <3>1. ASSUME NEW i \in 1..k PROVE \E x \in p : x.sequence = i
      <4>1. i \in 1..n /\ i <= c
        BY <1>1, <2>1
      <4> QED BY <1>2, <4>1
    <3> QED BY <3>1
  <2> QED BY <2>1, <2>2, <2>3
<1>4. Counted(p)
  <2>1. \A x, y \in p : x.sequence = y.sequence => x = y
    BY DEF Counted
  <2> HIDE DEF k
  <2> QED BY <1>3, <2>1, CountedBy
<1>5. ASSUME Paired(h) PROVE Paired(p)
  <2>1. ASSUME NEW x \in p, NEW y \in h
        PROVE  IsBefore(h, y, x) <=> y \in p /\ IsBefore(p, y, x)
    BY <1>1 DEF IsBefore, Message
  <2> QED BY <1>5, <2>1 DEF Paired
<1> QED BY <1>4, <1>5

\* What is appended to a history by one call: one message, or the repair first.
LEMMA AppendsOne ==
  ASSUME NEW v \in Conversations, NEW r, NEW kind,
         messages \in [Conversations -> SUBSET Message], Counted(messages[v]),
         AppendMessages(v, r, <<kind>>)
  PROVE  /\ messages'[v] = messages[v] \cup {Row(Cardinality(messages[v]) + 1, r, kind)}
         /\ \A w \in Conversations \ {v} : messages'[w] = messages[w]
         /\ DOMAIN messages' = Conversations
<1>1. LastSequence(messages[v]) = Cardinality(messages[v])
  BY LastOfCounted
<1>2. DOMAIN <<kind>> = {1} /\ <<kind>>[1] = kind
  OBVIOUS
<1> QED BY <1>1, <1>2 DEF AppendMessages, Row

LEMMA AppendsTwo ==
  ASSUME NEW v \in Conversations, NEW r, NEW first, NEW second,
         messages \in [Conversations -> SUBSET Message], Counted(messages[v]),
         AppendMessages(v, r, <<first, second>>)
  PROVE  /\ messages'[v] = (messages[v] \cup {Row(Cardinality(messages[v]) + 1, r, first)})
                             \cup {Row(Cardinality(messages[v]) + 2, r, second)}
         /\ \A w \in Conversations \ {v} : messages'[w] = messages[w]
         /\ DOMAIN messages' = Conversations
<1>1. LastSequence(messages[v]) = Cardinality(messages[v])
  BY LastOfCounted
<1>2. DOMAIN <<first, second>> = {1, 2} /\ <<first, second>>[1] = first
      /\ <<first, second>>[2] = second
  OBVIOUS
<1>3. {[sequence |-> LastSequence(messages[v]) + i, run |-> r, kind |-> <<first, second>>[i]] :
         i \in {1, 2}}
      = {Row(Cardinality(messages[v]) + 1, r, first), Row(Cardinality(messages[v]) + 2, r, second)}
  BY <1>1, <1>2 DEF Row
<1> QED BY <1>2, <1>3 DEF AppendMessages

-----------------------------------------------------------------------------
(* The order of the Runs *)

\* A Run that is inserted into the order leaves the others as they are.
LEMMA InsertedRun ==
  ASSUME order \in Seq(Calls), NEW c \in Calls, c \notin ToSet(order),
         \A i, j \in DOMAIN order : order[i] = order[j] => i = j,
         NEW k \in 1..Len(order) + 1, order' = InsertAt(order, k, c)
  PROVE  /\ order' \in Seq(Calls)
         /\ ToSet(order') = ToSet(order) \cup {c}
         /\ \A i, j \in DOMAIN order' : order'[i] = order'[j] => i = j
         /\ \A r, q : Earlier(r, q) => Earlier(r, q)'
         /\ k = Len(order) + 1 => \A r \in ToSet(order) : Earlier(r, c)'
<1> DEFINE n == Len(order)
<1>1. n \in Nat /\ DOMAIN order = 1..n /\ k \in 1..n + 1
  OBVIOUS
<1>2. order' \in Seq(Calls) /\ DOMAIN order' = 1..n + 1
  BY Inserted
<1>3. \A j \in 1..n + 1 :
        /\ j < k => order'[j] = order[j]
        /\ j = k => order'[j] = c
        /\ j > k => order'[j] = order[j - 1]
  <2> DEFINE t == InsertAt(order, k, c)
  <2>1. \A j \in 1..Len(order) + 1 :
          /\ j < k => t[j] = order[j]
          /\ j = k => t[j] = c
          /\ j > k => t[j] = order[j - 1]
    <3> HIDE DEF n
    <3>1. c \in Calls /\ order \in Seq(Calls) /\ k \in 1..Len(order) + 1
      OBVIOUS
    <3> QED BY ONLY <3>1, Inserted
  <2>2. order' = t
    OBVIOUS
  <2> HIDE DEF t
  <2> QED BY <2>1, <2>2
<1>4. \A j \in 1..n : order[j] # c
  BY <1>1 DEF ToSet
<1> HIDE DEF n
<1> DEFINE at(j) == IF j < k THEN j ELSE j + 1
<1>5. \A j \in 1..n : at(j) \in 1..n + 1 /\ order'[at(j)] = order[j]
  <2> SUFFICES ASSUME NEW j \in 1..n PROVE at(j) \in 1..n + 1 /\ order'[at(j)] = order[j]
    OBVIOUS
  <2>1. CASE j < k
    BY <1>1, <1>3, <2>1
  <2>2. CASE ~(j < k)
    <3>1. j + 1 \in 1..n + 1 /\ j + 1 > k /\ (j + 1) - 1 = j
      BY <1>1, <2>2
    <3> QED BY <1>3, <2>2, <3>1
  <2> QED BY <2>1, <2>2
<1>6. \A i \in 1..n + 1 : i = k \/ \E j \in 1..n : i = at(j)
  <2> SUFFICES ASSUME NEW i \in 1..n + 1, i # k PROVE \E j \in 1..n : i = at(j)
    OBVIOUS
  <2>1. CASE i < k
    BY <1>1, <2>1
  <2>2. CASE i > k
    <3>1. i - 1 \in 1..n /\ ~(i - 1 < k) /\ (i - 1) + 1 = i
      BY <1>1, <2>2
    <3> QED BY <3>1
  <2> QED BY <1>1, <2>1, <2>2
<1>7. order'[k] = c
  BY <1>1, <1>3
<1>8. \A i, j \in 1..n : i < j => at(i) < at(j)
  BY <1>1
<1> HIDE DEF at
<1>9. ToSet(order') = ToSet(order) \cup {c}
  <2>1. ASSUME NEW x \in ToSet(order') PROVE x \in ToSet(order) \cup {c}
    <3>1. PICK i \in 1..n + 1 : order'[i] = x
      BY <1>2 DEF ToSet
    <3>2. CASE i = k
      BY <1>7, <3>1, <3>2
    <3>3. CASE i # k
      <4>1. PICK j \in 1..n : i = at(j)
        BY <1>6, <3>3
      <4>2. x = order[j]
        BY <1>5, <3>1, <4>1
      <4> QED BY <1>1, <4>2 DEF ToSet
    <3> QED BY <3>2, <3>3
  <2>2. ASSUME NEW x \in ToSet(order) \cup {c} PROVE x \in ToSet(order')
    BY <1>1, <1>2, <1>5, <1>7, SMTT(60) DEF ToSet
  <2> QED BY <2>1, <2>2
<1>10. ASSUME NEW i \in DOMAIN order', NEW j \in DOMAIN order', order'[i] = order'[j]
       PROVE  i = j
  <2>0. \A x \in 1..n + 1 : x # k => order'[x] # c
    <3>1. ASSUME NEW x \in 1..n + 1, x # k PROVE order'[x] # c
      <4>1. PICK y \in 1..n : x = at(y)
        BY <1>6, <3>1
      <4>2. order'[x] = order[y]
        <5> HIDE DEF at
        <5> QED BY <1>5, <4>1
      <4>3. order[y] # c
        BY <1>4
      <4> QED BY <4>2, <4>3
    <3> QED BY <3>1
  <2>1. CASE i = k
    <3>0. j \in 1..n + 1
      BY ONLY <1>10, <1>2
    <3>1. order'[j] = c
      BY ONLY <1>7, <1>10, <2>1
    <3> HIDE DEF at
    <3> QED BY ONLY <2>0, <2>1, <3>0, <3>1
  <2>2. CASE j = k
    <3>0. i \in 1..n + 1
      BY ONLY <1>10, <1>2
    <3>1. order'[i] = c
      BY ONLY <1>7, <1>10, <2>2
    <3> HIDE DEF at
    <3> QED BY ONLY <2>0, <2>2, <3>0, <3>1
  <2>3. CASE i # k /\ j # k
    <3>1. PICK x \in 1..n, y \in 1..n : i = at(x) /\ j = at(y)
      BY <1>2, <1>6, <2>3
    <3>2. order[x] = order[y]
      BY <1>5, <1>10, <3>1
    <3> QED BY <1>1, <3>1, <3>2
  <2> QED BY <2>1, <2>2, <2>3
<1>11. ASSUME NEW r, NEW q, Earlier(r, q) PROVE Earlier(r, q)'
  BY <1>1, <1>2, <1>5, <1>8, <1>11 DEF Earlier
<1>12. ASSUME k = n + 1, NEW r \in ToSet(order) PROVE Earlier(r, c)'
  <2>1. PICK j \in 1..n : order[j] = r
    BY <1>1 DEF ToSet
  <2>2. j < k /\ order'[j] = r
    BY <1>1, <1>3, <1>12, <2>1
  <2> QED BY <1>1, <1>2, <1>7, <2>2 DEF Earlier
<1> QED BY <1>2, <1>9, <1>10, <1>11, <1>12 DEF n

\* The order is one: no two Runs started before each other.
LEMMA EarlierIsStrict ==
  ASSUME order \in Seq(Calls), \A i, j \in DOMAIN order : order[i] = order[j] => i = j,
         NEW r, NEW q, Earlier(r, q)
  PROVE  r # q /\ ~Earlier(q, r)
  BY DEF Earlier

-----------------------------------------------------------------------------
(* Requests and locks *)

\* Where a request is says what it remembers.
LEMMA RequestShape ==
  ASSUME TypeOK, NEW c \in Calls
  PROVE  /\ Pc(c) = "idle" <=> call[c] = Idle
         /\ Pc(c) = "done" <=> call[c] = Done
         /\ Pc(c) \in {"idle", "done", "lookup", "begin", "deleting"} \cup Executing
         /\ Pc(c) \in {"lookup", "begin"} \cup Executing => call[c] \in Request
         /\ Pc(c) = "deleting" => call[c] \in Deletion
<1>1. call[c] \in {Idle, Done} \cup Request \cup Deletion
  BY DEF TypeOK
<1> QED BY <1>1 DEF Idle, Done, Request, Deletion, Executing, Pc

LEMMA Moved ==
  ASSUME TypeOK, NEW c \in Calls, NEW f, call' = [call EXCEPT ![c] = f]
  PROVE  call'[c] = f /\ \A d \in Calls \ {c} : call'[d] = call[d]
  BY DEF TypeOK

Requesting == {Idle, Done} \cup Request \cup Deletion
Serving    == {"lookup", "begin"} \cup Executing

\* One field of a request changes.
LEMMA PcSet ==
  ASSUME NEW s \in Request, NEW x \in Serving
  PROVE  LET t == [s EXCEPT !.pc = x]
         IN  /\ t \in Request /\ t.pc = x
             /\ t.user = s.user /\ t.conversation = s.conversation /\ t.retry = s.retry
             /\ t.previous = s.previous /\ t.status = s.status /\ t.records = s.records
             /\ t.known = s.known
<1>1. [s EXCEPT !.pc = x] =
        [pc |-> x, user |-> s.user, conversation |-> s.conversation, retry |-> s.retry,
         previous |-> s.previous, status |-> s.status, records |-> s.records, known |-> s.known]
  BY DEF Request
<1> QED BY <1>1 DEF Request, Serving

LEMMA ConversationSet ==
  ASSUME NEW s \in Request, NEW x \in Conversations \cup {Nil}
  PROVE  LET t == [s EXCEPT !.conversation = x]
         IN  /\ t \in Request /\ t.conversation = x
             /\ t.pc = s.pc /\ t.user = s.user /\ t.retry = s.retry
             /\ t.previous = s.previous /\ t.status = s.status /\ t.records = s.records
             /\ t.known = s.known
<1>1. [s EXCEPT !.conversation = x] =
        [pc |-> s.pc, user |-> s.user, conversation |-> x, retry |-> s.retry,
         previous |-> s.previous, status |-> s.status, records |-> s.records, known |-> s.known]
  BY DEF Request
<1> QED BY <1>1 DEF Request, Serving

LEMMA PreviousSet ==
  ASSUME NEW s \in Request, NEW x \in Calls \cup {Nil}
  PROVE  LET t == [s EXCEPT !.previous = x]
         IN  /\ t \in Request /\ t.previous = x
             /\ t.pc = s.pc /\ t.user = s.user /\ t.conversation = s.conversation
             /\ t.retry = s.retry /\ t.status = s.status /\ t.records = s.records
             /\ t.known = s.known
<1>1. [s EXCEPT !.previous = x] =
        [pc |-> s.pc, user |-> s.user, conversation |-> s.conversation, retry |-> s.retry,
         previous |-> x, status |-> s.status, records |-> s.records, known |-> s.known]
  BY DEF Request
<1> QED BY <1>1 DEF Request, Serving

LEMMA StatusSet ==
  ASSUME NEW s \in Request, NEW x \in Statuses \cup {Nil}
  PROVE  LET t == [s EXCEPT !.status = x]
         IN  /\ t \in Request /\ t.status = x
             /\ t.pc = s.pc /\ t.user = s.user /\ t.conversation = s.conversation
             /\ t.retry = s.retry /\ t.previous = s.previous /\ t.records = s.records
             /\ t.known = s.known
<1>1. [s EXCEPT !.status = x] =
        [pc |-> s.pc, user |-> s.user, conversation |-> s.conversation, retry |-> s.retry,
         previous |-> s.previous, status |-> x, records |-> s.records, known |-> s.known]
  BY DEF Request
<1> QED BY <1>1 DEF Request, Serving

LEMMA RecordsSet ==
  ASSUME NEW s \in Request, NEW x \in SUBSET Message
  PROVE  LET t == [s EXCEPT !.records = x]
         IN  /\ t \in Request /\ t.records = x
             /\ t.pc = s.pc /\ t.user = s.user /\ t.conversation = s.conversation
             /\ t.retry = s.retry /\ t.previous = s.previous /\ t.status = s.status
             /\ t.known = s.known
<1>1. [s EXCEPT !.records = x] =
        [pc |-> s.pc, user |-> s.user, conversation |-> s.conversation, retry |-> s.retry,
         previous |-> s.previous, status |-> s.status, records |-> x, known |-> s.known]
  BY DEF Request
<1> QED BY <1>1 DEF Request, Serving

LEMMA KnownSet ==
  ASSUME NEW s \in Request, NEW x \in SUBSET Summary
  PROVE  LET t == [s EXCEPT !.known = x]
         IN  /\ t \in Request /\ t.known = x
             /\ t.pc = s.pc /\ t.user = s.user /\ t.conversation = s.conversation
             /\ t.retry = s.retry /\ t.previous = s.previous /\ t.status = s.status
             /\ t.records = s.records
<1>1. [s EXCEPT !.known = x] =
        [pc |-> s.pc, user |-> s.user, conversation |-> s.conversation, retry |-> s.retry,
         previous |-> s.previous, status |-> s.status, records |-> s.records, known |-> x]
  BY DEF Request
<1> QED BY <1>1 DEF Request, Serving

\* A request goes on, and keeps what it remembers.
LEMMA Advanced ==
  ASSUME TypeOK, NEW c \in Calls, Pc(c) \in Serving, NEW pc \in Serving, Advance(c, pc)
  PROVE  /\ call' \in [Calls -> Requesting]
         /\ \A d \in Calls \ {c} : call'[d] = call[d]
         /\ call'[c] \in Request
         /\ Pc(c)' = pc
         /\ call'[c].user = call[c].user /\ call'[c].conversation = call[c].conversation
         /\ call'[c].previous = call[c].previous /\ call'[c].status = call[c].status
<1> DEFINE t == [call[c] EXCEPT !.pc = pc]
<1>1. call[c] \in Request
  BY RequestShape DEF Serving
<1>2. /\ t \in Request /\ t.pc = pc
      /\ t.user = call[c].user /\ t.conversation = call[c].conversation
      /\ t.previous = call[c].previous /\ t.status = call[c].status
  BY <1>1, PcSet
<1>3. call' = [call EXCEPT ![c] = t]
  BY DEF Advance
<1>4. call \in [Calls -> Requesting]
  BY DEF TypeOK, Requesting
<1> HIDE DEF t
<1> QED BY <1>2, <1>3, <1>4 DEF Requesting, Pc

\* The same for a request that forgets the snapshot it compacted.
LEMMA Compacted ==
  ASSUME TypeOK, NEW c \in Calls, Pc(c) \in Serving,
         call' = [call EXCEPT ![c].pc = "model", ![c].records = {}, ![c].known = {}]
  PROVE  /\ call' \in [Calls -> Requesting]
         /\ \A d \in Calls \ {c} : call'[d] = call[d]
         /\ call'[c] \in Request
         /\ Pc(c)' = "model"
         /\ call'[c].user = call[c].user /\ call'[c].conversation = call[c].conversation
<1> DEFINE s == call[c]
           t == [s EXCEPT !.pc = "model"]
           u == [t EXCEPT !.records = {}]
           w == [u EXCEPT !.known = {}]
<1>1. s \in Request
  BY RequestShape DEF Serving
<1>2. t \in Request /\ t.pc = "model" /\ t.user = s.user /\ t.conversation = s.conversation
  BY <1>1, PcSet, ZenonT(60) DEF Serving, Executing
<1>3. call \in [Calls -> Requesting]
  BY DEF TypeOK, Requesting
<1>4. call' = [call EXCEPT ![c] = w]
  BY <1>3
<1> HIDE DEF t
<1>5. u \in Request /\ u.pc = t.pc /\ u.user = t.user /\ u.conversation = t.conversation
  BY <1>2, RecordsSet, ZenonT(60)
<1> HIDE DEF u
<1>6. w \in Request /\ w.pc = u.pc /\ w.user = u.user /\ w.conversation = u.conversation
  BY <1>5, KnownSet, SMTT(60)
<1> HIDE DEF w
<1> QED BY <1>2, <1>3, <1>4, <1>5, <1>6, ZenonT(60) DEF Requesting, Pc

\* A request ends: it leaves the locks, and who held one still does.
LEMMA Ended ==
  ASSUME TypeOK, NEW c \in Calls, End(c)
  PROVE  /\ call' \in [Calls -> Requesting]
         /\ \A d \in Calls \ {c} : call'[d] = call[d]
         /\ Pc(c)' = "done"
         /\ queue' \in [Conversations \cup UserMessages -> Seq(Calls)]
         /\ \A d \in Calls \ {c}, key \in Conversations \cup UserMessages :
              Holds(d, key) => Holds(d, key)'
<1>1. call \in [Calls -> Requesting] /\ Done \in Requesting
  BY DEF TypeOK, Requesting
<1>2. call' = [call EXCEPT ![c] = Done]
  BY DEF End
<1>3. queue \in [Conversations \cup UserMessages -> Seq(Calls)]
  BY DEF TypeOK
<1>4. queue' = [key \in Conversations \cup UserMessages |-> RemoveFirst(queue[key], c)]
  BY <1>3 DEF End, ReleaseLocks
<1>5. ASSUME NEW key \in Conversations \cup UserMessages
      PROVE  /\ queue'[key] \in Seq(Calls)
             /\ \A d \in Calls \ {c} : Holds(d, key) => Holds(d, key)'
  <2>1. queue[key] \in Seq(Calls) /\ queue'[key] = RemoveFirst(queue[key], c)
    BY <1>3, <1>4
  <2> QED BY <2>1, RemovedFirst DEF Holds
<1> QED BY <1>1, <1>2, <1>4, <1>5 DEF Done, Pc

\* A request joins the end of a queue.
LEMMA Enqueued ==
  ASSUME TypeOK, NEW c \in Calls, NEW k \in Conversations \cup UserMessages, Enqueue(c, k)
  PROVE  /\ queue' \in [Conversations \cup UserMessages -> Seq(Calls)]
         /\ \A d \in Calls, key \in Conversations \cup UserMessages :
              Holds(d, key) => Holds(d, key)'
<1>1. queue \in [Conversations \cup UserMessages -> Seq(Calls)]
  BY DEF TypeOK
<1>2. queue[k] \in Seq(Calls) /\ Append(queue[k], c) \in Seq(Calls)
  BY <1>1
<1>3. queue' \in [Conversations \cup UserMessages -> Seq(Calls)]
      /\ queue'[k] = Append(queue[k], c)
      /\ \A key \in (Conversations \cup UserMessages) \ {k} : queue'[key] = queue[key]
  BY <1>1, <1>2 DEF Enqueue
<1>4. queue[k] # <<>> => queue'[k] # <<>> /\ Head(queue'[k]) = Head(queue[k])
  BY <1>2, <1>3
<1> QED BY <1>3, <1>4 DEF Holds

-----------------------------------------------------------------------------
(* Types, and what a request and its Run have in common *)

\* A step of the requests that leaves the database alone and starts no turn.
LEMMA TypeKept ==
  ASSUME TypeOK, UNCHANGED database, call' \in [Calls -> Requesting],
         queue' \in [Conversations \cup UserMessages -> Seq(Calls)],
         faults' \in 0..MaxFaults, \A c \in Calls : Turn(c)' => Turn(c)
  PROVE  TypeOK'
<1>1. /\ conversation' = conversation /\ runs' = runs /\ order' = order
      /\ messages' = messages /\ summaries' = summaries
  BY DEF database
<1>2. /\ DOMAIN runs' \subseteq Calls
      /\ \A r \in DOMAIN runs' :
           /\ runs'[r] \in [conversation : Conversations, user : UserMessages \cup {Nil},
                            status : Statuses, iteration : 0..MaxIterations]
           /\ conversation'[runs'[r].conversation] = "present"
  BY <1>1 DEF TypeOK
<1>3. \A v \in Conversations : \A m \in messages'[v] : m.run \in RunsOf(v)'
  BY <1>1 DEF TypeOK, RunsOf
<1>4. \A c \in Calls : Turn(c)' => c \in DOMAIN runs' /\ runs'[c].status = "RUNNING"
  BY <1>1 DEF TypeOK
<1> QED BY <1>1, <1>2, <1>3, <1>4 DEF TypeOK, Requesting

\* The first transaction, of a message that has no Run: where it leads.
LEMMA Opened ==
  ASSUME TypeOK, NEW c \in Calls, OpenConversation(c)
  PROVE  \E v \in Conversations :
           /\ conversation' = [conversation EXCEPT ![v] = "present"]
           /\ conversation[v] # "deleted"
           /\ Enqueue(c, v)
           /\ call' \in [Calls -> Requesting]
           /\ \A d \in Calls \ {c} : call'[d] = call[d]
           /\ call'[c] \in Request
           /\ Pc(c)' = "begin" /\ call'[c].conversation = v
           /\ call'[c].user = call[c].user
           /\ call'[c].previous = call[c].previous
<1>1. PICK v \in Conversations :
         /\ IF call[c].conversation = Nil
            THEN conversation[v] = "unused"
            ELSE conversation[v] = "present" /\ v = call[c].conversation
         /\ conversation' = [conversation EXCEPT ![v] = "present"]
         /\ Enqueue(c, v)
         /\ call' = [call EXCEPT ![c].pc = "begin", ![c].conversation = v]
  BY DEF OpenConversation
<1> DEFINE s == call[c]
           t == [s EXCEPT !.pc = "begin"]
           u == [t EXCEPT !.conversation = v]
<1>2. s \in Request
  BY RequestShape DEF OpenConversation, Identified, Pc
<1>3. t \in Request /\ t.pc = "begin" /\ t.user = s.user /\ t.previous = s.previous
  BY <1>2, PcSet DEF Serving
<1>4. call \in [Calls -> Requesting]
  BY DEF TypeOK, Requesting
<1>5. call' = [call EXCEPT ![c] = u]
  BY <1>1, <1>4
<1> HIDE DEF t
<1>6. u \in Request /\ u.pc = t.pc /\ u.user = t.user /\ u.previous = t.previous
      /\ u.conversation = v
  BY <1>3, ConversationSet
<1> HIDE DEF u
<1>7. /\ call' \in [Calls -> Requesting] /\ \A d \in Calls \ {c} : call'[d] = call[d]
      /\ call'[c] = u
  BY <1>4, <1>5, <1>6 DEF Requesting
<1> QED BY <1>1, <1>3, <1>6, <1>7, ZenonT(60) DEF Pc

\* The same transaction of a retry.
LEMMA Found ==
  ASSUME TypeOK, NEW c \in Calls, FindAttempt(c)
  PROVE  LET p == NewestOf(AttemptsOf(call[c].user))
         IN  /\ p \in AttemptsOf(call[c].user)
             /\ runs[p].conversation \in Conversations
             /\ Enqueue(c, runs[p].conversation)
             /\ call' \in [Calls -> Requesting]
             /\ \A d \in Calls \ {c} : call'[d] = call[d]
             /\ call'[c] \in Request
             /\ Pc(c)' = "begin" /\ call'[c].conversation = runs[p].conversation
             /\ call'[c].user = call[c].user
             /\ call'[c].previous = p /\ call'[c].status = runs[p].status
<1> DEFINE p == NewestOf(AttemptsOf(call[c].user))
           v == runs[p].conversation
           s == call[c]
           t == [s EXCEPT !.pc = "begin"]
           u == [t EXCEPT !.conversation = v]
           w == [u EXCEPT !.previous = p]
           x == [w EXCEPT !.status = runs[p].status]
<1>1. p \in AttemptsOf(call[c].user)
  <2>1. AttemptsOf(call[c].user) \subseteq ToSet(order) /\ order \in Seq(Calls)
    BY DEF TypeOK, AttemptsOf
  <2> QED BY <2>1, Newest DEF FindAttempt
<1>2. p \in Calls /\ v \in Conversations /\ runs[p].status \in Statuses
  BY <1>1 DEF TypeOK, AttemptsOf
<1>3. s \in Request
  BY RequestShape DEF FindAttempt, Identified, Pc
<1>4. call \in [Calls -> Requesting]
  BY DEF TypeOK, Requesting
<1>5. call' = [call EXCEPT ![c] = x] /\ Enqueue(c, v)
  BY <1>4 DEF FindAttempt
<1> HIDE DEF p, v
<1>6. t \in Request /\ t.pc = "begin" /\ t.user = s.user
  BY <1>3, PcSet DEF Serving
<1> HIDE DEF t
<1>7. u \in Request /\ u.pc = t.pc /\ u.user = t.user /\ u.conversation = v
  BY <1>2, <1>6, ConversationSet
<1> HIDE DEF u
<1>8. w \in Request /\ w.pc = u.pc /\ w.user = u.user /\ w.conversation = u.conversation
      /\ w.previous = p
  BY <1>2, <1>7, PreviousSet
<1> HIDE DEF w
<1>9. x \in Request /\ x.pc = w.pc /\ x.user = w.user /\ x.conversation = w.conversation
      /\ x.previous = w.previous /\ x.status = runs[p].status
  BY <1>2, <1>8, StatusSet
<1> HIDE DEF x
<1>10. /\ call' \in [Calls -> Requesting] /\ \A d \in Calls \ {c} : call'[d] = call[d]
       /\ call'[c] = x
  BY <1>4, <1>5, <1>9 DEF Requesting
<1> QED BY <1>1, <1>2, <1>5, <1>6, <1>7, <1>8, <1>9, <1>10 DEF p, v, Pc

\* load_context: what it leaves in the history and with the request.
LEMMA Loaded ==
  ASSUME TypeOK, NEW c \in Calls, LoadTurn(c), messages' \in [Conversations -> SUBSET Message],
         call[c].conversation \in Conversations
  PROVE  /\ call' \in [Calls -> Requesting]
         /\ \A d \in Calls \ {c} : call'[d] = call[d]
         /\ call'[c] \in Request
         /\ Pc(c)' \in {"compact", "failing"}
         /\ call'[c].user = call[c].user /\ call'[c].conversation = call[c].conversation
<1> DEFINE v == call[c].conversation
           pc == IF Loadable(v, messages'[v]) THEN "compact" ELSE "failing"
           s == call[c]
           t == [s EXCEPT !.pc = pc]
           u == [t EXCEPT !.records = messages'[v]]
           w == [u EXCEPT !.known = summaries[v]]
<1>1. s \in Request
  BY RequestShape DEF LoadTurn, Executing, Pc
<1>2. call \in [Calls -> Requesting]
  BY DEF TypeOK, Requesting
<1>3. call' = [call EXCEPT ![c] = w]
  BY <1>2 DEF LoadTurn
<1>4. messages'[v] \in SUBSET Message /\ summaries[v] \in SUBSET Summary
  BY DEF TypeOK
<1> HIDE DEF v
<1>5. pc \in {"compact", "failing"} /\ pc \in Serving
  BY DEF Serving, Executing
<1> HIDE DEF pc
<1>6. t \in Request /\ t.pc = pc /\ t.user = s.user /\ t.conversation = s.conversation
  BY <1>1, <1>5, PcSet
<1> HIDE DEF t
<1>7. u \in Request /\ u.pc = t.pc /\ u.user = t.user /\ u.conversation = t.conversation
  BY <1>4, <1>6, RecordsSet
<1> HIDE DEF u
<1>8. w \in Request /\ w.pc = u.pc /\ w.user = u.user /\ w.conversation = u.conversation
  BY <1>4, <1>7, KnownSet
<1> HIDE DEF w
<1>9. /\ call' \in [Calls -> Requesting] /\ \A d \in Calls \ {c} : call'[d] = call[d]
      /\ call'[c] = w
  BY <1>2, <1>3, <1>8 DEF Requesting
<1> QED BY <1>5, <1>6, <1>7, <1>8, <1>9 DEF Pc

\* A new turn.
LEMMA Submitted ==
  ASSUME TypeOK, NEW c \in Calls, SubmitTurn(c)
  PROVE  /\ call' \in [Calls -> Requesting]
         /\ \A d \in Calls \ {c} : call'[d] = call[d]
         /\ Pc(c)' = "lookup" /\ call'[c].previous = Nil
         /\ queue' \in [Conversations \cup UserMessages -> Seq(Calls)]
         /\ \A d \in Calls, key \in Conversations \cup UserMessages :
              Holds(d, key) => Holds(d, key)'
<1>1. PICK m \in UserMessages \cup {Nil},
           v \in {w \in Conversations : conversation[w] # "unused"} \cup {Nil},
           retry \in BOOLEAN :
        /\ call' = [call EXCEPT ![c] =
             [pc |-> "lookup", user |-> m, conversation |-> v, retry |-> retry,
              previous |-> Nil, status |-> Nil, records |-> {}, known |-> {}]]
        /\ IF m = Nil THEN UNCHANGED queue ELSE Enqueue(c, m)
  BY DEF SubmitTurn
<1> DEFINE t == [pc |-> "lookup", user |-> m, conversation |-> v, retry |-> retry,
                 previous |-> Nil, status |-> Nil, records |-> {}, known |-> {}]
<1>2. t \in Request /\ t.pc = "lookup" /\ t.previous = Nil
  BY DEF Request
<1>3. call \in [Calls -> Requesting]
  BY DEF TypeOK, Requesting
<1>4. call' = [call EXCEPT ![c] = t]
  BY <1>1
<1> HIDE DEF t
<1>5. /\ call' \in [Calls -> Requesting] /\ \A d \in Calls \ {c} : call'[d] = call[d]
      /\ Pc(c)' = "lookup" /\ call'[c].previous = Nil
  BY <1>2, <1>3, <1>4 DEF Requesting, Pc
<1>6. CASE m = Nil
  BY <1>1, <1>5, <1>6 DEF TypeOK, Holds
<1>7. CASE m # Nil
  <2>1. m \in Conversations \cup UserMessages /\ Enqueue(c, m)
    BY <1>1, <1>7
  <2> QED BY <1>5, <2>1, Enqueued
<1> QED BY <1>6, <1>7

LEMMA DeletionRequested ==
  ASSUME TypeOK, NEW c \in Calls, RequestDelete(c)
  PROVE  /\ call' \in [Calls -> Requesting]
         /\ \A d \in Calls \ {c} : call'[d] = call[d]
         /\ Pc(c)' = "deleting"
         /\ queue' \in [Conversations \cup UserMessages -> Seq(Calls)]
         /\ \A d \in Calls, key \in Conversations \cup UserMessages :
              Holds(d, key) => Holds(d, key)'
<1>1. PICK v \in Conversations :
        /\ Enqueue(c, v)
        /\ call' = [call EXCEPT ![c] = [pc |-> "deleting", conversation |-> v]]
  BY DEF RequestDelete
<1>2. [pc |-> "deleting", conversation |-> v] \in Deletion
  BY DEF Deletion
<1>3. call \in [Calls -> Requesting]
  BY DEF TypeOK, Requesting
<1>4. /\ call' \in [Calls -> Requesting] /\ \A d \in Calls \ {c} : call'[d] = call[d]
      /\ Pc(c)' = "deleting"
  BY <1>1, <1>2, <1>3 DEF Requesting, Pc
<1> QED BY <1>1, <1>4, Enqueued

\* The history of a conversation grows by messages of the Run that executes.
LEMMA TypeAppended ==
  ASSUME TypeOK, NEW c \in Calls, Turn(c), Started(c),
         UNCHANGED <<conversation, runs, order, summaries, queue, faults>>,
         messages' \in [Conversations -> SUBSET Message],
         \A v \in Conversations : \A m \in messages'[v] :
           m \in messages[v] \/ (v = call[c].conversation /\ m.run = c),
         call' \in [Calls -> Requesting],
         \A d \in Calls \ {c} : call'[d] = call[d]
  PROVE  TypeOK'
<1>1. \A v \in Conversations : \A m \in messages'[v] : m.run \in RunsOf(v)'
  <2> SUFFICES ASSUME NEW v \in Conversations, NEW m \in messages'[v]
               PROVE  m.run \in RunsOf(v)
    BY DEF RunsOf
  <2>1. CASE m \in messages[v]
    BY <2>1 DEF TypeOK
  <2>2. CASE v = call[c].conversation /\ m.run = c
    BY <2>2 DEF TypeOK, Started, RunsOf
  <2> QED BY <2>1, <2>2
<1>2. \A d \in Calls : Turn(d)' => d \in DOMAIN runs' /\ runs'[d].status = "RUNNING"
  <2> SUFFICES ASSUME NEW d \in Calls, Turn(d)' PROVE Turn(d)
    BY DEF TypeOK
  <2> QED BY DEF Turn
<1> QED BY <1>1, <1>2 DEF TypeOK, Requesting

\* The status or the iteration of the Run that executes changes.
LEMMA TypeUpdated ==
  ASSUME TypeOK, NEW c \in Calls, c \in DOMAIN runs,
         UNCHANGED <<conversation, order, messages, summaries, faults>>,
         DOMAIN runs' = DOMAIN runs,
         \A r \in DOMAIN runs \ {c} : runs'[r] = runs[r],
         runs'[c] \in [conversation : {runs[c].conversation}, user : {runs[c].user},
                       status : Statuses, iteration : 0..MaxIterations],
         queue' \in [Conversations \cup UserMessages -> Seq(Calls)],
         call' \in [Calls -> Requesting],
         \A d \in Calls \ {c} : call'[d] = call[d],
         Turn(c)' => runs'[c].status = "RUNNING"
  PROVE  TypeOK'
<1>1. \A r \in DOMAIN runs' :
        /\ runs'[r] \in [conversation : Conversations, user : UserMessages \cup {Nil},
                         status : Statuses, iteration : 0..MaxIterations]
        /\ runs'[r].conversation = runs[r].conversation
        /\ conversation'[runs'[r].conversation] = "present"
  <2> SUFFICES ASSUME NEW r \in DOMAIN runs
               PROVE  /\ runs'[r] \in [conversation : Conversations, user : UserMessages \cup {Nil},
                                       status : Statuses, iteration : 0..MaxIterations]
                      /\ runs'[r].conversation = runs[r].conversation
                      /\ conversation[runs'[r].conversation] = "present"
    OBVIOUS
  <2>1. /\ runs[r] \in [conversation : Conversations, user : UserMessages \cup {Nil},
                        status : Statuses, iteration : 0..MaxIterations]
        /\ conversation[runs[r].conversation] = "present"
    BY DEF TypeOK
  <2>2. CASE r = c
    BY <2>1, <2>2
  <2>3. CASE r # c
    BY <2>1, <2>3
  <2> QED BY <2>2, <2>3
<1>2. \A v \in Conversations : \A m \in messages'[v] : m.run \in RunsOf(v)'
  BY <1>1 DEF TypeOK, RunsOf
<1>3. \A d \in Calls : Turn(d)' => d \in DOMAIN runs' /\ runs'[d].status = "RUNNING"
  <2> SUFFICES ASSUME NEW d \in Calls, Turn(d)'
               PROVE  d \in DOMAIN runs' /\ runs'[d].status = "RUNNING"
    OBVIOUS
  <2>1. CASE d = c
    BY <2>1
  <2>2. CASE d # c
    <3>1. Turn(d)
      BY <2>2 DEF Turn
    <3> QED BY <2>2, <3>1 DEF TypeOK
  <2> QED BY <2>1, <2>2
<1> QED BY <1>1, <1>2, <1>3 DEF TypeOK, Requesting

-----------------------------------------------------------------------------
(* The first layer: requests, Runs, locks *)

\* Two requests never hold the same lock.
LEMMA OneHolder ==
  ASSUME NEW c, NEW d, NEW key, Holds(c, key), Holds(d, key)
  PROVE  c = d
  BY DEF Holds

\* What a request relies on survives a step of another request that starts no
\* Run.
LEMMA OtherKeeps ==
  ASSUME TypeOK, TypeOK', NEW c \in Calls, NEW d \in Calls \ {c},
         Started(d), LocksHeld(d), Attempting(d),
         call'[d] = call[d], order' = order,
         \A r \in DOMAIN runs' :
           r \in DOMAIN runs /\ runs'[r].user = runs[r].user
             /\ runs'[r].conversation = runs[r].conversation,
         Pc(d) = "begin" => \A r \in DOMAIN runs' :
           r = call[d].previous => runs'[r].status = runs[r].status,
         \A key \in Conversations \cup UserMessages : Holds(d, key) => Holds(d, key)'
  PROVE  Started(d)' /\ LocksHeld(d)' /\ Attempting(d)'
<1>1. Pc(d)' = Pc(d) /\ Turn(d)' = Turn(d)
  BY DEF Pc, Turn
<1>2. Started(d)'
  <2>1. Turn(d) => d \in DOMAIN runs'
    BY <1>1 DEF TypeOK
  <2> QED BY <1>1, <2>1 DEF Started
<1>3. LocksHeld(d)'
  <2>1. Turn(d) => call[d].conversation \in Conversations
    BY DEF Started, Turn, Assigned, Pc
  <2>2. Pc(d) \in Assigned => call[d].user \in UserMessages \cup {Nil}
    BY RequestShape DEF Assigned, Request
  <2> QED BY <1>1, <2>1, <2>2 DEF LocksHeld, Locked
<1>4. Attempting(d)'
  BY <1>1 DEF Attempting, AttemptsOf
<1> QED BY <1>2, <1>3, <1>4

\* The step of request c starts no Run; what is left is what c relies on itself.
LEMMA RunsKept ==
  ASSUME RunsInv, TypeOK', HistoriesEnd', NEW c \in Calls,
         \A d \in Calls \ {c} : call'[d] = call[d],
         order' = order,
         \A r \in DOMAIN runs' :
           /\ r \in DOMAIN runs /\ runs'[r].user = runs[r].user
           /\ runs'[r].conversation = runs[r].conversation
           /\ runs'[r].status = runs[r].status \/ (r = c /\ Turn(c)),
         \A d \in Calls \ {c}, key \in Conversations \cup UserMessages :
           Holds(d, key) => Holds(d, key)',
         Started(c)' /\ LocksHeld(c)' /\ Attempting(c)'
  PROVE  RunsInv'
<1>1. ASSUME NEW d \in Calls \ {c} PROVE Started(d)' /\ LocksHeld(d)' /\ Attempting(d)'
  <2>1. ASSUME Pc(d) = "begin", NEW r \in DOMAIN runs', r = call[d].previous
        PROVE  runs'[r].status = runs[r].status
    <3> SUFFICES ASSUME r = c, Turn(c) PROVE FALSE
      OBVIOUS
    <3>1. Attempting(d) /\ LocksHeld(d) /\ LocksHeld(c) /\ Started(c)
      BY DEF RunsInv
    <3>2. r \in DOMAIN runs
      OBVIOUS
    <3>3. call[d].previous # Nil
      BY <2>1, NoNil
    <3>4. runs[c].user = call[d].user /\ call[d].user # Nil
      BY <2>1, <3>1, <3>2, <3>3 DEF Attempting
    <3>5. call[c].user = call[d].user
      BY <3>1, <3>4 DEF Started
    <3>6. Holds(d, call[d].user)
      BY <2>1, <3>1, <3>4 DEF LocksHeld, Assigned
    <3>7. Holds(c, call[c].user)
      BY <3>1, <3>4, <3>5 DEF LocksHeld, Assigned, Turn, Pc
    <3> QED BY <3>5, <3>6, <3>7, OneHolder
  <2>2. TypeOK /\ Started(d) /\ LocksHeld(d) /\ Attempting(d)
    BY DEF RunsInv
  <2> QED BY <2>1, <2>2, OtherKeeps
<1>2. OrderIsStrict' /\ AttemptsTogether'
  BY DEF RunsInv, OrderIsStrict, AttemptsTogether
<1> QED BY <1>1, <1>2 DEF RunsInv

\* A request that has left relies on nothing.
LEMMA NothingToKeep ==
  ASSUME NEW c \in Calls, Pc(c)' \notin Waiting \cup Executing
  PROVE  Started(c)' /\ LocksHeld(c)' /\ Attempting(c)'
  BY DEF Started, LocksHeld, Attempting, Waiting, Assigned, Turn, Pc

LEMMA RunsEnd ==
  ASSUME RunsInv, NEW c \in Calls, End(c), UNCHANGED database, faults' \in 0..MaxFaults
  PROVE  RunsInv'
<1>1. /\ call' \in [Calls -> Requesting]
      /\ \A d \in Calls \ {c} : call'[d] = call[d]
      /\ Pc(c)' = "done"
      /\ queue' \in [Conversations \cup UserMessages -> Seq(Calls)]
      /\ \A d \in Calls \ {c}, key \in Conversations \cup UserMessages :
           Holds(d, key) => Holds(d, key)'
  BY Ended DEF RunsInv
<1>2. \A d \in Calls : Turn(d)' => Turn(d)
  BY <1>1 DEF Turn, Pc, Executing
<1>3. TypeOK'
  BY <1>1, <1>2, TypeKept DEF RunsInv
<1>4. Started(c)' /\ LocksHeld(c)' /\ Attempting(c)'
  BY <1>1, NothingToKeep DEF Waiting, Executing
<1>5. HistoriesEnd'
  BY DEF RunsInv, HistoriesEnd, database
<1> QED BY <1>1, <1>3, <1>4, <1>5, RunsKept DEF database

LEMMA RunsSubmit ==
  ASSUME RunsInv, NEW c \in Calls, SubmitTurn(c)
  PROVE  RunsInv'
<1>1. /\ call' \in [Calls -> Requesting]
      /\ \A d \in Calls \ {c} : call'[d] = call[d]
      /\ Pc(c)' = "lookup" /\ call'[c].previous = Nil
      /\ queue' \in [Conversations \cup UserMessages -> Seq(Calls)]
      /\ \A d \in Calls, key \in Conversations \cup UserMessages :
           Holds(d, key) => Holds(d, key)'
  BY Submitted DEF RunsInv
<1>2. UNCHANGED database /\ faults' = faults /\ Pc(c) = "idle"
  BY DEF SubmitTurn, Pc, Idle
<1>3. \A d \in Calls : Turn(d)' => Turn(d)
  BY <1>1 DEF Turn, Pc, Executing
<1>4. TypeOK'
  <2>1. faults' \in 0..MaxFaults
    BY <1>2 DEF RunsInv, TypeOK
  <2> QED BY <1>1, <1>2, <1>3, <2>1, TypeKept DEF RunsInv
<1>5. Started(c)' /\ LocksHeld(c)' /\ Attempting(c)'
  <2>1. c \notin ToSet(order')
    BY <1>2 DEF RunsInv, Started, Waiting, database
  <2> QED BY <1>1, <2>1 DEF Started, LocksHeld, Attempting, Waiting, Assigned, Turn, Executing, Pc
<1>6. HistoriesEnd'
  BY <1>2 DEF RunsInv, HistoriesEnd, database
<1> QED BY <1>1, <1>2, <1>4, <1>5, <1>6, RunsKept DEF database

LEMMA RunsRequestDelete ==
  ASSUME RunsInv, NEW c \in Calls, RequestDelete(c)
  PROVE  RunsInv'
<1>1. /\ call' \in [Calls -> Requesting]
      /\ \A d \in Calls \ {c} : call'[d] = call[d]
      /\ Pc(c)' = "deleting"
      /\ queue' \in [Conversations \cup UserMessages -> Seq(Calls)]
      /\ \A d \in Calls, key \in Conversations \cup UserMessages :
           Holds(d, key) => Holds(d, key)'
  BY DeletionRequested DEF RunsInv
<1>2. UNCHANGED database /\ faults' = faults /\ Pc(c) = "idle"
  BY DEF RequestDelete, Pc, Idle
<1>3. \A d \in Calls : Turn(d)' => Turn(d)
  BY <1>1 DEF Turn, Pc, Executing
<1>4. TypeOK'
  <2>1. faults' \in 0..MaxFaults
    BY <1>2 DEF RunsInv, TypeOK
  <2> QED BY <1>1, <1>2, <1>3, <2>1, TypeKept DEF RunsInv
<1>5. Started(c)' /\ LocksHeld(c)' /\ Attempting(c)'
  <2>1. c \notin ToSet(order')
    BY <1>2 DEF RunsInv, Started, Waiting, database
  <2> QED BY <1>1, <2>1 DEF Started, LocksHeld, Attempting, Waiting, Assigned, Turn, Executing, Pc
<1>6. HistoriesEnd'
  BY <1>2 DEF RunsInv, HistoriesEnd, database
<1> QED BY <1>1, <1>2, <1>4, <1>5, <1>6, RunsKept DEF database

LEMMA RunsOpen ==
  ASSUME RunsInv, NEW c \in Calls, OpenConversation(c)
  PROVE  RunsInv'
<1>1. PICK v \in Conversations :
        /\ conversation' = [conversation EXCEPT ![v] = "present"]
        /\ Enqueue(c, v)
        /\ call' \in [Calls -> Requesting]
        /\ \A d \in Calls \ {c} : call'[d] = call[d]
        /\ call'[c] \in Request
        /\ Pc(c)' = "begin" /\ call'[c].conversation = v
        /\ call'[c].user = call[c].user
        /\ call'[c].previous = call[c].previous
  BY Opened DEF RunsInv
<1>2. /\ queue' \in [Conversations \cup UserMessages -> Seq(Calls)]
      /\ \A d \in Calls, key \in Conversations \cup UserMessages :
           Holds(d, key) => Holds(d, key)'
  BY <1>1, Enqueued DEF RunsInv
<1>3. UNCHANGED <<runs, order, messages, summaries, faults>> /\ Pc(c) = "lookup"
  BY DEF OpenConversation, Identified, Pc
<1>4. \A d \in Calls : Turn(d)' => Turn(d)
  BY <1>1 DEF Turn, Pc, Executing
<1>5. TypeOK'
  <2>1. TypeOK
    BY DEF RunsInv
  <2>2. /\ conversation' \in [Conversations -> {"unused", "present", "deleted"}]
        /\ \A w \in Conversations : conversation[w] = "present" => conversation'[w] = "present"
    BY <1>1, <2>1 DEF TypeOK
  <2>3. \A r \in DOMAIN runs' :
          /\ runs'[r] \in [conversation : Conversations, user : UserMessages \cup {Nil},
                           status : Statuses, iteration : 0..MaxIterations]
          /\ conversation'[runs'[r].conversation] = "present"
    BY <1>3, <2>1, <2>2 DEF TypeOK
  <2>4. \A w \in Conversations : \A m \in messages'[w] : m.run \in RunsOf(w)'
    BY <1>3, <2>1 DEF TypeOK, RunsOf
  <2>5. \A d \in Calls : Turn(d)' => d \in DOMAIN runs' /\ runs'[d].status = "RUNNING"
    BY <1>3, <1>4, <2>1 DEF TypeOK
  <2> QED BY <1>1, <1>2, <1>3, <2>1, <2>2, <2>3, <2>4, <2>5 DEF TypeOK, Requesting
<1>6. Started(c)' /\ LocksHeld(c)' /\ Attempting(c)'
  <2>1. Started(c)'
    BY <1>1, <1>3 DEF RunsInv, Started, Waiting, Turn, Executing, Pc
  <2>2. LocksHeld(c)'
    <3>1. call[c].user # Nil => Holds(c, call[c].user) /\ call[c].user \in UserMessages
      BY <1>3, RequestShape DEF RunsInv, OpenConversation, Identified, Request
    <3> QED BY <1>1, <1>2, <3>1 DEF LocksHeld, Turn, Executing, Pc
  <2>3. call[c].previous = Nil
    BY <1>3 DEF RunsInv, Attempting
  <2>4. call[c].user # Nil => AttemptsOf(call[c].user) = {}
    BY DEF OpenConversation
  <2>5. call[c].user # Nil => \A r \in DOMAIN runs' : runs'[r].user # call[c].user
    BY <1>3, <2>4 DEF AttemptsOf
  <2>6. call'[c].user # Nil => AttemptsOf(call[c].user)' = {}
    BY <1>1, <2>5 DEF AttemptsOf
  <2> QED BY <1>1, <2>1, <2>2, <2>3, <2>6 DEF Attempting
<1>7. HistoriesEnd'
  BY <1>3 DEF RunsInv, HistoriesEnd
<1> QED BY <1>1, <1>2, <1>3, <1>5, <1>6, <1>7, RunsKept


LEMMA RunsFind ==
  ASSUME RunsInv, NEW c \in Calls, FindAttempt(c)
  PROVE  RunsInv'
<1> DEFINE p == NewestOf(AttemptsOf(call[c].user))
<1>1. /\ p \in AttemptsOf(call[c].user)
      /\ runs[p].conversation \in Conversations
      /\ Enqueue(c, runs[p].conversation)
      /\ call' \in [Calls -> Requesting]
      /\ \A d \in Calls \ {c} : call'[d] = call[d]
      /\ call'[c] \in Request
      /\ Pc(c)' = "begin" /\ call'[c].conversation = runs[p].conversation
      /\ call'[c].user = call[c].user
      /\ call'[c].previous = p /\ call'[c].status = runs[p].status
  BY Found DEF RunsInv
<1> HIDE DEF p
<1>2. /\ queue' \in [Conversations \cup UserMessages -> Seq(Calls)]
      /\ \A d \in Calls, key \in Conversations \cup UserMessages :
           Holds(d, key) => Holds(d, key)'
  BY <1>1, Enqueued DEF RunsInv
<1>3. UNCHANGED database /\ faults' = faults /\ Pc(c) = "lookup" /\ call[c].user # Nil
  BY DEF FindAttempt, Identified, Pc
<1>4. \A d \in Calls : Turn(d)' => Turn(d)
  BY <1>1 DEF Turn, Pc, Executing
<1>5. TypeOK'
  <2>1. faults' \in 0..MaxFaults
    BY <1>3 DEF RunsInv, TypeOK
  <2> QED BY <1>1, <1>2, <1>3, <1>4, <2>1, TypeKept DEF RunsInv
<1>6. Started(c)' /\ LocksHeld(c)' /\ Attempting(c)'
  <2>1. Started(c)'
    BY <1>1, <1>3 DEF RunsInv, Started, Waiting, Turn, Executing, Pc, database
  <2>2. LocksHeld(c)'
    <3>1. Holds(c, call[c].user) /\ call[c].user \in UserMessages
      BY <1>3, RequestShape DEF RunsInv, FindAttempt, Identified, Request
    <3> QED BY <1>1, <1>2, <3>1 DEF LocksHeld, Turn, Executing, Pc
  <2>3. p \in DOMAIN runs /\ runs[p].user = call[c].user /\ p \in ToSet(order) /\ p # Nil
    BY <1>1, NoNil DEF RunsInv, TypeOK, AttemptsOf
  <2> QED BY <1>1, <1>3, <2>1, <2>2, <2>3 DEF Attempting, database
<1>7. HistoriesEnd'
  BY <1>3 DEF RunsInv, HistoriesEnd, database
<1> QED BY <1>1, <1>2, <1>3, <1>5, <1>6, <1>7, RunsKept DEF database

LEMMA RunsLeave ==
  ASSUME RunsInv, NEW c \in Calls, Refuse(c) \/ Conflict(c) \/ FailUnrecorded(c)
  PROVE  RunsInv'
<1>1. End(c) /\ UNCHANGED database
  BY DEF Refuse, Conflict, FailUnrecorded
<1>2. faults' = faults \/ (faults < MaxFaults /\ faults' = faults + 1)
  BY DEF Refuse, Conflict, FailUnrecorded
<1>3. faults' \in 0..MaxFaults
  BY <1>2, ConversationAssumption DEF RunsInv, TypeOK
<1> QED BY <1>1, <1>3, RunsEnd

\* The step of a turn that goes on, with its Run as it was.
LEMMA RunsOn ==
  ASSUME RunsInv, TypeOK', HistoriesEnd', NEW c \in Calls, Turn(c),
         UNCHANGED <<order, queue>>,
         DOMAIN runs' = DOMAIN runs,
         \A r \in DOMAIN runs : /\ runs'[r].user = runs[r].user
                                /\ runs'[r].conversation = runs[r].conversation
                                /\ runs'[r].status = runs[r].status \/ r = c,
         \A d \in Calls \ {c} : call'[d] = call[d],
         call'[c].user = call[c].user, call'[c].conversation = call[c].conversation,
         Pc(c)' \in Executing
  PROVE  RunsInv'
<1>1. Started(c) /\ LocksHeld(c)
  BY DEF RunsInv
<1>2. Started(c)'
  <2>1. Pc(c) \in Assigned /\ c \in DOMAIN runs
    BY DEF Turn, Assigned, Pc, RunsInv, TypeOK
  <2> QED BY <1>1, <2>1 DEF Started, Waiting, Executing
<1>3. LocksHeld(c)'
  BY <1>1 DEF LocksHeld, Turn, Pc, Assigned, Executing, Locked, Holds
<1>4. Attempting(c)'
  BY DEF Attempting, Executing
<1>5. \A d \in Calls \ {c}, key \in Conversations \cup UserMessages : Holds(d, key) => Holds(d, key)'
  BY DEF Holds
<1> QED BY <1>2, <1>3, <1>4, <1>5, RunsKept

\* Messages are appended behind the last one.
LEMMA AppendedRows ==
  ASSUME RunsInv, NEW v \in Conversations, NEW c \in Calls, NEW kinds \in Seq(Kinds),
         AppendMessages(v, c, kinds), UNCHANGED summaries
  PROVE  /\ messages' \in [Conversations -> SUBSET Message]
         /\ \A w \in Conversations : \A m \in messages'[w] :
              m \in messages[w] \/ (w = v /\ m.run = c)
         /\ HistoriesEnd'
<1> DEFINE l == LastSequence(messages[v])
           new == {[sequence |-> l + i, run |-> c, kind |-> kinds[i]] : i \in DOMAIN kinds}
<1>1. messages \in [Conversations -> SUBSET Message]
  BY DEF RunsInv, TypeOK
<1>2. messages' = [messages EXCEPT ![v] = messages[v] \cup new]
  BY DEF AppendMessages
<1>3. l \in Nat
  <2> DEFINE T == {0} \cup {m.sequence : m \in messages[v]}
  <2>1. PICK n \in Nat : \A m \in messages[v] : m.sequence <= n
    BY DEF RunsInv, HistoriesEnd
  <2>2. T \in SUBSET Nat /\ T # {} /\ \A x \in T : x <= n
    BY <1>1, <2>1 DEF Message
  <2> HIDE DEF T
  <2>3. Max(T) \in Nat
    BY <2>1, <2>2, MaxIsGreatest
  <2> QED BY <2>3 DEF T, LastSequence
<1> HIDE DEF l
<1>4. DOMAIN kinds = 1..Len(kinds) /\ Len(kinds) \in Nat /\ \A i \in DOMAIN kinds : kinds[i] \in Kinds
  OBVIOUS
<1>5. new \in SUBSET Message
  BY <1>3, <1>4 DEF Message
<1>6. \A m \in new : m.run = c /\ m.sequence <= l + Len(kinds)
  BY <1>3, <1>4
<1> HIDE DEF new
<1>7. \A w \in Conversations : messages'[w] = IF w = v THEN messages[v] \cup new ELSE messages[w]
  BY <1>1, <1>2
<1>8. HistoriesEnd'
  <2> SUFFICES ASSUME NEW w \in Conversations
               PROVE  \E n \in Nat : \A m \in messages'[w] : m.sequence <= n
    BY DEF RunsInv, HistoriesEnd
  <2>1. PICK n \in Nat : \A m \in messages[w] : m.sequence <= n
    BY DEF RunsInv, HistoriesEnd
  <2>2. CASE w # v
    BY <1>7, <2>1, <2>2
  <2>3. CASE w = v
    <3> DEFINE k == n + l + Len(kinds)
    <3>1. k \in Nat
      BY <1>3, <1>4
    <3>2. \A m \in messages'[w] : m \in messages[w] \/ m \in new
      BY <1>7, <2>3
    <3>3. messages[w] \subseteq Message /\ new \subseteq Message
      BY <1>1, <1>5
    <3>4. ASSUME NEW m \in messages'[w] PROVE m.sequence <= k
      BY <1>3, <1>4, <1>6, <2>1, <3>2, <3>3, <3>4 DEF Message
    <3> QED BY <3>1, <3>4
  <2> QED BY <2>2, <2>3
<1>9. messages' \in [Conversations -> SUBSET Message]
  BY <1>1, <1>2, <1>5
<1> QED BY <1>6, <1>7, <1>8, <1>9

LEMMA RunsAppend ==
  ASSUME RunsInv, NEW c \in Calls, LoadTurn(c) \/ CallModel(c) \/ RecordResults(c)
  PROVE  RunsInv'
<1> DEFINE v == call[c].conversation
<1>1. Turn(c) /\ Started(c) /\ v \in Conversations
  <2>1. Turn(c)
    BY DEF LoadTurn, CallModel, RecordResults, Turn, Executing
  <2> QED BY <2>1 DEF RunsInv, Started, Turn, Assigned, Pc
<1>2. UNCHANGED <<conversation, runs, order, summaries, queue, faults>>
  BY DEF LoadTurn, CallModel, RecordResults
<1>3. \E kinds \in Seq(Kinds) : AppendMessages(v, c, kinds)
  <2>1. CASE LoadTurn(c)
    <3>0. Repairs(v) \in Seq(Kinds) /\ "human" \in Kinds
      <4>1. <<>> \in Seq(Kinds) /\ <<"result">> \in Seq(Kinds)
        BY DEF Kinds
      <4> QED BY <4>1 DEF Repairs, Kinds
    <3>1. Append(Repairs(v), "human") \in Seq(Kinds)
      BY <3>0
    <3> QED BY <2>1, <3>1 DEF LoadTurn
  <2>2. CASE CallModel(c)
    <3>1. PICK kind \in {"reply", "call"} : AppendMessages(v, c, <<kind>>)
      BY <2>2 DEF CallModel
    <3>2. <<kind>> \in Seq(Kinds)
      BY DEF Kinds
    <3> QED BY <3>1, <3>2
  <2>3. CASE RecordResults(c)
    <3>1. <<"result">> \in Seq(Kinds)
      BY DEF Kinds
    <3> QED BY <2>3, <3>1 DEF RecordResults
  <2> QED BY <2>1, <2>2, <2>3
<1>4. /\ messages' \in [Conversations -> SUBSET Message]
      /\ \A w \in Conversations : \A m \in messages'[w] :
           m \in messages[w] \/ (w = v /\ m.run = c)
      /\ HistoriesEnd'
  BY <1>1, <1>2, <1>3, AppendedRows
<1>5. /\ call' \in [Calls -> Requesting]
      /\ \A d \in Calls \ {c} : call'[d] = call[d]
      /\ Pc(c)' \in Executing
      /\ call'[c].user = call[c].user /\ call'[c].conversation = call[c].conversation
  <2>1. TypeOK /\ Pc(c) \in Serving
    BY <1>1 DEF RunsInv, Turn, Serving, Pc
  <2>2. CASE LoadTurn(c)
    <3>1. Pc(c)' \in {"compact", "failing"} => Pc(c)' \in Executing
      BY DEF Executing
    <3> QED BY <1>1, <1>4, <2>1, <2>2, <3>1, Loaded
  <2>3. CASE CallModel(c)
    <3>1. PICK pc \in {"limit", "complete"} : Advance(c, pc)
      BY <2>3 DEF CallModel
    <3>2. pc \in Serving /\ pc \in Executing
      BY DEF Serving, Executing
    <3> QED BY <2>1, <3>1, <3>2, Advanced
  <2>4. CASE RecordResults(c)
    <3>1. PICK pc \in {"model", "limited"} : Advance(c, pc)
      BY <2>4 DEF RecordResults
    <3>2. pc \in Serving /\ pc \in Executing
      BY DEF Serving, Executing
    <3> QED BY <2>1, <3>1, <3>2, Advanced
  <2> QED BY <2>2, <2>3, <2>4
<1> HIDE DEF v
<1>6. TypeOK'
  BY <1>1, <1>2, <1>4, <1>5, TypeAppended DEF RunsInv, v
<1> QED BY <1>1, <1>2, <1>4, <1>5, <1>6, RunsOn

LEMMA RunsKeep ==
  ASSUME RunsInv, NEW c \in Calls, KeepSummaries(c)
  PROVE  RunsInv'
<1>1. Turn(c) /\ Pc(c) \in Serving
  BY DEF KeepSummaries, Turn, Executing, Serving, Pc
<1>2. UNCHANGED database /\ UNCHANGED <<queue, faults>>
  BY DEF KeepSummaries
<1>3. /\ call' \in [Calls -> Requesting]
      /\ \A d \in Calls \ {c} : call'[d] = call[d]
      /\ Pc(c)' = "model"
      /\ call'[c].user = call[c].user /\ call'[c].conversation = call[c].conversation
  BY <1>1, Compacted DEF RunsInv, KeepSummaries
<1>4. \A d \in Calls : Turn(d)' => Turn(d)
  BY <1>1, <1>3 DEF Turn
<1>5. TypeOK'
  <2>1. /\ faults' \in 0..MaxFaults
        /\ queue' \in [Conversations \cup UserMessages -> Seq(Calls)]
    BY <1>2 DEF RunsInv, TypeOK
  <2> QED BY <1>2, <1>3, <1>4, <2>1, TypeKept DEF RunsInv
<1>6. HistoriesEnd'
  BY <1>2 DEF RunsInv, HistoriesEnd, database
<1>7. "model" \in Executing
  BY DEF Executing
<1> QED BY <1>1, <1>2, <1>3, <1>5, <1>6, <1>7, RunsOn DEF database

\* The candidate of a compaction is a summary.
LEMMA CandidateRow ==
  ASSUME TypeOK, NEW c \in Calls, NEW v \in Conversations, NEW known, NEW covered,
         NEW candidate,
         candidate = [revision |-> Revision(known) + 1, covered |-> covered, source |-> c],
         Revision(summaries[v]) = Revision(known),
         ValidBoundary(v, messages[v], candidate),
         HistoriesEnd
  PROVE  candidate \in Summary
<1>1. covered \in Nat
  <2>1. \E m \in messages[v] : m.sequence = covered
    BY DEF ValidBoundary
  <2> QED BY <2>1 DEF TypeOK, Message
<1>2. summaries[v] \in SUBSET Summary
  BY DEF TypeOK
<1>3. Revision(summaries[v]) \in Nat
  <2>1. CASE summaries[v] = {}
    BY <2>1 DEF Revision, LastSummary
  <2>2. CASE summaries[v] # {}
    <3> DEFINE T == {s.revision : s \in summaries[v]}
    <3>1. PICK k \in Nat : \A s \in summaries[v] : s.revision <= k
      BY DEF HistoriesEnd
    <3>2. T \in SUBSET Nat /\ T # {} /\ \A x \in T : x <= k
      BY <1>2, <2>2, <3>1 DEF Summary
    <3>3. \E x \in T : \A y \in T : y <= x
      BY <3>1, <3>2, Greatest
    <3>4. \E s \in summaries[v] : \A t \in summaries[v] : t.revision <= s.revision
      BY <3>3
    <3>5. LastSummary(summaries[v]) \in summaries[v]
      BY <2>2, <3>4 DEF LastSummary
    <3> QED BY <1>2, <3>5 DEF Revision, Summary
  <2> QED BY <2>1, <2>2
<1> QED BY <1>1, <1>3 DEF Summary

LEMMA RunsSummarize ==
  ASSUME RunsInv, NEW c \in Calls, AppendSummary(c)
  PROVE  RunsInv'
<1> DEFINE v         == call[c].conversation
           known     == call[c].known
           covered   == LastSequence(CompactablePrefix(Uncovered(call[c].records, known)))
           candidate == [revision |-> Revision(known) + 1, covered |-> covered, source |-> c]
<1>1. Turn(c) /\ Pc(c) \in Serving
  BY DEF AppendSummary, Turn, Executing, Serving, Pc
<1>2. v \in Conversations
  BY <1>1 DEF RunsInv, Started, Turn, Assigned, Pc
<1>3. /\ Revision(summaries[v]) = Revision(known)
      /\ ValidBoundary(v, messages[v], candidate)
      /\ summaries' = [summaries EXCEPT ![v] = @ \cup {candidate}]
      /\ UNCHANGED <<conversation, runs, order, messages, queue, faults>>
  BY DEF AppendSummary
<1> HIDE DEF known, covered
<1>4. candidate \in Summary
  BY <1>2, <1>3, CandidateRow DEF RunsInv
<1> HIDE DEF candidate
<1>5. /\ summaries' \in [Conversations -> SUBSET Summary]
      /\ \A w \in Conversations : \A s \in summaries'[w] : s \in summaries[w] \/ s = candidate
  <2>1. summaries \in [Conversations -> SUBSET Summary]
    BY DEF RunsInv, TypeOK
  <2> QED BY <1>3, <1>4, <2>1
<1>6. /\ call' \in [Calls -> Requesting]
      /\ \A d \in Calls \ {c} : call'[d] = call[d]
      /\ Pc(c)' = "model"
      /\ call'[c].user = call[c].user /\ call'[c].conversation = call[c].conversation
  BY <1>1, Compacted DEF RunsInv, AppendSummary
<1>7. \A d \in Calls : Turn(d)' => Turn(d)
  BY <1>1, <1>6 DEF Turn
<1>8. TypeOK'
  <2>1. \A w \in Conversations : \A m \in messages'[w] : m.run \in RunsOf(w)'
    BY <1>3 DEF RunsInv, TypeOK, RunsOf
  <2>2. \A d \in Calls : Turn(d)' => d \in DOMAIN runs' /\ runs'[d].status = "RUNNING"
    BY <1>3, <1>7 DEF RunsInv, TypeOK
  <2> QED BY <1>3, <1>5, <1>6, <2>1, <2>2 DEF RunsInv, TypeOK, Requesting
<1>9. HistoriesEnd'
  <2> SUFFICES ASSUME NEW w \in Conversations
               PROVE  \E n \in Nat : \A s \in summaries'[w] : s.revision <= n
    BY <1>3 DEF RunsInv, HistoriesEnd
  <2>1. PICK n \in Nat : \A s \in summaries[w] : s.revision <= n
    BY DEF RunsInv, HistoriesEnd
  <2>2. candidate.revision \in Nat /\ summaries[w] \subseteq Summary
    BY <1>4 DEF Summary, RunsInv, TypeOK
  <2>3. n + candidate.revision \in Nat
    BY <2>2
  <2>4. ASSUME NEW s \in summaries'[w] PROVE s.revision <= n + candidate.revision
    BY <1>5, <2>1, <2>2, <2>4 DEF Summary
  <2> QED BY <2>3, <2>4
<1>10. "model" \in Executing
  BY DEF Executing
<1> HIDE DEF v
<1> QED BY <1>1, <1>3, <1>6, <1>8, <1>9, <1>10, RunsOn

\* The Run of a turn counts an iteration.
LEMMA RunsLimit ==
  ASSUME RunsInv, NEW c \in Calls, CheckLimit(c)
  PROVE  RunsInv'
<1>1. Turn(c) /\ Pc(c) \in Serving
  BY DEF CheckLimit, Turn, Executing, Serving, Pc
<1>2. PICK pc \in {"tool", "reject"} : Advance(c, pc)
  BY DEF CheckLimit
<1>3. pc \in Serving /\ pc \in Executing
  BY DEF Serving, Executing
<1>4. /\ call' \in [Calls -> Requesting]
      /\ \A d \in Calls \ {c} : call'[d] = call[d]
      /\ Pc(c)' = pc
      /\ call'[c].user = call[c].user /\ call'[c].conversation = call[c].conversation
  BY <1>1, <1>2, <1>3, Advanced DEF RunsInv
<1>5. UNCHANGED <<conversation, order, messages, summaries, queue, faults>>
  BY DEF CheckLimit
<1>6. /\ c \in DOMAIN runs /\ runs[c].status = "RUNNING"
      /\ runs[c] \in [conversation : Conversations, user : UserMessages \cup {Nil},
                      status : Statuses, iteration : 0..MaxIterations]
  BY <1>1 DEF RunsInv, TypeOK
<1>7. /\ DOMAIN runs' = DOMAIN runs
      /\ \A r \in DOMAIN runs \ {c} : runs'[r] = runs[r]
      /\ runs'[c] \in [conversation : {runs[c].conversation}, user : {runs[c].user},
                       status : {runs[c].status}, iteration : 0..MaxIterations]
  <2>1. CASE runs' = runs
    BY <1>6, <2>1
  <2>2. CASE /\ runs[c].iteration < MaxIterations
             /\ runs' = [runs EXCEPT ![c].iteration = @ + 1]
    <3>1. runs[c].iteration + 1 \in 0..MaxIterations
      BY <1>6, <2>2, ConversationAssumption
    <3>2. runs'[c] = [conversation |-> runs[c].conversation, user |-> runs[c].user,
                      status |-> runs[c].status, iteration |-> runs[c].iteration + 1]
      BY <1>6, <2>2
    <3> QED BY <2>2, <3>1, <3>2
  <2> QED BY <2>1, <2>2 DEF CheckLimit
<1>8. TypeOK'
  <2>1. /\ TypeOK /\ queue' \in [Conversations \cup UserMessages -> Seq(Calls)]
        /\ runs'[c].status = "RUNNING" /\ runs[c].status \in Statuses
    BY <1>5, <1>6, <1>7 DEF RunsInv, TypeOK
  <2>2. runs'[c] \in [conversation : {runs[c].conversation}, user : {runs[c].user},
                      status : Statuses, iteration : 0..MaxIterations]
    BY <1>7, <2>1
  <2> QED BY <1>4, <1>5, <1>6, <1>7, <2>1, <2>2, TypeUpdated
<1>9. HistoriesEnd'
  BY <1>5 DEF RunsInv, HistoriesEnd
<1>10. \A r \in DOMAIN runs : /\ runs'[r].user = runs[r].user
                              /\ runs'[r].conversation = runs[r].conversation
                              /\ runs'[r].status = runs[r].status
  BY <1>7
<1> QED BY <1>1, <1>3, <1>4, <1>5, <1>7, <1>8, <1>9, <1>10, RunsOn

LEMMA RunsFinish ==
  ASSUME RunsInv, NEW c \in Calls, Finish(c) \/ Fail(c)
  PROVE  RunsInv'
<1>1. PICK status \in Statuses : FinishRun(c, status)
  BY DEF Finish, Fail, Statuses
<1>2. Turn(c) /\ End(c) /\ UNCHANGED <<conversation, order, messages, summaries, faults>>
  BY DEF Finish, Fail, Turn, Executing
<1>3. /\ call' \in [Calls -> Requesting]
      /\ \A d \in Calls \ {c} : call'[d] = call[d]
      /\ Pc(c)' = "done"
      /\ queue' \in [Conversations \cup UserMessages -> Seq(Calls)]
      /\ \A d \in Calls \ {c}, key \in Conversations \cup UserMessages :
           Holds(d, key) => Holds(d, key)'
  BY <1>2, Ended DEF RunsInv
<1>4. /\ c \in DOMAIN runs
      /\ runs[c] \in [conversation : Conversations, user : UserMessages \cup {Nil},
                      status : Statuses, iteration : 0..MaxIterations]
  BY <1>2 DEF RunsInv, TypeOK
<1>5. /\ DOMAIN runs' = DOMAIN runs
      /\ \A r \in DOMAIN runs \ {c} : runs'[r] = runs[r]
      /\ runs'[c] \in [conversation : {runs[c].conversation}, user : {runs[c].user},
                       status : Statuses, iteration : 0..MaxIterations]
  <2>1. runs'[c] = [conversation |-> runs[c].conversation, user |-> runs[c].user,
                    status |-> status, iteration |-> runs[c].iteration]
    BY <1>1, <1>4 DEF FinishRun
  <2> QED BY <1>1, <1>4, <2>1 DEF FinishRun
<1>6. ~Turn(c)'
  BY <1>3 DEF Turn, Executing, Pc
<1>7. TypeOK'
  BY <1>2, <1>3, <1>4, <1>5, <1>6, TypeUpdated DEF RunsInv
<1>8. HistoriesEnd'
  BY <1>2 DEF RunsInv, HistoriesEnd
<1>9. Started(c)' /\ LocksHeld(c)' /\ Attempting(c)'
  BY <1>3, NothingToKeep DEF Waiting, Executing
<1>10. \A r \in DOMAIN runs' :
         /\ r \in DOMAIN runs /\ runs'[r].user = runs[r].user
         /\ runs'[r].conversation = runs[r].conversation
         /\ runs'[r].status = runs[r].status \/ (r = c /\ Turn(c))
  BY <1>2, <1>5
<1> QED BY <1>2, <1>3, <1>7, <1>8, <1>9, <1>10, RunsKept

\* The second transaction: what it finds and what it writes.
LEMMA Begun ==
  ASSUME RunsInv, NEW c \in Calls, BeginTurn(c)
  PROVE  LET v == call[c].conversation
             p == call[c].previous
         IN  /\ v \in Conversations /\ conversation[v] = "present"
             /\ Holds(c, v)
             /\ call[c].user \in UserMessages \cup {Nil}
             /\ call[c].user # Nil => Holds(c, call[c].user)
             /\ c \notin ToSet(order) /\ c \notin DOMAIN runs
             /\ DOMAIN runs' = DOMAIN runs \cup {c}
             /\ \A r \in DOMAIN runs : runs'[r] = runs[r]
             /\ runs'[c] = [conversation |-> v, user |-> call[c].user,
                            status |-> "RUNNING", iteration |-> 0]
             /\ \E k \in 1..Len(order) + 1 :
                  /\ ClockAdvances => k = Len(order) + 1
                  /\ order' = InsertAt(order, k, c)
             /\ p = Nil => UNCHANGED <<messages, summaries>>
             /\ p # Nil => /\ p \in RunsOf(v) /\ p = NewestOf(RunsOf(v))
                           /\ call[c].user # Nil
                           /\ runs[p].user = call[c].user
                           /\ runs[p].status # "RUNNING"
                           /\ RemoveTurn(v, p)
             /\ UNCHANGED <<conversation, queue, faults>>
             /\ Pc(c) = "begin" /\ Advance(c, "load")
<1> DEFINE v == call[c].conversation
           p == call[c].previous
<1>1. /\ TypeOK /\ Started(c) /\ LocksHeld(c) /\ Attempting(c)
      /\ Pc(c) = "begin"
  BY DEF RunsInv, BeginTurn, Pc
<1>2. InsertRun(c, v) /\ Holds(c, v) /\ Advance(c, "load")
      /\ UNCHANGED <<conversation, queue, faults>>
  BY DEF BeginTurn, Locked
<1>3. v \in Conversations /\ c \notin ToSet(order) /\ (call[c].user # Nil => Holds(c, call[c].user))
  BY <1>1 DEF Started, LocksHeld, Waiting, Assigned
<1>4. c \notin DOMAIN runs
  BY <1>1, <1>3 DEF TypeOK
<1>5. call[c].user \in UserMessages \cup {Nil}
  BY <1>1, RequestShape DEF Request
<1>6. /\ conversation[v] = "present"
      /\ DOMAIN runs' = DOMAIN runs \cup {c}
      /\ \A r \in DOMAIN runs : runs'[r] = runs[r]
      /\ runs'[c] = [conversation |-> v, user |-> call[c].user,
                     status |-> "RUNNING", iteration |-> 0]
      /\ \E k \in 1..Len(order) + 1 :
           /\ ClockAdvances => k = Len(order) + 1
           /\ order' = InsertAt(order, k, c)
  <2>1. runs' = [r \in DOMAIN runs \cup {c} |-> IF r = c THEN NewRun(c, v) ELSE runs[r]]
    BY <1>2 DEF InsertRun
  <2>2. conversation[v] = "present" /\ \E k \in 1..Len(order) + 1 :
           /\ ClockAdvances => k = Len(order) + 1
           /\ order' = InsertAt(order, k, c)
    BY <1>2 DEF InsertRun
  <2>3. DOMAIN runs' = DOMAIN runs \cup {c} /\ (\A r \in DOMAIN runs : runs'[r] = runs[r])
        /\ runs'[c] = NewRun(c, v)
    BY <1>4, <2>1
  <2> QED BY <2>2, <2>3 DEF NewRun
<1>7. p = Nil => UNCHANGED <<messages, summaries>>
  BY DEF BeginTurn
<1>8. ASSUME p # Nil
      PROVE  /\ p \in RunsOf(v) /\ p = NewestOf(RunsOf(v))
             /\ call[c].user # Nil
             /\ runs[p].user = call[c].user
             /\ runs[p].status # "RUNNING"
             /\ RemoveTurn(v, p)
  <2>1. Replaceable(c, v) /\ RemoveTurn(v, p)
    BY <1>8 DEF BeginTurn
  <2>2. p = NewestOf(RunsOf(v)) /\ call[c].status # "RUNNING"
    BY <2>1 DEF Replaceable
  <2>3. RunsOf(v) \subseteq ToSet(order) /\ order \in Seq(Calls)
    BY <1>1 DEF TypeOK, RunsOf
  <2>4. p \in RunsOf(v)
    BY <1>8, <2>2, <2>3, Newest
  <2>5. p \in DOMAIN runs
    BY <2>4 DEF RunsOf
  <2>6. call[c].user # Nil /\ runs[p].user = call[c].user /\ runs[p].status = call[c].status
    BY <1>1, <1>8, <2>5 DEF Attempting
  <2> QED BY <2>1, <2>2, <2>4, <2>6
<1> HIDE DEF v, p
<1> QED BY <1>1, <1>2, <1>3, <1>4, <1>5, <1>6, <1>7, <1>8 DEF v, p

LEMMA RunsBegin ==
  ASSUME RunsInv, NEW c \in Calls, BeginTurn(c)
  PROVE  RunsInv'
<1> DEFINE v == call[c].conversation
           p == call[c].previous
<1>1. /\ v \in Conversations /\ conversation[v] = "present"
      /\ Holds(c, v)
      /\ call[c].user \in UserMessages \cup {Nil}
      /\ call[c].user # Nil => Holds(c, call[c].user)
      /\ c \notin ToSet(order) /\ c \notin DOMAIN runs
      /\ DOMAIN runs' = DOMAIN runs \cup {c}
      /\ \A r \in DOMAIN runs : runs'[r] = runs[r]
      /\ runs'[c] = [conversation |-> v, user |-> call[c].user,
                     status |-> "RUNNING", iteration |-> 0]
      /\ \E k \in 1..Len(order) + 1 : order' = InsertAt(order, k, c)
      /\ p = Nil => UNCHANGED <<messages, summaries>>
      /\ p # Nil => p \in RunsOf(v) /\ runs[p].user = call[c].user /\ RemoveTurn(v, p)
      /\ UNCHANGED <<conversation, queue, faults>>
      /\ Pc(c) = "begin" /\ Advance(c, "load")
  BY Begun
<1>2. TypeOK /\ OrderIsStrict /\ AttemptsTogether /\ HistoriesEnd
      /\ \A d \in Calls : Started(d) /\ LocksHeld(d) /\ Attempting(d)
  BY DEF RunsInv
<1> HIDE DEF v, p
<1>3. /\ order' \in Seq(Calls)
      /\ ToSet(order') = ToSet(order) \cup {c}
      /\ OrderIsStrict'
  <2>1. /\ order \in Seq(Calls)
        /\ \A i, j \in DOMAIN order : order[i] = order[j] => i = j
    BY <1>2 DEF TypeOK, OrderIsStrict
  <2>2. PICK k \in 1..Len(order) + 1 : order' = InsertAt(order, k, c)
    BY <1>1
  <2> QED BY <1>1, <2>1, <2>2, InsertedRun DEF OrderIsStrict
<1>4. /\ call' \in [Calls -> Requesting]
      /\ \A d \in Calls \ {c} : call'[d] = call[d]
      /\ call'[c] \in Request
      /\ Pc(c)' = "load"
      /\ call'[c].user = call[c].user /\ call'[c].conversation = v
  BY <1>1, <1>2, Advanced DEF Serving, Executing, v
<1>5. /\ messages' \in [Conversations -> SUBSET Message]
      /\ summaries' \in [Conversations -> SUBSET Summary]
      /\ \A w \in Conversations : /\ messages'[w] \subseteq messages[w]
                                  /\ summaries'[w] \subseteq summaries[w]
  <2>1. /\ messages \in [Conversations -> SUBSET Message]
        /\ summaries \in [Conversations -> SUBSET Summary]
    BY <1>2 DEF TypeOK
  <2>2. CASE p = Nil
    BY <1>1, <2>1, <2>2
  <2>3. CASE p # Nil
    BY <1>1, <2>1, <2>3 DEF RemoveTurn
  <2> QED BY <2>2, <2>3
<1>6. HistoriesEnd'
  BY <1>2, <1>5 DEF HistoriesEnd
<1>7. TypeOK'
  <2>1. runs'[c] \in [conversation : Conversations, user : UserMessages \cup {Nil},
                      status : Statuses, iteration : 0..MaxIterations]
    BY <1>1, ConversationAssumption DEF Statuses
  <2>2. /\ DOMAIN runs' \subseteq Calls
        /\ \A r \in DOMAIN runs' :
             /\ runs'[r] \in [conversation : Conversations, user : UserMessages \cup {Nil},
                              status : Statuses, iteration : 0..MaxIterations]
             /\ conversation'[runs'[r].conversation] = "present"
    <3>1. conversation[runs'[c].conversation] = "present"
      BY <1>1
    <3> QED BY <1>1, <1>2, <2>1, <3>1 DEF TypeOK
  <2>3. \A w \in Conversations : \A m \in messages'[w] : m.run \in RunsOf(w)'
    <3>1. \A w \in Conversations : RunsOf(w) \subseteq RunsOf(w)'
      BY <1>1 DEF RunsOf
    <3> QED BY <1>2, <1>5, <3>1 DEF TypeOK
  <2>4. \A d \in Calls : Turn(d)' => d \in DOMAIN runs' /\ runs'[d].status = "RUNNING"
    <3>1. runs'[c].status = "RUNNING"
      BY <1>1
    <3>2. ASSUME NEW d \in Calls \ {c}, Turn(d)' PROVE d \in DOMAIN runs' /\ runs'[d].status = "RUNNING"
      <4>1. Turn(d)
        BY <1>4, <3>2 DEF Turn
      <4> QED BY <1>1, <1>2, <4>1 DEF TypeOK
    <3> QED BY <1>1, <3>1, <3>2
  <2>5. DOMAIN runs' \subseteq ToSet(order')
    BY <1>1, <1>2, <1>3 DEF TypeOK
  <2> QED BY <1>1, <1>2, <1>3, <1>4, <1>5, <2>2, <2>3, <2>4, <2>5 DEF TypeOK, Requesting
<1>8. ASSUME NEW d \in Calls PROVE Started(d)'
  <2>1. CASE d = c
    BY <1>1, <1>4, <2>1 DEF Started, Waiting, Assigned
  <2>2. CASE d # c
    <3>1. Pc(d)' = Pc(d) /\ Turn(d)' = Turn(d) /\ call'[d] = call[d]
      BY <1>4, <2>2 DEF Pc, Turn
    <3>2. Turn(d) => d \in DOMAIN runs
      BY <1>2 DEF TypeOK
    <3> QED BY <1>1, <1>2, <1>3, <2>2, <3>1, <3>2 DEF Started
  <2> QED BY <2>1, <2>2
<1>9. ASSUME NEW d \in Calls PROVE LocksHeld(d)'
  <2>1. CASE d = c
    BY <1>1, <1>4, <2>1 DEF LocksHeld, Locked, Holds
  <2>2. CASE d # c
    BY <1>1, <1>2, <1>4, <2>2 DEF LocksHeld, Locked, Holds, Pc, Turn
  <2> QED BY <2>1, <2>2
<1>10. ASSUME NEW d \in Calls PROVE Attempting(d)'
  <2>1. CASE d = c
    BY <1>4, <2>1 DEF Attempting
  <2>2. CASE d # c
    <3>1. Pc(d)' = Pc(d) /\ call'[d] = call[d] /\ Attempting(d)
      BY <1>2, <1>4, <2>2 DEF Pc
    <3>2. ASSUME Pc(d) = "begin", call[d].user # Nil PROVE call[d].user # call[c].user
      <4>1. Holds(d, call[d].user)
        BY <1>2, <3>2 DEF LocksHeld, Assigned
      <4> QED BY <1>1, <2>2, <3>2, <4>1, OneHolder
    <3>3. ASSUME Pc(d) = "begin", call[d].previous = Nil, call[d].user # Nil
          PROVE  AttemptsOf(call[d].user)' = {}
      <4>1. \A r \in DOMAIN runs : runs[r].user # call[d].user
        BY <3>1, <3>3 DEF Attempting, AttemptsOf
      <4>2. runs'[c].user # call[d].user
        BY <1>1, <3>2, <3>3
      <4>3. \A r \in DOMAIN runs' : runs'[r].user # call[d].user
        BY <1>1, <4>1, <4>2
      <4> QED BY <3>1, <4>3 DEF AttemptsOf
    <3>4. ASSUME Pc(d) = "begin", call[d].previous # Nil
          PROVE  /\ call[d].user # Nil
                 /\ call[d].previous \in ToSet(order')
                 /\ call[d].previous \in DOMAIN runs' =>
                      /\ runs'[call[d].previous].user = call[d].user
                      /\ runs'[call[d].previous].conversation = call[d].conversation
                      /\ runs'[call[d].previous].status = call[d].status
      <4>1. call[d].previous \in ToSet(order) /\ call[d].previous # c
        BY <1>1, <3>1, <3>4 DEF Attempting
      <4> QED BY <1>1, <1>3, <3>1, <3>4, <4>1 DEF Attempting
    <3>5. Pc(d)' = "lookup" => call'[d].previous = Nil
      BY <3>1 DEF Attempting
    <3> QED BY <3>1, <3>3, <3>4, <3>5 DEF Attempting
  <2> QED BY <2>1, <2>2
<1>11. AttemptsTogether'
  <2>1. ASSUME NEW q \in DOMAIN runs, runs[q].user = call[c].user, call[c].user # Nil
        PROVE  runs[q].conversation = v
    <3>1. p # Nil
      <4> SUFFICES ASSUME p = Nil PROVE FALSE
        OBVIOUS
      <4>1. AttemptsOf(call[c].user) = {}
        BY <1>1, <1>2, <2>1 DEF Attempting, p
      <4> QED BY <2>1, <4>1 DEF AttemptsOf
    <3>2. p \in DOMAIN runs /\ runs[p].conversation = v /\ runs[p].user = call[c].user
      BY <1>1, <3>1 DEF RunsOf
    <3> QED BY <1>2, <2>1, <3>2 DEF AttemptsTogether
  <2>2. ASSUME NEW r \in DOMAIN runs', NEW q \in DOMAIN runs',
               runs'[r].user = runs'[q].user, runs'[r].user # Nil
        PROVE  runs'[r].conversation = runs'[q].conversation
    <3>1. runs'[c].conversation = v /\ runs'[c].user = call[c].user
      BY <1>1
    <3>2. CASE r = c /\ q = c
      BY <3>2
    <3>3. CASE r = c /\ q # c
      BY <1>1, <2>1, <2>2, <3>1, <3>3
    <3>4. CASE r # c /\ q = c
      BY <1>1, <2>1, <2>2, <3>1, <3>4
    <3>5. CASE r # c /\ q # c
      BY <1>1, <1>2, <2>2, <3>5 DEF AttemptsTogether
    <3> QED BY <3>2, <3>3, <3>4, <3>5
  <2> QED BY <2>2 DEF AttemptsTogether
<1> QED BY <1>3, <1>6, <1>7, <1>8, <1>9, <1>10, <1>11 DEF RunsInv

\* A conversation goes away with its Runs; no turn executes on it.
LEMMA RunsDelete ==
  ASSUME RunsInv, NEW c \in Calls, DeleteConversation(c)
  PROVE  RunsInv'
<1> DEFINE v == call[c].conversation
<1>1. /\ Pc(c) = "deleting" /\ Holds(c, v) /\ ~HasRunning(v)
      /\ conversation' = [conversation EXCEPT ![v] = "deleted"]
      /\ messages' = [messages EXCEPT ![v] = {}]
      /\ summaries' = [summaries EXCEPT ![v] = {}]
      /\ runs' = [r \in DOMAIN runs \ RunsOf(v) |-> runs[r]]
      /\ End(c) /\ UNCHANGED <<order, faults>>
  BY DEF DeleteConversation, Pc, Locked
<1>2. TypeOK /\ AttemptsTogether /\ HistoriesEnd
  BY DEF RunsInv
<1>3. v \in Conversations
  BY <1>1, <1>2, RequestShape DEF Deletion
<1> HIDE DEF v
<1>4. /\ call' \in [Calls -> Requesting]
      /\ \A d \in Calls \ {c} : call'[d] = call[d]
      /\ Pc(c)' = "done"
      /\ queue' \in [Conversations \cup UserMessages -> Seq(Calls)]
      /\ \A d \in Calls \ {c}, key \in Conversations \cup UserMessages :
           Holds(d, key) => Holds(d, key)'
  BY <1>1, <1>2, Ended
<1>5. \A r \in DOMAIN runs' : r \in DOMAIN runs /\ runs'[r] = runs[r] /\ runs[r].conversation # v
  BY <1>1 DEF RunsOf
<1>6. \A r \in DOMAIN runs : runs[r].conversation # v => r \in DOMAIN runs'
  BY <1>1 DEF RunsOf
<1>7. /\ conversation' \in [Conversations -> {"unused", "present", "deleted"}]
      /\ \A w \in Conversations \ {v} : conversation'[w] = conversation[w]
  BY <1>1, <1>2 DEF TypeOK
<1>8. /\ messages' \in [Conversations -> SUBSET Message]
      /\ summaries' \in [Conversations -> SUBSET Summary]
      /\ messages'[v] = {} /\ summaries'[v] = {}
      /\ \A w \in Conversations \ {v} : messages'[w] = messages[w] /\ summaries'[w] = summaries[w]
  BY <1>1, <1>2, <1>3 DEF TypeOK
<1>9. TypeOK'
  <2>1. /\ DOMAIN runs' \subseteq Calls
        /\ \A r \in DOMAIN runs' :
             /\ runs'[r] \in [conversation : Conversations, user : UserMessages \cup {Nil},
                              status : Statuses, iteration : 0..MaxIterations]
             /\ conversation'[runs'[r].conversation] = "present"
    <3> SUFFICES ASSUME NEW r \in DOMAIN runs'
                 PROVE  /\ r \in Calls
                        /\ runs[r] \in [conversation : Conversations, user : UserMessages \cup {Nil},
                                        status : Statuses, iteration : 0..MaxIterations]
                        /\ conversation'[runs[r].conversation] = "present"
      BY <1>5
    <3>1. r \in DOMAIN runs /\ runs[r].conversation # v
      BY <1>5
    <3>2. /\ r \in Calls
          /\ runs[r] \in [conversation : Conversations, user : UserMessages \cup {Nil},
                          status : Statuses, iteration : 0..MaxIterations]
          /\ conversation[runs[r].conversation] = "present"
      BY <1>2, <3>1 DEF TypeOK
    <3>3. runs[r].conversation \in Conversations \ {v}
      BY <3>1, <3>2
    <3> QED BY <1>7, <3>2, <3>3
  <2>2. \A w \in Conversations : \A m \in messages'[w] : m.run \in RunsOf(w)'
    <3> SUFFICES ASSUME NEW w \in Conversations, NEW m \in messages'[w]
                 PROVE  m.run \in RunsOf(w)'
      OBVIOUS
    <3>1. w # v /\ m \in messages[w]
      BY <1>8
    <3>2. m.run \in DOMAIN runs /\ runs[m.run].conversation = w
      BY <1>2, <3>1 DEF TypeOK, RunsOf
    <3>3. m.run \in DOMAIN runs' /\ runs'[m.run] = runs[m.run]
      BY <1>5, <1>6, <3>1, <3>2
    <3> QED BY <3>2, <3>3 DEF RunsOf
  <2>3. ASSUME NEW d \in Calls, Turn(d)' PROVE d \in DOMAIN runs' /\ runs'[d].status = "RUNNING"
    <3>1. d # c
      BY <1>4, <2>3 DEF Turn, Executing, Pc
    <3>2. Turn(d)
      BY <1>4, <2>3, <3>1 DEF Turn
    <3>3. d \in DOMAIN runs /\ runs[d].status = "RUNNING"
      BY <1>2, <3>2 DEF TypeOK
    <3>4. runs[d].conversation # v
      BY <1>1, <3>3 DEF HasRunning, RunsOf
    <3> QED BY <1>5, <1>6, <3>3, <3>4
  <2>4. DOMAIN runs' \subseteq ToSet(order')
    BY <1>1, <1>2, <1>5 DEF TypeOK
  <2> QED BY <1>1, <1>2, <1>4, <1>7, <1>8, <2>1, <2>2, <2>3, <2>4 DEF TypeOK, Requesting
<1>10. HistoriesEnd'
  <2> SUFFICES ASSUME NEW w \in Conversations
               PROVE  /\ \E n \in Nat : \A m \in messages'[w] : m.sequence <= n
                      /\ \E n \in Nat : \A s \in summaries'[w] : s.revision <= n
    BY DEF HistoriesEnd
  <2>1. CASE w = v
    BY <1>8, <2>1
  <2>2. CASE w # v
    BY <1>2, <1>8, <2>2 DEF HistoriesEnd
  <2> QED BY <2>1, <2>2
<1>11. Started(c)' /\ LocksHeld(c)' /\ Attempting(c)'
  BY <1>4, NothingToKeep DEF Waiting, Executing
<1> QED BY <1>1, <1>4, <1>5, <1>9, <1>10, <1>11, RunsKept

LEMMA RunsRestart ==
  ASSUME RunsInv, Restart
  PROVE  RunsInv'
<1>1. UNCHANGED database /\ faults < MaxFaults /\ faults' = faults + 1
  BY DEF Restart
<1>2. \A d \in Calls : call'[d] = IF call[d] = Idle THEN Idle ELSE Done
  BY DEF Restart
<1>3. call' \in [Calls -> Requesting]
  BY DEF Restart, Requesting
<1>4. queue' \in [Conversations \cup UserMessages -> Seq(Calls)]
  BY DEF Restart, RunsInv, TypeOK
<1>5. \A d \in Calls : ~Turn(d)'
  BY <1>2 DEF Turn, Executing, Idle, Done
<1>6. faults' \in 0..MaxFaults
  BY <1>1, ConversationAssumption DEF RunsInv, TypeOK
<1>7. TypeOK'
  BY <1>1, <1>3, <1>4, <1>5, <1>6, TypeKept DEF RunsInv
<1>8. ASSUME NEW d \in Calls PROVE Started(d)' /\ LocksHeld(d)' /\ Attempting(d)'
  <2>1. CASE call[d] = Idle
    <3>1. Pc(d) = "idle" /\ Pc(d)' = "idle"
      BY <1>2, <2>1 DEF Idle, Pc
    <3>2. d \notin ToSet(order')
      BY <1>1, <3>1 DEF RunsInv, Started, Waiting, database
    <3> QED BY <1>5, <3>1, <3>2 DEF Started, LocksHeld, Attempting, Assigned, Executing
  <2>2. CASE call[d] # Idle
    <3>1. Pc(d)' = "done"
      BY <1>2, <2>2 DEF Done, Pc
    <3> QED BY <3>1, NothingToKeep DEF Waiting, Executing
  <2> QED BY <2>1, <2>2
<1>9. OrderIsStrict' /\ AttemptsTogether' /\ HistoriesEnd'
  BY <1>1 DEF RunsInv, OrderIsStrict, AttemptsTogether, HistoriesEnd, database
<1> QED BY <1>7, <1>8, <1>9 DEF RunsInv

LEMMA RunsInit == Init => RunsInv
<1> SUFFICES ASSUME Init PROVE RunsInv
  OBVIOUS
<1>1. \A d \in Calls : call[d] = Idle /\ Pc(d) = "idle" /\ ~Turn(d)
  BY DEF Init, Idle, Pc, Turn, Executing
<1>2. DOMAIN runs = {} /\ order = <<>> /\ ToSet(order) = {}
  BY DEF Init, ToSet
<1>3. TypeOK
  <2>1. conversation \in [Conversations -> {"unused", "present", "deleted"}]
    BY DEF Init
  <2>2. queue \in [Conversations \cup UserMessages -> Seq(Calls)]
    BY DEF Init
  <2>3. faults \in 0..MaxFaults
    BY ConversationAssumption DEF Init
  <2>4. messages \in [Conversations -> SUBSET Message] /\ summaries \in [Conversations -> SUBSET Summary]
        /\ \A v \in Conversations : messages[v] = {}
    BY DEF Init
  <2>5. call \in [Calls -> {Idle, Done} \cup Request \cup Deletion]
    BY DEF Init
  <2>6. order \in Seq(Calls) /\ DOMAIN runs \subseteq ToSet(order)
    BY <1>2
  <2> QED BY <1>1, <1>2, <2>1, <2>2, <2>3, <2>4, <2>5, <2>6 DEF TypeOK
<1>4. HistoriesEnd
  BY DEF Init, HistoriesEnd
<1>5. OrderIsStrict /\ AttemptsTogether
  BY <1>2 DEF OrderIsStrict, AttemptsTogether
<1>6. \A d \in Calls : Started(d) /\ LocksHeld(d) /\ Attempting(d)
  BY <1>1, <1>2 DEF Started, LocksHeld, Attempting, Assigned, Executing
<1> QED BY <1>3, <1>4, <1>5, <1>6 DEF RunsInv

\* Every step keeps the first layer, whatever the clock does.
LEMMA RunsNext ==
  ASSUME RunsInv, [Next]_vars
  PROVE  RunsInv'
<1>1. CASE Restart
  BY <1>1, RunsRestart
<1>2. ASSUME NEW c \in Calls,
             SubmitTurn(c) \/ RequestDelete(c) \/ Refuse(c) \/ FailUnrecorded(c) \/ Work(c)
      PROVE  RunsInv'
  BY <1>2, RunsSubmit, RunsRequestDelete, RunsOpen, RunsFind, RunsLeave, RunsBegin, RunsAppend,
     RunsKeep, RunsSummarize, RunsLimit, RunsFinish, RunsDelete DEF Work
<1>3. CASE UNCHANGED vars
  BY <1>3 DEF vars, RunsInv, TypeOK, OrderIsStrict, AttemptsTogether, HistoriesEnd, Started,
              LocksHeld, Attempting, RunsOf, AttemptsOf, Turn, Pc, Locked, Holds, database
<1> QED BY <1>1, <1>2, <1>3 DEF Next

-----------------------------------------------------------------------------
(* The second layer: histories, with a clock that advances *)

\* A step that does not touch a conversation leaves its history in order.
LEMMA SameHistory ==
  ASSUME TypeOK, NEW v \in Conversations, History(v),
         messages'[v] = messages[v], summaries'[v] = summaries[v], RunsOf(v)' = RunsOf(v),
         \A r \in RunsOf(v) : runs'[r].user = runs[r].user,
         \A r, q : Earlier(r, q) => Earlier(r, q)'
  PROVE  History(v)'
<1>1. \A m \in messages[v] : m.run \in RunsOf(v)
  BY DEF TypeOK
<1>2. Counted(messages[v])' /\ Paired(messages[v])'
  BY DEF History
<1>3. ByRun(v)'
  BY <1>1 DEF History, ByRun
<1>4. \A s \in summaries[v] : ValidBoundary(v, messages[v], s) => ValidBoundary(v, messages[v], s)'
  BY DEF ValidBoundary
<1>5. Loadable(v, messages[v])'
  BY <1>4 DEF History, Summarized, Loadable
<1>6. Summarized(v)'
  BY <1>5 DEF History, Summarized
<1> QED BY <1>2, <1>3, <1>6 DEF History

\* And the turn that works on it.
LEMMA SameWork ==
  ASSUME NEW d \in Calls, Working(d), Pc(d)' = Pc(d) \/ ~Turn(d)', NEW v, v = call[d].conversation,
         Turn(d)' => Turn(d) /\ call'[d].conversation = v /\ messages'[v] = messages[v]
                     /\ RunsOf(v)' \subseteq RunsOf(v),
         \A r, q : Earlier(r, q) => Earlier(r, q)'
  PROVE  Working(d)'
<1>1. SUFFICES ASSUME Turn(d)' PROVE Working(d)'
  BY DEF Working
<1>2. IsNewest(d, v) => IsNewest(d, v)'
  BY <1>1 DEF IsNewest
<1>3. EndsInCall(messages[v])' <=> EndsInCall(messages[v])
  BY <1>1 DEF EndsInCall
<1> QED BY <1>1, <1>2, <1>3 DEF Working, EndsInCall

\* Of the turns, only one works on a conversation, and only who holds the lock.
LEMMA OneTurn ==
  ASSUME RunsInv, NEW c \in Calls, NEW v, Holds(c, v), NEW d \in Calls \ {c}, Turn(d)
  PROVE  call[d].conversation \in Conversations \ {v}
<1>1. Locked(d) /\ call[d].conversation \in Conversations
  BY DEF RunsInv, LocksHeld, Started, Turn, Assigned, Pc
<1> QED BY <1>1, OneHolder DEF Locked

\* A step that leaves messages, summaries and the order of the Runs alone.
LEMMA HistoryKept ==
  ASSUME RunsInv, HistoryInv, NEW c \in Calls, UNCHANGED <<order, messages, summaries>>,
         DOMAIN runs' = DOMAIN runs,
         \A r \in DOMAIN runs : runs'[r].user = runs[r].user
                                  /\ runs'[r].conversation = runs[r].conversation,
         \A d \in Calls \ {c} : call'[d] = call[d],
         Turn(c)' => /\ Turn(c) /\ call'[c].conversation = call[c].conversation
                     /\ \/ Pc(c) = "compact" /\ Pc(c)' = "model"
                        \/ Pc(c) = "limit" /\ Pc(c)' \in {"tool", "reject"}
  PROVE  HistoryInv'
<1>1. \A r, q : Earlier(r, q) => Earlier(r, q)'
  BY DEF Earlier
<1>2. \A v \in Conversations : RunsOf(v)' = RunsOf(v)
  BY DEF RunsOf
<1>3. ASSUME NEW v \in Conversations PROVE History(v)'
  <2>1. \A r \in RunsOf(v) : runs'[r].user = runs[r].user
    BY DEF RunsOf
  <2> QED BY <1>1, <1>2, <2>1, SameHistory DEF RunsInv, HistoryInv
<1>4. ASSUME NEW d \in Calls PROVE Working(d)'
  <2>1. CASE d # c
    <3>1. Turn(d) => call[d].conversation \in Conversations
      BY DEF RunsInv, Started, Turn, Assigned, Pc
    <3>2. Pc(d)' = Pc(d) /\ Turn(d)' = Turn(d)
      BY <2>1 DEF Pc, Turn
    <3>3. Turn(d)' => Turn(d) /\ call'[d].conversation = call[d].conversation
                      /\ messages'[call[d].conversation] = messages[call[d].conversation]
                      /\ RunsOf(call[d].conversation)' \subseteq RunsOf(call[d].conversation)
      <4>1. SUFFICES ASSUME Turn(d)
                     PROVE  RunsOf(call[d].conversation)' \subseteq RunsOf(call[d].conversation)
        BY <2>1, <3>2
      <4>2. PICK w \in Conversations : w = call[d].conversation /\ call'[d].conversation = w
        BY <2>1, <3>1, <4>1
      <4>3. RunsOf(w)' \subseteq RunsOf(w)
        BY <1>2, <4>2
      <4> QED BY <4>2, <4>3 DEF RunsOf
    <3> QED BY <1>1, <2>1, <3>2, <3>3, SameWork DEF HistoryInv
  <2>2. CASE d = c
    <3> SUFFICES ASSUME Turn(c)' PROVE Working(c)'
      BY <2>2 DEF Working
    <3>1. PICK v \in Conversations :
            Turn(c) /\ v = call[c].conversation /\ call'[c].conversation = v
      BY DEF RunsInv, Started, Turn, Assigned, Pc
    <3>2. \/ Pc(c) = "compact" /\ Pc(c)' = "model"
          \/ Pc(c) = "limit" /\ Pc(c)' \in {"tool", "reject"}
      OBVIOUS
    <3>3. IsNewest(c, v) => IsNewest(c, v)'
      BY <1>1, <1>2, <3>1 DEF IsNewest
    <3>4. EndsInCall(messages[v])' <=> EndsInCall(messages[v])
      BY DEF EndsInCall
    <3>5. Working(c)
      BY DEF HistoryInv
    <3>6. /\ IsNewest(c, v)
          /\ Pc(c) = "compact" => ~EndsInCall(messages[v])
          /\ Pc(c) = "limit" => EndsInCall(messages[v])
      BY <3>1, <3>5 DEF Working
    <3> HIDE <3>2
    <3>7. /\ IsNewest(c, v)'
          /\ Pc(c)' \in {"compact", "model"} => ~EndsInCall(messages[v])'
          /\ Pc(c)' \in {"limit", "tool", "reject"} => EndsInCall(messages[v])'
          /\ Pc(c)' # "load"
      BY <3>2, <3>3, <3>4, <3>6
    <3> QED BY <2>2, <3>1, <3>7 DEF Working, EndsInCall
  <2> QED BY <2>1, <2>2
<1> QED BY <1>3, <1>4 DEF HistoryInv

\* A turn appends rows to its history: the order of the Runs and the summaries
\* still fit, if the user message is its first.
LEMMA AppendedHistory ==
  ASSUME RunsInv, NEW v \in Conversations, NEW c \in RunsOf(v), History(v), IsNewest(c, v),
         NEW new \in SUBSET Message, messages'[v] = messages[v] \cup new,
         \A m \in new : m.run = c /\ \A n \in messages[v] : n.sequence < m.sequence,
         \A m \in new : m.kind = "human" => \A n \in messages[v] : n.run # c,
         Counted(messages'[v]), Paired(messages'[v]),
         UNCHANGED <<runs, order, summaries>>
  PROVE  History(v)'
<1> DEFINE h == messages[v]
           g == messages'[v]
<1>1. h \in SUBSET Message /\ g \in SUBSET Message /\ \A m \in h : m.run \in RunsOf(v)
  BY DEF RunsInv, TypeOK
<1>2. \A r, q : Earlier(r, q)' <=> Earlier(r, q)
  BY DEF Earlier
<1>3. RunsOf(v)' = RunsOf(v)
  BY DEF RunsOf
<1>4. \A m \in g : m \in h \/ m \in new
  OBVIOUS
<1>5. ByRun(v)'
  <2>1. ASSUME NEW m \in g, NEW n \in g, m.sequence < n.sequence
        PROVE  m.run = n.run \/ Earlier(m.run, n.run)
    <3>1. CASE m \in h /\ n \in h
      BY <2>1, <3>1 DEF History, ByRun
    <3>2. CASE m \in h /\ n \in new
      BY <1>1, <3>2 DEF IsNewest
    <3>3. CASE m \in new /\ n \in h
      <4>1. n.sequence < m.sequence
        BY <3>3
      <4>2. m.sequence \in Nat /\ n.sequence \in Nat
        BY <1>1, <2>1 DEF Message
      <4> QED BY <2>1, <4>1, <4>2
    <3>4. CASE m \in new /\ n \in new
      BY <3>4
    <3> QED BY <1>4, <3>1, <3>2, <3>3, <3>4
  <2>2. ASSUME NEW m \in g, NEW q \in RunsOf(v), runs[q].user = runs[m.run].user, runs[q].user # Nil
        PROVE  q = m.run \/ Earlier(q, m.run)
    <3>1. CASE m \in h
      BY <2>2, <3>1 DEF History, ByRun
    <3>2. CASE m \in new
      BY <3>2 DEF IsNewest
    <3> QED BY <1>4, <3>1, <3>2
  <2> QED BY <1>2, <1>3, <2>1, <2>2 DEF ByRun
<1>6. ASSUME NEW s \in summaries[v], ValidBoundary(v, h, s)
      PROVE  ValidBoundary(v, messages[v], s)'
  <2>1. /\ s.source \in RunsOf(v)
        /\ Cardinality({m \in h : m.run = s.source /\ m.kind = "human"}) = 1
        /\ \A m \in {m \in h : m.run = s.source /\ m.kind = "human"} : s.covered < m.sequence
        /\ \E m \in h : m.sequence = s.covered
        /\ IsUnits({m \in h : m.sequence <= s.covered})
    BY <1>6 DEF ValidBoundary
  <2>2. {m \in g : m.run = s.source /\ m.kind = "human"}
          = {m \in h : m.run = s.source /\ m.kind = "human"}
    <3> SUFFICES ASSUME NEW m \in new, m.run = s.source, m.kind = "human" PROVE FALSE
      BY <1>4
    <3>1. {n \in h : n.run = s.source /\ n.kind = "human"} = {}
      OBVIOUS
    <3> QED BY <2>1, <3>1, FS_EmptySet, SMTT(60)
  <2>3. {m \in g : m.sequence <= s.covered} = {m \in h : m.sequence <= s.covered}
    <3> SUFFICES ASSUME NEW m \in new, m.sequence <= s.covered PROVE FALSE
      BY <1>4
    <3>1. PICK n \in h : n.sequence = s.covered
      BY <2>1
    <3>2. n.sequence \in Nat /\ m.sequence \in Nat /\ n.sequence < m.sequence
      BY <1>1 DEF Message
    <3> QED BY <3>1, <3>2
  <2>4. \E m \in g : m.sequence = s.covered
    BY <2>1
  <2>5. /\ s.source \in RunsOf(v)
        /\ Cardinality({m \in g : m.run = s.source /\ m.kind = "human"}) = 1
        /\ \A m \in {m \in g : m.run = s.source /\ m.kind = "human"} : s.covered < m.sequence
        /\ \E m \in g : m.sequence = s.covered
        /\ IsUnits({m \in g : m.sequence <= s.covered})
    BY <2>1, <2>2, <2>3, <2>4
  <2> QED BY <1>3, <2>5 DEF ValidBoundary
<1>7. Loadable(v, messages[v])'
  BY <1>6 DEF History, Summarized, Loadable
<1>8. Summarized(v)'
  BY <1>2, <1>7 DEF History, Summarized
<1> QED BY <1>5, <1>8 DEF History, Counted, Paired, IsBefore

\* A turn has appended to its conversation; what is left is where it stands.
LEMMA HistoryAppended ==
  ASSUME RunsInv, HistoryInv, NEW c \in Calls, NEW v \in Conversations, Turn(c),
         v = call[c].conversation, call'[c].conversation = v,
         NEW new \in SUBSET Message, messages'[v] = messages[v] \cup new,
         \A m \in new : m.run = c /\ \A n \in messages[v] : n.sequence < m.sequence,
         \A m \in new : m.kind = "human" => Pc(c) = "load",
         Counted(messages'[v]), Paired(messages'[v]),
         \A w \in Conversations \ {v} : messages'[w] = messages[w],
         UNCHANGED <<runs, order, summaries>>,
         \A d \in Calls \ {c} : call'[d] = call[d],
         Pc(c)' \in {"compact", "model"} => ~EndsInCall(messages'[v]),
         Pc(c)' \in {"limit", "tool", "reject"} => EndsInCall(messages'[v]),
         Pc(c)' # "load"
  PROVE  HistoryInv'
<1>1. /\ Holds(c, v) /\ c \in RunsOf(v) /\ IsNewest(c, v)
      /\ \A m \in messages[v] : Pc(c) = "load" => m.run # c
  <2>1. Locked(c) /\ c \in DOMAIN runs /\ runs[c].conversation = v
    BY DEF RunsInv, LocksHeld, Started, TypeOK
  <2>2. Working(c)
    BY DEF HistoryInv
  <2> QED BY <2>1, <2>2 DEF Locked, RunsOf, Working
<1>2. History(v)'
  <2>1. \A m \in new : m.kind = "human" => \A n \in messages[v] : n.run # c
    BY <1>1
  <2>2. History(v)
    BY DEF HistoryInv
  <2> QED BY <1>1, <2>1, <2>2, AppendedHistory
<1>3. \A r, q : Earlier(r, q) => Earlier(r, q)'
  BY DEF Earlier
<1>4. \A w \in Conversations : RunsOf(w)' = RunsOf(w)
  BY DEF RunsOf
<1>5. ASSUME NEW w \in Conversations \ {v} PROVE History(w)'
  BY <1>3, <1>4, SameHistory DEF RunsInv, HistoryInv
<1>6. ASSUME NEW d \in Calls \ {c} PROVE Working(d)'
  <2> SUFFICES ASSUME Turn(d)' PROVE Working(d)'
    BY DEF Working
  <2>1. Turn(d) /\ Pc(d)' = Pc(d)
    BY DEF Pc, Turn
  <2>2. PICK w \in Conversations \ {v} : w = call[d].conversation
    BY <1>1, <2>1, OneTurn
  <2>3. messages'[w] = messages[w] /\ RunsOf(w)' \subseteq RunsOf(w)
    BY <1>4
  <2>4. Working(d)
    BY DEF HistoryInv
  <2> QED BY <1>3, <2>1, <2>2, <2>3, <2>4, SameWork
<1>7. Working(c)'
  <2>1. IsNewest(c, v)'
    BY <1>1, <1>3, <1>4 DEF IsNewest
  <2> QED BY <2>1 DEF Working, EndsInCall
<1> QED BY <1>2, <1>5, <1>6, <1>7 DEF HistoryInv

\* What one more message leaves of a history that is counted and paired.
LEMMA RowAppended ==
  ASSUME NEW h \in SUBSET Message, Counted(h), Paired(h), NEW r \in Calls, NEW kind \in Kinds,
         kind = "result" <=> EndsInCall(h),
         NEW m, m = Row(Cardinality(h) + 1, r, kind), NEW g, g = h \cup {m}
  PROVE  /\ m \in Message /\ m.run = r /\ m.kind = kind
         /\ \A n \in h : n.sequence < m.sequence
         /\ Counted(g) /\ Paired(g) /\ (EndsInCall(g) <=> kind = "call")
         /\ g \in SUBSET Message /\ Cardinality(g) = Cardinality(h) + 1
<1>1. /\ g \in SUBSET Message /\ Counted(g) /\ Cardinality(g) = Cardinality(h) + 1
      /\ EndsInCall(g) <=> kind = "call"
      /\ Paired(h) /\ (kind = "result" <=> EndsInCall(h)) => Paired(g)
  BY OneMore
<1>2. Cardinality(h) \in Nat /\ \A n \in h : n.sequence \in 1..Cardinality(h)
  BY LastOfCounted
<1>3. m.sequence = Cardinality(h) + 1 /\ m.run = r /\ m.kind = kind /\ m \in g
  BY DEF Row
<1>4. \A n \in h : n.sequence < m.sequence
  BY <1>2, <1>3
<1> QED BY <1>1, <1>3, <1>4

LEMMA HistoryAnswer ==
  ASSUME RunsInv, HistoryInv, NEW c \in Calls, CallModel(c) \/ RecordResults(c)
  PROVE  HistoryInv'
<1>1. Turn(c) /\ Pc(c) \in Serving
  BY DEF CallModel, RecordResults, Turn, Executing, Serving, Pc
<1>2. PICK v \in Conversations : v = call[c].conversation
  BY <1>1 DEF RunsInv, Started, Turn, Assigned, Pc
<1>3. PICK kind \in Kinds, pc \in Executing :
        /\ AppendMessages(v, c, <<kind>>) /\ Advance(c, pc)
        /\ kind = "result" => Pc(c) \in {"tool", "reject"}
        /\ kind # "result" => Pc(c) = "model"
        /\ kind # "human" /\ pc \notin {"load", "compact", "tool", "reject"}
        /\ pc = "model" => kind = "result"
        /\ pc = "limit" <=> kind = "call"
  <2>1. CASE CallModel(c)
    <3>1. PICK kind \in {"reply", "call"} :
            /\ AppendMessages(v, c, <<kind>>)
            /\ Advance(c, IF kind = "call" THEN "limit" ELSE "complete")
      BY <1>2, <2>1 DEF CallModel
    <3>2. CASE kind = "call"
      <4>1. /\ AppendMessages(v, c, <<"call">>) /\ Advance(c, "limit") /\ Pc(c) = "model"
            /\ "call" \in Kinds /\ "limit" \in Executing
        BY <2>1, <3>1, <3>2 DEF CallModel, Kinds, Executing, Pc
      <4> QED BY <4>1
    <3>3. CASE kind = "reply"
      <4>1. /\ AppendMessages(v, c, <<"reply">>) /\ Advance(c, "complete") /\ Pc(c) = "model"
            /\ "reply" \in Kinds /\ "complete" \in Executing
        BY <2>1, <3>1, <3>3 DEF CallModel, Kinds, Executing, Pc
      <4> QED BY <4>1
    <3> QED BY <3>1, <3>2, <3>3
  <2>2. CASE RecordResults(c)
    <3>1. PICK pc \in {"model", "limited"} : Advance(c, pc)
      BY <2>2 DEF RecordResults
    <3>2. /\ AppendMessages(v, c, <<"result">>) /\ Pc(c) \in {"tool", "reject"}
          /\ "result" \in Kinds /\ pc \in Executing
      BY <1>2, <2>2 DEF RecordResults, Kinds, Executing, Pc
    <3> QED BY <3>1, <3>2
  <2> QED BY <2>1, <2>2
<1>4. UNCHANGED <<runs, order, summaries>>
  BY DEF CallModel, RecordResults
<1>5. /\ messages \in [Conversations -> SUBSET Message] /\ messages[v] \in SUBSET Message
      /\ Counted(messages[v]) /\ Paired(messages[v]) /\ Working(c)
  BY DEF RunsInv, TypeOK, HistoryInv, History
<1> DEFINE m == Row(Cardinality(messages[v]) + 1, c, kind)
<1>6. /\ messages'[v] = messages[v] \cup {m}
      /\ \A w \in Conversations \ {v} : messages'[w] = messages[w]
  BY <1>3, <1>5, AppendsOne
<1>7. kind = "result" <=> EndsInCall(messages[v])
  <2>1. /\ Pc(c) \in {"compact", "model"} => ~EndsInCall(messages[v])
        /\ Pc(c) \in {"limit", "tool", "reject"} => EndsInCall(messages[v])
    BY <1>1, <1>2, <1>5 DEF Working
  <2> QED BY <1>3, <2>1
<1>8. /\ m \in Message /\ m.run = c /\ m.kind = kind
      /\ \A n \in messages[v] : n.sequence < m.sequence
      /\ Counted(messages'[v]) /\ Paired(messages'[v])
      /\ EndsInCall(messages'[v]) <=> kind = "call"
  BY <1>5, <1>6, <1>7, RowAppended
<1> HIDE DEF m
<1>9. /\ \A d \in Calls \ {c} : call'[d] = call[d]
      /\ Pc(c)' = pc /\ call'[c].conversation = v
  BY <1>1, <1>2, <1>3, Advanced DEF RunsInv, Serving
<1>10. /\ Pc(c)' \in {"compact", "model"} => ~EndsInCall(messages'[v])
       /\ Pc(c)' \in {"limit", "tool", "reject"} => EndsInCall(messages'[v])
       /\ Pc(c)' # "load"
  BY <1>3, <1>8, <1>9
<1>11. /\ {m} \in SUBSET Message
       /\ \A x \in {m} : x.run = c /\ \A n \in messages[v] : n.sequence < x.sequence
       /\ \A x \in {m} : x.kind = "human" => Pc(c) = "load"
  BY <1>3, <1>8
<1> HIDE DEF m
<1> QED BY <1>1, <1>2, <1>3, <1>4, <1>6, <1>8, <1>9, <1>10, <1>11, HistoryAppended

LEMMA HistoryLoad ==
  ASSUME RunsInv, HistoryInv, NEW c \in Calls, LoadTurn(c)
  PROVE  HistoryInv'
<1>1. Turn(c) /\ Pc(c) = "load"
  BY DEF LoadTurn, Turn, Executing, Pc
<1>2. PICK v \in Conversations : v = call[c].conversation
  BY <1>1 DEF RunsInv, Started, Turn, Assigned, Pc
<1>3. UNCHANGED <<runs, order, summaries>>
  BY DEF LoadTurn
<1> DEFINE h == messages[v]
           n == Cardinality(h)
<1>4. /\ messages \in [Conversations -> SUBSET Message] /\ h \in SUBSET Message
      /\ Counted(h) /\ Paired(h)
  BY DEF RunsInv, TypeOK, HistoryInv, History
<1>5. n \in Nat
  BY <1>4, LastOfCounted
<1>6. "human" \in Kinds /\ "result" \in Kinds
  BY DEF Kinds
<1>7. AppendMessages(v, c, Append(Repairs(v), "human"))
  BY <1>2 DEF LoadTurn
<1>8. \E new \in SUBSET Message :
        /\ messages'[v] = h \cup new
        /\ \A m \in new : m.run = c /\ \A k \in h : k.sequence < m.sequence
        /\ \A w \in Conversations \ {v} : messages'[w] = messages[w]
        /\ Counted(messages'[v]) /\ Paired(messages'[v]) /\ ~EndsInCall(messages'[v])
        /\ messages' \in [Conversations -> SUBSET Message]
  <2>1. CASE ~EndsInCall(h)
    <3> DEFINE m == Row(n + 1, c, "human")
    <3>1. AppendMessages(v, c, <<"human">>)
      <4>1. Append(Repairs(v), "human") = <<"human">>
        BY <2>1 DEF Repairs
      <4> QED BY <1>7, <4>1
    <3>2. /\ messages'[v] = h \cup {m}
          /\ \A w \in Conversations \ {v} : messages'[w] = messages[w]
          /\ DOMAIN messages' = Conversations
      BY <1>4, <3>1, AppendsOne
    <3>3. /\ m \in Message /\ m.run = c /\ \A k \in h : k.sequence < m.sequence
          /\ Counted(messages'[v]) /\ Paired(messages'[v]) /\ ~EndsInCall(messages'[v])
      BY <1>4, <1>6, <2>1, <3>2, RowAppended
    <3> HIDE DEF m, h
    <3>4. messages' \in [Conversations -> SUBSET Message]
      <4>1. messages' = [messages EXCEPT ![v] = h \cup {m}]
        BY <1>4, <3>1, <3>2 DEF AppendMessages
      <4> QED BY <1>4, <3>3, <4>1
    <3>5. {m} \in SUBSET Message /\ \A x \in {m} : x = m
      BY <3>3
    <3> QED BY <3>2, <3>3, <3>4, <3>5
  <2>2. CASE EndsInCall(h)
    <3> DEFINE r == Row(n + 1, c, "result")
               g == h \cup {r}
               m == Row(n + 2, c, "human")
    <3>1. AppendMessages(v, c, <<"result", "human">>)
      <4>0. Repairs(v) = <<"result">>
        BY <2>2 DEF Repairs
      <4>1. Append(<<"result">>, "human") = <<"result", "human">>
        <5> DEFINE a == Append(<<"result">>, "human")
                   b == <<"result", "human">>
        <5>1. <<"result">> \in Seq(Kinds) /\ "human" \in Kinds
          BY DEF Kinds
        <5>2. a \in Seq(Kinds) /\ Len(a) = 2 /\ a[1] = "result" /\ a[2] = "human"
          BY <5>1
        <5>3. b \in Seq(Kinds) /\ Len(b) = 2 /\ b[1] = "result" /\ b[2] = "human"
          BY <5>1
        <5> HIDE DEF a, b
        <5>4. \A i \in 1..2 : a[i] = b[i]
          BY <5>2, <5>3
        <5>5. a = b
          BY <5>2, <5>3, <5>4, SeqEqual
        <5> QED BY <5>5 DEF a, b
      <4> QED BY <1>7, <4>0, <4>1
    <3>2. /\ messages'[v] = g \cup {m}
          /\ \A w \in Conversations \ {v} : messages'[w] = messages[w]
          /\ DOMAIN messages' = Conversations
      BY <1>4, <3>1, AppendsTwo
    <3>3. /\ r \in Message /\ r.run = c /\ \A k \in h : k.sequence < r.sequence
          /\ Counted(g) /\ Paired(g) /\ ~EndsInCall(g)
          /\ g \in SUBSET Message /\ Cardinality(g) = n + 1
      BY <1>4, <1>6, <2>2, RowAppended
    <3>4. m = Row(Cardinality(g) + 1, c, "human")
      BY <1>5, <3>3
    <3>5. r \in g /\ h \subseteq g
      OBVIOUS
    <3> HIDE DEF g
    <3>6. /\ m \in Message /\ m.run = c /\ \A k \in g : k.sequence < m.sequence
          /\ Counted(messages'[v]) /\ Paired(messages'[v]) /\ ~EndsInCall(messages'[v])
      BY <1>6, <3>2, <3>3, <3>4, RowAppended
    <3> HIDE DEF m, r, h, n
    <3>7. messages'[v] = h \cup {r, m}
      BY <3>2 DEF g
    <3>8. messages' \in [Conversations -> SUBSET Message]
      <4>1. messages' = [messages EXCEPT ![v] = h \cup {r, m}]
        BY <1>4, <3>1, <3>7 DEF AppendMessages
      <4> QED BY <1>4, <3>3, <3>6, <4>1
    <3>9. {r, m} \in SUBSET Message
          /\ \A x \in {r, m} : x.run = c /\ \A k \in h : k.sequence < x.sequence
      BY <3>3, <3>5, <3>6
    <3> QED BY <3>2, <3>6, <3>7, <3>8, <3>9
  <2> QED BY <2>1, <2>2
<1>9. PICK new \in SUBSET Message :
        /\ messages'[v] = messages[v] \cup new
        /\ \A m \in new : m.run = c /\ \A k \in messages[v] : k.sequence < m.sequence
        /\ \A w \in Conversations \ {v} : messages'[w] = messages[w]
        /\ Counted(messages'[v]) /\ Paired(messages'[v]) /\ ~EndsInCall(messages'[v])
        /\ messages' \in [Conversations -> SUBSET Message]
  BY <1>8
<1>10. /\ \A d \in Calls \ {c} : call'[d] = call[d]
       /\ Pc(c)' \in {"compact", "failing"} /\ call'[c].conversation = v
  BY <1>2, <1>9, Loaded DEF RunsInv
<1> HIDE DEF h, n
<1> QED BY <1>1, <1>2, <1>3, <1>9, <1>10, HistoryAppended

\* A compaction adds a summary whose boundary it has checked, behind the last
\* one.
LEMMA HistorySummarize ==
  ASSUME RunsInv, HistoryInv, NEW c \in Calls, AppendSummary(c)
  PROVE  HistoryInv'
<1>1. Turn(c) /\ Pc(c) = "compact" /\ Pc(c) \in Serving
  BY DEF AppendSummary, Turn, Executing, Serving, Pc
<1>2. PICK v \in Conversations : v = call[c].conversation
  BY <1>1 DEF RunsInv, Started, Turn, Assigned, Pc
<1>3. UNCHANGED <<runs, order, messages>>
  BY DEF AppendSummary
<1>4. PICK x :
        /\ x.source = c /\ x.revision = Revision(summaries[v]) + 1
        /\ x.covered > LastSummary(summaries[v]).covered
        /\ ValidBoundary(v, messages[v], x)
        /\ summaries' = [summaries EXCEPT ![v] = @ \cup {x}]
  <2> DEFINE known   == call[c].known
             covered == LastSequence(CompactablePrefix(Uncovered(call[c].records, known)))
             x == [revision |-> Revision(known) + 1, covered |-> covered, source |-> c]
  <2>1. /\ Revision(summaries[v]) = Revision(known)
        /\ x.covered > LastSummary(summaries[v]).covered
        /\ ValidBoundary(v, messages[v], x)
        /\ summaries' = [summaries EXCEPT ![v] = @ \cup {x}]
    BY <1>2 DEF AppendSummary
  <2> HIDE DEF known, covered
  <2>2. x.source = c /\ x.revision = Revision(summaries[v]) + 1
    BY <2>1
  <2> HIDE DEF x
  <2> QED BY <2>1, <2>2
<1>5. /\ summaries \in [Conversations -> SUBSET Summary] /\ summaries[v] \in SUBSET Summary
      /\ History(v) /\ Working(c)
  BY DEF RunsInv, TypeOK, HistoryInv
<1>6. /\ summaries'[v] = summaries[v] \cup {x}
      /\ \A w \in Conversations \ {v} : summaries'[w] = summaries[w]
  BY <1>4, <1>5
<1>7. /\ Revision(summaries[v]) \in Nat
      /\ \A s \in summaries[v] : s.revision <= Revision(summaries[v])
      /\ summaries[v] # {} => LastSummary(summaries[v]) \in summaries[v]
      /\ summaries[v] # {} => Revision(summaries[v]) = LastSummary(summaries[v]).revision
  <2>1. CASE summaries[v] = {}
    BY <2>1 DEF Revision, LastSummary
  <2>2. CASE summaries[v] # {}
    <3> DEFINE T == {s.revision : s \in summaries[v]}
    <3>1. PICK k \in Nat : \A s \in summaries[v] : s.revision <= k
      BY DEF RunsInv, HistoriesEnd
    <3>2. T \in SUBSET Nat /\ T # {} /\ \A y \in T : y <= k
      BY <1>5, <2>2, <3>1 DEF Summary
    <3>3. \E y \in T : \A z \in T : z <= y
      BY <3>1, <3>2, Greatest
    <3>4. \E s \in summaries[v] : \A t \in summaries[v] : t.revision <= s.revision
      BY <3>3
    <3>5. /\ LastSummary(summaries[v]) \in summaries[v]
          /\ \A t \in summaries[v] : t.revision <= LastSummary(summaries[v]).revision
      BY <2>2, <3>4 DEF LastSummary
    <3>6. Revision(summaries[v]) = LastSummary(summaries[v]).revision
      BY DEF Revision
    <3>7. LastSummary(summaries[v]).revision \in Nat
      BY <1>5, <3>5 DEF Summary
    <3> QED BY <3>5, <3>6, <3>7
  <2> QED BY <2>1, <2>2
<1>8. \A s \in summaries[v] : s.revision \in Nat /\ s.revision < x.revision
  BY <1>4, <1>5, <1>7 DEF Summary
<1>9. \A w \in Conversations : \A s :
       ValidBoundary(w, messages[w], s) => ValidBoundary(w, messages[w], s)'
  BY <1>3 DEF ValidBoundary, RunsOf
<1>10. \A r, q : Earlier(r, q)' <=> Earlier(r, q)
  BY <1>3 DEF Earlier
<1>11. Loadable(v, messages[v])'
  <2>1. Loadable(v, messages[v])
    BY <1>5 DEF History, Summarized
  <2>2. ASSUME NEW s \in summaries'[v]
        PROVE  LET earlier == {t \in summaries'[v] : t.revision < s.revision}
               IN  /\ s.revision > 0
                   /\ ValidBoundary(v, messages[v], s)'
                   /\ earlier # {} => \E t \in earlier :
                        t.revision + 1 = s.revision /\ t.covered < s.covered
    <3> DEFINE earlier == {t \in summaries'[v] : t.revision < s.revision}
    <3>1. CASE s \in summaries[v]
      <4>1. x \notin earlier
        BY <1>4, <1>7, <1>8, <3>1
      <4>2. earlier = {t \in summaries[v] : t.revision < s.revision}
        BY <1>6, <4>1
      <4> HIDE DEF earlier
      <4>3. /\ s.revision > 0
            /\ ValidBoundary(v, messages[v], s)
            /\ earlier # {} => \E t \in earlier : t.revision + 1 = s.revision /\ t.covered < s.covered
        BY <2>1, <3>1, <4>2 DEF Loadable
      <4> QED BY <1>9, <4>3 DEF earlier
    <3>2. CASE s = x
      <4>1. s.revision > 0 /\ ValidBoundary(v, messages[v], s)'
        BY <1>4, <1>7, <1>9, <3>2
      <4>2. x \notin earlier
        BY <1>4, <1>7, <3>2
      <4>3. earlier = summaries[v]
        BY <1>6, <1>8, <3>2, <4>2
      <4> HIDE DEF earlier
      <4>4. ASSUME earlier # {}
            PROVE  \E t \in earlier : t.revision + 1 = s.revision /\ t.covered < s.covered
        <5> DEFINE l == LastSummary(summaries[v])
        <5>1. l \in earlier /\ l.revision + 1 = s.revision
          BY <1>4, <1>7, <3>2, <4>3, <4>4
        <5>2. l.covered \in Nat /\ x.covered \in Nat
          <6>1. \E m \in messages[v] : m.sequence = x.covered
            BY <1>4 DEF ValidBoundary
          <6>2. messages[v] \in SUBSET Message
            BY DEF RunsInv, TypeOK
          <6>3. l \in Summary
            BY <1>5, <4>3, <5>1
          <6> QED BY <6>1, <6>2, <6>3 DEF Message, Summary
        <5>3. l.covered < s.covered
          BY <1>4, <3>2, <5>2
        <5> QED BY <5>1, <5>3
      <4> QED BY <4>1, <4>4 DEF earlier
    <3> QED BY <1>6, <3>1, <3>2
  <2> QED BY <2>2 DEF Loadable
<1>12. ASSUME NEW s \in summaries'[v], NEW t \in summaries'[v], s.revision < t.revision
       PROVE  s.source = t.source \/ Earlier(s.source, t.source)
  <2>1. s \in summaries[v]
    BY <1>4, <1>6, <1>7, <1>8, <1>12
  <2>2. CASE t \in summaries[v]
    BY <1>5, <1>12, <2>1, <2>2 DEF History, Summarized
  <2>3. CASE t = x
    <3>1. s.source \in RunsOf(v)
      BY <1>5, <2>1 DEF History, Summarized, Loadable, ValidBoundary
    <3>2. IsNewest(c, v)
      BY <1>1, <1>2, <1>5 DEF Working
    <3> QED BY <1>4, <2>3, <3>1, <3>2 DEF IsNewest
  <2> QED BY <1>6, <2>2, <2>3
<1>13. \A w \in Conversations : RunsOf(w)' = RunsOf(w)
  BY <1>3 DEF RunsOf
<1>14. History(v)'
  <2>1. Summarized(v)'
    BY <1>10, <1>11, <1>12 DEF Summarized
  <2>2. \A m \in messages[v] : m.run \in RunsOf(v)
    BY DEF RunsInv, TypeOK
  <2>3. ByRun(v)'
    BY <1>3, <1>5, <1>10, <1>13 DEF History, ByRun
  <2> QED BY <1>3, <1>5, <2>1, <2>3 DEF History
<1>15. ASSUME NEW w \in Conversations \ {v} PROVE History(w)'
  BY <1>3, <1>6, <1>10, <1>13, SameHistory DEF RunsInv, HistoryInv
<1>16. /\ \A d \in Calls \ {c} : call'[d] = call[d]
       /\ Pc(c)' = "model" /\ call'[c].conversation = v
  BY <1>1, <1>2, Compacted DEF RunsInv, AppendSummary
<1>17. ASSUME NEW d \in Calls \ {c} PROVE Working(d)'
  <2> SUFFICES ASSUME Turn(d)' PROVE Working(d)'
    BY DEF Working
  <2>1. Turn(d) /\ Pc(d)' = Pc(d)
    BY <1>16 DEF Pc, Turn
  <2>2. PICK w \in Conversations : w = call[d].conversation
    BY <2>1 DEF RunsInv, Started, Turn, Assigned, Pc
  <2>3. Working(d) /\ call'[d].conversation = w
    BY <1>16, <2>2 DEF HistoryInv
  <2> QED BY <1>3, <1>10, <1>13, <2>1, <2>2, <2>3, SameWork
<1>18. Working(c)'
  <2>1. IsNewest(c, v) /\ ~EndsInCall(messages[v])
    BY <1>1, <1>2, <1>5 DEF Working
  <2>2. IsNewest(c, v)' /\ ~EndsInCall(messages'[v])
    BY <1>3, <1>10, <1>13, <2>1 DEF IsNewest
  <2> QED BY <1>16, <2>2 DEF Working, EndsInCall
<1> QED BY <1>14, <1>15, <1>17, <1>18 DEF HistoryInv

LEMMA HistoryDelete ==
  ASSUME RunsInv, HistoryInv, NEW c \in Calls, DeleteConversation(c)
  PROVE  HistoryInv'
<1>1. PICK v \in Conversations : v = call[c].conversation
  BY RequestShape DEF DeleteConversation, RunsInv, Deletion, Pc
<1>2. /\ ~HasRunning(v) /\ Holds(c, v)
      /\ messages' = [messages EXCEPT ![v] = {}]
      /\ summaries' = [summaries EXCEPT ![v] = {}]
      /\ runs' = [r \in DOMAIN runs \ RunsOf(v) |-> runs[r]]
      /\ order' = order /\ End(c)
  BY <1>1 DEF DeleteConversation, Locked
<1>3. /\ messages'[v] = {} /\ summaries'[v] = {}
      /\ \A w \in Conversations \ {v} : messages'[w] = messages[w] /\ summaries'[w] = summaries[w]
  BY <1>2 DEF RunsInv, TypeOK
<1>4. \A r, q : Earlier(r, q) => Earlier(r, q)'
  BY <1>2 DEF Earlier
<1>5. \A w \in Conversations \ {v} : RunsOf(w)' = RunsOf(w) /\ \A r \in RunsOf(w) : runs'[r] = runs[r]
  BY <1>2 DEF RunsOf
<1>6. ASSUME NEW w \in Conversations \ {v} PROVE History(w)'
  BY <1>3, <1>4, <1>5, SameHistory DEF RunsInv, HistoryInv
<1>7. History(v)'
  <2>1. Counted({}) /\ Paired({})
    BY FS_EmptySet DEF Counted, Paired
  <2>2. Counted(messages'[v]) /\ Paired(messages'[v])
    BY <1>3, <2>1
  <2>3. ByRun(v)' /\ Summarized(v)'
    BY <1>3 DEF ByRun, Summarized, Loadable
  <2> QED BY <2>2, <2>3 DEF History, Counted, Paired, IsBefore
<1>8. \A d \in Calls \ {c} : call'[d] = call[d]
  BY <1>2, Ended DEF RunsInv
<1>9. Pc(c)' = "done"
  BY <1>2, Ended DEF RunsInv
<1>10. ASSUME NEW d \in Calls PROVE Working(d)'
  <2> SUFFICES ASSUME Turn(d)' PROVE Working(d)'
    BY DEF Working
  <2>1. d # c
    BY <1>9 DEF Turn, Executing, Pc
  <2>2. Turn(d) /\ Pc(d)' = Pc(d)
    BY <1>8, <2>1 DEF Pc, Turn
  <2>3. PICK w \in Conversations \ {v} : w = call[d].conversation
    BY <1>2, <2>1, <2>2, OneTurn
  <2>4. Working(d) /\ call'[d].conversation = w
    BY <1>8, <2>1, <2>3 DEF HistoryInv
  <2> QED BY <1>3, <1>4, <1>5, <2>2, <2>3, <2>4, SameWork
<1> QED BY <1>6, <1>7, <1>10 DEF HistoryInv

\* The messages of the newest Run of a conversation are the tail of its history.
LEMMA NewestIsTail ==
  ASSUME RunsInv, NEW v \in Conversations, History(v), NEW p \in RunsOf(v), IsNewest(p, v)
  PROVE  \E k \in Nat : {m \in messages[v] : m.run # p} = {m \in messages[v] : m.sequence <= k}
<1> DEFINE h == messages[v]
           T == {m.sequence : m \in {n \in h : n.run = p}}
<1>1. h \in SUBSET Message /\ Counted(h) /\ \A m \in h : m.run \in RunsOf(v)
  BY DEF RunsInv, TypeOK, History
<1>2. Cardinality(h) \in Nat /\ \A m \in h : m.sequence \in 1..Cardinality(h)
  BY <1>1, LastOfCounted
<1>3. ASSUME NEW m \in h, NEW n \in h, m.run = p, m.sequence < n.sequence PROVE n.run = p
  <2>1. n.run = p \/ Earlier(p, n.run)
    BY <1>3 DEF History, ByRun
  <2>2. n.run = p \/ Earlier(n.run, p)
    BY <1>1 DEF IsNewest
  <2> QED BY <2>1, <2>2, EarlierIsStrict DEF RunsInv, TypeOK, OrderIsStrict
<1>4. CASE T = {}
  <2>1. \A m \in h : m.run # p
    BY <1>4
  <2> QED BY <1>2, <2>1
<1>5. CASE T # {}
  <2>1. T \in SUBSET Nat
    BY <1>2
  <2>2. PICK l \in T : \A y \in T : l <= y
    BY <1>5, <2>1, Least
  <2>3. PICK m \in h : m.run = p /\ m.sequence = l
    BY <2>2
  <2>4. l \in Nat \ {0} /\ l - 1 \in Nat
    BY <1>2, <2>3
  <2>5. ASSUME NEW n \in h PROVE n.run # p <=> n.sequence <= l - 1
    <3>1. n.sequence \in Nat
      BY <1>2
    <3>2. CASE n.run = p
      <4>1. l <= n.sequence
        BY <2>2, <3>2
      <4> QED BY <2>4, <3>1, <3>2, <4>1
    <3>3. CASE n.run # p
      <4>1. ~(l < n.sequence) /\ l # n.sequence
        <5>1. ~(m.sequence < n.sequence)
          BY <1>3, <2>3, <3>3
        <5>2. m # n
          BY <2>3, <3>3
        <5>3. m.sequence # n.sequence
          BY <1>1, <5>2 DEF Counted
        <5> QED BY <2>3, <5>1, <5>3
      <4> QED BY <2>4, <3>1, <3>3, <4>1
    <3> QED BY <3>2, <3>3
  <2> QED BY <2>4, <2>5
<1> QED BY <1>4, <1>5

LEMMA OneIsSome ==
  ASSUME NEW S, Cardinality(S) = 1
  PROVE  S # {}
<1>1. Cardinality({}) = 0
  BY FS_EmptySet
<1> QED BY <1>1

\* The history without the newest Run is a history whose summaries load.
LEMMA WithoutNewest ==
  ASSUME RunsInv, NEW v \in Conversations, History(v), NEW p \in RunsOf(v), IsNewest(p, v),
         messages'[v] = {m \in messages[v] : m.run # p},
         summaries'[v] = {s \in summaries[v] : s.source # p},
         RunsOf(v) \subseteq RunsOf(v)'
  PROVE  Counted(messages'[v]) /\ Paired(messages'[v]) /\ Loadable(v, messages[v])'
<1> DEFINE h == messages[v]
<1>1. PICK k \in Nat : messages'[v] = {m \in h : m.sequence <= k}
  BY NewestIsTail
<1>2. h \in SUBSET Message /\ Counted(h) /\ Paired(h)
  BY DEF RunsInv, TypeOK, History
<1>3. Counted(messages'[v]) /\ Paired(messages'[v])
  BY <1>1, <1>2, FirstMessages
<1>4. summaries[v] \in SUBSET Summary /\ Loadable(v, h)
  BY DEF RunsInv, TypeOK, History, Summarized
<1>5. ASSUME NEW s \in summaries'[v] PROVE ValidBoundary(v, messages[v], s)'
  <2> DEFINE humans(g) == {m \in g : m.run = s.source /\ m.kind = "human"}
  <2>1. s \in summaries[v] /\ s.source # p
    BY <1>5
  <2>2. /\ s.source \in RunsOf(v)
        /\ Cardinality(humans(h)) = 1
        /\ \A m \in humans(h) : s.covered < m.sequence
        /\ \E m \in h : m.sequence = s.covered
        /\ IsUnits({m \in h : m.sequence <= s.covered})
    BY <1>4, <2>1 DEF Loadable, ValidBoundary
  <2>3. humans(messages'[v]) = humans(h)
    BY <2>1
  <2>4. \E m \in h : m.sequence = s.covered /\ m.sequence <= k
    <3>1. humans(h) # {}
      BY <2>2, OneIsSome
    <3>2. PICK m \in h : m.run = s.source /\ m.kind = "human"
      BY <3>1
    <3>3. PICK n \in h : n.sequence = s.covered
      BY <2>2
    <3>4. m \in messages'[v] /\ s.covered < m.sequence
      BY <2>1, <2>2, <3>2
    <3>5. m.sequence <= k /\ m.sequence \in Nat /\ n.sequence \in Nat
      BY <1>1, <1>2, <3>4 DEF Message
    <3> QED BY <3>3, <3>4, <3>5
  <2>5. \E m \in messages'[v] : m.sequence = s.covered
    BY <1>1, <2>4
  <2>6. {m \in messages'[v] : m.sequence <= s.covered} = {m \in h : m.sequence <= s.covered}
    <3>1. s.covered \in Nat /\ s.covered <= k
      BY <1>2, <2>4 DEF Message
    <3>2. \A m \in h : m.sequence \in Nat
      BY <1>2 DEF Message
    <3>3. \A m \in h : m.sequence <= s.covered => m.sequence <= k
      BY <3>1, <3>2
    <3> QED BY <1>1, <3>3
  <2>7. /\ s.source \in RunsOf(v)'
        /\ Cardinality(humans(messages'[v])) = 1
        /\ \A m \in humans(messages'[v]) : s.covered < m.sequence
        /\ IsUnits({m \in messages'[v] : m.sequence <= s.covered})
    BY <2>2, <2>3, <2>6
  <2> QED BY <2>5, <2>7 DEF ValidBoundary
<1>6. ASSUME NEW s \in summaries'[v]
      PROVE  {t \in summaries'[v] : t.revision < s.revision} = {t \in summaries[v] : t.revision < s.revision}
  <2> SUFFICES ASSUME NEW t \in summaries[v], t.revision < s.revision, t.source = p PROVE FALSE
    OBVIOUS
  <2>1. s \in summaries[v] /\ s.source # p
    BY <1>6
  <2>2. Earlier(p, s.source)
    BY <2>1 DEF History, Summarized
  <2>3. s.source \in RunsOf(v)
    BY <1>4, <2>1 DEF Loadable, ValidBoundary
  <2>4. Earlier(s.source, p)
    BY <2>1, <2>3 DEF IsNewest
  <2> QED BY <2>2, <2>4, EarlierIsStrict DEF RunsInv, TypeOK, OrderIsStrict
<1>7. ASSUME NEW s \in summaries'[v]
      PROVE  LET earlier == {t \in summaries'[v] : t.revision < s.revision}
             IN  /\ s.revision > 0
                 /\ earlier # {} => \E t \in earlier :
                      t.revision + 1 = s.revision /\ t.covered < s.covered
  <2>1. s \in summaries[v]
    BY <1>7
  <2> QED BY <1>4, <1>6, <2>1 DEF Loadable
<1>8. Loadable(v, messages[v])'
  BY <1>5, <1>7 DEF Loadable
<1> QED BY <1>3, <1>8

\* A turn begins: it is the newest, and what it replaces was.
LEMMA HistoryBegin ==
  ASSUME RunsInv, HistoryInv, ClockAdvances, NEW c \in Calls, BeginTurn(c)
  PROVE  HistoryInv'
<1>1. PICK v \in Conversations : v = call[c].conversation
  BY Begun
<1> DEFINE p == call[c].previous
<1>2. /\ Holds(c, v) /\ c \notin ToSet(order) /\ c \notin DOMAIN runs
      /\ DOMAIN runs' = DOMAIN runs \cup {c}
      /\ \A r \in DOMAIN runs : runs'[r] = runs[r]
      /\ runs'[c].conversation = v /\ runs'[c].user = call[c].user
      /\ order' = InsertAt(order, Len(order) + 1, c)
      /\ p = Nil => UNCHANGED <<messages, summaries>>
      /\ p # Nil => /\ p \in RunsOf(v) /\ p = NewestOf(RunsOf(v))
                    /\ call[c].user # Nil
                    /\ runs[p].user = call[c].user
                    /\ RemoveTurn(v, p)
      /\ Pc(c) = "begin" /\ Advance(c, "load")
  <2>1. PICK k \in 1..Len(order) + 1 :
          /\ ClockAdvances => k = Len(order) + 1
          /\ order' = InsertAt(order, k, c)
    BY Begun
  <2>2. order' = InsertAt(order, Len(order) + 1, c)
    BY <2>1
  <2>3. /\ Holds(c, v) /\ c \notin ToSet(order) /\ c \notin DOMAIN runs
        /\ DOMAIN runs' = DOMAIN runs \cup {c}
        /\ \A r \in DOMAIN runs : runs'[r] = runs[r]
        /\ runs'[c] = [conversation |-> v, user |-> call[c].user,
                       status |-> "RUNNING", iteration |-> 0]
        /\ Pc(c) = "begin" /\ Advance(c, "load")
    BY <1>1, Begun
  <2>4. /\ p = Nil => UNCHANGED <<messages, summaries>>
        /\ p # Nil => /\ p \in RunsOf(v) /\ p = NewestOf(RunsOf(v))
                      /\ call[c].user # Nil
                      /\ runs[p].user = call[c].user
                      /\ RemoveTurn(v, p)
    BY <1>1, Begun
  <2> HIDE DEF p
  <2> QED BY <2>2, <2>3, <2>4
<1> HIDE DEF p
<1>3. /\ TypeOK /\ order \in Seq(Calls)
      /\ \A i, j \in DOMAIN order : order[i] = order[j] => i = j
  BY DEF RunsInv, TypeOK, OrderIsStrict
<1>4. /\ \A r, q : Earlier(r, q) => Earlier(r, q)'
      /\ \A r \in ToSet(order) : Earlier(r, c)'
  <2>1. Len(order) + 1 \in 1..Len(order) + 1
    BY <1>3
  <2> QED BY <1>2, <1>3, <2>1, InsertedRun
<1>5. RunsOf(v) \subseteq ToSet(order)
  BY <1>3 DEF TypeOK, RunsOf
<1>6. /\ RunsOf(v)' = RunsOf(v) \cup {c}
      /\ \A w \in Conversations \ {v} : RunsOf(w)' = RunsOf(w)
      /\ \A r \in RunsOf(v) : runs'[r].user = runs[r].user /\ r # c
      /\ \A w \in Conversations \ {v} : \A r \in RunsOf(w) : runs'[r].user = runs[r].user
  BY <1>2 DEF RunsOf
<1>7. /\ messages'[v] \subseteq messages[v] /\ summaries'[v] \subseteq summaries[v]
      /\ p = Nil => messages'[v] = messages[v] /\ summaries'[v] = summaries[v]
      /\ p # Nil => /\ messages'[v] = {m \in messages[v] : m.run # p}
                    /\ summaries'[v] = {s \in summaries[v] : s.source # p}
      /\ \A w \in Conversations \ {v} : messages'[w] = messages[w] /\ summaries'[w] = summaries[w]
  <2>1. /\ messages \in [Conversations -> SUBSET Message]
        /\ summaries \in [Conversations -> SUBSET Summary]
    BY <1>3 DEF TypeOK
  <2>2. CASE p = Nil
    BY <1>2, <2>2
  <2>3. CASE p # Nil
    BY <1>2, <2>1, <2>3 DEF RemoveTurn
  <2> QED BY <2>2, <2>3
<1>8. p # Nil => IsNewest(p, v)
  BY <1>2, <1>3, <1>5, Newest DEF IsNewest
<1>9. History(v)
  BY DEF HistoryInv
<1>10. \A m \in messages[v] : m.run \in RunsOf(v)
  BY <1>3 DEF TypeOK
<1>11. Counted(messages'[v]) /\ Paired(messages'[v]) /\ Loadable(v, messages[v])'
  <2>1. CASE p # Nil
    BY <1>2, <1>6, <1>7, <1>8, <1>9, <2>1, WithoutNewest
  <2>2. CASE p = Nil
    <3>1. \A s : ValidBoundary(v, messages[v], s) => ValidBoundary(v, messages[v], s)'
      BY <1>6, <1>7, <2>2 DEF ValidBoundary
    <3>2. Loadable(v, messages[v])'
      BY <1>7, <1>9, <2>2, <3>1 DEF History, Summarized, Loadable
    <3> QED BY <1>7, <1>9, <2>2, <3>2 DEF History
  <2> QED BY <2>1, <2>2
<1>12. ASSUME NEW m \in messages'[v], call[c].user # Nil PROVE runs[m.run].user # call[c].user
  <2>1. m \in messages[v] /\ m.run \in RunsOf(v) /\ m.run \in DOMAIN runs
    BY <1>7, <1>10 DEF RunsOf
  <2>2. CASE p = Nil
    <3>1. AttemptsOf(call[c].user) = {}
      BY <1>2, <1>12, <2>2 DEF RunsInv, Attempting, p
    <3> QED BY <2>1, <3>1 DEF AttemptsOf
  <2>3. CASE p # Nil
    <3> SUFFICES ASSUME runs[m.run].user = call[c].user PROVE FALSE
      OBVIOUS
    <3>1. m.run # p
      BY <1>7, <2>3
    <3>2. Earlier(p, m.run)
      BY <1>2, <1>9, <2>1, <2>3, <3>1 DEF History, ByRun
    <3>3. Earlier(m.run, p)
      BY <1>8, <2>1, <2>3, <3>1 DEF IsNewest
    <3> QED BY <1>3, <3>2, <3>3, EarlierIsStrict
  <2> QED BY <2>2, <2>3
<1>13. ByRun(v)'
  <2>1. ASSUME NEW m \in messages'[v], NEW n \in messages'[v], m.sequence < n.sequence
        PROVE  m.run = n.run \/ Earlier(m.run, n.run)'
    BY <1>4, <1>7, <1>9, <2>1 DEF History, ByRun
  <2>2. ASSUME NEW m \in messages'[v], NEW q \in RunsOf(v)',
               runs'[q].user = runs'[m.run].user, runs'[q].user # Nil
        PROVE  q = m.run \/ Earlier(q, m.run)'
    <3>1. m \in messages[v] /\ m.run \in RunsOf(v) /\ runs'[m.run].user = runs[m.run].user
      BY <1>6, <1>7, <1>10
    <3>2. q # c
      BY <1>2, <1>12, <2>2, <3>1
    <3>3. q \in RunsOf(v) /\ runs'[q].user = runs[q].user
      BY <1>6, <2>2, <3>2
    <3> QED BY <1>4, <1>9, <2>2, <3>1, <3>3 DEF History, ByRun
  <2> QED BY <2>1, <2>2 DEF ByRun
<1>14. Summarized(v)'
  BY <1>4, <1>7, <1>9, <1>11 DEF History, Summarized
<1>15. History(v)'
  BY <1>11, <1>13, <1>14 DEF History, Counted, Paired, IsBefore
<1>16. ASSUME NEW w \in Conversations \ {v} PROVE History(w)'
  BY <1>3, <1>4, <1>6, <1>7, SameHistory DEF HistoryInv
<1>17. /\ \A d \in Calls \ {c} : call'[d] = call[d]
       /\ Pc(c)' = "load" /\ call'[c].conversation = v
  BY <1>1, <1>2, <1>3, Advanced DEF Serving, Executing
<1>18. ASSUME NEW d \in Calls \ {c} PROVE Working(d)'
  <2> SUFFICES ASSUME Turn(d)' PROVE Working(d)'
    BY DEF Working
  <2>1. Turn(d) /\ Pc(d)' = Pc(d)
    BY <1>17 DEF Pc, Turn
  <2>2. PICK w \in Conversations \ {v} : w = call[d].conversation
    BY <1>2, <2>1, OneTurn
  <2>3. Working(d) /\ call'[d].conversation = w
    BY <1>17, <2>2 DEF HistoryInv
  <2> QED BY <1>4, <1>6, <1>7, <2>1, <2>2, <2>3, SameWork
<1>19. Working(c)'
  <2>1. IsNewest(c, v)'
    BY <1>4, <1>5, <1>6 DEF IsNewest
  <2>2. \A m \in messages'[v] : m.run # c
    BY <1>6, <1>7, <1>10
  <2> QED BY <1>17, <2>1, <2>2 DEF Working
<1> QED BY <1>15, <1>16, <1>18, <1>19 DEF HistoryInv

LEMMA HistoryRestart ==
  ASSUME HistoryInv, RunsInv, Restart
  PROVE  HistoryInv'
<1>1. UNCHANGED database
  BY DEF Restart
<1>2. \A d \in Calls : ~Turn(d)'
  BY DEF Restart, Turn, Executing, Idle, Done
<1>3. \A r, q : Earlier(r, q) => Earlier(r, q)'
  BY <1>1 DEF Earlier, database
<1>4. \A v \in Conversations : /\ RunsOf(v)' = RunsOf(v)
                               /\ \A r \in RunsOf(v) : runs'[r].user = runs[r].user
  BY <1>1 DEF RunsOf, database
<1>5. \A v \in Conversations : History(v)'
  BY <1>1, <1>3, <1>4, SameHistory DEF HistoryInv, RunsInv, database
<1>6. \A d \in Calls : Working(d)'
  BY <1>2 DEF Working
<1> QED BY <1>5, <1>6 DEF HistoryInv

\* A request that is not, and does not become, a turn: Submit to Conflict.
LEMMA HistoryOther ==
  ASSUME RunsInv, HistoryInv, NEW c \in Calls,
         \/ SubmitTurn(c) \/ RequestDelete(c) \/ Refuse(c) \/ FailUnrecorded(c) \/ Conflict(c)
         \/ OpenConversation(c) \/ FindAttempt(c) \/ KeepSummaries(c) \/ CheckLimit(c)
         \/ Finish(c) \/ Fail(c)
  PROVE  HistoryInv'
<1>1. UNCHANGED <<order, messages, summaries>>
  BY DEF SubmitTurn, RequestDelete, Refuse, FailUnrecorded, Conflict, OpenConversation,
         FindAttempt, KeepSummaries, CheckLimit, Finish, Fail, database
<1>2. /\ DOMAIN runs' = DOMAIN runs
      /\ \A r \in DOMAIN runs : runs'[r].user = runs[r].user
                                  /\ runs'[r].conversation = runs[r].conversation
  <2>1. CASE CheckLimit(c) \/ Finish(c) \/ Fail(c)
    <3>1. c \in DOMAIN runs
      <4>1. Turn(c)
        BY <2>1 DEF CheckLimit, Finish, Fail, Turn, Executing
      <4> QED BY <4>1 DEF RunsInv, TypeOK
    <3>2. \A r \in DOMAIN runs :
            runs[r] \in [conversation : Conversations, user : UserMessages \cup {Nil},
                         status : Statuses, iteration : 0..MaxIterations]
      BY DEF RunsInv, TypeOK
    <3>3. \/ runs' = runs
          \/ runs' = [runs EXCEPT ![c].iteration = @ + 1]
          \/ \E status \in Statuses : runs' = [runs EXCEPT ![c].status = status]
      BY <2>1 DEF CheckLimit, Finish, Fail, FinishRun, Statuses
    <3> QED BY <3>1, <3>2, <3>3
  <2>2. CASE ~(CheckLimit(c) \/ Finish(c) \/ Fail(c))
    <3>1. runs' = runs
      BY <2>2 DEF SubmitTurn, RequestDelete, Refuse, FailUnrecorded, Conflict,
                  OpenConversation, FindAttempt, KeepSummaries, database
    <3> QED BY <3>1
  <2> QED BY <2>1, <2>2
<1>3. /\ \A d \in Calls \ {c} : call'[d] = call[d]
      /\ Turn(c)' => /\ Turn(c) /\ call'[c].conversation = call[c].conversation
                     /\ \/ Pc(c) = "compact" /\ Pc(c)' = "model"
                        \/ Pc(c) = "limit" /\ Pc(c)' \in {"tool", "reject"}
  <2> DEFINE Q == /\ \A d \in Calls \ {c} : call'[d] = call[d]
                  /\ Pc(c)' \notin Executing
  <2>1. ASSUME TypeOK, SubmitTurn(c) PROVE Q
    BY <2>1, Submitted DEF Executing
  <2>2. ASSUME TypeOK, RequestDelete(c) PROVE Q
    BY <2>2, DeletionRequested DEF Executing
  <2>3. ASSUME TypeOK, OpenConversation(c) PROVE Q
    <3>1. /\ \A d \in Calls \ {c} : call'[d] = call[d]
          /\ Pc(c)' = "begin"
      BY <2>3, Opened
    <3> QED BY <3>1 DEF Executing
  <2>4. ASSUME TypeOK, FindAttempt(c) PROVE Q
    <3>1. /\ \A d \in Calls \ {c} : call'[d] = call[d]
          /\ Pc(c)' = "begin"
      BY <2>4, Found
    <3> QED BY <3>1 DEF Executing
  <2>5. ASSUME TypeOK, End(c) PROVE Q
    <3>1. /\ \A d \in Calls \ {c} : call'[d] = call[d]
          /\ Pc(c)' = "done"
      BY <2>5, Ended
    <3> QED BY <3>1 DEF Executing
  <2>6. ASSUME TypeOK, KeepSummaries(c)
        PROVE  /\ \A d \in Calls \ {c} : call'[d] = call[d]
               /\ Turn(c) /\ call'[c].conversation = call[c].conversation
               /\ Pc(c) = "compact" /\ Pc(c)' = "model"
    <3>1. Pc(c) = "compact" /\ Pc(c) \in Serving /\ Turn(c)
      BY <2>6 DEF KeepSummaries, Serving, Executing, Pc, Turn
    <3> QED BY <2>6, <3>1, Compacted DEF KeepSummaries
  <2>7. ASSUME TypeOK, CheckLimit(c)
        PROVE  /\ \A d \in Calls \ {c} : call'[d] = call[d]
               /\ Turn(c) /\ call'[c].conversation = call[c].conversation
               /\ Pc(c) = "limit" /\ Pc(c)' \in {"tool", "reject"}
    <3>1. Pc(c) = "limit" /\ Pc(c) \in Serving /\ Turn(c)
      BY <2>7 DEF CheckLimit, Serving, Executing, Pc, Turn
    <3>2. PICK pc \in {"tool", "reject"} : Advance(c, pc)
      BY <2>7 DEF CheckLimit
    <3>3. pc \in Serving
      BY DEF Serving, Executing
    <3> QED BY <2>7, <3>1, <3>2, <3>3, Advanced
  <2>8. Refuse(c) \/ FailUnrecorded(c) \/ Conflict(c) \/ Finish(c) \/ Fail(c) => End(c)
    BY DEF Refuse, FailUnrecorded, Conflict, Finish, Fail
  <2>9. TypeOK
    BY DEF RunsInv
  <2>10. Q => /\ \A d \in Calls \ {c} : call'[d] = call[d]
              /\ ~Turn(c)'
    BY DEF Turn, Pc
  <2> HIDE DEF Q
  <2> QED BY <2>1, <2>2, <2>3, <2>4, <2>5, <2>6, <2>7, <2>8, <2>9, <2>10
<1> QED BY <1>1, <1>2, <1>3, HistoryKept

LEMMA HistoryInit == Init => HistoryInv
<1> SUFFICES ASSUME Init PROVE HistoryInv
  OBVIOUS
<1>1. \A d \in Calls : Working(d)
  BY DEF Init, Idle, Turn, Executing, Working
<1>2. ASSUME NEW v \in Conversations PROVE History(v)
  <2>1. messages[v] = {} /\ summaries[v] = {}
    BY DEF Init
  <2>2. Counted({}) /\ Paired({})
    BY FS_EmptySet DEF Counted, Paired
  <2>3. ByRun(v) /\ Summarized(v)
    BY <2>1 DEF ByRun, Summarized, Loadable
  <2> QED BY <2>1, <2>2, <2>3 DEF History
<1> QED BY <1>1, <1>2 DEF HistoryInv

LEMMA HistoryNext ==
  ASSUME RunsInv, HistoryInv, ClockAdvances, [Next]_vars
  PROVE  HistoryInv'
<1>1. CASE Restart
  BY <1>1, HistoryRestart
<1>2. ASSUME NEW c \in Calls,
             SubmitTurn(c) \/ RequestDelete(c) \/ Refuse(c) \/ FailUnrecorded(c) \/ Work(c)
      PROVE  HistoryInv'
  BY <1>2, HistoryOther, HistoryBegin, HistoryLoad, HistoryAnswer, HistorySummarize,
     HistoryDelete DEF Work
<1>3. CASE UNCHANGED vars
  <2>1. UNCHANGED <<runs, order, messages, summaries, call>>
    BY <1>3 DEF vars
  <2>2. \A r, q : Earlier(r, q) => Earlier(r, q)'
    BY <2>1 DEF Earlier
  <2>3. \A v \in Conversations : /\ RunsOf(v)' = RunsOf(v)
                                 /\ \A r \in RunsOf(v) : runs'[r].user = runs[r].user
    BY <2>1 DEF RunsOf
  <2>4. \A v \in Conversations : History(v)'
    BY <2>1, <2>2, <2>3, SameHistory DEF HistoryInv, RunsInv
  <2>5. ASSUME NEW d \in Calls PROVE Working(d)'
    <3> SUFFICES ASSUME Turn(d)' PROVE Working(d)'
      BY DEF Working
    <3>1. Turn(d) /\ Pc(d)' = Pc(d)
      BY <2>1 DEF Turn, Pc
    <3>2. PICK w \in Conversations : w = call[d].conversation
      BY <3>1 DEF RunsInv, Started, Turn, Assigned, Pc
    <3>3. Working(d) /\ call'[d].conversation = w
      BY <2>1, <3>2 DEF HistoryInv
    <3> QED BY <2>1, <2>2, <2>3, <3>1, <3>2, <3>3, SameWork
  <2> QED BY <2>4, <2>5 DEF HistoryInv
<1> QED BY <1>1, <1>2, <1>3 DEF Next

-----------------------------------------------------------------------------
(* What the invariant says of a history *)

LEMMA SoundHistory ==
  ASSUME RunsInv, HistoryInv
  PROVE  HistoryIsSound
<1>1. HistoryStaysPaired
  BY DEF HistoryInv, History, Counted, HistoryStaysPaired
<1>2. SummariesStayValid
  BY DEF HistoryInv, History, Summarized, SummariesStayValid
<1>3. OneTurnPerUserMessage
  <2> SUFFICES ASSUME NEW m \in UserMessages
               PROVE  /\ \A r, q \in AttemptsOf(m) : runs[r].conversation = runs[q].conversation
                      /\ \A v \in Conversations : \A x, y \in messages[v] :
                           x.run \in AttemptsOf(m) /\ y.run \in AttemptsOf(m) => x.run = y.run
    BY DEF OneTurnPerUserMessage
  <2>1. m # Nil
    BY NoNil
  <2>2. \A r, q \in AttemptsOf(m) : runs[r].conversation = runs[q].conversation
    BY <2>1 DEF RunsInv, AttemptsTogether, AttemptsOf
  <2>3. ASSUME NEW v \in Conversations, NEW x \in messages[v], NEW y \in messages[v],
               x.run \in AttemptsOf(m), y.run \in AttemptsOf(m)
        PROVE  x.run = y.run
    <3>1. x.run \in RunsOf(v) /\ y.run \in RunsOf(v)
      BY DEF RunsInv, TypeOK
    <3>2. runs[x.run].user = m /\ runs[y.run].user = m
      BY <2>3 DEF AttemptsOf
    <3>3. ByRun(v)
      BY DEF HistoryInv, History
    <3>4. /\ x.run = y.run \/ Earlier(x.run, y.run)
          /\ y.run = x.run \/ Earlier(y.run, x.run)
      BY <2>1, <3>1, <3>2, <3>3 DEF ByRun
    <3> QED BY <3>4, EarlierIsStrict DEF RunsInv, TypeOK, OrderIsStrict
  <2> QED BY <2>2, <2>3
<1> QED BY <1>1, <1>2, <1>3 DEF HistoryIsSound

\* Rows are appended behind all others.
LEMMA AppendsLater ==
  ASSUME TypeOK, NEW v \in Conversations, Counted(messages[v]), NEW r, NEW kinds \in Seq(Kinds),
         AppendMessages(v, r, kinds), NEW w \in Conversations
  PROVE  /\ messages[w] \subseteq messages'[w]
         /\ \A m \in messages'[w] \ messages[w], n \in messages[w] : n.sequence < m.sequence
<1> DEFINE l == LastSequence(messages[v])
           new == {[sequence |-> l + i, run |-> r, kind |-> kinds[i]] : i \in DOMAIN kinds}
<1>1. messages \in [Conversations -> SUBSET Message]
  BY DEF TypeOK
<1>2. l \in Nat /\ \A n \in messages[v] : n.sequence \in 1..l
  BY <1>1, LastOfCounted
<1>3. messages' = [messages EXCEPT ![v] = messages[v] \cup new]
  BY DEF AppendMessages
<1> HIDE DEF l
<1>4. DOMAIN kinds = 1..Len(kinds) /\ Len(kinds) \in Nat
  OBVIOUS
<1>5. \A m \in new : \E i \in 1..Len(kinds) : m.sequence = l + i
  BY <1>4
<1>6. \A m \in new, n \in messages[v] : n.sequence < m.sequence
  <2> HIDE DEF new
  <2> QED BY <1>2, <1>4, <1>5
<1> HIDE DEF new
<1>7. messages'[w] = IF w = v THEN messages[v] \cup new ELSE messages[w]
  BY <1>1, <1>3
<1>8. CASE w = v
  BY <1>6, <1>7, <1>8
<1>9. CASE w # v
  BY <1>7, <1>9
<1> QED BY <1>8, <1>9

\* What a step may do to the history of a conversation.
Replaced(v) ==
  LET added == messages'[v] \ messages[v]
      gone  == messages[v] \ messages'[v]
  IN  /\ \A m \in added, n \in messages[v] : n.sequence < m.sequence
      /\ conversation'[v] # "deleted" /\ gone # {} =>
           /\ added = {}
           /\ \A m \in gone, n \in messages'[v] : n.sequence < m.sequence
           /\ \E r \in DOMAIN runs :
                runs[r].status # "RUNNING" /\ \A m \in gone : m.run = r

LEMMA TailReplaced ==
  ASSUME RunsInv, HistoryInv, NEW c \in Calls, BeginTurn(c), NEW w \in Conversations
  PROVE  Replaced(w)
<1>1. PICK v \in Conversations : v = call[c].conversation
  BY Begun
<1>2. PICK p : p = call[c].previous
  OBVIOUS
<1>3. /\ p = Nil => UNCHANGED messages
      /\ p # Nil => /\ p \in RunsOf(v) /\ p = NewestOf(RunsOf(v))
                    /\ runs[p].status # "RUNNING"
                    /\ messages' = [messages EXCEPT ![v] = {m \in @ : m.run # p}]
  BY <1>1, <1>2, Begun, ZenonT(60) DEF RemoveTurn
<1>4. messages \in [Conversations -> SUBSET Message]
  BY DEF RunsInv, TypeOK
<1>5. CASE p = Nil \/ w # v
  <2>1. messages'[w] = messages[w]
    BY <1>3, <1>4, <1>5
  <2> QED BY <2>1 DEF Replaced
<1>6. CASE p # Nil /\ w = v
  <2>1. messages'[v] = {m \in messages[v] : m.run # p} /\ p \in RunsOf(v) /\ p \in DOMAIN runs
        /\ runs[p].status # "RUNNING"
    BY <1>3, <1>4, <1>6 DEF RunsOf
  <2>2. IsNewest(p, v)
    <3>1. order \in Seq(Calls) /\ RunsOf(v) \subseteq ToSet(order)
      BY DEF RunsInv, TypeOK, RunsOf
    <3> QED BY <1>3, <1>6, <3>1, Newest DEF IsNewest
  <2>3. PICK k \in Nat : messages'[v] = {m \in messages[v] : m.sequence <= k}
    BY <2>1, <2>2, NewestIsTail DEF HistoryInv
  <2>4. ASSUME NEW m \in messages[v] \ messages'[v], NEW n \in messages'[v]
        PROVE  n.sequence < m.sequence
    <3>1. m.sequence \in Nat /\ n.sequence \in Nat
      BY <1>4, <2>3 DEF Message
    <3> QED BY <2>3, <3>1
  <2>5. \A m \in messages[v] \ messages'[v] : m.run = p
    BY <2>1
  <2>6. messages'[v] \ messages[v] = {}
    BY <2>1
  <2> QED BY <1>6, <2>1, <2>4, <2>5, <2>6 DEF Replaced
<1> QED BY <1>5, <1>6

LEMMA OnlyTails ==
  ASSUME RunsInv, HistoryInv, [Next]_vars, NEW w \in Conversations
  PROVE  Replaced(w)
<1>1. ASSUME UNCHANGED messages PROVE Replaced(w)
  BY <1>1 DEF Replaced
<1>2. ASSUME NEW c \in Calls, NEW kinds \in Seq(Kinds), Turn(c),
             AppendMessages(call[c].conversation, c, kinds)
      PROVE  Replaced(w)
  <2>1. PICK v \in Conversations : v = call[c].conversation
    BY <1>2 DEF RunsInv, Started, Turn, Assigned, Pc
  <2>2. TypeOK /\ Counted(messages[v])
    BY DEF RunsInv, HistoryInv, History
  <2>3. /\ messages[w] \subseteq messages'[w]
        /\ \A m \in messages'[w] \ messages[w], n \in messages[w] : n.sequence < m.sequence
    BY <1>2, <2>1, <2>2, AppendsLater
  <2>4. messages[w] \ messages'[w] = {}
    BY <2>3
  <2> QED BY <2>3, <2>4 DEF Replaced
<1>3. ASSUME NEW c \in Calls, LoadTurn(c) PROVE Replaced(w)
  <2> DEFINE v == call[c].conversation
  <2>0. Repairs(v) \in Seq(Kinds) /\ "human" \in Kinds
    <3>1. <<>> \in Seq(Kinds) /\ <<"result">> \in Seq(Kinds)
      BY DEF Kinds
    <3> QED BY <3>1 DEF Repairs, Kinds
  <2>1. Append(Repairs(v), "human") \in Seq(Kinds)
    BY <2>0
  <2>2. Turn(c) /\ AppendMessages(v, c, Append(Repairs(v), "human"))
    BY <1>3 DEF LoadTurn, Turn, Executing
  <2> HIDE DEF v
  <2> QED BY <1>2, <2>1, <2>2 DEF v
<1>4. ASSUME NEW c \in Calls, CallModel(c) \/ RecordResults(c) PROVE Replaced(w)
  <2>1. PICK kind \in {"reply", "call", "result"} : AppendMessages(call[c].conversation, c, <<kind>>)
    BY <1>4 DEF CallModel, RecordResults
  <2>2. <<kind>> \in Seq(Kinds)
    BY DEF Kinds
  <2>3. Turn(c)
    BY <1>4 DEF CallModel, RecordResults, Turn, Executing
  <2> QED BY <1>2, <2>1, <2>2, <2>3
<1>5. ASSUME NEW c \in Calls, DeleteConversation(c) PROVE Replaced(w)
  <2>1. PICK v \in Conversations : v = call[c].conversation
    BY <1>5, RequestShape DEF DeleteConversation, RunsInv, Deletion, Pc
  <2>2. /\ messages' = [messages EXCEPT ![v] = {}]
        /\ conversation' = [conversation EXCEPT ![v] = "deleted"]
    BY <1>5, <2>1 DEF DeleteConversation
  <2>3. /\ messages'[w] = IF w = v THEN {} ELSE messages[w]
        /\ w = v => conversation'[w] = "deleted"
    BY <2>2 DEF RunsInv, TypeOK
  <2>4. CASE w = v
    BY <2>3, <2>4 DEF Replaced
  <2>5. CASE w # v
    BY <2>3, <2>5 DEF Replaced
  <2> QED BY <2>4, <2>5
<1>6. CASE Restart \/ UNCHANGED vars
  BY <1>1, <1>6 DEF Restart, vars, database
<1>7. ASSUME NEW c \in Calls,
             SubmitTurn(c) \/ RequestDelete(c) \/ Refuse(c) \/ FailUnrecorded(c) \/ Work(c)
      PROVE  Replaced(w)
  <2>1. CASE \/ BeginTurn(c) \/ LoadTurn(c) \/ CallModel(c) \/ RecordResults(c)
             \/ DeleteConversation(c)
    BY <1>3, <1>4, <1>5, <2>1, TailReplaced
  <2>2. CASE ~(\/ BeginTurn(c) \/ LoadTurn(c) \/ CallModel(c) \/ RecordResults(c)
               \/ DeleteConversation(c))
    <3>1. UNCHANGED messages
      BY <1>7, <2>2 DEF SubmitTurn, RequestDelete, Refuse, FailUnrecorded, Work,
           OpenConversation, FindAttempt, Conflict, KeepSummaries, AppendSummary, CheckLimit,
           Finish, Fail, database
    <3> QED BY <1>1, <3>1
  <2> QED BY <2>1, <2>2
<1> QED BY <1>6, <1>7 DEF Next

-----------------------------------------------------------------------------
(* The queues of the locks *)

LockKeys == Conversations \cup UserMessages

\* Who stands in a queue is a request that is on its way to work with what the
\* queue is about: with a message from the lookup on, with a conversation after
\* the lookup.
Claims(c, key) ==
  IF key \in Conversations
  THEN Pc(c) \in {"begin", "deleting"} \cup Executing /\ call[c].conversation = key
  ELSE Pc(c) \in {"lookup", "begin"} \cup Executing /\ call[c].user = key

OneEach(s) == \A i, j \in DOMAIN s : s[i] = s[j] => i = j

QueuesInv ==
  \A key \in LockKeys :
    OneEach(queue[key]) /\ \A c \in ToSet(queue[key]) : Claims(c, key)

InProgress == {c \in Calls : call[c] \notin {Idle, Done}}

Waits(c) == \E key \in DOMAIN queue : c \in ToSet(queue[key]) /\ ~Holds(c, key)

StandsBefore(d, c) ==
  \E key \in DOMAIN queue : \E i, j \in DOMAIN queue[key] :
    i < j /\ queue[key][i] = d /\ queue[key][j] = c

\* In every set of requests that wait for a lock, one stands behind a request
\* that is in progress and not in the set.
NobodyWaitsInACircle ==
  \A S \in SUBSET {c \in InProgress : Waits(c)} :
    S = {} \/ \E c \in S, d \in InProgress \ S : StandsBefore(d, c)

\* Where everybody stands once, to remove the first place of e removes e.
LEMMA RemovedOnce ==
  ASSUME NEW S, NEW s \in Seq(S), OneEach(s), NEW e
  PROVE  /\ OneEach(RemoveFirst(s, e))
         /\ ToSet(RemoveFirst(s, e)) \subseteq ToSet(s) \ {e}
<1> DEFINE I == {i \in 1..Len(s) : s[i] = e}
<1>1. CASE I = {}
  <2>1. RemoveFirst(s, e) = s
    BY <1>1 DEF RemoveFirst
  <2>2. DOMAIN s = 1..Len(s)
    OBVIOUS
  <2>3. e \notin ToSet(s)
    BY <1>1, <2>2 DEF ToSet
  <2> QED BY <2>1, <2>3
<1>2. CASE I # {}
  <2> DEFINE i == Min(I)
             a == SubSeq(s, 1, i - 1)
             b == SubSeq(s, i + 1, Len(s))
             n == Len(s)
  <2>1. i \in 1..n /\ s[i] = e
    <3>1. I \in SUBSET Nat
      OBVIOUS
    <3>2. Min(I) \in I
      BY <1>2, <3>1, MinIsLeast
    <3> QED BY <3>2
  <2>2. RemoveFirst(s, e) = a \o b
    BY <1>2 DEF RemoveFirst, RemoveAt, SelectInSeq
  <2>3. n \in Nat
    OBVIOUS
  <2> HIDE DEF i
  <2>4. a \in Seq(S) /\ Len(a) = i - 1 /\ \A j \in 1..i - 1 : a[j] = s[j]
    BY <2>1
  <2>5. b \in Seq(S) /\ Len(b) = n - i /\ \A j \in 1..n - i : b[j] = s[i + j]
    BY <2>1
  <2> HIDE DEF a, b, n
  <2>6. a \o b \in Seq(S) /\ Len(a \o b) = n - 1
    <3>1. a \o b \in Seq(S) /\ Len(a \o b) = Len(a) + Len(b)
      BY <2>4, <2>5, Joined
    <3> QED BY <2>1, <2>3, <2>4, <2>5, <3>1
  <2>7. ASSUME NEW j \in 1..n - 1
        PROVE  (a \o b)[j] = IF j < i THEN s[j] ELSE s[j + 1]
    <3>1. CASE j < i
      <4>1. j \in 1..Len(a)
        BY <2>1, <2>3, <2>4, <3>1
      <4>2. (a \o b)[j] = a[j]
        BY <2>4, <2>5, <4>1, Joined
      <4> QED BY <2>1, <2>3, <2>4, <3>1, <4>2
    <3>2. CASE ~(j < i)
      <4>1. PICK k : k = j - Len(a)
        OBVIOUS
      <4>2. k \in 1..Len(b) /\ j = Len(a) + k
        BY <2>1, <2>3, <2>4, <2>5, <3>2, <4>1
      <4>3. (a \o b)[j] = b[k]
        BY <2>4, <2>5, <4>2, Joined
      <4>4. i + k = j + 1
        BY <2>1, <2>3, <2>4, <4>2
      <4> QED BY <2>5, <3>2, <4>2, <4>3, <4>4
    <3> QED BY <3>1, <3>2
  <2>8. DOMAIN s = 1..n /\ DOMAIN (a \o b) = 1..n - 1
    BY <2>6 DEF n
  <2>9. ASSUME NEW j \in 1..n - 1
        PROVE  \E k \in 1..n : k # i /\ (a \o b)[j] = s[k] /\ k = IF j < i THEN j ELSE j + 1
    <3>1. PICK k : k = IF j < i THEN j ELSE j + 1
      OBVIOUS
    <3>2. (a \o b)[j] = s[k]
      BY <2>7, <3>1
    <3>3. k \in 1..n /\ k # i
      BY <2>1, <2>3, <3>1
    <3> QED BY <3>1, <3>2, <3>3
  <2>10. OneEach(a \o b)
    <3> SUFFICES ASSUME NEW j \in 1..n - 1, NEW l \in 1..n - 1, (a \o b)[j] = (a \o b)[l]
                 PROVE  j = l
      BY <2>8 DEF OneEach
    <3>1. PICK k \in 1..n : (a \o b)[j] = s[k] /\ k = IF j < i THEN j ELSE j + 1
      BY <2>9
    <3>2. PICK m \in 1..n : (a \o b)[l] = s[m] /\ m = IF l < i THEN l ELSE l + 1
      BY <2>9
    <3>3. k = m
      BY <2>8, <3>1, <3>2 DEF OneEach
    <3> QED BY <2>1, <2>3, <3>1, <3>2, <3>3
  <2>11. ASSUME NEW j \in 1..n - 1
         PROVE  (a \o b)[j] \in ToSet(s) \ {e}
    <3>1. PICK k \in 1..n : k # i /\ (a \o b)[j] = s[k]
      BY <2>9
    <3>2. s[k] # e
      BY <2>1, <2>8, <3>1 DEF OneEach
    <3> QED BY <2>8, <3>1, <3>2 DEF ToSet
  <2>12. ToSet(a \o b) \subseteq ToSet(s) \ {e}
    BY <2>8, <2>11 DEF ToSet
  <2> QED BY <2>2, <2>10, <2>12
<1> QED BY <1>1, <1>2

\* Who joins the end of a queue for the first time stands there once.
LEMMA JoinedOnce ==
  ASSUME NEW S, NEW s \in Seq(S), OneEach(s), NEW e \in S, e \notin ToSet(s)
  PROVE  OneEach(Append(s, e)) /\ ToSet(Append(s, e)) = ToSet(s) \cup {e}
<1> DEFINE n == Len(s)
           t == Append(s, e)
<1>1. n \in Nat /\ DOMAIN s = 1..n /\ DOMAIN t = 1..n + 1
      /\ t[n + 1] = e /\ \A i \in 1..n : t[i] = s[i]
  OBVIOUS
<1> HIDE DEF n, t
<1>2. \A i \in 1..n : s[i] # e
  BY <1>1 DEF ToSet
<1>3. 1..n + 1 = (1..n) \cup {n + 1}
  BY <1>1
<1>4. OneEach(t)
  BY <1>1, <1>2, <1>3 DEF OneEach
<1>5. ToSet(t) = ToSet(s) \cup {e}
  BY <1>1, <1>3 DEF ToSet
<1> QED BY <1>4, <1>5 DEF t

\* Who keeps what it remembers keeps its claims.
LEMMA ClaimsKept ==
  ASSUME NEW d, call'[d] = call[d], NEW key, Claims(d, key)
  PROVE  Claims(d, key)'
  BY DEF Claims, Pc

LEMMA QueuesEnd ==
  ASSUME TypeOK, QueuesInv, NEW c \in Calls, End(c)
  PROVE  QueuesInv'
<1>1. \A d \in Calls \ {c} : call'[d] = call[d]
  BY Ended
<1>2. ASSUME NEW key \in LockKeys
      PROVE  OneEach(queue'[key]) /\ \A d \in ToSet(queue'[key]) : Claims(d, key)'
  <2>1. queue[key] \in Seq(Calls) /\ queue'[key] = RemoveFirst(queue[key], c)
    BY DEF TypeOK, LockKeys, End, ReleaseLocks
  <2>2. OneEach(queue[key]) /\ \A d \in ToSet(queue[key]) : Claims(d, key)
    BY DEF QueuesInv
  <2>3. OneEach(queue'[key]) /\ ToSet(queue'[key]) \subseteq ToSet(queue[key]) \ {c}
    BY <2>1, <2>2, RemovedOnce
  <2>4. ToSet(queue[key]) \subseteq Calls
    BY <2>1 DEF ToSet
  <2> QED BY <1>1, <2>2, <2>3, <2>4, ClaimsKept
<1> QED BY <1>2 DEF QueuesInv, LockKeys

LEMMA QueuesJoin ==
  ASSUME TypeOK, QueuesInv, NEW c \in Calls, NEW k \in LockKeys, Enqueue(c, k),
         \A d \in Calls \ {c} : call'[d] = call[d],
         c \notin ToSet(queue[k]), Claims(c, k)',
         \A key \in LockKeys : c \in ToSet(queue[key]) => Claims(c, key)'
  PROVE  QueuesInv'
<1>1. ASSUME NEW key \in LockKeys
      PROVE  OneEach(queue'[key]) /\ \A d \in ToSet(queue'[key]) : Claims(d, key)'
  <2>1. queue \in [LockKeys -> Seq(Calls)] /\ queue[key] \in Seq(Calls)
    BY DEF TypeOK, LockKeys
  <2>2. OneEach(queue[key]) /\ \A d \in ToSet(queue[key]) : Claims(d, key)
    BY DEF QueuesInv
  <2>3. ToSet(queue[key]) \subseteq Calls
    BY <2>1 DEF ToSet
  <2>4. \A d \in ToSet(queue[key]) : Claims(d, key)'
    BY <2>2, <2>3, ClaimsKept
  <2>5. CASE key = k
    <3>1. queue'[key] = Append(queue[key], c)
      BY <2>1, <2>5 DEF Enqueue
    <3>2. OneEach(queue'[key]) /\ ToSet(queue'[key]) = ToSet(queue[key]) \cup {c}
      BY <2>1, <2>2, <2>5, <3>1, JoinedOnce
    <3> QED BY <2>4, <2>5, <3>2
  <2>6. CASE key # k
    <3>1. queue'[key] = queue[key]
      BY <2>1, <2>6 DEF Enqueue
    <3> QED BY <2>2, <2>4, <3>1
  <2> QED BY <2>5, <2>6
<1> QED BY <1>1 DEF QueuesInv, LockKeys

LEMMA QueuesKept ==
  ASSUME TypeOK, QueuesInv, NEW c \in Calls, queue' = queue,
         \A d \in Calls \ {c} : call'[d] = call[d],
         \A key \in LockKeys : c \in ToSet(queue[key]) => Claims(c, key)'
  PROVE  QueuesInv'
<1>1. ASSUME NEW key \in LockKeys, NEW d \in ToSet(queue[key]) PROVE Claims(d, key)'
  <2>1. Claims(d, key) /\ d \in Calls
    BY DEF QueuesInv, TypeOK, LockKeys, ToSet
  <2>2. CASE d = c
    BY <2>2
  <2>3. CASE d # c
    BY <2>1, <2>3, ClaimsKept
  <2> QED BY <2>2, <2>3
<1> QED BY <1>1 DEF QueuesInv, LockKeys

\* A request that has the locks it needs keeps its claims.
LEMMA QueuesOn ==
  ASSUME TypeOK, QueuesInv, NEW c \in Calls, queue' = queue,
         \A d \in Calls \ {c} : call'[d] = call[d],
         Pc(c) \in Assigned, Pc(c)' \in Assigned,
         call'[c].user = call[c].user, call'[c].conversation = call[c].conversation
  PROVE  QueuesInv'
<1>1. ASSUME NEW key \in LockKeys, c \in ToSet(queue[key]) PROVE Claims(c, key)'
  <2>1. Claims(c, key)
    BY <1>1 DEF QueuesInv
  <2> QED BY <2>1 DEF Claims, Assigned
<1> QED BY <1>1, QueuesKept

\* A request that has not started stands in no queue.
LEMMA NobodyIdleStands ==
  ASSUME QueuesInv, NEW c \in Calls, Pc(c) = "idle", NEW key \in LockKeys
  PROVE  c \notin ToSet(queue[key])
<1>1. c \in ToSet(queue[key]) => Claims(c, key)
  BY DEF QueuesInv
<1> QED BY <1>1 DEF Claims, Executing

\* A request that looks up stands at most in the queue of its message.
LEMMA LookupStands ==
  ASSUME QueuesInv, NEW c \in Calls, Pc(c) = "lookup", NEW key \in LockKeys,
         c \in ToSet(queue[key])
  PROVE  key \notin Conversations /\ call[c].user = key
<1>1. Claims(c, key)
  BY DEF QueuesInv
<1> QED BY <1>1 DEF Claims, Executing

LEMMA QueuesSubmit ==
  ASSUME TypeOK, QueuesInv, NEW c \in Calls, SubmitTurn(c)
  PROVE  QueuesInv'
<1>1. PICK m \in UserMessages \cup {Nil},
           v \in {w \in Conversations : conversation[w] # "unused"} \cup {Nil},
           retry \in BOOLEAN :
        /\ call' = [call EXCEPT ![c] =
             [pc |-> "lookup", user |-> m, conversation |-> v, retry |-> retry,
              previous |-> Nil, status |-> Nil, records |-> {}, known |-> {}]]
        /\ IF m = Nil THEN UNCHANGED queue ELSE Enqueue(c, m)
  BY DEF SubmitTurn
<1>2. \A d \in Calls \ {c} : call'[d] = call[d]
  BY <1>1, Moved
<1>3. Pc(c)' = "lookup" /\ call'[c].user = m
  <2>1. call'[c] = [pc |-> "lookup", user |-> m, conversation |-> v, retry |-> retry,
                    previous |-> Nil, status |-> Nil, records |-> {}, known |-> {}]
    BY <1>1, Moved
  <2> QED BY <2>1 DEF Pc
<1>4. Pc(c) = "idle"
  BY DEF SubmitTurn, Idle, Pc
<1>5. \A key \in LockKeys : c \notin ToSet(queue[key])
  BY <1>4, NobodyIdleStands
<1>6. CASE m = Nil
  BY <1>1, <1>2, <1>5, <1>6, QueuesKept
<1>7. CASE m # Nil
  <2>1. m \in LockKeys /\ m \notin Conversations
    BY <1>7, ConversationAssumption DEF LockKeys
  <2>2. Claims(c, m)'
    BY <1>3, <2>1 DEF Claims
  <2> QED BY <1>1, <1>2, <1>5, <1>7, <2>1, <2>2, QueuesJoin
<1> QED BY <1>6, <1>7

LEMMA QueuesRequestDelete ==
  ASSUME TypeOK, QueuesInv, NEW c \in Calls, RequestDelete(c)
  PROVE  QueuesInv'
<1>1. PICK v \in Conversations :
        /\ Enqueue(c, v)
        /\ call' = [call EXCEPT ![c] = [pc |-> "deleting", conversation |-> v]]
  BY DEF RequestDelete
<1>2. \A d \in Calls \ {c} : call'[d] = call[d]
  BY <1>1, Moved
<1>3. Pc(c)' = "deleting" /\ call'[c].conversation = v
  <2>1. call'[c] = [pc |-> "deleting", conversation |-> v]
    BY <1>1, Moved
  <2> QED BY <2>1 DEF Pc
<1>4. Pc(c) = "idle"
  BY DEF RequestDelete, Idle, Pc
<1>5. \A key \in LockKeys : c \notin ToSet(queue[key])
  BY <1>4, NobodyIdleStands
<1>6. v \in LockKeys /\ Claims(c, v)'
  BY <1>3 DEF Claims, LockKeys
<1> QED BY <1>1, <1>2, <1>5, <1>6, QueuesJoin

LEMMA QueuesIdentify ==
  ASSUME TypeOK, QueuesInv, NEW c \in Calls, OpenConversation(c) \/ FindAttempt(c)
  PROVE  QueuesInv'
<1>1. PICK v \in Conversations :
        /\ Enqueue(c, v)
        /\ \A d \in Calls \ {c} : call'[d] = call[d]
        /\ Pc(c)' = "begin" /\ call'[c].conversation = v
        /\ call'[c].user = call[c].user
  BY Opened, Found
<1>2. Pc(c) = "lookup"
  BY DEF OpenConversation, FindAttempt, Identified, Pc
<1>3. v \in LockKeys /\ Claims(c, v)'
  BY <1>1 DEF Claims, LockKeys
<1>4. c \notin ToSet(queue[v])
  BY <1>2, <1>3, LookupStands
<1>5. ASSUME NEW key \in LockKeys, c \in ToSet(queue[key]) PROVE Claims(c, key)'
  BY <1>1, <1>2, <1>5, LookupStands DEF Claims
<1> QED BY <1>1, <1>3, <1>4, <1>5, QueuesJoin

LEMMA QueuesWork ==
  ASSUME RunsInv, QueuesInv, NEW c \in Calls,
         \/ BeginTurn(c) \/ LoadTurn(c) \/ KeepSummaries(c) \/ AppendSummary(c)
         \/ CallModel(c) \/ CheckLimit(c) \/ RecordResults(c)
  PROVE  QueuesInv'
<1>1. TypeOK /\ RunsInv'
  BY RunsBegin, RunsAppend, RunsKeep, RunsSummarize, RunsLimit DEF RunsInv
<1>2. queue' = queue /\ Pc(c) \in Assigned /\ Pc(c) \in Serving
  BY DEF BeginTurn, LoadTurn, KeepSummaries, AppendSummary, CallModel, CheckLimit,
         RecordResults, Assigned, Executing, Serving, Pc
<1>3. /\ \A d \in Calls \ {c} : call'[d] = call[d]
      /\ Pc(c)' \in Assigned
      /\ call'[c].user = call[c].user /\ call'[c].conversation = call[c].conversation
  <2>1. ASSUME NEW pc \in Executing, Advance(c, pc)
        PROVE  /\ \A d \in Calls \ {c} : call'[d] = call[d]
               /\ Pc(c)' \in Assigned
               /\ call'[c].user = call[c].user /\ call'[c].conversation = call[c].conversation
    <3>1. pc \in Serving /\ pc \in Assigned
      BY DEF Serving, Assigned
    <3> QED BY <1>1, <1>2, <2>1, <3>1, Advanced
  <2>2. CASE BeginTurn(c) \/ CallModel(c) \/ CheckLimit(c) \/ RecordResults(c)
    <3>1. \E pc \in Executing : Advance(c, pc)
      BY <2>2 DEF BeginTurn, CallModel, CheckLimit, RecordResults, Executing
    <3> QED BY <2>1, <3>1
  <2>3. CASE LoadTurn(c)
    <3>1. messages' \in [Conversations -> SUBSET Message]
      BY <1>1 DEF RunsInv, TypeOK
    <3>2. call[c].conversation \in Conversations
      BY <1>2 DEF RunsInv, Started
    <3>3. {"compact", "failing"} \subseteq Assigned
      BY DEF Assigned, Executing
    <3> QED BY <1>1, <2>3, <3>1, <3>2, <3>3, Loaded
  <2>4. CASE KeepSummaries(c) \/ AppendSummary(c)
    <3>1. call' = [call EXCEPT ![c].pc = "model", ![c].records = {}, ![c].known = {}]
      BY <2>4 DEF KeepSummaries, AppendSummary
    <3>2. "model" \in Assigned
      BY DEF Assigned, Executing
    <3> QED BY <1>1, <1>2, <3>1, <3>2, Compacted
  <2> QED BY <2>2, <2>3, <2>4
<1> QED BY <1>1, <1>2, <1>3, QueuesOn

LEMMA QueuesInit == Init => QueuesInv
  BY DEF Init, QueuesInv, LockKeys, OneEach, ToSet

LEMMA QueuesNext ==
  ASSUME RunsInv, QueuesInv, [Next]_vars
  PROVE  QueuesInv'
<1>1. TypeOK
  BY DEF RunsInv
<1>2. CASE Restart
  <2>1. \A key \in LockKeys : queue'[key] = <<>>
    BY <1>1, <1>2 DEF Restart, TypeOK, LockKeys
  <2> QED BY <2>1 DEF QueuesInv, LockKeys, OneEach, ToSet
<1>3. ASSUME NEW c \in Calls,
             SubmitTurn(c) \/ RequestDelete(c) \/ Refuse(c) \/ FailUnrecorded(c) \/ Work(c)
      PROVE  QueuesInv'
  <2>1. CASE End(c)
    BY <1>1, <2>1, QueuesEnd
  <2>2. CASE SubmitTurn(c) \/ RequestDelete(c)
    BY <1>1, <2>2, QueuesSubmit, QueuesRequestDelete
  <2>3. CASE OpenConversation(c) \/ FindAttempt(c)
    BY <1>1, <2>3, QueuesIdentify
  <2>4. CASE \/ BeginTurn(c) \/ LoadTurn(c) \/ KeepSummaries(c) \/ AppendSummary(c)
             \/ CallModel(c) \/ CheckLimit(c) \/ RecordResults(c)
    BY <2>4, QueuesWork
  <2>5. Refuse(c) \/ FailUnrecorded(c) \/ Conflict(c) \/ Finish(c) \/ Fail(c)
        \/ DeleteConversation(c) => End(c)
    BY DEF Refuse, FailUnrecorded, Conflict, Finish, Fail, DeleteConversation
  <2> QED BY <1>3, <2>1, <2>2, <2>3, <2>4, <2>5 DEF Work
<1>4. CASE UNCHANGED vars
  BY <1>4 DEF vars, QueuesInv, LockKeys, Claims, Pc
<1> QED BY <1>2, <1>3, <1>4 DEF Next

\* Who has the lock of a conversation waits for no lock: requests take the lock
\* of the message first.
LEMMA HolderMoves ==
  ASSUME RunsInv, QueuesInv, NEW v \in Conversations, NEW h \in Calls, Holds(h, v),
         h \in ToSet(queue[v])
  PROVE  ~Waits(h)
<1>1. DOMAIN queue = LockKeys /\ v \in LockKeys
  BY DEF RunsInv, TypeOK, LockKeys
<1>2. Claims(h, v)
  BY <1>1 DEF QueuesInv
<1>3. Pc(h) \in {"begin", "deleting"} \cup Executing /\ call[h].conversation = v
  BY <1>2 DEF Claims
<1> SUFFICES ASSUME NEW key \in LockKeys, h \in ToSet(queue[key])
             PROVE  Holds(h, key)
  BY <1>1 DEF Waits
<1>4. Claims(h, key)
  BY DEF QueuesInv
<1>5. CASE key \in Conversations
  BY <1>3, <1>4, <1>5 DEF Claims
<1>6. CASE key \notin Conversations
  <2>1. Pc(h) \in Assigned /\ call[h].user = key
    BY <1>3, <1>4, <1>6 DEF Claims, Assigned
  <2>2. key # Nil
    BY ConversationAssumption DEF LockKeys
  <2> QED BY <2>1, <2>2 DEF RunsInv, LocksHeld
<1> QED BY <1>5, <1>6

\* Before who waits stands the holder, and it is in progress.
LEMMA HolderBefore ==
  ASSUME TypeOK, QueuesInv, NEW key \in LockKeys, NEW c \in ToSet(queue[key]), ~Holds(c, key)
  PROVE  \E h \in InProgress :
           Holds(h, key) /\ h \in ToSet(queue[key]) /\ StandsBefore(h, c)
<1> DEFINE s == queue[key]
           h == s[1]
<1>1. s \in Seq(Calls) /\ DOMAIN queue = LockKeys
  BY DEF TypeOK, LockKeys
<1>2. PICK j \in DOMAIN s : s[j] = c
  BY DEF ToSet
<1>3. DOMAIN s = 1..Len(s) /\ Len(s) \in Nat
  BY <1>1
<1>4. 1 \in DOMAIN s /\ s # <<>> /\ Head(s) = h
  BY <1>1, <1>2, <1>3
<1>5. Holds(h, key)
  BY <1>4 DEF Holds
<1>6. j # 1 /\ 1 < j
  BY <1>2, <1>3, <1>5
<1>7. h \in ToSet(s) /\ h \in Calls
  BY <1>1, <1>4 DEF ToSet
<1>8. StandsBefore(h, c)
  BY <1>1, <1>2, <1>4, <1>6 DEF StandsBefore
<1>9. Claims(h, key)
  BY <1>7 DEF QueuesInv
<1>10. Pc(h) \notin {"idle", "done"}
  BY <1>9 DEF Claims, Executing
<1>11. h \in InProgress
  BY <1>7, <1>10 DEF InProgress, Pc, Idle, Done
<1> QED BY <1>5, <1>7, <1>8, <1>11

LEMMA NoCircle ==
  ASSUME RunsInv, QueuesInv
  PROVE  NobodyWaitsInACircle
<1> SUFFICES ASSUME NEW S \in SUBSET {c \in InProgress : Waits(c)}, S # {}
             PROVE  \E c \in S, d \in InProgress \ S : StandsBefore(d, c)
  BY DEF NobodyWaitsInACircle
<1>1. TypeOK /\ DOMAIN queue = LockKeys
  BY DEF RunsInv, TypeOK, LockKeys
<1>2. ASSUME NEW c \in S, NEW v \in Conversations, c \in ToSet(queue[v]), ~Holds(c, v)
      PROVE  \E d \in InProgress \ S : StandsBefore(d, c)
  <2>1. v \in LockKeys
    BY DEF LockKeys
  <2>2. PICK h \in InProgress : Holds(h, v) /\ h \in ToSet(queue[v]) /\ StandsBefore(h, c)
    BY <1>1, <1>2, <2>1, HolderBefore
  <2>3. ~Waits(h)
    BY <2>2, HolderMoves DEF InProgress
  <2> QED BY <2>2, <2>3
<1>3. PICK c \in S : Waits(c)
  OBVIOUS
<1>4. PICK key \in LockKeys : c \in ToSet(queue[key]) /\ ~Holds(c, key)
  BY <1>1, <1>3 DEF Waits
<1>5. PICK h \in InProgress : Holds(h, key) /\ h \in ToSet(queue[key]) /\ StandsBefore(h, c)
  BY <1>1, <1>4, HolderBefore
<1>6. CASE h \notin S
  BY <1>5, <1>6
<1>7. CASE key \in Conversations
  BY <1>2, <1>4, <1>7
<1>8. CASE h \in S /\ key \notin Conversations
  <2>1. PICK other \in LockKeys : h \in ToSet(queue[other]) /\ ~Holds(h, other)
    BY <1>1, <1>8 DEF Waits
  <2>2. Claims(h, key) /\ Claims(h, other)
    BY <1>5, <2>1 DEF QueuesInv
  <2>3. other \in Conversations
    BY <1>5, <1>8, <2>1, <2>2 DEF Claims
  <2> QED BY <1>2, <1>8, <2>1, <2>3
<1> QED BY <1>6, <1>7, <1>8

(***************************************************************************)
(* The theorems                                                             *)
(***************************************************************************)

\* The inductive invariant: requests, Runs and locks agree whatever the clock
\* does, and with a clock that advances histories and summaries do too
\* (AgentService._run_turn, remove_last_turn, ContextSummaryRepository).
THEOREM TurnsInvariance == Spec => []TurnsInv
<1>1. Init => TurnsInv
  BY RunsInit, HistoryInit DEF TurnsInv
<1>2. TurnsInv /\ [Next]_vars => TurnsInv'
  BY RunsNext, HistoryNext DEF TurnsInv
<1> QED BY <1>1, <1>2, PTL DEF Spec

\* Rows refer to Runs and conversations that exist, and a turn that executes
\* has its RUNNING Run, also with a clock that ties or steps back.
THEOREM TurnsTypeCorrect == Spec => []TypeOK
<1>1. TurnsInv => TypeOK
  BY DEF TurnsInv, RunsInv
<1> QED BY <1>1, TurnsInvariance, PTL

\* After any retries, failures, deletions and restarts every later turn can go
\* on from the history: tool calls are paired, sequence numbers have no gap,
\* summaries load, and a user message has the messages of one attempt.
THEOREM HistoryAlwaysSound ==
  ASSUME ClockAdvances
  PROVE  Spec => []HistoryIsSound
<1>1. TurnsInv => HistoryIsSound
  BY SoundHistory DEF TurnsInv
<1> QED BY <1>1, TurnsInvariance, PTL

\* No step rewrites history: what a retry removes is the tail, and the turn of
\* one Run that has ended (remove_last_turn).
THEOREM OnlyLastTurnEverReplaced ==
  ASSUME ClockAdvances
  PROVE  Spec => OnlyLastTurnIsReplaced
<1>1. TurnsInv /\ [Next]_vars =>
        [\A v \in Conversations :
           LET added == messages'[v] \ messages[v]
               gone  == messages[v] \ messages'[v]
           IN  /\ \A m \in added, n \in messages[v] : n.sequence < m.sequence
               /\ conversation'[v] # "deleted" /\ gone # {} =>
                    /\ added = {}
                    /\ \A m \in gone, n \in messages'[v] : n.sequence < m.sequence
                    /\ \E r \in DOMAIN runs :
                         runs[r].status # "RUNNING" /\ \A m \in gone : m.run = r]_vars
  BY OnlyTails DEF TurnsInv, Replaced
<1> QED BY <1>1, TurnsInvariance, PTL DEF Spec, OnlyLastTurnIsReplaced

\* Two kinds of locks, taken in one order and released on every way out: no set
\* of requests waits for itself, however many requests, messages and
\* conversations there are (_user_message_lock, _conversation_lock).
THEOREM NobodyEverWaitsInACircle == Spec => []NobodyWaitsInACircle
<1>1. Init => QueuesInv
  BY QueuesInit
<1>2. TurnsInv /\ QueuesInv /\ [Next]_vars => QueuesInv'
  BY QueuesNext DEF TurnsInv
<1>3. TurnsInv /\ QueuesInv => NobodyWaitsInACircle
  BY NoCircle DEF TurnsInv
<1> QED BY <1>1, <1>2, <1>3, TurnsInvariance, PTL DEF Spec
=============================================================================
