------------------------ MODULE ModelStreamingProofs ------------------------
(* Theorems about ModelStreaming: what the client sees is the answer, what  *)
(* is persisted was said completely, every stream and client is closed; for *)
(* every kind of text, every length of frames and calls, every number of    *)
(* items, attempts and iterations.                                          *)
EXTENDS ModelStreaming, SequenceTheorems, NaturalsInduction, WellFoundedInduction, TLAPS
-----------------------------------------------------------------------------
(* The inductive invariant.                                                *)

\* What the parser keeps are sequences, and the state is within its sets.
Typed ==
  /\ wire \in {"chat", "ids", "indexes", "order"}
  /\ mode \in {"summary", "main"}
  /\ phase \in Phases /\ outcome \in Outcomes
  /\ invocation.published \in BOOLEAN /\ "published" \in DOMAIN invocation
  /\ output \in Seq(Items) /\ ids \in Seq(Nat) /\ Len(ids) = Len(output)

\* What is merged is what was said, item by item: every event found its item.
Merged ==
  /\ said = output
  /\ \A i \in DOMAIN ids : ids[i] = IF wire = "ids" THEN i ELSE 0

\* A result of a call that goes on was accepted, a result that was kept is
\* still the output, until the next call begins.
Kept ==
  /\ outcome = "answer" /\ phase \in {"closingStream", "settled", "closingClient"} => Accepted
  /\ answer # None => /\ ~InCall
                      /\ answer.text = TextOf(output) /\ answer.calls = CallsOf(output)
                      /\ \A i \in DOMAIN CallsOf(output) : Decodes(CallsOf(output)[i])
  /\ summary # <<>> => /\ ~InCall
                       /\ terminal = "stop" /\ summary = TextOf(output)

\* A summary publishes nothing; an attempt that published is not tried again;
\* one that did not left what was shown as the call found it.
Unseen ==
  /\ mode = "summary" => shown = <<>> /\ phase # "publishing" /\ ~invocation.published
  /\ phase = "publishing" => invocation.published
  /\ phase = "backoff" => ~invocation.published
  /\ InCall /\ ~invocation.published => shown = base

\* An open stream has somebody who closes it, and so has an open client.
Released ==
  /\ stream = "open" => phase \in {"streaming", "publishing", "closingStream"}
  /\ client = "open" => InCall
  /\ phase = "backoff" /\ mode = "summary" => client # "open"

\* The attempts of a call, and its flags and states.
Limit == IF mode = "main" THEN MaxAttempts ELSE SummaryAttempts

Bounded ==
  /\ round \in 0..Iterations
  /\ attempt \in Nat
  /\ InCall => attempt \in 1..Limit
  /\ phase = "backoff" => attempt < Limit
  /\ terminal \in {"none", "stop", "length"}
  /\ stream \in {"none", "open", "cut"} /\ client \in {"none", "open", "cut"}
  /\ cancelled \in BOOLEAN /\ taskCancel \in BOOLEAN /\ lost \in BOOLEAN
  /\ status \in {"running", "completed", "failed", "limited", "cancelled"}

\* The text of a message is text.
Wording == \A i \in DOMAIN output : output[i].kind = "message" => output[i].text \in Texts

Worded ==
  /\ Wording
  /\ invocation \in [published : BOOLEAN, visible : Texts]
  /\ pending \in [target : Texts, rest : Texts, replace : BOOLEAN]
  /\ shown \in Texts /\ base \in Texts /\ summary \in Texts
  /\ answer \in Messages \cup {None}

\* The text of the output is what is shown, or what is being published: a
\* snapshot of which a part may be there already.
Visible ==
  /\ phase = "requesting" => output = <<>> /\ invocation.visible = <<>>
  /\ mode = "main" /\ phase = "streaming" =>
       /\ invocation.visible = TextOf(output)
       /\ TextOf(output) # <<>> => shown = TextOf(output)
  /\ phase = "publishing" =>
       /\ pending.target = TextOf(output)
       /\ pending.replace => pending.rest = pending.target
       /\ ~pending.replace => shown \o pending.rest = pending.target
  /\ (mode = "main" /\ outcome = "answer" /\ phase \in {"closingStream", "settled", "closingClient"})
       => (TextOf(output) # <<>> => shown = TextOf(output))
  /\ AnswerIsShown

IInv == Typed /\ Merged /\ Kept /\ Unseen /\ Released /\ Bounded /\ Worded /\ Visible
-----------------------------------------------------------------------------
(* What an output means.                                                   *)

\* A set of numbers that holds one of them has a least one.
LEMMA LeastExists ==
  ASSUME NEW T \in SUBSET Nat, T # {}
  PROVE  \E x \in T : \A y \in T : x <= y
<1> DEFINE R == {ss \in Nat \X Nat : ss[1] < ss[2]}
<1>1. IsWellFoundedOn(R, Nat)
  BY NatLessThanWellFounded DEF OpToRel
<1>2. \E x \in T : \A y \in T : ~(<<y, x>> \in R)
  <2> HIDE DEF R
  <2> QED BY <1>1, WFMin
<1>3. PICK x \in T : \A y \in T : ~(<<y, x>> \in R)
  BY <1>2
<1>4. ASSUME NEW y \in T PROVE x <= y
  <2>1. x \in Nat /\ y \in Nat
    OBVIOUS
  <2>2. ~(y < x)
    BY <1>3, <2>1
  <2> QED BY <2>1, <2>2
<1> QED BY <1>4

\* What is flattened is a sequence over the same set.
LEMMA FlattenTyped ==
  ASSUME NEW S, NEW s \in Seq(Seq(S))
  PROVE  FlattenSeq(s) \in Seq(S)
<1> DEFINE Step(f, i) == IF i = 1 THEN s[i] ELSE f[i-1] \o s[i]
           Flat(f, n) == f = [i \in 1..n |-> Step(f, i)]
<1>0. Len(s) \in Nat /\ DOMAIN s = 1..Len(s) /\ \A i \in 1..Len(s) : s[i] \in Seq(S)
  OBVIOUS
<1>1. CASE Len(s) = 0
  BY <1>1 DEF FlattenSeq
<1>2. CASE Len(s) # 0
  <2> DEFINE f == CHOOSE g : Flat(g, Len(s))
  <2>1. FlattenSeq(s) = f[Len(s)]
    BY <1>2 DEF FlattenSeq
  <2>2. \A n \in 0..Len(s) : \E g : Flat(g, n)
    <3> DEFINE Bad == {n \in 0..Len(s) : ~\E g : Flat(g, n)}
    <3>1. ASSUME Bad # {} PROVE FALSE
      <4>1. Bad \in SUBSET Nat
        <5> HIDE DEF Flat
        <5>1. Bad \subseteq 0..Len(s) OBVIOUS
        <5> HIDE DEF Bad
        <5> QED BY <1>0, <5>1
      <4> HIDE DEF Bad
      <4>2. PICK n \in Bad : \A k \in Bad : n <= k
        BY <3>1, <4>1, LeastExists
      <4> USE DEF Bad
      <4>3. n \in 0..Len(s) /\ ~\E g : Flat(g, n) OBVIOUS
      <4>4. CASE n = 0
        <5>1. Flat(<<>>, 0)
          OBVIOUS
        <5> QED BY <4>3, <4>4, <5>1
      <4>5. CASE n # 0
        <5>1. n - 1 \in 0..Len(s) /\ n - 1 < n /\ n \in 1..Len(s) /\ n \in Nat
          BY <1>0, <4>3, <4>5
        <5>2. n - 1 \notin Bad
          <6> HIDE DEF Bad
          <6> QED BY <4>1, <4>2, <5>1
        <5>3. PICK g : Flat(g, n - 1)
          BY <5>1, <5>2
        <5> DEFINE h == [i \in 1..n |-> IF i = n THEN Step(g, n) ELSE g[i]]
        <5>4. ASSUME NEW i \in 1..n PROVE h[i] = Step(h, i)
          <6>0. i \in Nat /\ 1 <= i /\ i <= n BY <5>1
          <6>1. CASE i = 1
            <7>1. CASE n = 1 BY <6>1, <7>1
            <7>2. CASE n # 1
              <8>1. h[i] = g[1] BY <6>1, <7>2
              <8>2. 1 \in 1..(n-1) BY <5>1, <7>2
              <8>3. g[1] = Step(g, 1) BY <5>3, <8>2
              <8> QED BY <6>1, <8>1, <8>3
            <7> QED BY <7>1, <7>2
          <6>2. CASE i # 1
            <7>1. i - 1 \in 1..n /\ i - 1 # n BY <5>1, <6>0, <6>2
            <7>2. h[i - 1] = g[i - 1] BY <7>1
            <7>3. Step(h, i) = Step(g, i)
              <8> HIDE DEF h
              <8> QED BY <6>2, <7>2
            <7>4. CASE i = n
              <8>1. h[i] = Step(g, n) BY <7>4
              <8> QED BY <7>3, <7>4, <8>1
            <7>5. CASE i # n
              <8>1. h[i] = g[i] BY <7>5
              <8>2. i \in 1..(n-1) BY <5>1, <6>0, <7>5
              <8>3. g[i] = Step(g, i) BY <5>3, <8>2
              <8> QED BY <7>3, <8>1, <8>3
            <7> QED BY <7>4, <7>5
          <6> QED BY <6>1, <6>2
        <5>5. Flat(h, n)
          <6>1. h = [i \in 1..n |-> h[i]] OBVIOUS
          <6>2. [i \in 1..n |-> h[i]] = [i \in 1..n |-> Step(h, i)]
            <7> HIDE DEF h, Step
            <7> QED BY <5>4
          <6> HIDE DEF h, Step
          <6> QED BY <6>1, <6>2
        <5> HIDE DEF h, Flat
        <5> QED BY <4>3, <5>5
      <4> QED BY <4>4, <4>5
    <3> HIDE DEF Flat
    <3> QED BY <3>1
  <2>3. Flat(f, Len(s))
    <3>1. Len(s) \in 0..Len(s) BY <1>0
    <3> HIDE DEF Flat
    <3> QED BY <2>2, <3>1
  <2> HIDE DEF f
  <2>4. \A n \in 1..Len(s) : f[n] \in Seq(S)
    <3> DEFINE Bad == {n \in 1..Len(s) : f[n] \notin Seq(S)}
    <3>1. ASSUME Bad # {} PROVE FALSE
      <4>1. Bad \in SUBSET Nat BY <1>0
      <4> HIDE DEF Bad
      <4>2. PICK n \in Bad : \A k \in Bad : n <= k
        BY <3>1, <4>1, LeastExists
      <4>3. n \in 1..Len(s) /\ f[n] \notin Seq(S) BY DEF Bad
      <4>4. f[n] = Step(f, n) BY <2>3, <4>3
      <4>5. s[n] \in Seq(S) BY <1>0, <4>3
      <4>6. CASE n = 1 BY <4>3, <4>4, <4>5, <4>6
      <4>7. CASE n # 1
        <5>1. n - 1 \in 1..Len(s) /\ n - 1 < n /\ n \in Nat BY <1>0, <4>3, <4>7
        <5>2. n - 1 \notin Bad BY <4>1, <4>2, <5>1
        <5>3. f[n - 1] \in Seq(S) BY <5>1, <5>2 DEF Bad
        <5>4. f[n] = f[n - 1] \o s[n] BY <4>4, <4>7
        <5> QED BY <4>3, <4>5, <5>3, <5>4
      <4> QED BY <4>6, <4>7
    <3> QED BY <3>1
  <2>5. Len(s) \in 1..Len(s) BY <1>0, <1>2
  <2> QED BY <2>1, <2>4, <2>5
<1> QED BY <1>1, <1>2

\* A text that is cut in two is these two.
LEMMA CutInTwo ==
  ASSUME NEW S, NEW r \in Seq(S), NEW k \in 0..Len(r)
  PROVE  /\ SubSeq(r, 1, k) \in Seq(S) /\ SubSeq(r, k + 1, Len(r)) \in Seq(S)
         /\ SubSeq(r, 1, k) \o SubSeq(r, k + 1, Len(r)) = r
<1>1. Len(r) \in Nat /\ DOMAIN r = 1..Len(r) OBVIOUS
<1>2. 1 \in 1..Len(r) + 1 /\ k \in 1 - 1..Len(r) /\ Len(r) \in k..Len(r) BY <1>1
<1>3. SubSeq(r, 1, k) \o SubSeq(r, k + 1, Len(r)) = SubSeq(r, 1, Len(r))
  BY <1>2, ConcatAdjacentSubSeq
<1>4. SubSeq(r, 1, Len(r)) = r BY SubSeqFull
<1>5. SubSeq(r, 1, k) \in Seq(S)
  <2>1. \A i \in 1..k : r[i] \in S BY <1>1
  <2>2. k \in Int /\ 1 \in Int BY <1>1
  <2> QED BY <2>1, <2>2, SubSeqProperties
<1>6. SubSeq(r, k + 1, Len(r)) \in Seq(S)
  <2>1. \A i \in k + 1..Len(r) : r[i] \in S BY <1>1
  <2>2. k + 1 \in Int /\ Len(r) \in Int BY <1>1
  <2> QED BY <2>1, <2>2, SubSeqProperties
<1> QED BY <1>3, <1>4, <1>5, <1>6, ZenonT(60)

\* What extends a text is that text and the rest.
LEMMA PrefixAndRest ==
  ASSUME NEW S, NEW v \in Seq(S), NEW t \in Seq(S), IsPrefix(v, t)
  PROVE  /\ SubSeq(t, Len(v) + 1, Len(t)) \in Seq(S)
         /\ v \o SubSeq(t, Len(v) + 1, Len(t)) = t
<1>1. Len(v) \in 0..Len(t) BY DEF IsPrefix
<1>2. SubSeq(t, 1, Len(v)) = v
  <2>1. SubSeq(v, 1, Len(v)) = v BY SubSeqFull
  <2> QED BY <2>1 DEF IsPrefix
<1> QED BY <1>1, <1>2, CutInTwo

\* The text of an output is text, the calls of an output have contents.
LEMMA OutputMeans ==
  ASSUME NEW items \in Seq(Items),
         \A i \in DOMAIN items : items[i].kind = "message" => items[i].text \in Texts
  PROVE  TextOf(items) \in Texts /\ CallsOf(items) \in Seq(Contents)
<1>1. DOMAIN items = 1..Len(items) /\ Len(items) \in Nat
  OBVIOUS
<1>2. TextOf(items) \in Texts
  <2> DEFINE s == [i \in DOMAIN items |->
                     IF items[i].kind = "message" THEN items[i].text ELSE <<>>]
  <2>1. \A i \in 1..Len(items) : s[i] \in Seq(Pieces)
    BY <1>1 DEF Texts
  <2>2. s \in Seq(Seq(Pieces))
    <3>1. s = [i \in 1..Len(items) |-> s[i]] BY <1>1
    <3> HIDE DEF s
    <3>2. s \in [1..Len(items) -> Seq(Pieces)] BY <2>1, <3>1
    <3> QED BY <1>1, <3>2
  <2>3. TextOf(items) = FlattenSeq(s) BY DEF TextOf
  <2> HIDE DEF s
  <2> QED BY <2>2, <2>3, FlattenTyped DEF Texts
<1>3. CallsOf(items) \in Seq(Contents)
  <2> DEFINE s == [i \in DOMAIN items |->
                     IF items[i].kind = "call" THEN <<items[i].text>> ELSE <<>>]
  <2>1. \A i \in 1..Len(items) : s[i] \in Seq(Contents)
    <3> SUFFICES ASSUME NEW i \in 1..Len(items) PROVE s[i] \in Seq(Contents) OBVIOUS
    <3>1. items[i] \in Items OBVIOUS
    <3>2. items[i].text \in Contents BY <3>1 DEF Items
    <3>3. <<items[i].text>> \in Seq(Contents) BY <3>2
    <3> QED BY <1>1, <3>3
  <2>2. s \in Seq(Seq(Contents))
    <3>1. s = [i \in 1..Len(items) |-> s[i]] BY <1>1
    <3> HIDE DEF s
    <3>2. s \in [1..Len(items) -> Seq(Contents)] BY <2>1, <3>1
    <3> QED BY <1>1, <3>2
  <2>3. CallsOf(items) = FlattenSeq(s) BY DEF CallsOf
  <2> HIDE DEF s
  <2> QED BY <2>2, <2>3, FlattenTyped
<1> QED BY <1>2, <1>3

\* Nothing has no text.
LEMMA NothingMeans == TextOf(<<>>) = <<>>
<1> DEFINE s == [i \in DOMAIN <<>> |-> IF <<>>[i].kind = "message" THEN <<>>[i].text ELSE <<>>]
<1>1. s = <<>> OBVIOUS
<1>2. TextOf(<<>>) = FlattenSeq(s) BY DEF TextOf
<1> HIDE DEF s
<1> QED BY <1>1, <1>2 DEF FlattenSeq
-----------------------------------------------------------------------------
(* How an event finds its item.                                            *)

LEMMA PutTyped ==
  ASSUME NEW S, NEW s \in Seq(S), NEW i \in 1..(Len(s) + 1), NEW x \in S
  PROVE  /\ Put(s, i, x) \in Seq(S)
         /\ Len(Put(s, i, x)) = IF i = Len(s) + 1 THEN Len(s) + 1 ELSE Len(s)
         /\ \A j \in DOMAIN Put(s, i, x) :
              Put(s, i, x)[j] = IF j = i THEN x ELSE s[j]
         /\ \A j \in DOMAIN Put(s, i, x) : j # i => j \in DOMAIN s
<1>1. CASE i \in DOMAIN s
  BY <1>1 DEF Put
<1>2. CASE i \notin DOMAIN s
  <2>1. i = Len(s) + 1 BY <1>2
  <2>2. Put(s, i, x) = Append(s, x) BY <1>2 DEF Put
  <2> QED BY <2>1, <2>2, SMTT(60)
<1> QED BY <1>1, <1>2

\* The slot of an event of item n is n, however the Provider names it.
LEMMA SlotIsItem ==
  ASSUME Typed, Merged, NEW n \in Nat \ {0}, NEW item \in BOOLEAN,
         n <= Len(output) + 1,
         item => n = Len(output) + 1,
         n = Len(output) + 1 => item \/ wire \in {"chat", "indexes"},
         wire = "order" /\ ~item => n = Len(output)
  PROVE  Slot(Named(n, item)) = n
<1> DEFINE same == {i \in DOMAIN output : Named(n, item).id # 0 /\ ids[i] = Named(n, item).id}
<1>1. /\ Named(n, item).id = IF wire = "ids" THEN n ELSE 0
      /\ Named(n, item).index = IF wire \in {"chat", "indexes"} THEN n ELSE 0
      /\ Named(n, item).item = item
  BY DEF Named
<1>2. DOMAIN output = 1..Len(output) /\ DOMAIN ids = DOMAIN output /\ Len(output) \in Nat
  BY DEF Typed
<1>. n \in 1..(Len(output) + 1)
  <2>1. Len(output) \in Nat BY <1>2, ZenonT(60)
  <2>2. n \in Nat /\ 1 <= n OBVIOUS
  <2> QED BY <2>1, <2>2
<1>3. CASE wire = "ids"
  <2>1. same = {i \in DOMAIN output : i = n} BY <1>1, <1>2, <1>3 DEF Merged
  <2>2. CASE n \in DOMAIN output
    <3>1. same = {n} BY <2>1, <2>2
    <3>2. Min(same) = n BY <3>1 DEF Min
    <3> QED BY <3>1, <3>2 DEF Slot
  <2>3. CASE n \notin DOMAIN output
    <3>1. same = {} BY <2>1, <2>3
    <3>2. n = Len(output) + 1 /\ item BY <1>2, <1>3, <2>3
    <3>3. Named(n, item).index \notin 1..(Len(output) + 1) BY <1>1, <1>3
    <3> QED BY <1>1, <3>1, <3>2, <3>3 DEF Slot
  <2> QED BY <2>2, <2>3
<1>4. CASE wire # "ids"
  <2>1. same = {} BY <1>1, <1>4
  <2>2. CASE wire \in {"chat", "indexes"}
    <3>1. Named(n, item).index = n BY <1>1, <2>2
    <3>2. n \in 1..(Len(output) + 1) OBVIOUS
    <3> QED BY <2>1, <3>1, <3>2 DEF Slot
  <2>3. CASE wire = "order"
    <3>1. Named(n, item).index \notin 1..(Len(output) + 1) BY <1>1, <2>3
    <3>2. CASE item BY <1>1, <2>1, <3>1, <3>2 DEF Slot
    <3>3. CASE ~item
      <4>1. n = Len(output) /\ output # <<>> BY <1>2, <2>3, <3>3
      <4> QED BY <1>1, <2>1, <3>1, <3>3, <4>1 DEF Slot
    <3> QED BY <3>2, <3>3
  <2> QED BY <1>4, <2>2, <2>3 DEF Typed
<1> QED BY <1>3, <1>4

\* An event keeps the output what was said, and both sequences of items.
LEMMA EventKeeps ==
  ASSUME Typed, Merged, NEW n \in Nat \ {0}, NEW kind \in Kinds, NEW item \in BOOLEAN,
         NEW revises \in BOOLEAN, NEW piece \in Contents,
         n <= Len(output) + 1,
         item => n = Len(output) + 1,
         n = Len(output) + 1 => item \/ wire \in {"chat", "indexes"},
         wire = "order" /\ ~item => n = Len(output),
         Event(n, kind, item, revises, piece), wire' = wire,
         Wording, kind = "message" => piece \in Texts,
         n \in DOMAIN output => output[n].kind = kind
  PROVE  /\ output' \in Seq(Items) /\ ids' \in Seq(Nat) /\ Len(ids') = Len(output')
         /\ Merged' /\ Wording'
<1> DEFINE New == [kind |-> kind, text |-> <<>>]
           Changed(x) == [x EXCEPT !.text = IF revises THEN piece ELSE @ \o piece]
           old == IF n \in DOMAIN output THEN output[n] ELSE New
           name == IF n \in DOMAIN output THEN ids[n] ELSE Named(n, item).id
<1>1. Slot(Named(n, item)) = n BY SlotIsItem
<1>2. DOMAIN output = 1..Len(output) /\ DOMAIN ids = DOMAIN output /\ Len(output) \in Nat
  BY DEF Typed
<1>3. n \in 1..(Len(output) + 1)
  <2>1. Len(output) \in Nat BY <1>2, ZenonT(60)
  <2>2. n \in Nat /\ 1 <= n OBVIOUS
  <2> QED BY <2>1, <2>2
<1>4. item => n \notin DOMAIN output
  <2>1. item => n = Len(output) + 1 OBVIOUS
  <2> QED BY <1>2, <2>1
<1>5. said' = Put(output, n, Changed(old)) BY DEF Event, Merged
<1>6. output' = Put(output, n, Changed(old)) BY <1>1, <1>4 DEF Event, Merge
<1>7. ids' = Put(ids, n, name) BY <1>1, <1>2, <1>4 DEF Event, Merge
<1>8. Changed(old) \in Items
  <2>1. New \in Items
    <3>1. <<>> \in Contents BY DEF Contents
    <3> QED BY <3>1 DEF Items
  <2>2. old \in Items
    <3>1. ASSUME n \in DOMAIN output PROVE output[n] \in Items
      <4>1. output \in Seq(Items) BY DEF Typed
      <4>2. n \in 1..Len(output) BY <1>2, <3>1
      <4> QED BY <4>1, <4>2
    <3> HIDE DEF New
    <3> QED BY <2>1, <3>1
  <2>3. old.text \in Contents BY <2>2 DEF Items
  <2>4. (IF revises THEN piece ELSE old.text \o piece) \in Contents BY <2>3 DEF Contents
  <2> QED BY <2>2, <2>4 DEF Items
<1>9. name = IF wire = "ids" THEN n ELSE 0 BY <1>2, ZenonT(60) DEF Merged, Named
<1>10. name \in Nat BY <1>9
<1>11. /\ output' \in Seq(Items)
       /\ Len(output') = IF n = Len(output) + 1 THEN Len(output) + 1 ELSE Len(output)
  <2>1. output \in Seq(Items) BY DEF Typed
  <2> HIDE DEF Changed, old
  <2> QED BY <1>3, <1>6, <1>8, <2>1, PutTyped
<1>12. /\ ids' \in Seq(Nat)
       /\ Len(ids') = IF n = Len(ids) + 1 THEN Len(ids) + 1 ELSE Len(ids)
       /\ \A j \in DOMAIN ids' : ids'[j] = IF j = n THEN name ELSE ids[j]
       /\ \A j \in DOMAIN ids' : j # n => j \in DOMAIN ids
  <2>1. ids \in Seq(Nat) /\ n \in 1..(Len(ids) + 1) BY <1>3 DEF Typed
  <2> HIDE DEF name
  <2>2. /\ Put(ids, n, name) \in Seq(Nat)
        /\ Len(Put(ids, n, name)) = IF n = Len(ids) + 1 THEN Len(ids) + 1 ELSE Len(ids)
        /\ \A j \in DOMAIN Put(ids, n, name) :
             Put(ids, n, name)[j] = IF j = n THEN name ELSE ids[j]
        /\ \A j \in DOMAIN Put(ids, n, name) : j # n => j \in DOMAIN ids
    BY <1>10, <2>1, PutTyped
  <2> QED BY <1>7, <2>2
<1>13. Len(ids') = Len(output') BY <1>11, <1>12 DEF Typed
<1>14. \A i \in DOMAIN ids' : ids'[i] = IF wire = "ids" THEN i ELSE 0
  <2> HIDE DEF name
  <2> QED BY <1>9, <1>12 DEF Merged
<1>15. said' = output' BY <1>5, <1>6
<1>16. Wording'
  <2>1. output \in Seq(Items) BY DEF Typed
  <2>0. PICK x \in Items : x = Changed(old) BY <1>8
  <2> HIDE DEF Changed, old
  <2>2. \A j \in DOMAIN Put(output, n, x) :
           /\ Put(output, n, x)[j] = IF j = n THEN x ELSE output[j]
           /\ j # n => j \in DOMAIN output
    BY <1>3, <2>1, PutTyped, SMTT(60)
  <2>5. output' = Put(output, n, x) BY <1>6, <2>0
  <2> USE DEF Changed, old
  <2>3. x.kind = "message" => x.text \in Texts
    <3>1. old.kind = kind BY <1>8
    <3>2. old.kind = "message" => old.text \in Texts
      <4>1. CASE n \in DOMAIN output BY <4>1 DEF Wording
      <4>2. CASE n \notin DOMAIN output BY <4>2 DEF Texts
      <4> QED BY <4>1, <4>2
    <3>3. old \in [kind : Kinds, text : Contents]
      <4>1. CASE n \in DOMAIN output
        <5>1. n \in 1..Len(output) BY <1>2, <4>1
        <5>2. output[n] \in Items BY <2>1, <5>1
        <5> QED BY <4>1, <5>2 DEF Items
      <4>2. CASE n \notin DOMAIN output
        <5>1. <<>> \in Contents BY DEF Contents
        <5> QED BY <4>2, <5>1
      <4> QED BY <4>1, <4>2
    <3> HIDE DEF old
    <3>4. /\ Changed(old).kind = kind
          /\ Changed(old).text = IF revises THEN piece ELSE old.text \o piece
      BY <3>1, <3>3
    <3> HIDE DEF Changed
    <3> QED BY <2>0, <3>1, <3>2, <3>4 DEF Texts
  <2> HIDE DEF Changed, old
  <2>4. ASSUME NEW j \in DOMAIN output', output'[j].kind = "message"
        PROVE  output'[j].text \in Texts
    <3>1. CASE j = n
      <4>1. output'[j] = x
        <5> DEFINE t == Put(output, n, x)
        <5>1. j \in DOMAIN t /\ output'[j] = t[j] BY <2>5
        <5>2. t[j] = IF j = n THEN x ELSE output[j] BY <2>2, <5>1
        <5> HIDE DEF t
        <5> QED BY <3>1, <5>1, <5>2
      <4>2. x.kind = "message" BY ONLY <2>4, <4>1
      <4> QED BY ONLY <2>3, <4>1, <4>2
    <3>2. CASE j # n
      <4>1. output'[j] = output[j] /\ j \in DOMAIN output
        <5> DEFINE t == Put(output, n, x)
        <5>1. j \in DOMAIN t /\ output'[j] = t[j] BY <2>5
        <5>2. t[j] = (IF j = n THEN x ELSE output[j]) /\ j \in DOMAIN output BY <2>2, <3>2, <5>1
        <5> HIDE DEF t
        <5> QED BY <3>2, <5>1, <5>2
      <4>2. output[j].kind = "message" => output[j].text \in Texts BY <4>1 DEF Wording
      <4> QED BY ONLY <2>4, <4>1, <4>2
    <3> QED BY <3>1, <3>2
  <2> QED BY <2>4 DEF Wording
<1> QED BY <1>11, <1>12, <1>13, <1>14, <1>15, <1>16 DEF Merged
-----------------------------------------------------------------------------
(* What a step does.                                                       *)

\* An event changes the output and publishes it, or changes nothing.
Says == \/ \E names : Merge(output', names)
        \/ UNCHANGED <<output, invocation, pending, phase>>

\* What an event of the Provider does to the rest of the state.
LEMMA SaysShape ==
  ASSUME IInv, ProviderSays
  PROVE  /\ phase = "streaming"
         /\ output' \in Seq(Items) /\ ids' \in Seq(Nat) /\ Len(ids') = Len(output')
         /\ Merged' /\ Wording' /\ terminal' \in {terminal, "stop", "length"}
         /\ Says
         /\ UNCHANGED <<outcome, resultVars, cancelVars, wire, attempt, shown, stream, client,
                        base>>
         /\ \/ UNCHANGED <<phase, invocation>>
            \/ /\ phase' = "publishing" /\ mode = "main"
               /\ invocation'.published = TRUE /\ "published" \in DOMAIN invocation'
<1> USE DEF IInv
<1> DEFINE Goal == /\ phase = "streaming"
                   /\ output' \in Seq(Items) /\ ids' \in Seq(Nat) /\ Len(ids') = Len(output')
                   /\ Merged' /\ Wording' /\ terminal' \in {terminal, "stop", "length"}
                   /\ Says
                   /\ UNCHANGED <<outcome, resultVars, cancelVars, wire, attempt, shown, stream,
                                  client, base>>
                   /\ \/ UNCHANGED <<phase, invocation>>
                      \/ /\ phase' = "publishing" /\ mode = "main"
                         /\ invocation'.published = TRUE /\ "published" \in DOMAIN invocation'
<1>1. ASSUME NEW items, NEW names, Merge(items, names)
      PROVE  \/ UNCHANGED <<phase, invocation>>
             \/ /\ phase' = "publishing" /\ mode = "main"
                /\ invocation'.published = TRUE /\ "published" \in DOMAIN invocation'
  BY <1>1 DEF Merge, Publish, Typed
<1>2. ASSUME NEW n \in Nat \ {0}, NEW kind \in Kinds, NEW item \in BOOLEAN,
             NEW revises \in BOOLEAN, NEW piece \in Contents,
             n <= Len(output) + 1,
             item => n = Len(output) + 1,
             n = Len(output) + 1 => item \/ wire \in {"chat", "indexes"},
             wire = "order" /\ ~item => n = Len(output),
             Event(n, kind, item, revises, piece), Streams(n, kind),
             kind = "message" => piece \in Texts
      PROVE  Goal
  <2>1. wire' = wire BY <1>2 DEF Streams
  <2>2. /\ output' \in Seq(Items) /\ ids' \in Seq(Nat) /\ Len(ids') = Len(output')
        /\ Merged' /\ Wording'
    <3>1. n \in DOMAIN output => output[n].kind = kind BY <1>2 DEF Streams, Merged
    <3>2. Wording BY DEF Worded
    <3> QED BY <1>2, <2>1, <3>1, <3>2, EventKeeps
  <2>3. PICK items, names : Merge(items, names) BY <1>2 DEF Event
  <2>4. Says BY <2>3 DEF Says, Merge
  <2>5. terminal' = terminal BY <1>2 DEF Streams
  <2> QED BY <1>1, <1>2, <2>2, <2>3, <2>4, <2>5 DEF Streams
<1>3. said = output /\ DOMAIN output = 1..Len(output) /\ Len(output) \in Nat
  BY DEF Merged, Typed
<1>4. ASSUME NEW n \in 1..MaxItems, NEW kind \in Kinds, Announces(n, kind)
      PROVE  Goal
  <2>1. n \in Nat \ {0} /\ n = Len(output) + 1 BY <1>3, <1>4, StreamingAssumption DEF Announces
  <2>2. <<>> \in Contents /\ <<>> \in Texts BY DEF Contents, Texts
  <2>3. Event(n, kind, TRUE, FALSE, <<>>) /\ Streams(n, kind) BY <1>4 DEF Announces
  <2>4. n <= Len(output) + 1 BY <1>3, <2>1
  <2> HIDE DEF Goal
  <2> QED BY <1>2, <2>1, <2>2, <2>3, <2>4
<1>5. ASSUME NEW n \in 1..MaxItems, NEW kind \in Kinds, NEW piece \in Pieces \cup {"fragment"},
             Delta(n, kind, piece)
      PROVE  Goal
  <2>1. n \in Nat \ {0} /\ n <= Len(output) + 1
    <3>1. n \in 1..Len(output) \/ n = Len(output) + 1 BY <1>3, <1>5 DEF Delta
    <3>2. Len(output) \in Nat BY <1>3
    <3> QED BY <3>1, <3>2
  <2>2. n = Len(output) + 1 => wire \in {"chat", "indexes"}
    <3>1. n \in 1..Len(output) \/ wire \in {"chat", "indexes"} BY <1>3, <1>5, ZenonT(60) DEF Delta
    <3>2. Len(output) \in Nat BY <1>3
    <3> QED BY <3>1, <3>2
  <2>3. <<piece>> \in Contents BY DEF Contents
  <2>4. kind = "message" => <<piece>> \in Texts BY <1>5 DEF Delta, Texts
  <2>5. /\ Event(n, kind, FALSE, FALSE, <<piece>>) /\ Streams(n, kind)
        /\ wire = "order" => n = Len(output)
    BY <1>3, <1>5, ZenonT(60) DEF Delta
  <2> HIDE DEF Goal
  <2> QED BY <1>2, <2>1, <2>2, <2>3, <2>4, <2>5
<1>6. ASSUME NEW n \in 1..MaxItems, NEW piece \in Pieces, Revises(n, piece)
      PROVE  Goal
  <2>1. n \in Nat \ {0} /\ n \in 1..Len(output)
    <3>1. n \in DOMAIN said BY <1>6 DEF Revises
    <3>2. n \in 1..Len(output) BY <1>3, <3>1
    <3>3. Len(output) \in Nat BY <1>3
    <3> QED BY <3>2, <3>3
  <2>2. n <= Len(output) + 1 /\ n # Len(output) + 1 BY <1>3, <2>1
  <2>3. <<piece>> \in Contents /\ "message" \in Kinds /\ <<piece>> \in Texts
    BY DEF Contents, Kinds, Texts
  <2>4. /\ Event(n, "message", FALSE, TRUE, <<piece>>) /\ Streams(n, "message")
        /\ wire = "order" => n = Len(output)
    BY <1>3, <1>6, ZenonT(60) DEF Revises
  <2> HIDE DEF Goal
  <2> QED BY <1>2, <2>1, <2>2, <2>3, <2>4
<1>7. ASSUME NEW kind \in {"stop", "length"}, NEW items \in Finals, Terminates(kind, items)
      PROVE  Goal
  <2>1. CASE items = <<>>
    <3>1. Wording' BY <1>7, <2>1 DEF Terminates, Worded, Wording
    <3>2. Says BY <1>7, <2>1 DEF Terminates, Says
    <3> QED BY <1>7, <2>1, <3>1, <3>2 DEF Terminates, Typed, Merged
  <2>2. CASE items # <<>>
    <3>1. items \in Seq(Items) /\ Len(items) \in Nat
      <4>1. CASE items = said BY <1>3, <4>1 DEF Typed
      <4>2. ASSUME NEW n \in {i \in DOMAIN said : said[i].kind = "message"}, NEW p \in Pieces,
                   items = [said EXCEPT ![n].text = <<p>>]
            PROVE  items \in Seq(Items)
        <5>1. said \in Seq(Items) /\ n \in 1..Len(said) BY <1>3 DEF Typed
        <5>2. said[n] \in Items BY <5>1
        <5>3. <<p>> \in Contents BY DEF Contents
        <5>4. [said[n] EXCEPT !.text = <<p>>] \in Items BY <5>2, <5>3 DEF Items
        <5>5. items = [said EXCEPT ![n] = [said[n] EXCEPT !.text = <<p>>]] BY <4>2
        <5> QED BY <5>1, <5>4, <5>5
      <4> QED BY <2>2, <4>1, <4>2 DEF Finals
    <3> DEFINE names == [i \in DOMAIN items |-> Named(i, TRUE).id]
    <3>2. said' = items /\ Merge(items, names) BY <1>7, <2>2 DEF Terminates
    <3>3. output' = items /\ ids' = names BY <3>2 DEF Merge
    <3>4. \A i \in DOMAIN items : names[i] = IF wire = "ids" THEN i ELSE 0 BY DEF Named
    <3>5. DOMAIN items = 1..Len(items) BY <3>1
    <3>6. names \in Seq(Nat) /\ Len(names) = Len(items)
      <4>1. ASSUME NEW i \in DOMAIN items PROVE names[i] \in Nat
        <5>1. i \in Nat BY <3>1, <3>5
        <5> HIDE DEF names
        <5> QED BY <3>4, <5>1
      <4>2. names \in [1..Len(items) -> Nat] BY <3>5, <4>1
      <4> HIDE DEF names
      <4> QED BY <3>1, <4>2
    <3>7. wire' = wire BY <1>7 DEF Terminates
    <3>8. Merged'
      <4>1. DOMAIN ids' = DOMAIN items BY <3>3
      <4> QED BY <3>2, <3>3, <3>4, <3>7, <4>1 DEF Merged
    <3>9. Wording'
      <4>1. Wording BY DEF Worded
      <4>2. CASE items = said BY <1>3, <3>3, <4>1, <4>2 DEF Wording
      <4>3. ASSUME NEW n \in {i \in DOMAIN said : said[i].kind = "message"}, NEW p \in Pieces,
                   items = [said EXCEPT ![n].text = <<p>>]
            PROVE  Wording'
        <5>1. <<p>> \in Texts BY DEF Texts
        <5>2. DOMAIN items = DOMAIN output BY <1>3, <4>3
        <5>3. ASSUME NEW i \in DOMAIN items, items[i].kind = "message"
              PROVE  items[i].text \in Texts
          <6>1. CASE i # n
            <7>1. items[i] = output[i] BY <1>3, <4>3, <6>1
            <7> QED BY <4>1, <5>2, <5>3, <7>1 DEF Wording
          <6>2. CASE i = n
            <7>1. items[n] = [output[n] EXCEPT !.text = <<p>>] BY <1>3, <4>3
            <7>2. output[n] \in Items
              <8>1. output \in Seq(Items) /\ n \in 1..Len(output) BY <1>3 DEF Typed
              <8> QED BY <8>1
            <7> QED BY <5>1, <6>2, <7>1, <7>2 DEF Items
          <6> QED BY <6>1, <6>2
        <5> QED BY <3>3, <5>3 DEF Wording
      <4> QED BY <2>2, <4>2, <4>3 DEF Finals
    <3>10. Says BY <3>2, <3>3 DEF Says
    <3>11. terminal' \in {"stop", "length"} BY <1>7 DEF Terminates
    <3> QED BY <1>1, <1>7, <3>1, <3>2, <3>3, <3>6, <3>8, <3>9, <3>10, <3>11 DEF Terminates
  <2> QED BY <2>1, <2>2
<1> QED BY <1>4, <1>5, <1>6, <1>7 DEF ProviderSays

\* What is unchanged when the worker or the attempt moves on by itself.
outputVars == <<output, ids, said, terminal>>

\* How a call ends.
LEMMA CallEndsShape ==
  ASSUME NEW result, CallEnds(result), Typed
  PROVE  \/ /\ result = "answer" /\ mode = "main"
            /\ answer' = Message /\ phase' \in {"idle", "done"}
            /\ UNCHANGED <<summary, mode>>
         \/ /\ result = "answer" /\ mode = "summary"
            /\ summary' = TextOf(output) /\ mode' = "main" /\ phase' = "idle"
            /\ UNCHANGED answer
         \/ mode = "summary" /\ phase' = "backoff" /\ UNCHANGED resultVars
         \/ phase' = "done" /\ UNCHANGED <<answer, summary, mode>>
<1>1. CASE mode = "main"
  BY <1>1 DEF CallEnds, MainEnds, EndTurn
<1>2. CASE mode = "summary"
  BY <1>2 DEF CallEnds, SummaryEnds, EndTurn, resultVars
<1> QED BY <1>1, <1>2 DEF Typed

\* The steps that drop what was merged, and those that keep it.
LEMMA OutputShape ==
  ASSUME IInv, Next, ~ProviderSays
  PROVE  /\ wire' = wire
         /\ \/ output' = <<>> /\ ids' = <<>> /\ said' = <<>> /\ terminal' = "none"
            \/ UNCHANGED outputVars
<1> USE DEF outputVars, attemptVars, resultVars, cancelVars
<1>1. CASE Invoke BY <1>1 DEF Invoke, StartAttempt, Dropped, EndTurn
<1>2. CASE Opened BY <1>2 DEF Opened
<1>3. CASE ProviderFails BY <1>3 DEF ProviderFails, Dropped
<1>4. CASE FrameEnters BY <1>4 DEF FrameEnters
<1>5. CASE FrameRefused BY <1>5 DEF FrameRefused, Dropped
<1>6. CASE Abandoned BY <1>6 DEF Abandoned, GiveUp, Dropped, EndTurn
<1>7. CASE StreamEnds \/ StreamClosed \/ Settles BY <1>7 DEF StreamEnds, StreamClosed, Settles
<1>8. CASE BackoffEnds BY <1>8 DEF BackoffEnds, StartAttempt, Dropped
<1>9. CASE ClientClosed BY <1>9 DEF ClientClosed
<1>10. CASE DeadlineHits BY <1>10 DEF DeadlineHits, GiveUp, Dropped
<1>11. CASE Cancel BY <1>11 DEF Cancel
<1>12. CASE CancelObserved BY <1>12 DEF CancelObserved, GiveUp, LeaveBackoff, Dropped
<1>13. CASE TaskCancelled
  BY <1>13 DEF TaskCancelled, GiveUp, LeaveBackoff, Dropped, EndTurn
<1> QED BY <1>1, <1>2, <1>3, <1>4, <1>5, <1>6, <1>7, <1>8, <1>9, <1>10, <1>11, <1>12, <1>13
        DEF Next

LEMMA TypedStep ==
  ASSUME IInv, Next
  PROVE  Typed' /\ Merged'
<1> USE DEF IInv
<1>1. CASE ProviderSays
  <2>1. Typed'
    BY <1>1, SaysShape DEF Typed, Phases, resultVars
  <2> QED BY <1>1, <2>1, SaysShape
<1>2. CASE ~ProviderSays
  <2>1. wire' = wire /\ (\/ output' = <<>> /\ ids' = <<>> /\ said' = <<>>
                         \/ UNCHANGED <<output, ids, said>>)
    BY <1>2, OutputShape DEF outputVars
  <2>2. Merged' BY <2>1 DEF Merged
  <2>3. output' \in Seq(Items) /\ ids' \in Seq(Nat) /\ Len(ids') = Len(output')
    <3>1. CASE output' = <<>> /\ ids' = <<>> BY <3>1
    <3>2. CASE UNCHANGED <<output, ids>> BY <3>2 DEF Typed
    <3> QED BY <2>1, <3>1, <3>2
  <2>4. /\ mode' \in {"summary", "main"} /\ phase' \in Phases /\ outcome' \in Outcomes
        /\ invocation'.published \in BOOLEAN /\ "published" \in DOMAIN invocation'
    <3> USE DEF Typed, Phases, Outcomes, attemptVars, resultVars, cancelVars
    <3>1. CASE Invoke
      <4>1. outcome' \in {outcome, "none"} /\ invocation' \in {invocation, NoState}
        BY <3>1 DEF Invoke, StartAttempt, EndTurn
      <4>2. mode' = mode /\ phase' \in {"done", "requesting"}
        BY <3>1 DEF Invoke, StartAttempt, EndTurn
      <4>3. NoState.published \in BOOLEAN /\ "published" \in DOMAIN NoState BY DEF NoState
      <4>4. invocation'.published \in BOOLEAN /\ "published" \in DOMAIN invocation'
        <5>1. CASE invocation' = invocation BY <5>1
        <5>2. CASE invocation' = NoState BY <4>3, <5>2
        <5> QED BY <4>1, <5>1, <5>2
      <4> QED BY <4>1, <4>2, <4>4
    <3>2. CASE Opened \/ ProviderFails BY <3>2 DEF Opened, ProviderFails
    <3>3. CASE FrameEnters BY <3>3 DEF FrameEnters
    <3>4. CASE FrameRefused BY <3>4 DEF FrameRefused
    <3>5. CASE Abandoned BY <3>5 DEF Abandoned, GiveUp, EndTurn
    <3>6. CASE StreamEnds \/ StreamClosed \/ Settles
      BY <3>6 DEF StreamEnds, StreamClosed, Settles
    <3>7. CASE BackoffEnds BY <3>7 DEF BackoffEnds, StartAttempt, NoState
    <3>8. CASE ClientClosed
      <4>1. PICK result : CallEnds(result) BY <3>8 DEF ClientClosed
      <4>2. mode' \in {"summary", "main"} /\ phase' \in Phases BY <4>1, CallEndsShape
      <4>3. outcome' = outcome /\ invocation' = invocation BY <3>8 DEF ClientClosed
      <4> QED BY <4>2, <4>3
    <3>9. CASE DeadlineHits BY <3>9 DEF DeadlineHits, GiveUp
    <3>10. CASE Cancel BY <3>10 DEF Cancel
    <3>11. CASE CancelObserved BY <3>11 DEF CancelObserved, GiveUp, LeaveBackoff, EndTurn
    <3>12. CASE TaskCancelled
      <4>1. CASE phase = "closingClient"
        <5>1. PICK result : CallEnds(result)
          BY <3>12, <4>1 DEF TaskCancelled, GiveUp, LeaveBackoff
        <5>2. mode' \in {"summary", "main"} /\ phase' \in Phases BY <5>1, CallEndsShape
        <5>3. outcome' = outcome /\ invocation' = invocation
          BY <3>12, <4>1 DEF TaskCancelled, GiveUp, LeaveBackoff
        <5> QED BY <5>2, <5>3
      <4>2. CASE phase # "closingClient"
        BY <3>12, <4>2 DEF TaskCancelled, GiveUp, LeaveBackoff, EndTurn
      <4> QED BY <4>1, <4>2
    <3> QED BY <1>2, <3>1, <3>2, <3>3, <3>4, <3>5, <3>6, <3>7, <3>8, <3>9, <3>10, <3>11, <3>12
            DEF Next
  <2> QED BY <2>1, <2>2, <2>3, <2>4 DEF Typed
<1> QED BY <1>1, <1>2

LEMMA KeptStep ==
  ASSUME IInv, Next
  PROVE  Kept'
<1> USE DEF Kept, InCall, attemptVars, resultVars, cancelVars
<1>0. Typed /\ Kept BY DEF IInv
<1>1. CASE Invoke
  BY <1>0, <1>1 DEF Invoke, StartAttempt, EndTurn
<1>2. CASE Opened BY <1>0, <1>2 DEF Opened
<1>3. CASE ProviderFails BY <1>0, <1>3 DEF ProviderFails
<1>4. CASE ProviderSays
  <2>1. /\ phase = "streaming" /\ phase' \in {"streaming", "publishing"}
        /\ answer' = answer /\ summary' = summary
    BY <1>4, SaysShape
  <2> QED BY <1>0, <2>1
<1>5. CASE FrameEnters BY <1>0, <1>5 DEF FrameEnters
<1>6. CASE FrameRefused BY <1>0, <1>6 DEF FrameRefused
<1>7. CASE Abandoned BY <1>0, <1>7 DEF Abandoned, GiveUp, EndTurn
<1>8. CASE StreamEnds
  <2>1. outcome' = "answer" => Accepted BY <1>8 DEF StreamEnds
  <2>2. UNCHANGED <<output, terminal, mode, answer, summary>> BY <1>8 DEF StreamEnds
  <2>3. Accepted => Accepted' BY <2>2 DEF Accepted
  <2>4. phase = "streaming" /\ phase' = "closingStream" BY <1>8 DEF StreamEnds
  <2> QED BY <1>0, <2>1, <2>2, <2>3, <2>4
<1>9. CASE StreamClosed \/ Settles
  <2>1. UNCHANGED <<output, terminal, mode, answer, summary>>
    BY <1>9 DEF StreamClosed, Settles
  <2>2. Accepted => Accepted' BY <2>1 DEF Accepted
  <2>3. /\ phase \in {"closingStream", "settled"}
        /\ phase' \in {"settled", "backoff", "closingClient"}
        /\ outcome' = "answer" => outcome = "answer"
    BY <1>9 DEF StreamClosed, Settles
  <2> QED BY <1>0, <2>1, <2>2, <2>3
<1>10. CASE BackoffEnds BY <1>0, <1>10 DEF BackoffEnds, StartAttempt
<1>11. ASSUME NEW result, CallEnds(result), phase = "closingClient",
              result = "answer" => outcome = "answer" /\ UNCHANGED <<output, terminal>>
       PROVE  Kept'
  <2>1. answer = None /\ summary = <<>> BY <1>0, <1>11
  <2>2. CASE result = "answer" /\ mode = "main" /\ answer' = Message
             /\ phase' \in {"idle", "done"} /\ UNCHANGED <<summary, mode>>
    <3>1. \A i \in DOMAIN CallsOf(output) : Decodes(CallsOf(output)[i])
      BY <1>0, <1>11, <2>2 DEF Accepted
    <3>2. answer'.text = TextOf(output) /\ answer'.calls = CallsOf(output)
      BY <2>2 DEF Message
    <3>3. output' = output BY <1>11, <2>2
    <3> QED BY <2>1, <2>2, <3>1, <3>2, <3>3
  <2>3. CASE result = "answer" /\ mode = "summary" /\ summary' = TextOf(output)
             /\ mode' = "main" /\ phase' = "idle" /\ UNCHANGED answer
    <3>1. terminal = "stop" BY <1>0, <1>11, <2>3 DEF Accepted
    <3> QED BY <1>11, <2>1, <2>3, <3>1
  <2>4. CASE phase' \in {"backoff", "done"} /\ UNCHANGED <<answer, summary>>
    BY <2>1, <2>4
  <2> QED BY <1>0, <1>11, <2>2, <2>3, <2>4, CallEndsShape
<1>12. CASE ClientClosed BY <1>11, <1>12 DEF ClientClosed
<1>13. CASE DeadlineHits BY <1>0, <1>13 DEF DeadlineHits, GiveUp
<1>14. CASE Cancel
  <2>1. UNCHANGED <<output, terminal, mode, answer, summary, phase, outcome>>
    BY <1>14 DEF Cancel
  <2>2. Accepted => Accepted' BY <2>1 DEF Accepted
  <2> QED BY <1>0, <2>1, <2>2
<1>15. CASE CancelObserved
  BY <1>0, <1>15 DEF CancelObserved, GiveUp, LeaveBackoff, EndTurn
<1>16. CASE TaskCancelled
  <2>1. CASE phase = "closingClient"
    <3>1. PICK result : CallEnds(result) /\ result # "answer"
      BY <1>16, <2>1 DEF TaskCancelled, GiveUp, LeaveBackoff
    <3> QED BY <1>11, <2>1, <3>1
  <2>2. CASE phase # "closingClient"
    BY <1>0, <1>16, <2>2 DEF TaskCancelled, GiveUp, LeaveBackoff, EndTurn
  <2> QED BY <2>1, <2>2
<1> QED BY <1>1, <1>2, <1>3, <1>4, <1>5, <1>6, <1>7, <1>8, <1>9, <1>10, <1>12, <1>13, <1>14,
           <1>15, <1>16 DEF Next

LEMMA UnseenStep ==
  ASSUME IInv, Next
  PROVE  Unseen'
<1> USE DEF Unseen, InCall, attemptVars, resultVars, cancelVars
<1>0. Typed /\ Unseen BY DEF IInv
<1>1. CASE Invoke
  BY <1>0, <1>1 DEF Invoke, StartAttempt, EndTurn, NoState
<1>2. CASE Opened BY <1>0, <1>2 DEF Opened
<1>3. CASE ProviderFails BY <1>0, <1>3 DEF ProviderFails
<1>4. CASE ProviderSays
  <2>1. /\ phase = "streaming"
        /\ mode' = mode /\ shown' = shown /\ base' = base
        /\ \/ UNCHANGED <<phase, invocation>>
           \/ phase' = "publishing" /\ mode = "main" /\ invocation'.published = TRUE
    BY <1>4, SaysShape
  <2> QED BY <1>0, <2>1
<1>5. CASE FrameEnters
  <2>1. /\ phase = "publishing" /\ phase' \in {"publishing", "streaming"}
        /\ mode' = mode /\ invocation'.published = invocation.published
    BY <1>0, <1>5 DEF FrameEnters, Typed
  <2> QED BY <1>0, <2>1 DEF Typed
<1>6. CASE FrameRefused BY <1>0, <1>6 DEF FrameRefused
<1>7. CASE Abandoned BY <1>0, <1>7 DEF Abandoned, GiveUp, EndTurn
<1>8. CASE StreamEnds \/ StreamClosed BY <1>0, <1>8 DEF StreamEnds, StreamClosed
<1>9. CASE Settles BY <1>0, <1>9 DEF Settles, MayRetry
<1>10. CASE BackoffEnds
  BY <1>0, <1>10 DEF BackoffEnds, StartAttempt, NoState
<1>11. ASSUME NEW result, CallEnds(result), phase = "closingClient",
              UNCHANGED <<invocation, shown, base>>
       PROVE  Unseen'
  BY <1>0, <1>11, CallEndsShape
<1>12. CASE ClientClosed BY <1>11, <1>12 DEF ClientClosed
<1>13. CASE DeadlineHits BY <1>0, <1>13 DEF DeadlineHits, GiveUp
<1>14. CASE Cancel BY <1>0, <1>14 DEF Cancel
<1>15. CASE CancelObserved
  BY <1>0, <1>15 DEF CancelObserved, GiveUp, LeaveBackoff, EndTurn
<1>16. CASE TaskCancelled
  <2>1. CASE phase = "closingClient"
    <3>1. PICK result : CallEnds(result)
      BY <1>16, <2>1 DEF TaskCancelled, GiveUp, LeaveBackoff
    <3>2. UNCHANGED <<invocation, shown, base>> BY <1>16 DEF TaskCancelled
    <3> QED BY <1>11, <2>1, <3>1, <3>2
  <2>2. CASE phase # "closingClient"
    BY <1>0, <1>16, <2>2 DEF TaskCancelled, GiveUp, LeaveBackoff, EndTurn
  <2> QED BY <2>1, <2>2
<1> QED BY <1>1, <1>2, <1>3, <1>4, <1>5, <1>6, <1>7, <1>8, <1>9, <1>10, <1>12, <1>13, <1>14,
           <1>15, <1>16 DEF Next

LEMMA ReleasedStep ==
  ASSUME IInv, Next
  PROVE  Released'
<1> USE DEF Released, InCall, attemptVars, resultVars, cancelVars
<1>0. Typed /\ Released BY DEF IInv
<1>a. ASSUME NEW result, GiveUp(result) PROVE Released'
  BY <1>0, <1>a DEF GiveUp
<1>b. ASSUME NEW result, LeaveBackoff(result) PROVE Released'
  <2>1. CASE mode = "main" BY <1>0, <1>b, <2>1 DEF LeaveBackoff
  <2>2. CASE mode # "main" BY <1>0, <1>b, <2>2 DEF LeaveBackoff, EndTurn, Typed
  <2> QED BY <2>1, <2>2
<1>1. CASE Invoke BY <1>0, <1>1 DEF Invoke, StartAttempt, EndTurn
<1>2. CASE Opened \/ ProviderFails BY <1>0, <1>2 DEF Opened, ProviderFails
<1>3. CASE ProviderSays
  <2>1. /\ phase = "streaming" /\ phase' \in {"streaming", "publishing"}
        /\ UNCHANGED <<stream, client, mode>>
    BY <1>3, SaysShape
  <2> QED BY <1>0, <2>1
<1>4. CASE FrameEnters BY <1>0, <1>4 DEF FrameEnters
<1>5. CASE FrameRefused BY <1>0, <1>5 DEF FrameRefused
<1>6. CASE Abandoned BY <1>0, <1>6 DEF Abandoned, GiveUp, EndTurn
<1>7. CASE StreamEnds \/ StreamClosed BY <1>0, <1>7 DEF StreamEnds, StreamClosed
<1>8. CASE Settles BY <1>0, <1>8 DEF Settles, MayRetry
<1>9. CASE BackoffEnds BY <1>0, <1>9 DEF BackoffEnds, StartAttempt
<1>10. CASE ClientClosed BY <1>0, <1>10 DEF ClientClosed
<1>11. CASE DeadlineHits BY <1>0, <1>11 DEF DeadlineHits, GiveUp
<1>12. CASE Cancel BY <1>0, <1>12 DEF Cancel
<1>13. CASE CancelObserved BY <1>a, <1>b, <1>13 DEF CancelObserved
<1>14. CASE TaskCancelled
  <2>1. CASE phase = "idle"
    <3>1. UNCHANGED <<stream, client>> /\ phase' = "done"
      BY <1>14, <2>1 DEF TaskCancelled, GiveUp, LeaveBackoff, EndTurn
    <3> QED BY <1>0, <2>1, <3>1
  <2>2. CASE phase = "closingClient"
    <3>1. UNCHANGED stream /\ client' = "cut"
      BY <1>14, <2>2 DEF TaskCancelled, GiveUp, LeaveBackoff
    <3> QED BY <1>0, <2>2, <3>1
  <2>3. CASE phase \notin {"idle", "closingClient"}
    <3>1. GiveUp("taskCancelled") \/ LeaveBackoff("taskCancelled")
      BY <1>14, <2>3 DEF TaskCancelled
    <3> QED BY <1>a, <1>b, <3>1
  <2> QED BY <2>1, <2>2, <2>3
<1> QED BY <1>1, <1>2, <1>3, <1>4, <1>5, <1>6, <1>7, <1>8, <1>9, <1>10, <1>11, <1>12, <1>13,
           <1>14 DEF Next
LEMMA BoundedStep ==
  ASSUME IInv, Next
  PROVE  Bounded'
<1> USE DEF Bounded, Limit, InCall, attemptVars, resultVars, cancelVars
<1>0. Typed /\ Bounded BY DEF IInv
<1>1. \A n \in {MaxAttempts, SummaryAttempts} : n \in Nat /\ n >= 1
  BY StreamingAssumption
<1>2. Iterations \in Nat BY StreamingAssumption
<1>a. ASSUME NEW result, GiveUp(result), UNCHANGED <<cancelled, lost, attempt>>,
             taskCancel' \in BOOLEAN
      PROVE  Bounded'
  <2>1. /\ InCall /\ phase' \in {"closingStream", "closingClient"}
        /\ stream' \in {stream, "cut"} /\ terminal' = "none"
        /\ UNCHANGED <<client, resultVars>>
    BY <1>a DEF GiveUp, Dropped
  <2> QED BY <1>0, <1>a, <2>1
<1>b. ASSUME NEW result, LeaveBackoff(result), UNCHANGED <<cancelled, lost, attempt>>,
             taskCancel' \in BOOLEAN
      PROVE  Bounded'
  <2>1. /\ InCall /\ phase' \in {"done", "closingClient"}
        /\ terminal' = "none" /\ status' \in {status, "cancelled"}
        /\ UNCHANGED <<stream, client, mode, round>>
    BY <1>b DEF LeaveBackoff, Dropped, EndTurn
  <2> QED BY <1>0, <1>b, <2>1
<1>3. CASE Invoke
  <2>1. CASE cancelled BY <1>0, <1>3, <2>1 DEF Invoke, EndTurn
  <2>2. CASE ~cancelled
    <3>1. /\ attempt' = 1 /\ phase' = "requesting" /\ client' = "open" /\ terminal' = "none"
          /\ UNCHANGED <<stream, status, mode, round, cancelled, taskCancel, lost>>
      BY <1>3, <2>2 DEF Invoke, StartAttempt, Dropped
    <3>2. mode' \in {"summary", "main"} BY <1>0, <3>1 DEF Typed
    <3> QED BY <1>0, <1>1, <3>1, <3>2
  <2> QED BY <2>1, <2>2
<1>4. CASE Opened \/ ProviderFails
  BY <1>0, <1>4 DEF Opened, ProviderFails, Dropped
<1>5. CASE ProviderSays
  <2>1. /\ phase = "streaming" /\ phase' \in {"streaming", "publishing"}
        /\ terminal' \in {terminal, "stop", "length"}
        /\ UNCHANGED <<resultVars, cancelVars, attempt, stream, client>>
    BY <1>5, SaysShape
  <2> QED BY <1>0, <2>1
<1>6. CASE FrameEnters BY <1>0, <1>6 DEF FrameEnters
<1>7. CASE FrameRefused BY <1>0, <1>7 DEF FrameRefused, Dropped
<1>8. CASE Abandoned
  <2>1. UNCHANGED <<cancelled, lost, attempt, taskCancel>> /\ taskCancel \in BOOLEAN
    BY <1>0, <1>8 DEF Abandoned
  <2>2. CASE GiveUp("taskCancelled") BY <1>a, <2>1, <2>2
  <2>3. CASE ~GiveUp("taskCancelled") BY <1>0, <1>8, <2>1, <2>3 DEF Abandoned, EndTurn
  <2> QED BY <2>2, <2>3
<1>9. CASE StreamEnds \/ StreamClosed BY <1>0, <1>9 DEF StreamEnds, StreamClosed
<1>10. CASE Settles
  <2>1. /\ InCall /\ phase' \in {"closingClient", "backoff"}
        /\ phase' = "backoff" => mode = "main" /\ attempt < MaxAttempts
        /\ UNCHANGED <<terminal, resultVars, cancelVars, attempt, stream, client>>
    BY <1>10 DEF Settles, MayRetry
  <2> QED BY <1>0, <2>1
<1>11. CASE BackoffEnds
  <2>1. /\ phase = "backoff" /\ attempt' = attempt + 1 /\ phase' = "requesting"
        /\ client' = "open" /\ terminal' = "none"
        /\ UNCHANGED <<stream, resultVars, cancelVars>>
    BY <1>11 DEF BackoffEnds, StartAttempt, Dropped
  <2>2. attempt < Limit /\ attempt \in 1..Limit /\ Limit \in Nat /\ Limit' = Limit
    <3>1. Typed BY <1>0
    <3> QED BY <1>0, <1>1, <2>1, <3>1 DEF Typed
  <2>3. attempt' \in 1..Limit /\ attempt' \in Nat
    <3> HIDE DEF Limit
    <3> QED BY <2>1, <2>2
  <2> HIDE DEF Limit
  <2> QED BY <1>0, <2>1, <2>2, <2>3
<1>12. ASSUME NEW result, CallEnds(result), phase = "closingClient"
       PROVE  /\ round' \in 0..Iterations
              /\ status' \in {"running", "completed", "failed", "limited", "cancelled"}
              /\ phase' \in {"idle", "done", "backoff"}
              /\ phase' = "backoff" => mode' = mode /\ mode = "summary" /\ attempt < Limit
  <2>1. CASE mode = "main"
    <3>1. \/ round' = round
          \/ round' = round + 1 /\ round < Iterations
      BY <1>12, <2>1 DEF CallEnds, MainEnds, EndTurn
    <3>2. round' \in 0..Iterations BY <1>0, <1>2, <3>1
    <3> QED BY <1>0, <1>12, <2>1, <3>2 DEF CallEnds, MainEnds, EndTurn
  <2>2. CASE mode # "main"
    <3>1. mode = "summary" BY <1>0, <2>2 DEF Typed
    <3> QED BY <1>0, <1>12, <2>2, <3>1 DEF CallEnds, SummaryEnds, EndTurn
  <2> QED BY <2>1, <2>2
<1>13. CASE ClientClosed
  <2>1. PICK result : CallEnds(result) BY <1>13 DEF ClientClosed
  <2>2. /\ phase = "closingClient" /\ client' = "none"
        /\ UNCHANGED <<terminal, cancelVars, attempt, stream>>
    BY <1>13 DEF ClientClosed
  <2>3. InCall BY <2>2
  <2>4. phase' = "backoff" => attempt \in 1..Limit /\ attempt < Limit /\ Limit' = Limit
    BY <1>0, <1>12, <2>1, <2>2, <2>3
  <2> HIDE DEF Limit
  <2> QED BY <1>0, <1>12, <2>1, <2>2, <2>4
<1>14. CASE DeadlineHits
  <2>1. UNCHANGED <<cancelled, lost, attempt, taskCancel>> /\ taskCancel \in BOOLEAN
    BY <1>0, <1>14 DEF DeadlineHits
  <2>2. PICK result : GiveUp(result) BY <1>14 DEF DeadlineHits
  <2> QED BY <1>a, <2>1, <2>2
<1>15. CASE Cancel BY <1>0, <1>15 DEF Cancel
<1>16. CASE CancelObserved
  <2>1. UNCHANGED <<cancelled, lost, attempt, taskCancel>> /\ taskCancel \in BOOLEAN
    BY <1>0, <1>16 DEF CancelObserved
  <2>2. GiveUp("agentCancelled") \/ LeaveBackoff("agentCancelled")
    BY <1>16 DEF CancelObserved
  <2> QED BY <1>a, <1>b, <2>1, <2>2
<1>17. CASE TaskCancelled
  <2>0. taskCancel' = TRUE /\ UNCHANGED <<cancelled, attempt>> BY <1>17 DEF TaskCancelled
  <2>1. CASE GiveUp("taskCancelled") /\ UNCHANGED lost BY <1>a, <2>0, <2>1
  <2>2. CASE LeaveBackoff("taskCancelled") /\ UNCHANGED lost BY <1>b, <2>0, <2>2
  <2>3. CASE phase = "idle" /\ EndTurn("cancelled") /\ UNCHANGED <<terminal, stream, client, lost>>
    BY <1>0, <2>0, <2>3 DEF EndTurn
  <2>4. CASE /\ phase = "closingClient" /\ client' = "cut" /\ UNCHANGED stream
             /\ lost' = (outcome \notin {"answer", "agentCancelled"})
             /\ CallEnds(IF outcome = "answer" THEN "taskCancelled" ELSE outcome)
             /\ Dropped
    <3>1. PICK result : CallEnds(result) BY <2>4
    <3>2. terminal' = "none" /\ lost' \in BOOLEAN
      <4>1. terminal' = "none" BY <2>4 DEF Dropped
      <4>2. (outcome \notin {"answer", "agentCancelled"}) \in BOOLEAN OBVIOUS
      <4> QED BY <2>4, <4>1, <4>2
    <3>3. InCall BY <2>4
    <3>4. phase' = "backoff" => attempt \in 1..Limit /\ attempt < Limit /\ Limit' = Limit
      BY <1>0, <1>12, <2>4, <3>1, <3>3
    <3>5. /\ round' \in 0..Iterations
          /\ status' \in {"running", "completed", "failed", "limited", "cancelled"}
          /\ phase' \in {"idle", "done", "backoff"}
      BY <1>12, <2>4, <3>1
    <3> HIDE DEF Limit
    <3> QED BY <1>0, <2>0, <2>4, <3>2, <3>4, <3>5
  <2> QED BY <1>17, <2>1, <2>2, <2>3, <2>4 DEF TaskCancelled
<1> QED BY <1>3, <1>4, <1>5, <1>6, <1>7, <1>8, <1>9, <1>10, <1>11, <1>13, <1>14, <1>15, <1>16,
           <1>17 DEF Next

\* A publication that begins: what is shown and the rest are the snapshot.
LEMMA PublishShows ==
  ASSUME Worded, NEW text \in Texts, Publish(text),
         invocation.visible # <<>> => shown = invocation.visible
  PROVE  /\ phase' = "publishing"
         /\ invocation' \in [published : BOOLEAN, visible : Texts]
         /\ pending' \in [target : Texts, rest : Texts, replace : BOOLEAN]
         /\ pending'.target = text
         /\ pending'.replace => pending'.rest = text
         /\ ~pending'.replace => shown \o pending'.rest = text
<1> USE DEF Worded
<1> DEFINE rest == SubSeq(text, Len(invocation.visible) + 1, Len(text))
<1>1. /\ pending'.target = text /\ pending'.replace = Replaces(text)
      /\ pending'.rest = IF Replaces(text) THEN text ELSE rest
      /\ pending' = [target |-> text, rest |-> pending'.rest, replace |-> pending'.replace]
      /\ phase' = "publishing"
  BY DEF Publish
<1>2. invocation' = [published |-> TRUE, visible |-> invocation.visible]
  BY DEF Publish
<1>3. Replaces(text) \in BOOLEAN
  BY DEF Replaces
<1>4. invocation.visible \in Seq(Pieces) /\ text \in Seq(Pieces) BY DEF Texts
<1>5. CASE Replaces(text)
  BY <1>1, <1>2, <1>3, <1>4, <1>5 DEF Texts
<1>6. CASE ~Replaces(text)
  <2>1. IsPrefix(invocation.visible, text) /\ shown = invocation.visible
    BY <1>6 DEF Replaces
  <2>2. rest \in Seq(Pieces) /\ shown \o rest = text BY <1>4, <2>1, PrefixAndRest
  <2> HIDE DEF rest
  <2> QED BY <1>1, <1>2, <1>3, <1>4, <1>6, <2>2 DEF Texts
<1> QED BY <1>5, <1>6

\* The text of the output is text, and its message a message.
LEMMA TextTyped ==
  ASSUME IInv
  PROVE  TextOf(output) \in Texts /\ Message \in Messages
<1>1. output \in Seq(Items) /\ Wording BY DEF IInv, Typed, Worded
<1>2. TextOf(output) \in Texts /\ CallsOf(output) \in Seq(Contents)
  BY <1>1, OutputMeans DEF Wording
<1> QED BY <1>2 DEF Message, Messages

\* An event of the Provider keeps the text of the output what is shown or
\* is being published.
LEMMA SaysShows ==
  ASSUME IInv, ProviderSays
  PROVE  Worded' /\ Visible'
<1> DEFINE t == TextOf(output')
<1>1. /\ phase = "streaming" /\ Wording' /\ Says /\ output' \in Seq(Items)
      /\ UNCHANGED <<outcome, mode, shown, base, summary, answer>>
      /\ \/ UNCHANGED <<phase, invocation>>
         \/ phase' = "publishing" /\ mode = "main"
  BY SaysShape DEF resultVars
<1>2. t \in Texts
  <2>1. \A i \in DOMAIN output' : output'[i].kind = "message" => output'[i].text \in Texts
    BY <1>1 DEF Wording
  <2> QED BY <1>1, <2>1, OutputMeans
<1>3. AnswerIsShown /\ AnswerIsShown' /\ Worded
  BY <1>1 DEF IInv, Visible, AnswerIsShown
<1>4. mode = "main" => /\ invocation.visible = TextOf(output)
                       /\ invocation.visible # <<>> => shown = invocation.visible
  BY <1>1 DEF IInv, Visible
<1>5. CASE UNCHANGED <<output, invocation, pending, phase>>
  <2>1. Worded' BY <1>1, <1>3, <1>5 DEF Worded
  <2>2. phase' = "streaming" /\ UNCHANGED <<mode, shown, invocation, output>> BY <1>1, <1>5
  <2>3. Visible' BY <1>3, <1>4, <2>2 DEF Visible
  <2> QED BY <2>1, <2>3
<1>6. ASSUME NEW names, Merge(output', names) PROVE Worded' /\ Visible'
  <2>1. CASE mode = "main" /\ t # invocation.visible
    <3>1. Publish(t) BY <1>6, <2>1 DEF Merge
    <3>2. /\ phase' = "publishing"
          /\ invocation' \in [published : BOOLEAN, visible : Texts]
          /\ pending' \in [target : Texts, rest : Texts, replace : BOOLEAN]
          /\ pending'.target = t
          /\ pending'.replace => pending'.rest = t
          /\ ~pending'.replace => shown \o pending'.rest = t
      BY <1>2, <1>3, <1>4, <2>1, <3>1, PublishShows
    <3>3. Worded' BY <1>1, <1>3, <3>2 DEF Worded
    <3>4. shown' = shown BY <1>1
    <3>5. /\ pending'.target = TextOf(output)'
          /\ pending'.replace => pending'.rest = pending'.target
          /\ ~pending'.replace => shown' \o pending'.rest = pending'.target
      BY ONLY <3>2, <3>4
    <3>6. phase' = "publishing" /\ AnswerIsShown' BY <1>3, <3>2
    <3>7. Visible' BY ONLY <3>5, <3>6 DEF Visible
    <3> QED BY <3>3, <3>7
  <2>2. CASE ~(mode = "main" /\ t # invocation.visible)
    <3>1. UNCHANGED <<invocation, pending, phase>> BY <1>6, <2>2 DEF Merge
    <3>2. Worded' BY <1>1, <1>3, <3>1 DEF Worded
    <3>3. phase' = "streaming" /\ AnswerIsShown' BY <1>1, <1>3, <3>1
    <3>4. mode' = "main" => /\ invocation'.visible = TextOf(output)'
                            /\ TextOf(output)' # <<>> => shown' = TextOf(output)'
      BY <1>1, <1>4, <2>2, <3>1
    <3>5. Visible' BY ONLY <3>3, <3>4 DEF Visible
    <3> QED BY <3>2, <3>5
  <2> QED BY <2>1, <2>2
<1> QED BY <1>1, <1>5, <1>6 DEF Says

\* A frame that enters moves a part of the rest to what is shown.
LEMMA FrameShows ==
  ASSUME IInv, FrameEnters
  PROVE  Worded' /\ Visible'
<1> DEFINE size  == IF Len(pending.rest) < Chunk THEN Len(pending.rest) ELSE Chunk
           piece == SubSeq(pending.rest, 1, size)
           left  == SubSeq(pending.rest, size + 1, Len(pending.rest))
<1>1. /\ phase = "publishing" /\ mode = "main"
      /\ UNCHANGED <<outcome, output, mode, base, summary, answer>>
  <2>1. phase = "publishing" BY DEF FrameEnters
  <2>2. mode = "main" BY <2>1 DEF IInv, Unseen, Typed
  <2> QED BY <2>1, <2>2 DEF FrameEnters, resultVars
<1>2. Worded /\ Visible BY DEF IInv
<1>3. answer = None BY <1>1 DEF IInv, Kept, InCall
<1>4. /\ pending.rest \in Seq(Pieces) /\ shown \in Seq(Pieces)
      /\ pending \in [target : Texts, rest : Texts, replace : BOOLEAN]
      /\ invocation \in [published : BOOLEAN, visible : Texts]
  BY <1>2 DEF Worded, Texts
<1>5. size \in 0..Len(pending.rest) BY <1>4, StreamingAssumption
<1>6. piece \in Seq(Pieces) /\ left \in Seq(Pieces) /\ piece \o left = pending.rest
  <2> HIDE DEF size
  <2> QED BY <1>4, <1>5, CutInTwo
<1>7. /\ shown' = IF pending.replace THEN piece ELSE shown \o piece
      /\ left = <<>> => /\ phase' = "streaming"
                        /\ invocation' = [invocation EXCEPT !.visible = pending.target]
                        /\ pending' = NotPending
      /\ left # <<>> => /\ pending' = [pending EXCEPT !.rest = left, !.replace = FALSE]
                        /\ UNCHANGED <<phase, invocation>>
  BY DEF FrameEnters
<1> HIDE DEF size, piece, left
<1>8. shown' \in Seq(Pieces) BY <1>4, <1>6, <1>7
<1>9. shown' \o left = pending.target
  <2>1. CASE pending.replace BY <1>1, <1>2, <1>6, <1>7, <2>1 DEF Visible
  <2>2. CASE ~pending.replace
    <3>1. (shown \o piece) \o left = shown \o (piece \o left)
      <4>1. shown \in Seq(Pieces) /\ piece \in Seq(Pieces) /\ left \in Seq(Pieces) BY <1>4, <1>6
      <4> QED BY ONLY <4>1, ConcatAssociative, SMTT(60)
    <3> QED BY <1>1, <1>2, <1>6, <1>7, <2>2, <3>1 DEF Visible
  <2> QED BY <2>1, <2>2
<1>10. Wording' BY <1>1, <1>2 DEF Worded, Wording
<1>11. pending.target = TextOf(output) /\ pending.target \in Texts
  BY <1>1, <1>2, <1>4 DEF Visible
<1>12. CASE left = <<>>
  <2>1. shown' = pending.target BY <1>8, <1>9, <1>12, ConcatEmptySeq
  <2>2. /\ invocation' \in [published : BOOLEAN, visible : Texts]
        /\ invocation'.visible = pending.target
    BY <1>4, <1>7, <1>11, <1>12
  <2>3. pending' \in [target : Texts, rest : Texts, replace : BOOLEAN]
    <3>1. <<>> \in Texts BY DEF Texts
    <3>2. NotPending \in [target : Texts, rest : Texts, replace : BOOLEAN]
      BY <3>1 DEF NotPending
    <3> QED BY <1>7, <1>12, <3>2
  <2>4. Worded' BY <1>1, <1>2, <1>8, <1>10, <2>2, <2>3 DEF Worded, Texts
  <2>5. Visible'
    <3>1. phase' = "streaming" /\ answer' = None BY <1>1, <1>3, <1>7, <1>12
    <3>2. /\ invocation'.visible = TextOf(output)' /\ shown' = TextOf(output)'
      BY <1>1, <1>11, <2>1, <2>2
    <3> QED BY ONLY <3>1, <3>2 DEF Visible, AnswerIsShown
  <2> QED BY <2>4, <2>5
<1>13. CASE left # <<>>
  <2>1. /\ pending' \in [target : Texts, rest : Texts, replace : BOOLEAN]
        /\ pending'.target = pending.target /\ pending'.rest = left /\ ~pending'.replace
    BY <1>4, <1>6, <1>7, <1>13 DEF Texts
  <2>2. Worded' BY <1>1, <1>2, <1>7, <1>8, <1>10, <1>13, <2>1 DEF Worded, Texts
  <2>3. Visible'
    <3>1. phase' = "publishing" /\ answer' = None BY <1>1, <1>3, <1>7, <1>13
    <3>2. /\ pending'.target = TextOf(output)' /\ ~pending'.replace
          /\ shown' \o pending'.rest = pending'.target
      BY <1>1, <1>9, <1>11, <2>1
    <3> QED BY ONLY <3>1, <3>2 DEF Visible, AnswerIsShown
  <2> QED BY <2>2, <2>3
<1> QED BY <1>12, <1>13

LEMMA WordedStep ==
  ASSUME IInv, Next
  PROVE  Worded'
<1> USE DEF attemptVars, resultVars, cancelVars
<1>0. Typed /\ Worded BY DEF IInv
<1>1. CASE ProviderSays BY <1>1, SaysShows
<1>2. CASE FrameEnters BY <1>2, FrameShows
<1>3. CASE ~ProviderSays /\ ~FrameEnters
  <2>1. Wording'
    <3>1. output' = <<>> \/ output' = output BY <1>3, OutputShape DEF outputVars
    <3>2. Wording BY <1>0 DEF Worded
    <3> QED BY <3>1, <3>2 DEF Wording
  <2>2. <<>> \in Texts BY DEF Texts
  <2>3. /\ NoState \in [published : BOOLEAN, visible : Texts]
        /\ NotPending \in [target : Texts, rest : Texts, replace : BOOLEAN]
    BY <2>2 DEF NoState, NotPending
  <2>a. ASSUME NEW result, CallEnds(result)
        PROVE  /\ summary' \in {summary, TextOf(output)}
               /\ answer' \in {answer, Message}
    BY <1>0, <2>a, CallEndsShape DEF resultVars
  <2>4. /\ invocation' \in {invocation, NoState}
        /\ pending' \in {pending, NotPending}
        /\ shown' = shown /\ base' \in {base, shown}
        /\ summary' \in {summary, <<>>, TextOf(output)}
        /\ answer' \in {answer, None, Message}
    <3>1. CASE Invoke BY <3>1 DEF Invoke, StartAttempt, Dropped, EndTurn
    <3>2. CASE Opened \/ ProviderFails BY <3>2 DEF Opened, ProviderFails, Dropped
    <3>3. CASE FrameRefused BY <3>3 DEF FrameRefused, Dropped
    <3>4. CASE Abandoned BY <3>4 DEF Abandoned, GiveUp, Dropped, EndTurn
    <3>5. CASE StreamEnds \/ StreamClosed \/ Settles
      BY <3>5 DEF StreamEnds, StreamClosed, Settles
    <3>6. CASE BackoffEnds BY <3>6 DEF BackoffEnds, StartAttempt, Dropped
    <3>7. CASE ClientClosed
      <4>1. PICK result : CallEnds(result) BY <3>7 DEF ClientClosed
      <4>2. UNCHANGED <<invocation, pending, shown, base>> BY <3>7 DEF ClientClosed
      <4> QED BY <2>a, <4>1, <4>2
    <3>8. CASE DeadlineHits BY <3>8 DEF DeadlineHits, GiveUp, Dropped
    <3>9. CASE Cancel BY <3>9 DEF Cancel
    <3>10. CASE CancelObserved BY <3>10 DEF CancelObserved, GiveUp, LeaveBackoff, Dropped, EndTurn
    <3>11. CASE TaskCancelled
      <4>1. CASE phase = "closingClient"
        <5>1. PICK result : CallEnds(result)
          BY <3>11, <4>1 DEF TaskCancelled, GiveUp, LeaveBackoff
        <5>2. UNCHANGED <<invocation, shown, base>> /\ pending' = NotPending
          BY <3>11, <4>1 DEF TaskCancelled, GiveUp, LeaveBackoff, Dropped
        <5> QED BY <2>a, <5>1, <5>2
      <4>2. CASE phase # "closingClient"
        BY <3>11, <4>2 DEF TaskCancelled, GiveUp, LeaveBackoff, Dropped, EndTurn
      <4> QED BY <4>1, <4>2
    <3> QED BY <1>3, <3>1, <3>2, <3>3, <3>4, <3>5, <3>6, <3>7, <3>8, <3>9, <3>10, <3>11 DEF Next
  <2>5. TextOf(output) \in Texts /\ Message \in Messages BY TextTyped
  <2> QED BY <1>0, <2>1, <2>2, <2>3, <2>4, <2>5 DEF Worded
<1> QED BY <1>1, <1>2, <1>3

LEMMA VisibleStep ==
  ASSUME IInv, Next
  PROVE  Visible'
<1> USE DEF InCall, attemptVars, resultVars, cancelVars
<1>0. Typed /\ Visible /\ Kept BY DEF IInv
\* Where nothing can be wrong any more: the message is as it was, if any.
<1>a. ASSUME phase' \in {"closingStream", "settled", "closingClient", "backoff", "done", "idle"},
             outcome' # "answer", UNCHANGED <<shown, answer>>
      PROVE  Visible'
  <2>1. AnswerIsShown' BY <1>0, <1>a DEF Visible, AnswerIsShown
  <2> QED BY <1>a, <2>1 DEF Visible
<1>b. ASSUME phase' = "requesting", output' = <<>>, invocation' = NoState, answer' = None
      PROVE  Visible'
  BY <1>b DEF Visible, NoState, AnswerIsShown
<1>c. ASSUME NEW result, GiveUp(result), result # "answer", shown' = shown
      PROVE  Visible'
  <2>1. /\ phase' \in {"closingStream", "closingClient"} /\ outcome' # "answer"
        /\ answer' = answer
    BY <1>c DEF GiveUp
  <2> QED BY <1>a, <1>c, <2>1
<1>d. ASSUME NEW result, LeaveBackoff(result), result # "answer", shown' = shown
      PROVE  Visible'
  <2>1. /\ phase' \in {"done", "closingClient"} /\ outcome' # "answer" /\ answer' = answer
    BY <1>d DEF LeaveBackoff, EndTurn
  <2> QED BY <1>a, <1>d, <2>1
\* The end of a turn outside a call, and the end of a call.
<1>e. ASSUME phase' = "done", UNCHANGED <<shown, answer>>
      PROVE  Visible'
  <2>1. AnswerIsShown' BY <1>0, <1>e DEF Visible, AnswerIsShown
  <2> QED BY <1>e, <2>1 DEF Visible
<1>f. ASSUME NEW result, CallEnds(result), phase = "closingClient", shown' = shown,
             result = "answer" => outcome = "answer"
      PROVE  Visible'
  <2>1. phase' \in {"idle", "done", "backoff"}
        /\ \/ answer' = answer
           \/ result = "answer" /\ mode = "main" /\ answer' = Message
    BY <1>0, <1>f, CallEndsShape DEF resultVars
  <2>2. AnswerIsShown'
    <3>1. CASE answer' = answer BY <1>0, <1>f, <3>1 DEF Visible, AnswerIsShown
    <3>2. CASE result = "answer" /\ mode = "main" /\ answer' = Message
      <4>1. TextOf(output) # <<>> => shown = TextOf(output)
        BY <1>0, <1>f, <3>2 DEF Visible
      <4>2. answer'.text = TextOf(output) BY <3>2 DEF Message
      <4> QED BY <1>f, <4>1, <4>2 DEF AnswerIsShown
    <3> QED BY <2>1, <3>1, <3>2
  <2> QED BY <2>1, <2>2 DEF Visible
<1>1. CASE ProviderSays BY <1>1, SaysShows
<1>2. CASE FrameEnters BY <1>2, FrameShows
<1>3. CASE Invoke
  <2>1. CASE cancelled
    <3>1. phase' = "done" /\ UNCHANGED <<shown, answer>> BY <1>3, <2>1 DEF Invoke, EndTurn
    <3> QED BY <1>e, <3>1
  <2>2. CASE ~cancelled
    <3>1. phase' = "requesting" /\ output' = <<>> /\ invocation' = NoState /\ answer' = None
      BY <1>3, <2>2 DEF Invoke, StartAttempt, Dropped
    <3> QED BY <1>b, <3>1
  <2> QED BY <2>1, <2>2
<1>4. CASE Opened
  <2>1. /\ phase = "requesting" /\ phase' = "streaming"
        /\ UNCHANGED <<output, invocation, shown, answer>>
    BY <1>4 DEF Opened
  <2>2. output' = <<>> /\ invocation'.visible = <<>> BY <1>0, <2>1 DEF Visible
  <2>3. TextOf(output)' = <<>> BY <2>2, NothingMeans
  <2>4. AnswerIsShown' BY <1>0, <2>1 DEF Visible, AnswerIsShown
  <2> QED BY <2>1, <2>2, <2>3, <2>4 DEF Visible
<1>5. CASE ProviderFails
  <2>1. /\ phase' \in {"closingStream", "settled"} /\ outcome' # "answer"
        /\ UNCHANGED <<shown, answer>>
    BY <1>5 DEF ProviderFails
  <2> QED BY <1>a, <2>1
<1>6. CASE FrameRefused
  <2>1. /\ phase' = "closingStream" /\ outcome' # "answer" /\ UNCHANGED <<shown, answer>>
    BY <1>6 DEF FrameRefused
  <2> QED BY <1>a, <2>1
<1>7. CASE Abandoned
  <2>1. shown' = shown BY <1>7 DEF Abandoned
  <2>2. CASE GiveUp("taskCancelled") BY <1>c, <2>1, <2>2
  <2>3. CASE ~GiveUp("taskCancelled")
    <3>1. phase' = "done" /\ answer' = answer BY <1>7, <2>3 DEF Abandoned, EndTurn
    <3> QED BY <1>e, <2>1, <3>1
  <2> QED BY <2>2, <2>3
<1>8. CASE StreamEnds
  <2>1. /\ phase = "streaming" /\ phase' = "closingStream"
        /\ UNCHANGED <<output, mode, shown, answer>>
    BY <1>8 DEF StreamEnds
  <2>2. AnswerIsShown' BY <1>0, <2>1 DEF Visible, AnswerIsShown
  <2>3. mode' = "main" /\ TextOf(output)' # <<>> => shown' = TextOf(output)'
    BY <1>0, <2>1 DEF Visible
  <2> QED BY <2>1, <2>2, <2>3 DEF Visible
<1>9. CASE StreamClosed \/ Settles
  <2>1. /\ phase \in {"closingStream", "settled"}
        /\ phase' \in {"settled", "backoff", "closingClient"}
        /\ outcome' = "answer" => outcome = "answer"
        /\ UNCHANGED <<output, mode, shown, answer>>
    BY <1>9 DEF StreamClosed, Settles
  <2>2. AnswerIsShown' BY <1>0, <2>1 DEF Visible, AnswerIsShown
  <2>3. mode' = "main" /\ outcome' = "answer" /\ TextOf(output)' # <<>> =>
          shown' = TextOf(output)'
    BY <1>0, <2>1 DEF Visible
  <2> QED BY <2>1, <2>2, <2>3 DEF Visible
<1>10. CASE BackoffEnds
  <2>1. /\ phase = "backoff" /\ phase' = "requesting" /\ output' = <<>> /\ invocation' = NoState
        /\ answer' = answer
    BY <1>10 DEF BackoffEnds, StartAttempt, Dropped
  <2>2. answer = None BY <1>0, <2>1 DEF Kept
  <2> QED BY <1>b, <2>1, <2>2
<1>11. CASE ClientClosed BY <1>f, <1>11 DEF ClientClosed
<1>12. CASE DeadlineHits
  <2>1. PICK result \in {"taskCancelled", "deadline"} : GiveUp(result)
    BY <1>12 DEF DeadlineHits
  <2>2. shown' = shown BY <1>12 DEF DeadlineHits
  <2> QED BY <1>c, <2>1, <2>2
<1>13. CASE Cancel
  <2>1. UNCHANGED <<output, mode, phase, outcome, shown, answer, invocation, pending>>
    BY <1>13 DEF Cancel
  <2>2. AnswerIsShown' BY <1>0, <2>1 DEF Visible, AnswerIsShown
  <2> QED BY <1>0, <2>1, <2>2 DEF Visible
<1>14. CASE CancelObserved
  <2>1. shown' = shown BY <1>14 DEF CancelObserved
  <2> QED BY <1>c, <1>d, <1>14, <2>1 DEF CancelObserved
<1>15. CASE TaskCancelled
  <2>0. shown' = shown BY <1>15 DEF TaskCancelled
  <2>1. CASE GiveUp("taskCancelled") BY <1>c, <2>0, <2>1
  <2>2. CASE LeaveBackoff("taskCancelled") BY <1>d, <2>0, <2>2
  <2>3. CASE EndTurn("cancelled") BY <1>e, <2>0, <2>3 DEF EndTurn
  <2>4. CASE /\ phase = "closingClient"
             /\ CallEnds(IF outcome = "answer" THEN "taskCancelled" ELSE outcome)
    <3>1. PICK result : CallEnds(result) /\ result # "answer" BY <2>4
    <3> QED BY <1>f, <2>0, <2>4, <3>1
  <2> QED BY <1>15, <2>1, <2>2, <2>3, <2>4 DEF TaskCancelled
<1> QED BY <1>1, <1>2, <1>3, <1>4, <1>5, <1>6, <1>7, <1>8, <1>9, <1>10, <1>11, <1>12, <1>13,
           <1>14, <1>15 DEF Next
-----------------------------------------------------------------------------
(* The theorems.                                                           *)

\* The inductive invariant holds of every execution of a turn.
THEOREM StreamingInvariance == Spec => []IInv
<1>1. Init => IInv
  <2> SUFFICES ASSUME Init PROVE IInv OBVIOUS
  <2>1. Typed /\ Merged /\ Kept /\ Unseen /\ Released
    BY DEF Init, Typed, Merged, Kept, Unseen, Released, InCall, Phases, Outcomes, NoState, None
  <2>2. Bounded
    <3>1. Iterations \in Nat BY StreamingAssumption
    <3>2. round \in 0..Iterations BY <3>1 DEF Init
    <3> QED BY <3>2 DEF Init, Bounded, InCall
  <2>3. <<>> \in Texts BY DEF Texts
  <2>4. Wording BY DEF Init, Wording
  <2>5. Worded BY <2>3, <2>4 DEF Init, Worded, NoState, NotPending
  <2>6. Visible BY DEF Init, Visible, AnswerIsShown
  <2> QED BY <2>1, <2>2, <2>5, <2>6 DEF IInv
<1>2. IInv /\ [Next]_vars => IInv'
  <2>1. ASSUME IInv, Next PROVE IInv'
    BY <2>1, TypedStep, KeptStep, UnseenStep, ReleasedStep, BoundedStep, WordedStep, VisibleStep
       DEF IInv
  <2>2. ASSUME IInv, UNCHANGED vars PROVE IInv'
    <3> USE DEF vars, attemptVars, resultVars, cancelVars
    <3>1. Typed' /\ Merged' BY <2>2 DEF IInv, Typed, Merged
    <3>2. Accepted => Accepted' BY <2>2 DEF Accepted
    <3>3. Kept' BY <2>2, <3>2 DEF IInv, Kept, InCall
    <3>4. Unseen' /\ Released' BY <2>2 DEF IInv, Unseen, Released, InCall
    <3>5. Bounded' BY <2>2 DEF IInv, Bounded, InCall, Limit
    <3>6. Worded' BY <2>2 DEF IInv, Worded, Wording
    <3>7. Visible' BY <2>2 DEF IInv, Visible, AnswerIsShown
    <3> QED BY <3>1, <3>3, <3>4, <3>5, <3>6, <3>7 DEF IInv
  <2> QED BY <2>1, <2>2
<1> QED BY <1>1, <1>2, PTL DEF Spec

\* What enters the conversation was said by the Provider, item by item and
\* completely (_parse_responses_stream, _parse_chat_completions_stream,
\* summarize_once).
THEOREM PersistedIsAlwaysSaid == Spec => []PersistedIsSaid
<1>1. IInv => PersistedIsSaid
  <2> SUFFICES ASSUME IInv PROVE PersistedIsSaid OBVIOUS
  <2>1. AnswerIsSaid BY DEF IInv, Merged, Kept, AnswerIsSaid
  <2>2. SummaryIsWhole BY DEF IInv, Merged, Kept, Unseen, SummaryIsWhole
  <2> QED BY <2>1, <2>2 DEF PersistedIsSaid
<1> QED BY <1>1, StreamingInvariance, PTL

\* No stream and no client outlives its call (_close_on_exit).
THEOREM ProviderIsAlwaysReleased == Spec => []ProviderReleased
<1>1. IInv => ProviderReleased BY DEF IInv, Released, ProviderReleased, InCall
<1> QED BY <1>1, StreamingInvariance, PTL

\* The state is within its sets: no call has more attempts, and no turn more
\* iterations, than it is allowed (_invoke_attempts, check_react_limit).
THEOREM StreamingTypeCorrect == Spec => []TypeOK
<1>1. IInv => TypeOK
  <2> SUFFICES ASSUME IInv PROVE TypeOK OBVIOUS
  <2>1. said \in Seq(Items) BY DEF IInv, Typed, Merged
  <2>2. /\ wire \in {"chat", "ids", "indexes", "order"}
        /\ mode \in {"summary", "main"}
        /\ phase \in Phases /\ outcome \in Outcomes
        /\ output \in Seq(Items) /\ ids \in Seq(Nat) /\ Len(ids) = Len(output)
    BY DEF IInv, Typed
  <2>3. /\ round \in 0..Iterations /\ attempt \in Nat
        /\ InCall => attempt \in 1..(IF mode = "main" THEN MaxAttempts ELSE SummaryAttempts)
        /\ terminal \in {"none", "stop", "length"}
        /\ stream \in {"none", "open", "cut"} /\ client \in {"none", "open", "cut"}
        /\ cancelled \in BOOLEAN /\ taskCancel \in BOOLEAN /\ lost \in BOOLEAN
        /\ status \in {"running", "completed", "failed", "limited", "cancelled"}
    BY DEF IInv, Bounded, Limit
  <2>4. /\ invocation.published \in BOOLEAN /\ invocation.visible \in Texts
        /\ pending.target \in Texts /\ pending.rest \in Texts /\ pending.replace \in BOOLEAN
        /\ shown \in Texts /\ base \in Texts /\ summary \in Texts
        /\ answer \in Messages \cup {None}
    BY DEF IInv, Worded
  <2> QED BY <2>1, <2>2, <2>3, <2>4 DEF TypeOK
<1> QED BY <1>1, StreamingInvariance, PTL

\* The client sees the answer: an attempt that is tried again has left no trace,
\* and what is shown after a call is the text of its message, in spite of
\* revisions, frames and earlier calls (_invoke_attempts, _publish_snapshot).
THEOREM ClientAlwaysSeesTheAnswer == Spec => []ClientSeesTheAnswer
<1>1. IInv => ClientSeesTheAnswer
  BY DEF IInv, Unseen, RetryIsInvisible, Visible, ClientSeesTheAnswer
<1> QED BY <1>1, StreamingInvariance, PTL
=============================================================================
