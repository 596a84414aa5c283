---------------------------- MODULE QueueLemmas ----------------------------
(***************************************************************************)
(* What append, tail and removal do to a queue, as sets of elements and    *)
(* for queues without repetition.                                          *)
(***************************************************************************)
EXTENDS Integers, SequencesExt, SequenceTheorems, TLAPS

\* push: appending adds the one entry and nothing else.
LEMMA AppendSet ==
  ASSUME NEW S, NEW s \in Seq(S), NEW x \in S
  PROVE  /\ Append(s, x) \in Seq(S)
         /\ Append(s, x) # <<>>
         /\ ToSet(Append(s, x)) = ToSet(s) \cup {x}
BY AppendProperties, SMT DEF ToSet

\* pop: the head was in the queue, and the tail adds nothing to it.
LEMMA TailSet ==
  ASSUME NEW S, NEW s \in Seq(S), s # <<>>
  PROVE  /\ Tail(s) \in Seq(S)
         /\ Head(s) \in S
         /\ Head(s) \in ToSet(s)
         /\ ToSet(Tail(s)) \subseteq ToSet(s)
BY HeadTailProperties, SMT DEF ToSet

\* remove: what comes after the removed place moves up by one.
LEMMA RemoveAtPlaces ==
  ASSUME NEW S, NEW s \in Seq(S), NEW i \in DOMAIN s
  PROVE  /\ RemoveAt(s, i) \in Seq(S)
         /\ DOMAIN s = 1 .. Len(s)
         /\ DOMAIN RemoveAt(s, i) = 1 .. Len(s) - 1
         /\ \A k \in 1 .. Len(s) - 1 :
              RemoveAt(s, i)[k] = IF k < i THEN s[k] ELSE s[k + 1]
<1> DEFINE front == SubSeq(s, 1, i - 1)
           back  == SubSeq(s, i + 1, Len(s))
<1>1. i \in 1 .. Len(s) /\ Len(s) \in Nat
  BY LenProperties
<1>2. /\ front \in Seq(S) /\ Len(front) = i - 1
      /\ \A k \in 1 .. i - 1 : front[k] = s[k]
  BY <1>1, SubSeqProperties, SMT
<1>3. /\ back \in Seq(S) /\ Len(back) = Len(s) - i
      /\ \A k \in 1 .. Len(s) - i : back[k] = s[i + k]
  BY <1>1, SubSeqProperties, SMT
<1> HIDE DEF front, back
<1>4. /\ front \o back \in Seq(S)
      /\ Len(front \o back) = Len(front) + Len(back)
      /\ \A k \in 1 .. Len(front) + Len(back) :
           (front \o back)[k] = IF k <= Len(front) THEN front[k]
                                                   ELSE back[k - Len(front)]
  BY <1>2, <1>3, ConcatProperties
<1>5. ASSUME NEW k \in 1 .. Len(s) - 1
      PROVE  (front \o back)[k] = IF k < i THEN s[k] ELSE s[k + 1]
  <2>1. k \in 1 .. Len(front) + Len(back)
    BY <1>1, <1>2, <1>3
  <2>2. CASE k < i
    BY <2>1, <2>2, <1>1, <1>2, <1>4
  <2>3. CASE ~(k < i)
    <3>1. k - (i - 1) \in 1 .. Len(s) - i /\ i + (k - (i - 1)) = k + 1
      BY <2>3, <1>1
    <3>2. (front \o back)[k] = back[k - (i - 1)]
      BY <2>1, <2>3, <1>1, <1>2, <1>4
    <3> QED BY <3>1, <3>2, <2>3, <1>3
  <2> QED BY <2>2, <2>3
<1>6. RemoveAt(s, i) = front \o back
  BY DEF RemoveAt, front, back
<1>7. DOMAIN (front \o back) = 1 .. Len(s) - 1 /\ DOMAIN s = 1 .. Len(s)
  BY <1>1, <1>2, <1>3, <1>4, LenProperties
<1> QED BY <1>4, <1>5, <1>6, <1>7

\* remove: the entry was in the queue, and what is left adds nothing to it.
LEMMA RemoveAtSet ==
  ASSUME NEW S, NEW s \in Seq(S), NEW i \in DOMAIN s
  PROVE  /\ RemoveAt(s, i) \in Seq(S)
         /\ s[i] \in ToSet(s)
         /\ ToSet(RemoveAt(s, i)) \subseteq ToSet(s)
<1> DEFINE r == RemoveAt(s, i)
<1>1. /\ Len(s) \in Nat /\ DOMAIN s = 1 .. Len(s)
      /\ r \in Seq(S) /\ DOMAIN r = 1 .. Len(s) - 1
      /\ \A k \in 1 .. Len(s) - 1 : r[k] = IF k < i THEN s[k] ELSE s[k + 1]
  BY RemoveAtPlaces, LenProperties
<1> HIDE DEF r
<1>2. \A k \in 1 .. Len(s) - 1 :
        /\ k \in 1 .. Len(s) /\ k + 1 \in 1 .. Len(s)
        /\ r[k] = s[k] \/ r[k] = s[k + 1]
  BY <1>1
<1>3. ToSet(r) \subseteq ToSet(s)
  BY <1>1, <1>2 DEF ToSet
<1> QED BY <1>1, <1>3 DEF ToSet, r

-----------------------------------------------------------------------------
\* A queue without repetition stays one when a new entry is appended ...
LEMMA AppendDistinct ==
  ASSUME NEW S, NEW s \in Seq(S), NEW x \in S, IsInjective(s), x \notin ToSet(s)
  PROVE  IsInjective(Append(s, x))
<1> DEFINE r == Append(s, x)
<1>1. /\ Len(s) \in Nat /\ DOMAIN s = 1 .. Len(s)
      /\ DOMAIN r = 1 .. Len(s) + 1
      /\ \A k \in 1 .. Len(s) : r[k] = s[k]
      /\ r[Len(s) + 1] = x
  BY AppendProperties, LenProperties, SMT
<1> HIDE DEF r
<1>2. \A k \in 1 .. Len(s) : s[k] # x
  BY <1>1 DEF ToSet
<1>3. \A k, n \in 1 .. Len(s) : s[k] = s[n] => k = n
  BY <1>1 DEF IsInjective
<1>4. \A k, n \in 1 .. Len(s) + 1 : r[k] = r[n] => k = n
  BY <1>1, <1>2, <1>3
<1>5. IsInjective(r)
  BY <1>1, <1>4 DEF IsInjective
<1> QED BY <1>5 DEF r

\* ... when its head is taken, which is then no longer in it ...
LEMMA TailDistinct ==
  ASSUME NEW S, NEW s \in Seq(S), s # <<>>, IsInjective(s)
  PROVE  /\ IsInjective(Tail(s))
         /\ ToSet(Tail(s)) = ToSet(s) \ {Head(s)}
<1>1. /\ Len(s) \in Nat /\ DOMAIN s = 1 .. Len(s) /\ Len(s) >= 1
      /\ DOMAIN Tail(s) = 1 .. Len(s) - 1
      /\ \A k \in 1 .. Len(s) - 1 : Tail(s)[k] = s[k + 1]
      /\ Head(s) = s[1]
  BY HeadTailProperties, LenProperties, EmptySeq, SMT
<1>2. IsInjective(Tail(s))
  BY <1>1 DEF IsInjective
<1>3. ASSUME NEW y \in ToSet(s), y # Head(s) PROVE y \in ToSet(Tail(s))
  <2>1. PICK k \in 1 .. Len(s) : s[k] = y
    BY <1>1 DEF ToSet
  <2>2. k - 1 \in 1 .. Len(s) - 1 /\ Tail(s)[k - 1] = y
    BY <1>1, <1>3, <2>1
  <2> QED BY <1>1, <2>2 DEF ToSet
<1>4. Head(s) \notin ToSet(Tail(s))
  BY <1>1 DEF ToSet, IsInjective
<1> QED BY <1>2, <1>3, <1>4, TailSet

\* ... and when any entry is removed.
LEMMA RemoveAtDistinct ==
  ASSUME NEW S, NEW s \in Seq(S), NEW i \in DOMAIN s, IsInjective(s)
  PROVE  /\ IsInjective(RemoveAt(s, i))
         /\ ToSet(RemoveAt(s, i)) = ToSet(s) \ {s[i]}
<1> DEFINE r == RemoveAt(s, i)
<1>1. /\ Len(s) \in Nat /\ DOMAIN s = 1 .. Len(s) /\ DOMAIN r = 1 .. Len(s) - 1
      /\ \A k \in 1 .. Len(s) - 1 : r[k] = IF k < i THEN s[k] ELSE s[k + 1]
  BY RemoveAtPlaces, LenProperties
<1> HIDE DEF r
<1>2. IsInjective(r)
  <2>1. \A k, n \in 1 .. Len(s) : s[k] = s[n] => k = n
    BY <1>1 DEF IsInjective
  <2>2. \A k, n \in 1 .. Len(s) - 1 : r[k] = r[n] => k = n
    BY <1>1, <2>1
  <2> QED BY <1>1, <2>2 DEF IsInjective
<1>3. ASSUME NEW y \in ToSet(s), y # s[i] PROVE y \in ToSet(r)
  <2>1. PICK k \in 1 .. Len(s) : s[k] = y
    BY <1>1 DEF ToSet
  <2>2. CASE k < i
    <3>1. k \in 1 .. Len(s) - 1 /\ r[k] = y
      BY <1>1, <2>1, <2>2
    <3> QED BY <1>1, <3>1 DEF ToSet
  <2>3. CASE ~(k < i)
    <3>1. k - 1 \in 1 .. Len(s) - 1 /\ r[k - 1] = y
      BY <1>1, <1>3, <2>1, <2>3
    <3> QED BY <1>1, <3>1 DEF ToSet
  <2> QED BY <2>2, <2>3
<1>4. s[i] \notin ToSet(r)
  BY <1>1 DEF ToSet, IsInjective
<1> QED BY <1>2, <1>3, <1>4, RemoveAtSet DEF r
=============================================================================
