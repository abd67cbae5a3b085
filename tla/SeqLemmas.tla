----------------------------- MODULE SeqLemmas -----------------------------
(***************************************************************************)
(* What the proofs about the browser's screens need to know of sequences   *)
(* whose elements are replaced or removed.                                 *)
(***************************************************************************)
EXTENDS Integers, SequencesExt, SequenceTheorems, TLAPS

\* A function on 1 .. n is a sequence, and the other way round.
LEMMA SeqsAreFunctions ==
    ASSUME NEW S
    PROVE  \A s : s \in Seq(S) <=> Len(s) \in Nat /\ s \in [1 .. Len(s) -> S]
<1>1. ASSUME NEW s \in Seq(S) PROVE Len(s) \in Nat /\ s \in [1 .. Len(s) -> S]
  OBVIOUS
<1>2. ASSUME NEW s, Len(s) \in Nat, s \in [1 .. Len(s) -> S] PROVE s \in Seq(S)
  BY <1>2, SeqDef
<1>3. QED
  BY <1>1, <1>2

\* Removing the element at n moves the later ones down.
LEMMA RemovedAt ==
    ASSUME NEW S, NEW s \in Seq(S), NEW n \in DOMAIN s
    PROVE  /\ RemoveAt(s, n) \in Seq(S)
           /\ Len(RemoveAt(s, n)) = Len(s) - 1
           /\ \A k \in 1 .. Len(s) - 1 : RemoveAt(s, n)[k] = s[IF k < n THEN k ELSE k + 1]
<1> DEFINE a == SubSeq(s, 1, n - 1)
           b == SubSeq(s, n + 1, Len(s))
<1>1. Len(s) \in Nat /\ n \in 1 .. Len(s) /\ \A k \in 1 .. Len(s) : s[k] \in S
  OBVIOUS
<1>2. /\ a \in Seq(S) /\ Len(a) = n - 1
      /\ \A k \in 1 .. n - 1 : a[k] = s[k]
  <2>1. \A k \in 1 .. n - 1 : s[k] \in S
    BY <1>1
  <2>2. /\ a \in Seq(S) /\ Len(a) = IF 1 <= n - 1 THEN n - 1 - 1 + 1 ELSE 0
        /\ \A k \in 1 .. n - 1 - 1 + 1 : a[k] = s[1 + k - 1]
    BY <1>1, <2>1, SubSeqProperties
  <2>3. QED
    BY <1>1, <2>2
<1>3. /\ b \in Seq(S) /\ Len(b) = Len(s) - n
      /\ \A k \in 1 .. Len(s) - n : b[k] = s[n + k]
  <2>1. \A k \in n + 1 .. Len(s) : s[k] \in S
    BY <1>1
  <2>2. /\ b \in Seq(S)
        /\ Len(b) = IF n + 1 <= Len(s) THEN Len(s) - (n + 1) + 1 ELSE 0
        /\ \A k \in 1 .. Len(s) - (n + 1) + 1 : b[k] = s[(n + 1) + k - 1]
    BY <1>1, <2>1, SubSeqProperties
  <2>3. QED
    BY <1>1, <2>2
<1> HIDE DEF a, b
<1>4. /\ a \o b \in Seq(S) /\ Len(a \o b) = Len(a) + Len(b)
      /\ \A k \in 1 .. Len(a) + Len(b) : (a \o b)[k] = IF k <= Len(a) THEN a[k] ELSE b[k - Len(a)]
  BY <1>2, <1>3, ConcatProperties
<1>5. RemoveAt(s, n) = a \o b
  BY DEF RemoveAt, a, b
<1>6. ASSUME NEW k \in 1 .. Len(s) - 1
      PROVE  (a \o b)[k] = s[IF k < n THEN k ELSE k + 1]
  <2>1. CASE k < n
    <3>1. k \in 1 .. n - 1 /\ k \in 1 .. Len(a) + Len(b) /\ k <= Len(a)
      BY <1>1, <1>2, <1>3, <2>1
    <3>2. a[k] = s[k]
      BY <1>2, <3>1
    <3>3. QED
      BY <1>4, <2>1, <3>1, <3>2
  <2>2. CASE ~(k < n)
    <3>1. k - Len(a) \in 1 .. Len(s) - n /\ n + (k - Len(a)) = k + 1
      BY <1>1, <1>2, <2>2
    <3>2. b[k - Len(a)] = s[k + 1]
      BY <3>1, <1>3
    <3>3. k \in 1 .. Len(a) + Len(b) /\ ~(k <= Len(a))
      BY <1>1, <1>2, <1>3, <2>2
    <3>4. QED
      BY <3>2, <3>3, <1>4, <2>2
  <2>3. QED
    BY <2>1, <2>2
<1>7. Len(a \o b) = Len(s) - 1
  BY <1>1, <1>2, <1>3, <1>4
<1>8. QED
  BY <1>4, <1>5, <1>6, <1>7

\* Replacing the element at n keeps the others.
LEMMA ReplacedAt ==
    ASSUME NEW S, NEW s \in Seq(S), NEW n \in DOMAIN s, NEW e \in S
    PROVE  /\ ReplaceAt(s, n, e) \in Seq(S)
           /\ Len(ReplaceAt(s, n, e)) = Len(s)
           /\ \A k \in DOMAIN s : ReplaceAt(s, n, e)[k] = IF k = n THEN e ELSE s[k]
<1>1. n \in 1 .. Len(s)
  OBVIOUS
<1>2. [s EXCEPT ![n] = e] \in Seq(S) /\ Len([s EXCEPT ![n] = e]) = Len(s)
  BY <1>1, ExceptSeq
<1>3. QED
  BY <1>2 DEF ReplaceAt

\* What holds of every element of two sequences holds of every element of both together.
LEMMA ConcatKeeps ==
    ASSUME NEW S, NEW s \in Seq(S), NEW t \in Seq(S)
    PROVE  /\ s \o t \in Seq(S)
           /\ \A k \in DOMAIN (s \o t) :
                (\E i \in DOMAIN s : (s \o t)[k] = s[i]) \/ \E i \in DOMAIN t : (s \o t)[k] = t[i]
           /\ \A k \in DOMAIN s : k \in DOMAIN (s \o t) /\ (s \o t)[k] = s[k]
<1>1. /\ s \o t \in Seq(S) /\ Len(s \o t) = Len(s) + Len(t)
      /\ \A k \in 1 .. Len(s) + Len(t) : (s \o t)[k] = IF k <= Len(s) THEN s[k] ELSE t[k - Len(s)]
  BY ConcatProperties
<1>2. Len(s) \in Nat /\ Len(t) \in Nat /\ DOMAIN s = 1 .. Len(s) /\ DOMAIN t = 1 .. Len(t)
  OBVIOUS
<1>3. DOMAIN (s \o t) = 1 .. Len(s) + Len(t)
  BY <1>1
<1>4. ASSUME NEW k \in DOMAIN (s \o t)
      PROVE  (\E i \in DOMAIN s : (s \o t)[k] = s[i]) \/ \E i \in DOMAIN t : (s \o t)[k] = t[i]
  <2>1. CASE k <= Len(s)
    BY <1>1, <1>2, <1>3, <2>1
  <2>2. CASE ~(k <= Len(s))
    <3>1. k - Len(s) \in DOMAIN t
      BY <1>2, <1>3, <2>2
    <3>2. QED
      BY <1>1, <1>3, <2>2, <3>1
  <2>3. QED
    BY <2>1, <2>2
<1>5. ASSUME NEW k \in DOMAIN s
      PROVE  k \in DOMAIN (s \o t) /\ (s \o t)[k] = s[k]
  BY <1>1, <1>2, <1>3
<1>6. s \o t \in Seq(S)
  BY <1>1
<1>7. QED
  BY <1>4, <1>5, <1>6, Zenon

=============================================================================
