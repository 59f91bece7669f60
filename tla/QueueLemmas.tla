----------------------------- MODULE QueueLemmas -----------------------------
(***************************************************************************)
(* Sequences without repetitions, used as queues of indices                *)
(* (tiovx/source/framework/vx_event_queue.c, vx_context.c, vx_target.c).   *)
(***************************************************************************)
EXTENDS Integers, Sequences, FiniteSets, SequenceTheorems, FiniteSetTheorems, TLAPS

\* An element of a sequence, and a sequence without repetitions.
IsIn(e, queue) == \E i \in 1 .. Len(queue) : queue[i] = e
Distinct(queue) == \A i, j \in 1 .. Len(queue) : queue[i] = queue[j] => i = j

\* What is in a sequence to which an element is appended.
LEMMA AppendIsIn ==
  ASSUME NEW S, NEW s \in Seq(S), NEW e \in S
  PROVE  /\ Append(s, e) \in Seq(S) /\ Len(Append(s, e)) = Len(s) + 1
         /\ \A i \in 1 .. Len(s) : Append(s, e)[i] = s[i]
         /\ Append(s, e)[Len(s) + 1] = e
         /\ \A a : IsIn(a, Append(s, e)) <=> IsIn(a, s) \/ a = e
         /\ Distinct(s) /\ ~IsIn(e, s) => Distinct(Append(s, e))
<1>1. /\ Append(s, e) \in Seq(S) /\ Len(Append(s, e)) = Len(s) + 1 /\ Len(s) \in Nat
      /\ \A i \in 1 .. Len(s) : Append(s, e)[i] = s[i]
      /\ Append(s, e)[Len(s) + 1] = e
  OBVIOUS
<1>2. \A i \in 1 .. Len(s) + 1 : i \in 1 .. Len(s) \/ i = Len(s) + 1
  BY <1>1
<1>3. ASSUME NEW a PROVE IsIn(a, Append(s, e)) <=> IsIn(a, s) \/ a = e
  BY <1>1, <1>2 DEF IsIn
<1>4. ASSUME Distinct(s), ~IsIn(e, s) PROVE Distinct(Append(s, e))
  BY <1>1, <1>2, <1>4 DEF Distinct, IsIn
<1> QED BY <1>1, <1>3, <1>4

\* What is in the rest of a sequence without repetitions.
LEMMA TailIsIn ==
  ASSUME NEW S, NEW s \in Seq(S), s # <<>>, Distinct(s)
  PROVE  /\ Head(s) \in S /\ Tail(s) \in Seq(S) /\ Len(Tail(s)) = Len(s) - 1
         /\ Len(s) \in Nat \ {0} /\ Head(s) = s[1]
         /\ \A i \in 1 .. Len(Tail(s)) : i + 1 \in 1 .. Len(s) /\ Tail(s)[i] = s[i + 1]
         /\ \A a : IsIn(a, Tail(s)) <=> IsIn(a, s) /\ a # Head(s)
         /\ Distinct(Tail(s))
<1>1. /\ Head(s) \in S /\ Tail(s) \in Seq(S) /\ Len(Tail(s)) = Len(s) - 1
      /\ Len(s) \in Nat \ {0} /\ Head(s) = s[1]
      /\ \A i \in 1 .. Len(Tail(s)) : i + 1 \in 1 .. Len(s) /\ Tail(s)[i] = s[i + 1]
  BY EmptySeq, HeadTailProperties
<1>2. ASSUME NEW a, IsIn(a, Tail(s)) PROVE IsIn(a, s) /\ a # Head(s)
  BY <1>1, <1>2 DEF IsIn, Distinct
<1>3. ASSUME NEW a, IsIn(a, s), a # Head(s) PROVE IsIn(a, Tail(s))
  <2>1. PICK i \in 1 .. Len(s) : s[i] = a
    BY <1>3 DEF IsIn
  <2>2. i - 1 \in 1 .. Len(Tail(s)) /\ (i - 1) + 1 = i
    BY <1>1, <1>3, <2>1
  <2> QED BY <1>1, <2>1, <2>2 DEF IsIn
<1>4. Distinct(Tail(s))
  BY <1>1 DEF Distinct
<1> QED BY <1>1, <1>2, <1>3, <1>4
-----------------------------------------------------------------------------
\* The places of a sequence that hold an element of S.
Places(s, S) == {i \in 1 .. Len(s) : s[i] \in S}

LEMMA PlacesFinite ==
  ASSUME NEW T, NEW s \in Seq(T), NEW S
  PROVE  IsFiniteSet(Places(s, S)) /\ Cardinality(Places(s, S)) \in Nat
<1>1. IsFiniteSet(1 .. Len(s))
  BY FS_Interval, LenProperties
<1>2. IsFiniteSet(Places(s, S))
  BY <1>1, FS_Subset DEF Places
<1> QED BY <1>2, FS_CardinalityType

LEMMA PlacesAppend ==
  ASSUME NEW T, NEW s \in Seq(T), NEW e \in T, NEW S
  PROVE  Cardinality(Places(Append(s, e), S))
           = Cardinality(Places(s, S)) + IF e \in S THEN 1 ELSE 0
<1>1. /\ Len(Append(s, e)) = Len(s) + 1 /\ Len(s) \in Nat
      /\ \A i \in 1 .. Len(s) : Append(s, e)[i] = s[i]
      /\ Append(s, e)[Len(s) + 1] = e
  BY AppendIsIn, LenProperties
<1>2. IsFiniteSet(Places(s, S)) /\ Cardinality(Places(s, S)) \in Nat
  BY PlacesFinite
<1>3. \A i : i \in 1 .. Len(s) + 1 <=> i \in 1 .. Len(s) \/ i = Len(s) + 1
  BY <1>1
<1>4. Len(s) + 1 \notin Places(s, S)
  BY <1>1 DEF Places
<1>5. CASE e \in S
  <2>1. Places(Append(s, e), S) = Places(s, S) \cup {Len(s) + 1}
    BY <1>1, <1>3, <1>5 DEF Places
  <2> QED BY <1>2, <1>4, <1>5, <2>1, FS_AddElement
<1>6. CASE e \notin S
  <2>1. Places(Append(s, e), S) = Places(s, S)
    BY <1>1, <1>3, <1>6 DEF Places
  <2> QED BY <1>2, <1>6, <2>1
<1> QED BY <1>5, <1>6

LEMMA PlacesTail ==
  ASSUME NEW T, NEW s \in Seq(T), s # <<>>, NEW S
  PROVE  Cardinality(Places(s, S))
           = Cardinality(Places(Tail(s), S)) + IF Head(s) \in S THEN 1 ELSE 0
<1>1. /\ Tail(s) \in Seq(T) /\ Len(Tail(s)) = Len(s) - 1
      /\ Len(s) \in Nat \ {0} /\ Head(s) = s[1]
      /\ \A i \in 1 .. Len(Tail(s)) : i + 1 \in 1 .. Len(s) /\ Tail(s)[i] = s[i + 1]
  BY EmptySeq, HeadTailProperties
<1> DEFINE R == Places(Tail(s), S)
           M == Places(s, S) \ {1}
           f == [i \in R |-> i + 1]
<1>2. IsFiniteSet(R) /\ Cardinality(R) \in Nat /\ IsFiniteSet(Places(s, S))
  BY <1>1, PlacesFinite
<1>3. \A i \in R : i + 1 \in M /\ i \in Nat
  BY <1>1 DEF Places
<1>4. \A j \in M : j - 1 \in R /\ (j - 1) + 1 = j
  <2> SUFFICES ASSUME NEW j \in M PROVE j - 1 \in R /\ (j - 1) + 1 = j
    OBVIOUS
  <2>1. j \in 1 .. Len(s) /\ j # 1 /\ s[j] \in S
    BY DEF Places
  <2>2. j - 1 \in 1 .. Len(Tail(s)) /\ (j - 1) + 1 = j
    BY <1>1, <2>1
  <2>3. Tail(s)[j - 1] = s[j]
    BY <1>1, <2>2
  <2> QED BY <2>1, <2>2, <2>3 DEF Places
<1>5. f \in Bijection(R, M)
  <2>1. f \in [R -> M] /\ \A a, b \in R : f[a] = f[b] => a = b
    BY <1>3
  <2>2. \A j \in M : \E i \in R : f[i] = j
    BY <1>4
  <2> QED BY <2>1, <2>2 DEF Bijection, Injection, Surjection, IsInjective
<1>6. ExistsBijection(R, M) /\ IsFiniteSet(M)
  BY <1>2, <1>5, FS_RemoveElement DEF ExistsBijection
<1>7. Cardinality(M) = Cardinality(R)
  BY <1>2, <1>6, FS_Bijection
<1>8. 1 \in Places(s, S) <=> Head(s) \in S
  BY <1>1 DEF Places
<1>9. CASE Head(s) \in S
  <2>1. M \cup {1} = Places(s, S) /\ 1 \notin M
    BY <1>8, <1>9
  <2> QED BY <1>2, <1>6, <1>7, <1>9, <2>1, FS_AddElement
<1>10. CASE Head(s) \notin S
  <2>1. M = Places(s, S)
    BY <1>8, <1>10
  <2>2. Cardinality(Places(s, S)) = Cardinality(R)
    <3> HIDE DEF R
    <3> QED BY <1>7, <2>1
  <2> QED BY <1>2, <1>10, <2>2
<1> QED BY <1>9, <1>10
=============================================================================
