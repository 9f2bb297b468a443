---------------------------- MODULE SequenceFacts ----------------------------
(***************************************************************************)
(* What a queue's operations do to the set of its elements: append, take   *)
(* the first.                                                              *)
(***************************************************************************)
EXTENDS Integers, SequenceTheorems, FunctionTheorems, FiniteSetTheorems, TLAPS

\* A sequence without repetitions has as many elements as places.
LEMMA DistinctCount ==
    ASSUME NEW S, NEW q \in Seq(S), \A i, j \in 1 .. Len(q) : q[i] = q[j] => i = j
    PROVE  Len(q) = Cardinality({q[i] : i \in 1 .. Len(q)})
  <1> DEFINE D == 1 .. Len(q)
             E == {q[i] : i \in D}
  <1>1. Len(q) \in Nat /\ q \in [D -> S]
    BY LenProperties
  <1>2. IsFiniteSet(D) /\ Cardinality(D) = Len(q)
    BY <1>1, FS_Interval
  <1>3. q \in [D -> E] /\ \A x \in E : \E i \in D : q[i] = x
    BY <1>1
  <1>4. q \in Bijection(D, E)
    BY <1>3, Fun_IsBij
  <1>5. ExistsBijection(D, E)
    BY <1>4 DEF ExistsBijection
  <1>6. QED BY <1>2, <1>5, FS_Bijection

\* Append adds the element behind the others.
LEMMA AppendElements ==
    ASSUME NEW S, NEW q \in Seq(S), NEW x \in S, NEW r, r = Append(q, x)
    PROVE  /\ r \in Seq(S)
           /\ Len(q) \in Nat /\ Len(r) = Len(q) + 1
           /\ \A i \in 1 .. Len(q) : r[i] = q[i]
           /\ r[Len(q) + 1] = x
           /\ 1 .. Len(r) = 1 .. Len(q) \cup {Len(q) + 1}
           /\ {r[i] : i \in 1 .. Len(r)} = {q[i] : i \in 1 .. Len(q)} \cup {x}
  <1>1. /\ r \in Seq(S) /\ Len(r) = Len(q) + 1 /\ Len(q) \in Nat
        /\ \A i \in 1 .. Len(q) : r[i] = q[i]
        /\ r[Len(q) + 1] = x
    BY AppendProperties, LenProperties
  <1>2. 1 .. Len(r) = 1 .. Len(q) \cup {Len(q) + 1}
    BY <1>1
  <1>3. QED BY <1>1, <1>2

\* Head and Tail part the first element from the others.
LEMMA TailElements ==
    ASSUME NEW S, NEW q \in Seq(S), q # <<>>
    PROVE  /\ Head(q) \in S /\ Tail(q) \in Seq(S)
           /\ Len(q) \in Nat /\ Len(q) > 0 /\ Len(Tail(q)) = Len(q) - 1
           /\ Head(q) = q[1]
           /\ \A i \in 1 .. Len(Tail(q)) : Tail(q)[i] = q[i + 1] /\ i + 1 \in 1 .. Len(q)
           /\ {q[i] : i \in 1 .. Len(q)}
                 = {Tail(q)[i] : i \in 1 .. Len(Tail(q))} \cup {Head(q)}
  <1> DEFINE t == Tail(q)
  <1>1. /\ Head(q) \in S /\ t \in Seq(S)
        /\ Len(t) = Len(q) - 1 /\ Len(q) \in Nat /\ Len(q) > 0
        /\ \A i \in 1 .. Len(t) : t[i] = q[i + 1]
        /\ Head(q) = q[1]
    BY HeadTailProperties, LenProperties, EmptySeq
  <1>2. \A i \in 1 .. Len(q) : i = 1 \/ i - 1 \in 1 .. Len(t)
    BY <1>1
  <1> HIDE DEF t
  <1>3. \A i \in 1 .. Len(q) : q[i] = Head(q) \/ \E j \in 1 .. Len(t) : q[i] = t[j]
    <2> TAKE i \in 1 .. Len(q)
    <2>1. CASE i = 1
      BY <1>1, <2>1
    <2>2. CASE i - 1 \in 1 .. Len(t)
      <3>1. t[i - 1] = q[i]
        BY <1>1, <2>2
      <3>2. QED BY <2>2, <3>1
    <2>3. QED BY <1>2, <2>1, <2>2
  <1>4. \A i \in 1 .. Len(t) : i + 1 \in 1 .. Len(q)
    BY <1>1
  <1>5. 1 \in 1 .. Len(q)
    BY <1>1
  <1>6. {q[i] : i \in 1 .. Len(q)} = {t[i] : i \in 1 .. Len(t)} \cup {Head(q)}
    <2>1. ASSUME NEW i \in 1 .. Len(q)
          PROVE  q[i] \in {t[j] : j \in 1 .. Len(t)} \cup {Head(q)}
      BY <1>3
    <2>2. ASSUME NEW i \in 1 .. Len(t) PROVE t[i] \in {q[j] : j \in 1 .. Len(q)}
      BY <1>1, <1>4
    <2>3. Head(q) \in {q[j] : j \in 1 .. Len(q)}
      BY <1>1, <1>5
    <2>4. QED BY <2>1, <2>2, <2>3
  <1>7. QED BY <1>1, <1>4, <1>6 DEF t
=============================================================================
