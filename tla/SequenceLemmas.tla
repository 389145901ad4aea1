--------------------------- MODULE SequenceLemmas ---------------------------
(***************************************************************************)
(* Induction, and facts about sequences that the proofs about the queue,   *)
(* about the daemon and about the way of an event share.                   *)
(***************************************************************************)
EXTENDS SequenceTheorems, FiniteSetTheorems, TLAPS

\* A set that holds 0 and with every number the next one holds every number: of
\* the numbers it does not hold none would be the smallest.
LEMMA SetInduction ==
    ASSUME NEW T, 0 \in T, \A n \in T \cap Nat : n + 1 \in T
    PROVE  Nat \subseteq T
<1> DEFINE missing == {k \in Nat : k \notin T}
           W == {0..k : k \in missing}
           R == StrictSubsetOrdering(Nat)
<1>1. SUFFICES ASSUME missing # {} PROVE FALSE
    OBVIOUS
<1>2. IsWellFoundedOn(R, FiniteSubsetsOf(Nat))
    BY FS_StrictSubsetOrderingWellFounded
<1>3. W \subseteq FiniteSubsetsOf(Nat) /\ W # {}
    <2>1. \A k \in Nat : IsFiniteSet(0..k) /\ 0..k \subseteq Nat
        BY FS_Interval
    <2> QED BY <1>1, <2>1 DEF FiniteSubsetsOf
<1>4. PICK w \in W : \A v \in W : ~ (<<v, w>> \in R)
    <2> HIDE DEF R, W
    <2> QED BY <1>2, <1>3, WFMin
<1>5. PICK k \in missing : w = 0..k
    OBVIOUS
<1>6. k - 1 \in missing
    <2>1. k # 0 /\ k \in Nat
        OBVIOUS
    <2>2. k - 1 \in Nat /\ (k - 1) + 1 = k
        BY <2>1
    <2> QED BY <2>2
<1>7. 0..(k - 1) \in W /\ 0..(k - 1) \subseteq w /\ 0..(k - 1) # w
    <2>1. k \in 0..k /\ k \notin 0..(k - 1) /\ \A i \in 0..(k - 1) : i \in 0..k
        OBVIOUS
    <2> QED BY <1>5, <1>6, <2>1
<1>8. w \in SUBSET Nat /\ 0..(k - 1) \in SUBSET Nat
    BY <1>5, <1>6
<1> QED BY <1>4, <1>7, <1>8 DEF StrictSubsetOrdering

-----------------------------------------------------------------------------

Increasing(s) == \A i, j \in DOMAIN s : i < j => s[i] < s[j]

AtMost(s, n) == \A i \in DOMAIN s : s[i] <= n

\* A number greater than all of them may be added to the end of increasing numbers.
LEMMA AppendIncreases ==
    ASSUME NEW s \in Seq(Nat), NEW n \in Nat, Increasing(s), AtMost(s, n)
    PROVE  /\ Append(s, n + 1) \in Seq(Nat)
           /\ Increasing(Append(s, n + 1))
           /\ AtMost(Append(s, n + 1), n + 1)
           /\ Range(Append(s, n + 1)) = Range(s) \cup {n + 1}
<1>1. /\ Append(s, n + 1) \in Seq(Nat)
      /\ Len(s) \in Nat /\ DOMAIN s = 1..Len(s)
      /\ DOMAIN Append(s, n + 1) = 1..Len(s) + 1
      /\ \A i \in 1..Len(s) : Append(s, n + 1)[i] = s[i] /\ s[i] \in Nat
      /\ Append(s, n + 1)[Len(s) + 1] = n + 1
    OBVIOUS
<1>2. Increasing(Append(s, n + 1))
    BY <1>1 DEF Increasing, AtMost
<1>3. AtMost(Append(s, n + 1), n + 1)
    BY <1>1 DEF AtMost
<1>4. Range(Append(s, n + 1)) = Range(s) \cup {n + 1}
    BY <1>1 DEF Range
<1> QED BY <1>1, <1>2, <1>3, <1>4

\* Writing what is buffered and one more line is adding the line to both together.
LEMMA AppendBehind ==
    ASSUME NEW S, NEW s \in Seq(S), NEW t \in Seq(S), NEW e \in S
    PROVE  s \o Append(t, e) = Append(s \o t, e)
<1>1. Append(t, e) = t \o <<e>> /\ Append(s \o t, e) = (s \o t) \o <<e>>
    BY AppendIsConcat
<1>2. <<e>> \in Seq(S)
    OBVIOUS
<1> QED BY <1>1, <1>2, ConcatAssociative

\* Taking the head of one sequence to the end of the one before it moves nothing.
LEMMA HandedOn ==
    ASSUME NEW S, NEW s \in Seq(S), NEW t \in Seq(S), t # <<>>
    PROVE  Append(s, Head(t)) \o Tail(t) = s \o t
<1>1. /\ Head(t) \in S /\ Tail(t) \in Seq(S)
      /\ t = <<Head(t)>> \o Tail(t)
      /\ <<Head(t)>> \in Seq(S)
    OBVIOUS
<1>2. Append(s, Head(t)) = s \o <<Head(t)>>
    BY <1>1, AppendIsConcat
<1>3. (s \o <<Head(t)>>) \o Tail(t) = s \o (<<Head(t)>> \o Tail(t))
    BY <1>1, ConcatAssociative
<1> QED BY <1>1, <1>2, <1>3

\* Numbers that increase do so without those in the middle as well.
LEMMA MiddleDropped ==
    ASSUME NEW s \in Seq(Nat), NEW t \in Seq(Nat), NEW u \in Seq(Nat), NEW n \in Nat,
           Increasing((s \o t) \o u), AtMost((s \o t) \o u, n)
    PROVE  Increasing(s \o u) /\ AtMost(s \o u, n)
<1> DEFINE all == (s \o t) \o u
           from(i) == IF i <= Len(s) THEN i ELSE i + Len(t)
<1>1. Len(s) \in Nat /\ Len(t) \in Nat /\ Len(u) \in Nat
    OBVIOUS
<1>2. /\ s \o t \in Seq(Nat) /\ Len(s \o t) = Len(s) + Len(t)
      /\ \A i \in 1..Len(s) : (s \o t)[i] = s[i]
    BY <1>1, ConcatProperties
<1>3. /\ DOMAIN all = 1..(Len(s) + Len(t) + Len(u))
      /\ \A i \in 1..(Len(s) + Len(t)) : all[i] = (s \o t)[i]
      /\ \A i \in (Len(s) + Len(t) + 1)..(Len(s) + Len(t) + Len(u)) :
            all[i] = u[i - (Len(s) + Len(t))]
    BY <1>1, <1>2, ConcatProperties
<1>4. /\ DOMAIN (s \o u) = 1..(Len(s) + Len(u))
      /\ \A i \in 1..(Len(s) + Len(u)) : (s \o u)[i] = IF i <= Len(s) THEN s[i] ELSE u[i - Len(s)]
    BY <1>1, ConcatProperties
<1>5. \A i \in DOMAIN (s \o u) : from(i) \in DOMAIN all /\ (s \o u)[i] = all[from(i)]
    <2>1. SUFFICES ASSUME NEW i \in DOMAIN (s \o u)
                   PROVE  from(i) \in DOMAIN all /\ (s \o u)[i] = all[from(i)]
        OBVIOUS
    <2>2. CASE i <= Len(s)
        BY <1>1, <1>2, <1>3, <1>4, <2>2
    <2>3. CASE i > Len(s)
        <3>1. /\ from(i) = i + Len(t)
              /\ from(i) \in (Len(s) + Len(t) + 1)..(Len(s) + Len(t) + Len(u))
              /\ from(i) - (Len(s) + Len(t)) = i - Len(s)
            BY <1>1, <1>4, <2>3
        <3> HIDE DEF from, all
        <3>2. from(i) \in DOMAIN all
            BY <1>1, <1>3, <3>1
        <3>3. all[from(i)] = u[i - Len(s)]
            BY <1>3, <3>1
        <3>4. (s \o u)[i] = u[i - Len(s)]
            BY <1>1, <1>4, <2>3
        <3> QED BY <3>2, <3>3, <3>4
    <2> QED BY <1>1, <1>4, <2>2, <2>3
<1>6. \A i, j \in DOMAIN (s \o u) : i < j => from(i) < from(j)
    BY <1>1, <1>4
<1> HIDE DEF from
<1> QED BY <1>5, <1>6 DEF Increasing, AtMost
=============================================================================
