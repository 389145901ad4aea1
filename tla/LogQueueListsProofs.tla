------------------------- MODULE LogQueueListsProofs -------------------------
(***************************************************************************)
(* Proofs about the linked lists of the queue for every number of records: *)
(* first of what allocating, giving back and adding a pool do to lists in  *)
(* any arrangement, then that the queue's steps keep them.                 *)
(***************************************************************************)
EXTENDS LogQueueLists, LogQueueProofs, SequenceLemmas

-----------------------------------------------------------------------------
(* Arrangements of n records.                                              *)

\* Lists!IsList for given links.
Follows(lnk, h, s) ==
    /\ h = IF s = <<>> THEN 0 ELSE s[1]
    /\ \A k \in 1..Len(s) : lnk[s[k]] = IF k = Len(s) THEN 0 ELSE s[k + 1]

\* Each of n records is once in one of u and f.
Shared(n, u, f) ==
    /\ u \in Seq(1..n) /\ f \in Seq(1..n)
    /\ \A i, j \in 1..Len(u) : u[i] = u[j] => i = j
    /\ \A i, j \in 1..Len(f) : f[i] = f[j] => i = j
    /\ \A i \in 1..Len(u), j \in 1..Len(f) : u[i] # f[j]
    /\ \A r \in 1..n : (\E i \in 1..Len(u) : u[i] = r) \/ (\E j \in 1..Len(f) : f[j] = r)

\* The tail pointer of a list s.
TailOf(s) == IF s = <<>> THEN 0 ELSE s[Len(s)]

\* u is the used and f the free list of n records.
Arranged(n, lnk, uh, fh, ut, u, f) ==
    /\ n \in Nat
    /\ lnk \in [1..n -> Nat]
    /\ Shared(n, u, f)
    /\ Follows(lnk, uh, u) /\ Follows(lnk, fh, f)
    /\ ut = TailOf(u)

\* What the provers have to know of a list of records, ...
LEMMA ListFacts ==
    ASSUME NEW n \in Nat, NEW s \in Seq(1..n)
    PROVE  /\ Len(s) \in Nat
           /\ \A i \in 1..Len(s) : s[i] \in 1..n
           /\ (s = <<>>) <=> (Len(s) = 0)
<1>1. Len(s) \in Nat
    OBVIOUS
<1>3. \A i \in 1..Len(s) : s[i] \in 1..n
    OBVIOUS
<1>4. (s = <<>>) <=> (Len(s) = 0)
    OBVIOUS
<1> QED BY <1>1, <1>3, <1>4

\* A function on 1..k is a sequence of length k, ...
LEMMA ListOf ==
    ASSUME NEW S, NEW k \in Nat, NEW s \in [1..k -> S]
    PROVE  s \in Seq(S) /\ Len(s) = k
<1>1. s \in Seq(S)
    OBVIOUS
<1>2. Len(s) \in Nat /\ DOMAIN s = 1..Len(s) /\ DOMAIN s = 1..k
    BY <1>1
<1> QED BY <1>1, <1>2

\* ... with a record at its end ...
LEMMA LongerFacts ==
    ASSUME NEW n \in Nat, NEW s \in Seq(1..n), NEW r \in 1..n
    PROVE  /\ Append(s, r) \in Seq(1..n)
           /\ Len(Append(s, r)) = Len(s) + 1
           /\ Append(s, r) # <<>>
           /\ \A i \in 1..Len(s) : Append(s, r)[i] = s[i]
           /\ Append(s, r)[Len(s) + 1] = r
<1>1. Append(s, r) \in Seq(1..n) /\ Append(s, r) # <<>>
    BY AppendProperties
<1>2. Len(Append(s, r)) = Len(s) + 1
    BY AppendProperties
<1>4. \A i \in 1..Len(s) : Append(s, r)[i] = s[i]
    BY AppendProperties
<1>5. Append(s, r)[Len(s) + 1] = r
    BY AppendProperties
<1> QED BY <1>1, <1>2, <1>4, <1>5

\* ... and without its head.
LEMMA ShorterFacts ==
    ASSUME NEW n \in Nat, NEW s \in Seq(1..n), s # <<>>
    PROVE  /\ Tail(s) \in Seq(1..n)
           /\ Len(s) >= 1
           /\ Len(Tail(s)) = Len(s) - 1
           /\ (Tail(s) = <<>>) <=> (Len(s) = 1)
           /\ \A i \in 1..(Len(s) - 1) : Tail(s)[i] = s[i + 1]
<1>1. Tail(s) \in Seq(1..n) /\ Len(Tail(s)) = Len(s) - 1
    BY HeadTailProperties
<1>2. Len(s) \in Nat /\ Len(s) >= 1
    BY ListFacts
<1>4. (Tail(s) = <<>>) <=> (Len(s) = 1)
    <2>1. (Tail(s) = <<>>) <=> (Len(Tail(s)) = 0)
        BY <1>1, ListFacts
    <2> QED BY <1>1, <1>2, <2>1
<1>5. \A i \in 1..(Len(s) - 1) : Tail(s)[i] = s[i + 1]
    BY <1>1, HeadTailProperties
<1> QED BY <1>1, <1>2, <1>4, <1>5

\* ... and with a record before its head.
LEMMA FrontedFacts ==
    ASSUME NEW n \in Nat, NEW s \in Seq(1..n), NEW r \in 1..n
    PROVE  /\ <<r>> \o s \in Seq(1..n)
           /\ Len(<<r>> \o s) = Len(s) + 1
           /\ <<r>> \o s # <<>>
           /\ (<<r>> \o s)[1] = r
           /\ \A i \in 1..Len(s) : (<<r>> \o s)[i + 1] = s[i]
<1>1. <<r>> \in Seq(1..n) /\ Len(<<r>>) = 1 /\ <<r>>[1] = r
    OBVIOUS
<1>2. /\ <<r>> \o s \in Seq(1..n)
      /\ Len(<<r>> \o s) = 1 + Len(s)
      /\ \A i \in 1..(1 + Len(s)) : (<<r>> \o s)[i] = IF i <= 1 THEN <<r>>[i] ELSE s[i - 1]
    BY <1>1, ConcatProperties
<1>3. Len(s) \in Nat
    OBVIOUS
<1>4. <<r>> \o s # <<>>
    BY <1>2, <1>3, ListFacts
<1>5. (<<r>> \o s)[1] = r
    BY <1>1, <1>2, <1>3
<1>6. ASSUME NEW i \in 1..Len(s)
      PROVE  (<<r>> \o s)[i + 1] = s[i]
    <2>1. i + 1 \in 1..(1 + Len(s)) /\ ~(i + 1 <= 1) /\ (i + 1) - 1 = i
        BY <1>3
    <2> QED BY <1>2, <2>1
<1> QED BY <1>2, <1>3, <1>4, <1>5, <1>6

\* The records of a list change place when a free one is taken.
LEMMA TakeShared ==
    ASSUME NEW n \in Nat, NEW u, NEW f, Shared(n, u, f), f # <<>>
    PROVE  Shared(n, Append(u, f[1]), Tail(f))
<1>1. /\ u \in Seq(1..n) /\ f \in Seq(1..n)
      /\ Len(u) \in Nat /\ Len(f) \in Nat /\ Len(f) >= 1
      /\ f[1] \in 1..n
    BY DEF Shared
<1>2. /\ Append(u, f[1]) \in Seq(1..n) /\ Len(Append(u, f[1])) = Len(u) + 1
      /\ \A i \in 1..Len(u) : Append(u, f[1])[i] = u[i]
      /\ Append(u, f[1])[Len(u) + 1] = f[1]
    BY <1>1, AppendProperties
<1>3. /\ Tail(f) \in Seq(1..n) /\ Len(Tail(f)) = Len(f) - 1
      /\ \A i \in 1..(Len(f) - 1) : Tail(f)[i] = f[i + 1]
    BY <1>1, HeadTailProperties
<1> DEFINE v == Append(u, f[1])
           g == Tail(f)
<1> HIDE DEF v, g
<1>4. \A i \in 1..(Len(u) + 1) : i \in 1..Len(u) \/ i = Len(u) + 1
    BY <1>1
<1>5. \A i \in 1..(Len(f) - 1) : i + 1 \in 1..Len(f) /\ i + 1 # 1
    BY <1>1
<1>6. 1 \in 1..Len(f)
    BY <1>1
<1>7. \A i, j \in 1..Len(v) : v[i] = v[j] => i = j
    BY <1>2, <1>4, <1>6 DEF v, Shared
<1>8. \A i, j \in 1..Len(g) : g[i] = g[j] => i = j
    <2>1. SUFFICES ASSUME NEW i \in 1..Len(g), NEW j \in 1..Len(g), g[i] = g[j]
                   PROVE  i = j
        OBVIOUS
    <2>2. i + 1 = j + 1
        BY <1>3, <1>5, <2>1 DEF g, Shared
    <2> QED BY <1>1, <1>3, <2>2 DEF g
<1>9. \A i \in 1..Len(v), j \in 1..Len(g) : v[i] # g[j]
    BY <1>2, <1>3, <1>4, <1>5, <1>6 DEF v, g, Shared
<1>10. ASSUME NEW r \in 1..n
       PROVE  (\E i \in 1..Len(v) : v[i] = r) \/ (\E j \in 1..Len(g) : g[j] = r)
    <2>1. CASE \E i \in 1..Len(u) : u[i] = r
        BY <1>1, <1>2, <2>1 DEF v
    <2>2. CASE r = f[1]
        BY <1>1, <1>2, <2>2 DEF v
    <2>3. CASE r # f[1] /\ \E j \in 1..Len(f) : f[j] = r
        <3>1. PICK j \in 1..Len(f) : f[j] = r
            BY <2>3
        <3>2. j - 1 \in 1..(Len(f) - 1) /\ (j - 1) + 1 = j
            BY <1>1, <2>3, <3>1
        <3> QED BY <1>3, <3>1, <3>2 DEF g
    <2> QED BY <2>1, <2>2, <2>3 DEF Shared
<1> QED BY <1>2, <1>3, <1>7, <1>8, <1>9, <1>10 DEF Shared, v, g

\* ... and back when a used one is given back.
LEMMA GiveShared ==
    ASSUME NEW n \in Nat, NEW u, NEW f, Shared(n, u, f), u # <<>>
    PROVE  Shared(n, Tail(u), <<u[1]>> \o f)
<1>1. u \in Seq(1..n) /\ f \in Seq(1..n)
    BY DEF Shared
<1>2. Len(u) \in Nat /\ Len(u) >= 1 /\ 1 \in 1..Len(u) /\ u[1] \in 1..n /\ Len(f) \in Nat
    BY <1>1, ListFacts
<1> DEFINE v == Tail(u)
           g == <<u[1]>> \o f
<1>3. /\ v \in Seq(1..n) /\ Len(v) = Len(u) - 1
      /\ \A i \in 1..(Len(u) - 1) : v[i] = u[i + 1]
    BY <1>1, ShorterFacts
<1>4. /\ g \in Seq(1..n) /\ Len(g) = Len(f) + 1 /\ g[1] = u[1]
      /\ \A i \in 1..Len(f) : g[i + 1] = f[i]
    BY <1>1, <1>2, FrontedFacts
<1> HIDE DEF v, g
<1>5. /\ \A i, j \in 1..Len(u) : u[i] = u[j] => i = j
      /\ \A i, j \in 1..Len(f) : f[i] = f[j] => i = j
      /\ \A i \in 1..Len(u), j \in 1..Len(f) : u[i] # f[j]
    BY DEF Shared
<1>6. \A i \in 1..Len(v) : i + 1 \in 1..Len(u) /\ i + 1 # 1 /\ v[i] = u[i + 1]
    BY <1>2, <1>3
<1>7. \A j \in 1..Len(g) : j = 1 \/ \E k \in 1..Len(f) : j = k + 1
    <2>1. \A j \in 1..Len(g) : j # 1 => j - 1 \in 1..Len(f) /\ j = (j - 1) + 1
        BY <1>2, <1>4
    <2> QED BY <2>1
<1>8. \A i, j \in 1..Len(v) : v[i] = v[j] => i = j
    <2>1. SUFFICES ASSUME NEW i \in 1..Len(v), NEW j \in 1..Len(v), v[i] = v[j]
                   PROVE  i = j
        OBVIOUS
    <2>2. i + 1 = j + 1
        BY <1>5, <1>6, <2>1
    <2>3. i \in Int /\ j \in Int
        OBVIOUS
    <2> QED BY <2>2, <2>3
<1>9. \A i, j \in 1..Len(g) : g[i] = g[j] => i = j
    <2>1. SUFFICES ASSUME NEW i \in 1..Len(g), NEW j \in 1..Len(g), g[i] = g[j]
                   PROVE  i = j
        OBVIOUS
    <2>2. \A k \in 1..Len(f) : g[k + 1] # g[1]
        BY <1>2, <1>4, <1>5
    <2>3. CASE i = 1 \/ j = 1
        BY <1>7, <2>1, <2>2, <2>3
    <2>4. CASE i # 1 /\ j # 1
        <3>1. PICK k \in 1..Len(f), m \in 1..Len(f) : i = k + 1 /\ j = m + 1
            BY <1>7, <2>4
        <3>2. f[k] = f[m]
            BY <1>4, <2>1, <3>1
        <3> QED BY <1>5, <3>1, <3>2
    <2> QED BY <2>3, <2>4
<1>10. \A i \in 1..Len(v), j \in 1..Len(g) : v[i] # g[j]
    <2>1. SUFFICES ASSUME NEW i \in 1..Len(v), NEW j \in 1..Len(g) PROVE v[i] # g[j]
        OBVIOUS
    <2>2. CASE j = 1
        <3>1. v[i] = u[i + 1] /\ i + 1 \in 1..Len(u) /\ i + 1 # 1 /\ 1 \in 1..Len(u)
            BY <1>2, <1>6
        <3> QED BY <1>4, <1>5, <2>2, <3>1
    <2>3. CASE j # 1
        <3>1. PICK k \in 1..Len(f) : j = k + 1
            BY <1>7, <2>3
        <3> QED BY <1>4, <1>5, <1>6, <3>1
    <2> QED BY <2>2, <2>3
<1>11. ASSUME NEW r \in 1..n
       PROVE  (\E i \in 1..Len(v) : v[i] = r) \/ (\E j \in 1..Len(g) : g[j] = r)
    <2>1. CASE r = u[1]
        <3>1. 1 \in 1..Len(g)
            BY <1>2, <1>4
        <3> QED BY <1>4, <2>1, <3>1
    <2>2. CASE r # u[1] /\ \E i \in 1..Len(u) : u[i] = r
        <3>1. PICK i \in 1..Len(u) : u[i] = r
            BY <2>2
        <3>2. i - 1 \in 1..(Len(u) - 1) /\ (i - 1) + 1 = i
            BY <1>2, <2>2, <3>1
        <3> QED BY <1>3, <3>1, <3>2
    <2>3. CASE \E j \in 1..Len(f) : f[j] = r
        <3>1. PICK j \in 1..Len(f) : f[j] = r
            BY <2>3
        <3>2. j + 1 \in 1..Len(g) /\ g[j + 1] = r
            BY <1>2, <1>4, <3>1
        <3> QED BY <3>2
    <2> QED BY <2>1, <2>2, <2>3 DEF Shared
<1> QED BY <1>3, <1>4, <1>8, <1>9, <1>10, <1>11 DEF Shared, v, g

\* The links after a record r was taken to the end of the used list.
Relinked(lnk, r, ut) == IF ut # 0 THEN [[lnk EXCEPT ![r] = 0] EXCEPT ![ut] = r]
                                  ELSE [lnk EXCEPT ![r] = 0]

\* __log_queue_alloc_record with a free record: it moves from the head of the free
\* list to the end of the used list.
LEMMA AllocArranged ==
    ASSUME NEW n \in Nat, NEW lnk, NEW uh, NEW fh, NEW ut, NEW u, NEW f,
           Arranged(n, lnk, uh, fh, ut, u, f), f # <<>>
    PROVE  Arranged(n, Relinked(lnk, fh, ut), IF ut # 0 THEN uh ELSE fh, lnk[fh], fh, Append(u, fh), Tail(f))
<1>1. n \in Nat /\ u \in Seq(1..n) /\ f \in Seq(1..n)
    BY DEF Arranged, Shared
<1>2. /\ Len(u) \in Nat /\ ((u = <<>>) <=> (Len(u) = 0))
      /\ \A i \in 1..Len(u) : u[i] \in 1..n
    BY <1>1, ListFacts
<1>3. /\ Len(f) \in Nat /\ Len(f) >= 1
      /\ \A i \in 1..Len(f) : f[i] \in 1..n
    BY <1>1, ListFacts
<1>4. fh = f[1] /\ 1 \in 1..Len(f) /\ fh \in 1..n
    BY <1>3 DEF Arranged, Follows
<1>5. lnk \in [1..n -> Nat]
    BY DEF Arranged
<1>6. /\ \A i, j \in 1..Len(u) : u[i] = u[j] => i = j
      /\ \A i, j \in 1..Len(f) : f[i] = f[j] => i = j
      /\ \A i \in 1..Len(u), j \in 1..Len(f) : u[i] # f[j]
    BY DEF Arranged, Shared
<1>7. \A k \in 1..Len(u) : lnk[u[k]] = IF k = Len(u) THEN 0 ELSE u[k + 1]
    BY DEF Arranged, Follows
<1>8. \A k \in 1..Len(f) : lnk[f[k]] = IF k = Len(f) THEN 0 ELSE f[k + 1]
    BY DEF Arranged, Follows
<1> DEFINE v == Append(u, fh)
           g == Tail(f)
           lnk2 == Relinked(lnk, fh, ut)
<1>9. /\ Len(v) \in Nat /\ Len(v) = Len(u) + 1 /\ v # <<>>
      /\ \A i \in 1..Len(u) : v[i] = u[i]
      /\ v[Len(u) + 1] = fh
    <2>1. /\ v \in Seq(1..n) /\ Len(v) = Len(u) + 1 /\ v # <<>>
          /\ \A i \in 1..Len(u) : v[i] = u[i]
          /\ v[Len(u) + 1] = fh
        <3>1. fh \in 1..n
            BY <1>4
        <3> QED BY <1>1, <3>1, LongerFacts
    <2>2. Len(u) + 1 \in Nat
        BY <1>2
    <2> HIDE DEF v
    <2> QED BY <2>1, <2>2
<1>10. /\ Len(g) \in Nat /\ Len(g) = Len(f) - 1 /\ ((g = <<>>) <=> (Len(f) = 1))
      /\ \A i \in 1..(Len(f) - 1) : g[i] = f[i + 1]
    BY <1>1, ShorterFacts, ListFacts
<1>11. Shared(n, v, g)
    BY <1>1, <1>4, TakeShared DEF Arranged
<1> HIDE DEF v, g
<1>12. ut = TailOf(u) /\ (ut = 0 <=> u = <<>>)
    BY <1>2 DEF Arranged, TailOf
<1>13. u # <<>> => Len(u) \in 1..Len(u) /\ ut = u[Len(u)] /\ ut \in 1..n /\ ut # fh
    BY <1>2, <1>3, <1>4, <1>12 DEF TailOf, Arranged, Shared
<1>14. /\ lnk2 \in [1..n -> Nat]
      /\ \A r \in 1..n : lnk2[r] = IF r = ut THEN fh ELSE IF r = fh THEN 0 ELSE lnk[r]
    <2>1. CASE u = <<>>
        <3>1. lnk2 = [lnk EXCEPT ![fh] = 0] /\ ut = 0
            BY <1>12, <2>1 DEF Relinked
        <3> QED BY <1>5, <1>4, <3>1
    <2>2. CASE u # <<>>
        <3>1. lnk2 = [[lnk EXCEPT ![fh] = 0] EXCEPT ![ut] = fh] /\ ut \in 1..n
            BY <1>12, <1>13, <2>2 DEF Relinked
        <3> DEFINE mid == [lnk EXCEPT ![fh] = 0]
        <3>2. mid \in [1..n -> Nat] /\ \A r \in 1..n : mid[r] = IF r = fh THEN 0 ELSE lnk[r]
            BY <1>5, <1>4
        <3>3. lnk2 = [mid EXCEPT ![ut] = fh] /\ fh \in Nat
            BY <1>5, <1>4, <3>1
        <3> HIDE DEF mid
        <3> QED BY <3>1, <3>2, <3>3
    <2> QED BY <2>1, <2>2
<1> HIDE DEF lnk2
<1>15. Follows(lnk2, IF ut # 0 THEN uh ELSE fh, v)
    <2>1. (IF ut # 0 THEN uh ELSE fh) = v[1]
        BY <1>2, <1>9, <1>12 DEF Arranged, Follows
    <2>2. ASSUME NEW k \in 1..(Len(u) + 1)
          PROVE  lnk2[v[k]] = IF k = Len(v) THEN 0 ELSE v[k + 1]
        <3>1. CASE k = Len(u) + 1
            <4>1. v[k] = fh /\ fh # ut
                BY <1>2, <1>3, <1>4, <1>9, <1>12, <1>13, <3>1
            <4> QED BY <1>3, <1>4, <1>9, <1>14, <3>1, <4>1
        <3>2. CASE k = Len(u) /\ k \in 1..Len(u)
            <4>1. u # <<>>
                BY <1>2, <3>2
            <4>2. ut = u[k] /\ ut \in 1..n
                BY <1>13, <3>2, <4>1
            <4>3. v[k] = u[k]
                BY <1>9, <3>2
            <4>4. v[k + 1] = fh
                BY <1>9, <3>2
            <4>5. k # Len(v)
                BY <1>2, <1>9, <3>2
            <4> QED BY <1>14, <4>2, <4>3, <4>4, <4>5
        <3>3. CASE k \in 1..Len(u) /\ k # Len(u)
            <4>1. k + 1 \in 1..Len(u) /\ k # Len(v) /\ Len(u) \in 1..Len(u) /\ u # <<>>
                BY <1>2, <1>9, <3>3
            <4>2. v[k] = u[k] /\ v[k + 1] = u[k + 1]
                BY <1>9, <3>3, <4>1
            <4>3. u[k] # ut /\ u[k] # fh
                BY <1>13, <1>4, <1>6, <3>3, <4>1
            <4>4. lnk[u[k]] = u[k + 1]
                BY <1>7, <3>3
            <4>5. u[k] \in 1..n
                BY <1>2, <3>3
            <4>6. lnk2[v[k]] = u[k + 1]
                BY <1>14, <4>2, <4>3, <4>4, <4>5
            <4> QED BY <4>1, <4>2, <4>6
        <3> QED BY <1>2, <3>1, <3>2, <3>3
    <2> QED BY <1>9, <2>1, <2>2 DEF Follows
<1>16. Follows(lnk2, lnk[fh], g)
    <2>1. lnk[fh] = IF Len(f) = 1 THEN 0 ELSE f[2]
        <3>1. lnk[f[1]] = IF 1 = Len(f) THEN 0 ELSE f[1 + 1]
            BY <1>4, <1>8
        <3> QED BY <1>4, <3>1
    <2>2. lnk[fh] = IF g = <<>> THEN 0 ELSE g[1]
        <3>1. (g = <<>>) <=> (Len(f) = 1)
            BY <1>3, <1>10
        <3>2. Len(f) # 1 => g[1] = f[2]
            BY <1>3, <1>10
        <3> QED BY <2>1, <3>1, <3>2
    <2>3. ASSUME NEW k \in 1..(Len(f) - 1)
          PROVE  lnk2[g[k]] = IF k = Len(g) THEN 0 ELSE g[k + 1]
        <3>1. k + 1 \in 1..Len(f) /\ k + 1 # 1 /\ g[k] = f[k + 1]
            BY <1>3, <1>10
        <3>2. f[k + 1] # fh /\ f[k + 1] # ut
            <4>1. f[k + 1] # fh
                BY <1>4, <1>6, <3>1
            <4>2. CASE u # <<>>
                BY <1>13, <1>6, <3>1, <4>1, <4>2
            <4>3. CASE u = <<>>
                BY <1>3, <1>12, <3>1, <4>1, <4>3
            <4> QED BY <4>2, <4>3
        <3>3. lnk2[g[k]] = lnk[f[k + 1]]
            BY <1>3, <1>14, <3>1, <3>2
        <3>4. lnk[f[k + 1]] = IF k + 1 = Len(f) THEN 0 ELSE f[(k + 1) + 1]
            BY <1>8, <3>1
        <3>5. k # Len(g) => g[k + 1] = f[(k + 1) + 1]
            BY <1>3, <1>10
        <3> QED BY <1>3, <1>10, <3>3, <3>4, <3>5
    <2> QED BY <1>10, <2>2, <2>3 DEF Follows
<1>17. fh = TailOf(v)
    BY <1>9 DEF TailOf
<1> QED BY <1>1, <1>11, <1>14, <1>15, <1>16, <1>17 DEF Arranged, v, g, lnk2

\* __log_queue_dealloc_record with the head of the used list: it goes to the head of
\* the free list, and the tail pointer is cleared when it was the only one.
LEMMA DeallocArranged ==
    ASSUME NEW n \in Nat, NEW lnk, NEW uh, NEW fh, NEW ut, NEW u, NEW f,
           Arranged(n, lnk, uh, fh, ut, u, f), u # <<>>
    PROVE  Arranged(n, [lnk EXCEPT ![uh] = fh], lnk[uh], uh,
                    IF uh = ut THEN 0 ELSE ut, Tail(u), <<uh>> \o f)
<1>1. n \in Nat /\ u \in Seq(1..n) /\ f \in Seq(1..n)
    BY DEF Arranged, Shared
<1>2. /\ Len(u) \in Nat /\ Len(u) >= 1
      /\ \A i \in 1..Len(u) : u[i] \in 1..n
    BY <1>1, ListFacts
<1>3. /\ Len(f) \in Nat /\ ((f = <<>>) <=> (Len(f) = 0))
      /\ \A i \in 1..Len(f) : f[i] \in 1..n
    BY <1>1, ListFacts
<1>4. uh = u[1] /\ 1 \in 1..Len(u) /\ Len(u) \in 1..Len(u) /\ uh \in 1..n
    BY <1>2 DEF Arranged, Follows
<1>5. lnk \in [1..n -> Nat]
    BY DEF Arranged
<1>6. /\ \A i, j \in 1..Len(u) : u[i] = u[j] => i = j
      /\ \A i, j \in 1..Len(f) : f[i] = f[j] => i = j
      /\ \A i \in 1..Len(u), j \in 1..Len(f) : u[i] # f[j]
    BY DEF Arranged, Shared
<1>7. \A k \in 1..Len(u) : lnk[u[k]] = IF k = Len(u) THEN 0 ELSE u[k + 1]
    BY DEF Arranged, Follows
<1>8. \A k \in 1..Len(f) : lnk[f[k]] = IF k = Len(f) THEN 0 ELSE f[k + 1]
    BY DEF Arranged, Follows
<1>9. ut = u[Len(u)]
    BY DEF Arranged, TailOf
<1> DEFINE v == Tail(u)
           g == <<uh>> \o f
           lnk2 == [lnk EXCEPT ![uh] = fh]
<1>10. /\ Len(v) \in Nat /\ Len(v) = Len(u) - 1 /\ ((v = <<>>) <=> (Len(u) = 1))
       /\ \A i \in 1..(Len(u) - 1) : v[i] = u[i + 1]
    BY <1>1, ShorterFacts, ListFacts
<1>11. /\ Len(g) \in Nat /\ Len(g) = Len(f) + 1 /\ g # <<>>
       /\ g[1] = uh
       /\ \A i \in 1..Len(f) : g[i + 1] = f[i]
    BY <1>1, <1>4, FrontedFacts, ListFacts
<1>12. Shared(n, v, g)
    BY <1>1, <1>4, GiveShared DEF Arranged
<1>13. /\ fh \in Nat /\ lnk2 \in [1..n -> Nat]
       /\ \A r \in 1..n : lnk2[r] = IF r = uh THEN fh ELSE lnk[r]
    <2>1. fh \in Nat
        <3>1. CASE f = <<>>
            BY <3>1 DEF Arranged, Follows
        <3>2. CASE f # <<>>
            <4>1. fh = f[1] /\ 1 \in 1..Len(f)
                BY <1>3, <3>2 DEF Arranged, Follows
            <4> QED BY <1>3, <4>1
        <3> QED BY <3>1, <3>2
    <2> QED BY <1>4, <1>5, <2>1
<1> HIDE DEF v, g, lnk2
<1>14. Follows(lnk2, lnk[uh], v)
    <2>1. lnk[uh] = IF v = <<>> THEN 0 ELSE v[1]
        <3>1. lnk[u[1]] = IF 1 = Len(u) THEN 0 ELSE u[1 + 1]
            BY <1>4, <1>7
        <3>2. Len(u) # 1 => v[1] = u[1 + 1]
            BY <1>2, <1>10
        <3> QED BY <1>4, <1>10, <3>1, <3>2
    <2>2. ASSUME NEW k \in 1..(Len(u) - 1)
          PROVE  lnk2[v[k]] = IF k = Len(v) THEN 0 ELSE v[k + 1]
        <3>1. k + 1 \in 1..Len(u) /\ k + 1 # 1 /\ v[k] = u[k + 1]
            BY <1>2, <1>10
        <3>2. u[k + 1] # uh
            BY <1>4, <1>6, <3>1
        <3>3. lnk2[v[k]] = lnk[u[k + 1]]
            BY <1>2, <1>13, <3>1, <3>2
        <3>4. lnk[u[k + 1]] = IF k + 1 = Len(u) THEN 0 ELSE u[(k + 1) + 1]
            BY <1>7, <3>1
        <3>5. k # Len(v) => v[k + 1] = u[(k + 1) + 1]
            BY <1>2, <1>10
        <3> QED BY <1>2, <1>10, <3>3, <3>4, <3>5
    <2> QED BY <1>10, <2>1, <2>2 DEF Follows
<1>15. Follows(lnk2, uh, g)
    <2>1. ASSUME NEW k \in 1..(Len(f) + 1)
          PROVE  lnk2[g[k]] = IF k = Len(g) THEN 0 ELSE g[k + 1]
        <3>1. CASE k = 1
            <4>1. lnk2[g[k]] = fh
                BY <1>4, <1>11, <1>13, <3>1
            <4>2. CASE f = <<>>
                BY <1>3, <1>11, <3>1, <4>1, <4>2 DEF Arranged, Follows
            <4>3. CASE f # <<>>
                <5>1. 1 \in 1..Len(f) /\ 1 # Len(g)
                    BY <1>3, <1>11, <4>3
                <5>2. g[k + 1] = f[1]
                    BY <1>11, <3>1, <5>1
                <5>3. fh = f[1]
                    BY <4>3 DEF Arranged, Follows
                <5> QED BY <3>1, <4>1, <5>1, <5>2, <5>3
            <4> QED BY <4>2, <4>3
        <3>2. CASE k # 1
            <4>1. PICK i \in 1..Len(f) : k = i + 1
                <5>1. k - 1 \in 1..Len(f) /\ k = (k - 1) + 1
                    BY <1>3, <3>2
                <5> QED BY <5>1
            <4>2. g[k] = f[i] /\ f[i] \in 1..n
                BY <1>3, <1>11, <4>1
            <4>3. f[i] # uh
                BY <1>4, <1>6
            <4>4. lnk2[g[k]] = IF i = Len(f) THEN 0 ELSE f[i + 1]
                BY <1>8, <1>13, <4>2, <4>3
            <4>5. i # Len(f) => g[k + 1] = f[i + 1]
                <5>1. i # Len(f) => i + 1 \in 1..Len(f)
                    BY <1>3
                <5> QED BY <1>11, <4>1, <5>1
            <4>6. k = Len(g) <=> i = Len(f)
                BY <1>3, <1>11, <4>1
            <4> QED BY <4>4, <4>5, <4>6
        <3> QED BY <3>1, <3>2
    <2> QED BY <1>11, <2>1 DEF Follows
<1>16. (IF uh = ut THEN 0 ELSE ut) = TailOf(v)
    <2>1. CASE Len(u) = 1
        BY <1>4, <1>9, <1>10, <2>1 DEF TailOf
    <2>2. CASE Len(u) # 1
        <3>1. uh # ut
            BY <1>4, <1>6, <1>9, <2>2
        <3>2. v[Len(v)] = u[Len(u)]
            <4>0. Len(u) \in Nat /\ Len(u) >= 1
                BY <1>2
            <4>1. PICK k \in Nat : k = Len(u) - 1 /\ k >= 1
                <5>1. \A l \in Nat : (l >= 1 /\ l # 1) => (l - 1 \in Nat /\ l - 1 >= 1)
                    OBVIOUS
                <5>2. Len(u) - 1 \in Nat /\ Len(u) - 1 >= 1
                    BY <2>2, <4>0, <5>1
                <5> QED BY <5>2
            <4>2. k + 1 = Len(u) /\ k = Len(v)
                BY <1>10, <4>0, <4>1
            <4>3. v[k] = u[k + 1]
                BY <1>10, <4>1
            <4> QED BY <4>2, <4>3
        <3> QED BY <1>9, <1>10, <2>2, <3>1, <3>2 DEF TailOf
    <2> QED BY <2>1, <2>2
<1> QED BY <1>1, <1>12, <1>13, <1>14, <1>15, <1>16 DEF Arranged, v, g, lnk2

\* The links of the m records of a new pool behind n others, as
\* __log_queue_add_pool leaves them, and the free list they make.
PoolLinks(n, m, fh) == [k \in 1..m |-> IF k = 1 THEN fh ELSE n + k - 1]
PoolList(n, m) == [k \in 1..m |-> (n + m + 1) - k]

\* __log_queue_add_pool when no record is free.
LEMMA PoolArranged ==
    ASSUME NEW n \in Nat, NEW m \in Nat, m > 0,
           NEW lnk \in Seq(Nat), Len(lnk) = n, NEW uh, NEW fh, NEW ut, NEW u, NEW f,
           Arranged(n, lnk, uh, fh, ut, u, f), f = <<>>
    PROVE  Arranged(n + m, lnk \o PoolLinks(n, m, fh), uh, n + m, ut, u, PoolList(n, m))
<1> DEFINE P == PoolLinks(n, m, fh)
           g == PoolList(n, m)
           lnk2 == lnk \o P
           N == n + m
<1>1. u \in Seq(1..n) /\ fh = 0 /\ N \in Nat
    BY DEF Arranged, Shared, Follows
<1>2. /\ Len(u) \in Nat
      /\ \A i \in 1..Len(u) : u[i] \in 1..n
    BY <1>1, ListFacts
<1>3. /\ P \in Seq(Nat) /\ Len(P) = m
      /\ \A k \in 1..m : P[k] = IF k = 1 THEN 0 ELSE n + k - 1
    <2>1. \A k \in 1..m : (IF k = 1 THEN fh ELSE n + k - 1) \in Nat
        BY <1>1
    <2>2. P \in [1..m -> Nat]
        BY <2>1 DEF PoolLinks
    <2>3. \A k \in 1..m : P[k] = IF k = 1 THEN 0 ELSE n + k - 1
        BY <1>1 DEF PoolLinks
    <2> HIDE DEF P
    <2>4. P \in Seq(Nat) /\ Len(P) = m
        BY <2>2
    <2> QED BY <2>3, <2>4
<1>4. /\ g \in [1..m -> 1..N]
      /\ \A k \in 1..m : g[k] = (N + 1) - k
    BY DEF PoolList
<1> HIDE DEF P, g
<1>5. g \in Seq(1..N) /\ Len(g) = m /\ g # <<>> /\ g[1] = N
    <2>1. g \in Seq(1..N) /\ Len(g) = m
        BY <1>1, <1>4
    <2>2. g # <<>>
        BY <1>1, <2>1, ListFacts
    <2>3. 1 \in 1..m
        OBVIOUS
    <2> QED BY <1>1, <1>4, <2>1, <2>2, <2>3
<1>6. /\ lnk2 \in Seq(Nat) /\ Len(lnk2) = N
      /\ \A r \in 1..N : lnk2[r] = IF r <= n THEN lnk[r] ELSE P[r - n]
    <2>1. /\ lnk \o P \in Seq(Nat) /\ Len(lnk \o P) = Len(lnk) + Len(P)
          /\ \A r \in 1..(Len(lnk) + Len(P)) :
                (lnk \o P)[r] = IF r <= Len(lnk) THEN lnk[r] ELSE P[r - Len(lnk)]
        BY <1>3, ConcatProperties
    <2> QED BY <1>3, <2>1
<1>7. lnk2 \in [1..N -> Nat]
    <2> HIDE DEF lnk2, N
    <2> QED BY <1>6, LenProperties
<1>8. /\ \A i, j \in 1..Len(u) : u[i] = u[j] => i = j
      /\ \A r \in 1..n : \E i \in 1..Len(u) : u[i] = r
    <2>1. Shared(n, u, f)
        BY DEF Arranged
    <2>2. \A i, j \in 1..Len(u) : u[i] = u[j] => i = j
        BY <2>1 DEF Shared
    <2>3. \A r \in 1..n : (\E i \in 1..Len(u) : u[i] = r) \/ (\E j \in 1..Len(f) : f[j] = r)
        BY <2>1 DEF Shared
    <2>4. 1..Len(f) = {}
        OBVIOUS
    <2>5. \A r \in 1..n : \E i \in 1..Len(u) : u[i] = r
        BY <2>3, <2>4, Zenon
    <2> QED BY <2>2, <2>5
<1>9. \A k \in 1..Len(u) : lnk[u[k]] = IF k = Len(u) THEN 0 ELSE u[k + 1]
    BY DEF Arranged, Follows
<1> HIDE DEF lnk2, N
<1>10. Shared(N, u, g)
    <2>1. u \in Seq(1..N)
        <3>1. 1..n \subseteq 1..N
            BY DEF N
        <3> QED BY <1>1, <3>1, SeqMonotonic
    <2>2. \A i, j \in 1..Len(g) : g[i] = g[j] => i = j
        BY <1>1, <1>4, <1>5
    <2>3. \A i \in 1..Len(u), j \in 1..Len(g) : u[i] # g[j]
        <3>1. \A j \in 1..m : (N + 1) - j \notin 1..n
            BY DEF N
        <3> QED BY <1>2, <1>4, <1>5, <3>1
    <2>4. ASSUME NEW r \in 1..N
          PROVE  (\E i \in 1..Len(u) : u[i] = r) \/ (\E j \in 1..Len(g) : g[j] = r)
        <3>1. CASE r \in 1..n
            BY <1>8, <3>1
        <3>2. CASE r \notin 1..n
            <4>1. (N + 1) - r \in 1..m /\ (N + 1) - ((N + 1) - r) = r
                BY <3>2 DEF N
            <4> QED BY <1>4, <1>5, <4>1
        <3> QED BY <3>1, <3>2
    <2> QED BY <1>5, <1>8, <2>1, <2>2, <2>3, <2>4 DEF Shared
<1>11. Follows(lnk2, uh, u)
    <2>1. ASSUME NEW k \in 1..Len(u)
          PROVE  lnk2[u[k]] = IF k = Len(u) THEN 0 ELSE u[k + 1]
        <3>1. u[k] \in 1..n /\ u[k] \in 1..N /\ u[k] <= n
            BY <1>2 DEF N
        <3>2. lnk2[u[k]] = lnk[u[k]]
            BY <1>6, <3>1
        <3> QED BY <1>9, <3>2
    <2>2. uh = IF u = <<>> THEN 0 ELSE u[1]
        BY DEF Arranged, Follows
    <2> QED BY <2>1, <2>2 DEF Follows
<1>12. Follows(lnk2, N, g)
    <2>1. ASSUME NEW k \in 1..m
          PROVE  lnk2[g[k]] = IF k = Len(g) THEN 0 ELSE g[k + 1]
        <3>1. /\ g[k] = (N + 1) - k /\ (N + 1) - k \in 1..N /\ ~((N + 1) - k <= n)
              /\ ((N + 1) - k) - n \in 1..m
            BY <1>4 DEF N
        <3>2. lnk2[g[k]] = P[((N + 1) - k) - n]
            BY <1>6, <3>1
        <3>3. CASE k = m
            <4>1. ((N + 1) - k) - n = 1
                BY <3>3 DEF N
            <4> QED BY <1>3, <1>5, <3>1, <3>2, <3>3, <4>1
        <3>4. CASE k # m
            <4>1. /\ ((N + 1) - k) - n # 1
                  /\ n + (((N + 1) - k) - n) - 1 = (N + 1) - (k + 1)
                  /\ k + 1 \in 1..m
                BY <3>4 DEF N
            <4>2. P[((N + 1) - k) - n] = (N + 1) - (k + 1)
                BY <1>3, <3>1, <4>1
            <4>3. g[k + 1] = (N + 1) - (k + 1)
                BY <1>4, <4>1
            <4> QED BY <1>5, <3>2, <3>4, <4>2, <4>3
        <3> QED BY <3>3, <3>4
    <2> QED BY <1>5, <2>1 DEF Follows
<1> QED BY <1>1, <1>7, <1>10, <1>11, <1>12 DEF Arranged, lnk2, N, P, g

-----------------------------------------------------------------------------
(* The queue's lists.                                                      *)

\* The used list and the free list are arrangements of all records; they have the
\* lengths that the counters say, and the used one holds the queue.
Linked ==
    /\ link \in Seq(Nat) /\ event \in Seq(Items) /\ Len(event) = Len(link)
    /\ \E u \in [1..n_rec_used -> 1..Len(link)], f \in [1..n_rec_free -> 1..Len(link)] :
        /\ Arranged(Len(link), link, used_head, free_head, used_tail, u, f)
        /\ used = [k \in 1..n_rec_used |-> event[u[k]]]

\* A step links the event of a push in, at the cost of a free record or of a new
\* pool, gives the record of a pop back, or leaves the lists alone.
LinkedIn == \E e \in Items :
    /\ used' = Append(used, e)
    /\ n_rec_used' = n_rec_used + 1
    /\ n_rec_free' = (IF n_rec_free > 0 THEN n_rec_free ELSE PoolSize) - 1
    /\ n_rec_free = 0 => PoolSize > 0

GivenBack ==
    /\ used # <<>> /\ used' = Tail(used)
    /\ n_rec_used' = n_rec_used - 1
    /\ n_rec_free' = n_rec_free + 1

LeftAlone == UNCHANGED <<used, n_rec_free, n_rec_used>>

LEMMA CountsFollow ==
    ASSUME IInv, [Next]_vars
    PROVE  LinkedIn \/ GivenBack \/ LeftAlone
<1> USE DEF object, LeftAlone
<1>1. ASSUME NEW p \in Pushers, PushLock(p) PROVE LeftAlone
    BY <1>1 DEF PushLock, Lock
<1>2. ASSUME NEW p \in Pushers, PushReuse(p) PROVE LinkedIn
    <2>1. data[p] \in Items
        BY DEF IInv, TypeOK
    <2> QED BY <1>2, <2>1 DEF PushReuse, Store, LinkedIn
<1>3. ASSUME NEW p \in Pushers, PushGrow(p) PROVE LinkedIn
    <2>1. data[p] \in Items
        BY DEF IInv, TypeOK
    <2>2. n_rec_free = 0 /\ PoolSize > 0 /\ n_rec_free' = (n_rec_free + PoolSize) - 1
        BY <1>3 DEF PushGrow, Store
    <2>3. PoolSize \in Nat
        BY PoolFits DEF IInv
    <2> QED BY <1>3, <2>1, <2>2, <2>3 DEF PushGrow, Store, LinkedIn
<1>4. ASSUME NEW p \in Pushers, PushFault(p) PROVE LeftAlone
    BY <1>4 DEF PushFault
<1>5. ASSUME NEW p \in Pushers, PushNoMemory(p) PROVE LeftAlone
    BY <1>5 DEF PushNoMemory
<1>6. ASSUME NEW p \in Pushers, PushAtLimit(p) PROVE LeftAlone
    BY <1>6 DEF PushAtLimit
<1>7. ASSUME NEW p \in Pushers, PushSleep(p) PROVE LeftAlone
    BY <1>7 DEF PushSleep
<1>8. ASSUME NEW p \in Pushers, PushBroadcast(p) PROVE LeftAlone
    BY <1>8 DEF PushBroadcast, Broadcast
<1>9. ASSUME NEW p \in Pushers, PushUnlock(p) PROVE LeftAlone
    BY <1>9 DEF PushUnlock, Unlock
<1>10. ASSUME NEW p \in Pushers, NEW e \in Events, PushCall(p, e) PROVE LeftAlone
    BY <1>10 DEF PushCall, Enter
<1>11. ASSUME NEW c \in Poppers, PopLock(c) PROVE LeftAlone
    BY <1>11 DEF PopLock, Lock
<1>12. ASSUME NEW c \in Poppers, PopWait(c) PROVE LeftAlone
    BY <1>12 DEF PopWait
<1>13. ASSUME NEW c \in Poppers, PopRelock(c) PROVE LeftAlone
    BY <1>13 DEF PopRelock, Lock
<1>14. ASSUME NEW c \in Poppers, PopTake(c) PROVE GivenBack
    BY <1>14 DEF PopTake, GivenBack
<1>15. ASSUME NEW c \in Poppers, PopNothing(c) PROVE LeftAlone
    BY <1>15 DEF PopNothing
<1>16. ASSUME NEW c \in Poppers, PopUnlock(c) PROVE LeftAlone
    BY <1>16 DEF PopUnlock, Unlock
<1>17. ASSUME NEW c \in Poppers, PopCall(c) PROVE LeftAlone
    BY <1>17 DEF PopCall, Enter
<1>18. ASSUME NEW c \in Poppers, PopSpurious(c) PROVE LeftAlone
    BY <1>18 DEF PopSpurious
<1>19. ASSUME NEW i \in Interrupters, InterruptLock(i) PROVE LeftAlone
    BY <1>19 DEF InterruptLock, Lock
<1>20. ASSUME NEW i \in Interrupters, InterruptBroadcast(i) PROVE LeftAlone
    BY <1>20 DEF InterruptBroadcast, Broadcast
<1>21. ASSUME NEW i \in Interrupters, InterruptUnlock(i) PROVE LeftAlone
    BY <1>21 DEF InterruptUnlock, Unlock
<1>22. ASSUME NEW i \in Interrupters, InterruptCall(i) PROVE LeftAlone
    BY <1>22 DEF InterruptCall, Enter
<1>23. CASE UNCHANGED vars
    BY <1>23 DEF vars
<1> QED
    BY <1>1, <1>2, <1>3, <1>4, <1>5, <1>6, <1>7, <1>8, <1>9, <1>10, <1>11, <1>12, <1>13, <1>14, <1>15, <1>16, <1>17, <1>18, <1>19, <1>20, <1>21, <1>22, <1>23 DEF Next, PushStep, PopStep, InterruptStep

\* A push takes the record at the head of the free list, which may be the last one of
\* a new pool, behind the used list.
LEMMA TakenLinked ==
    ASSUME NEW L \in Seq(Nat), NEW E \in Seq(Items), Len(E) = Len(L),
           n_rec_used \in Nat, NEW m \in Nat, m > 0,
           NEW u \in [1..n_rec_used -> 1..Len(L)], NEW f \in [1..m -> 1..Len(L)], NEW fh,
           Arranged(Len(L), L, used_head, fh, used_tail, u, f),
           used = [k \in 1..n_rec_used |-> E[u[k]]],
           NEW e \in Items, Lists!AllocRecord([link |-> L, event |-> E, free_head |-> fh], e),
           used' = Append(used, e), n_rec_used' = n_rec_used + 1, n_rec_free' = m - 1
    PROVE  Linked'
<1> DEFINE n == Len(L)
           v == Append(u, fh)
           g == Tail(f)
<1>1. /\ n \in Nat
      /\ u \in Seq(1..n) /\ Len(u) = n_rec_used
      /\ f \in Seq(1..n) /\ Len(f) = m /\ f # <<>>
    <2>1. n \in Nat
        OBVIOUS
    <2>2. u \in Seq(1..n) /\ Len(u) = n_rec_used
        BY ListOf
    <2>3. f \in Seq(1..n) /\ Len(f) = m
        BY ListOf
    <2>4. f # <<>>
        BY <2>1, <2>3, ListFacts
    <2> QED BY <2>1, <2>2, <2>3, <2>4
<1>2. fh = f[1] /\ fh \in 1..n
    <2>1. fh = f[1]
        BY <1>1 DEF Arranged, Follows
    <2> QED BY <2>1
<1>3. /\ free_head' = L[fh]
      /\ link' = Relinked(L, fh, used_tail)
      /\ used_head' = IF used_tail # 0 THEN used_head ELSE fh
      /\ used_tail' = fh
      /\ event' = [E EXCEPT ![fh] = e]
    BY DEF Lists!AllocRecord, Lists!NULL, Relinked
<1>4. Arranged(n, link', used_head', free_head', used_tail', v, g)
    <2>1. Arranged(n, Relinked(L, fh, used_tail), IF used_tail # 0 THEN used_head ELSE fh,
                   L[fh], fh, v, g)
        BY <1>1, AllocArranged
    <2> HIDE DEF n
    <2> QED BY <1>3, <2>1
<1>5. link' \in Seq(Nat) /\ Len(link') = n
    <2>1. link' \in [1..n -> Nat]
        BY <1>4 DEF Arranged
    <2> HIDE DEF n
    <2> QED BY <1>1, <2>1
<1>6. event' \in Seq(Items) /\ Len(event') = n
    BY <1>2, <1>3
<1>7. /\ v \in Seq(1..n) /\ Len(v) = n_rec_used + 1
      /\ \A i \in 1..n_rec_used : v[i] = u[i]
      /\ v[n_rec_used + 1] = fh
    <2> HIDE DEF n
    <2> QED BY <1>1, <1>2, LongerFacts
<1>8. g \in Seq(1..n) /\ Len(g) = m - 1
    <2> HIDE DEF n
    <2> QED BY <1>1, ShorterFacts
<1> HIDE DEF n, v, g
<1>9. v \in [1..n_rec_used' -> 1..Len(link')] /\ g \in [1..n_rec_free' -> 1..Len(link')]
    BY <1>5, <1>7, <1>8, LenProperties
<1>10. used' = [k \in 1..n_rec_used' |-> event'[v[k]]]
    <2>1. /\ used \in Seq(Items) /\ Len(used) = n_rec_used
          /\ \A k \in 1..n_rec_used : used[k] = E[u[k]]
        <3>1. \A k \in 1..n_rec_used : E[u[k]] \in Items
            BY DEF n
        <3> QED BY <3>1
    <2>2. /\ used' \in Seq(Items) /\ Len(used') = n_rec_used + 1
          /\ \A k \in 1..n_rec_used : used'[k] = used[k]
          /\ used'[n_rec_used + 1] = e
        <3>1. Append(used, e) \in Seq(Items) /\ Len(Append(used, e)) = Len(used) + 1
            BY <2>1, AppendProperties
        <3>2. \A k \in 1..Len(used) : Append(used, e)[k] = used[k]
            BY <2>1, AppendProperties
        <3>3. Append(used, e)[Len(used) + 1] = e
            BY <2>1, AppendProperties
        <3> QED BY <2>1, <3>1, <3>2, <3>3
    <2>3. \A k \in 1..n_rec_used : u[k] # fh
        <3>1. Shared(n, u, f) /\ 1 \in 1..Len(f)
            BY <1>1 DEF Arranged, n
        <3> QED BY <1>1, <1>2, <3>1 DEF Shared
    <2>4. \A r \in 1..n : event'[r] = IF r = fh THEN e ELSE E[r]
        BY <1>3 DEF n
    <2>5. ASSUME NEW k \in 1..(n_rec_used + 1)
          PROVE  used'[k] = event'[v[k]]
        <3>1. CASE k = n_rec_used + 1
            BY <1>2, <1>7, <2>2, <2>4, <3>1
        <3>2. CASE k \in 1..n_rec_used
            <4>1. u[k] \in 1..n
                BY <3>2 DEF n
            <4> QED BY <1>7, <2>1, <2>2, <2>3, <2>4, <3>2, <4>1
        <3> QED BY <3>1, <3>2
    <2>6. used' = [k \in 1..(n_rec_used + 1) |-> used'[k]]
        BY <2>2, LenProperties
    <2> QED BY <2>5, <2>6
<1>11. Arranged(Len(link'), link', used_head', free_head', used_tail', v, g)
    BY <1>4, <1>5
<1> QED BY <1>5, <1>6, <1>9, <1>10, <1>11 DEF Linked

\* ... which is what log_queue_push does when a record is free ...
LEMMA ReusedLinked ==
    ASSUME TypeOK, Linked, NEW e \in Items, n_rec_free > 0, Lists!PushReused(e),
           used' = Append(used, e), n_rec_used' = n_rec_used + 1, n_rec_free' = n_rec_free - 1
    PROVE  Linked'
<1>1. PICK u \in [1..n_rec_used -> 1..Len(link)], f \in [1..n_rec_free -> 1..Len(link)] :
        /\ Arranged(Len(link), link, used_head, free_head, used_tail, u, f)
        /\ used = [k \in 1..n_rec_used |-> event[u[k]]]
    BY DEF Linked
<1>2. link \in Seq(Nat) /\ event \in Seq(Items) /\ Len(event) = Len(link)
    BY DEF Linked
<1>3. n_rec_used \in Nat /\ n_rec_free \in Nat
    BY RecordsAssumption DEF TypeOK
<1>4. Lists!AllocRecord([link |-> link, event |-> event, free_head |-> free_head], e)
    BY DEF Lists!PushReused
<1> QED BY <1>1, <1>2, <1>3, <1>4, TakenLinked

\* ... and when a pool has to be added first.
LEMMA PooledLinked ==
    ASSUME TypeOK, Linked, NEW e \in Items, n_rec_free = 0, NEW m \in Nat, m > 0,
           Lists!PushPooled(e, m),
           used' = Append(used, e), n_rec_used' = n_rec_used + 1, n_rec_free' = m - 1
    PROVE  Linked'
<1>1. PICK u \in [1..n_rec_used -> 1..Len(link)], f \in [1..n_rec_free -> 1..Len(link)] :
        /\ Arranged(Len(link), link, used_head, free_head, used_tail, u, f)
        /\ used = [k \in 1..n_rec_used |-> event[u[k]]]
    BY DEF Linked
<1>2. link \in Seq(Nat) /\ event \in Seq(Items) /\ Len(event) = Len(link)
    BY DEF Linked
<1>3. n_rec_used \in Nat
    BY RecordsAssumption DEF TypeOK
<1> DEFINE n == Len(link)
           L == link \o PoolLinks(n, m, free_head)
           new == [k \in 1..m |-> NoEvent]
           E == event \o new
           g == PoolList(n, m)
<1>4. n \in Nat
    BY <1>2
<1>5. f = <<>>
    <2>1. f \in Seq(1..n) /\ Len(f) = 0
        BY <1>1
    <2> QED BY <1>4, <2>1, ListFacts
<1>6. Arranged(n + m, L, used_head, n + m, used_tail, u, g)
    BY <1>1, <1>2, <1>4, <1>5, PoolArranged
<1>7. L \in Seq(Nat) /\ Len(L) = n + m
    <2>1. free_head = 0
        BY <1>1, <1>5 DEF Arranged, Follows
    <2>2. \A k \in 1..m : (IF k = 1 THEN free_head ELSE n + k - 1) \in Nat
        BY <1>4, <2>1
    <2>3. PoolLinks(n, m, free_head) \in [1..m -> Nat]
        BY <2>2 DEF PoolLinks
    <2>4. PICK P \in Seq(Nat) : P = PoolLinks(n, m, free_head) /\ Len(P) = m
        BY <2>3, ListOf
    <2>5. link \o P \in Seq(Nat) /\ Len(link \o P) = Len(link) + Len(P)
        BY <1>2, ConcatProperties
    <2> QED BY <2>4, <2>5
<1>8. new \in Seq(Items) /\ Len(new) = m
    <2>1. new \in [1..m -> Items]
        BY DEF Items
    <2> HIDE DEF new
    <2> QED BY <2>1
<1> HIDE DEF new, L
<1>9. /\ E \in Seq(Items) /\ Len(E) = n + m
      /\ \A r \in 1..n : E[r] = event[r]
    <2>1. /\ E \in Seq(Items) /\ Len(E) = Len(event) + Len(new)
          /\ \A r \in 1..(Len(event) + Len(new)) :
                E[r] = IF r <= Len(event) THEN event[r] ELSE new[r - Len(event)]
        BY <1>2, <1>8, ConcatProperties
    <2>2. \A r \in 1..n : r \in 1..(n + m) /\ r <= n
        BY <1>4
    <2> HIDE DEF E
    <2> QED BY <1>2, <1>8, <2>1, <2>2
<1>10. Lists!AllocRecord([link |-> L, event |-> E, free_head |-> n + m], e)
    <2>1. Lists!AddPool(m) = [link |-> L, event |-> E, free_head |-> n + m]
        BY DEF Lists!AddPool, PoolLinks, L, new
    <2>2. Lists!AllocRecord(Lists!AddPool(m), e)
        BY DEF Lists!PushPooled
    <2> QED BY <2>1, <2>2
<1> HIDE DEF E
<1>11. u \in [1..n_rec_used -> 1..Len(L)]
    BY <1>1, <1>4, <1>7
<1>12. g \in [1..m -> 1..Len(L)]
    BY <1>4, <1>7 DEF PoolList
<1>13. used = [k \in 1..n_rec_used |-> E[u[k]]]
    BY <1>1, <1>9
<1> HIDE DEF g
<1> QED BY <1>3, <1>6, <1>7, <1>9, <1>10, <1>11, <1>12, <1>13, TakenLinked

\* A pop gives the record of the oldest event back.
LEMMA PoppedLinked ==
    ASSUME TypeOK, Linked, Lists!PopUsed, used # <<>>, used' = Tail(used),
           n_rec_used' = n_rec_used - 1, n_rec_free' = n_rec_free + 1
    PROVE  Linked'
<1>1. PICK u \in [1..n_rec_used -> 1..Len(link)], f \in [1..n_rec_free -> 1..Len(link)] :
        /\ Arranged(Len(link), link, used_head, free_head, used_tail, u, f)
        /\ used = [k \in 1..n_rec_used |-> event[u[k]]]
    BY DEF Linked
<1>2. link \in Seq(Nat) /\ event \in Seq(Items) /\ Len(event) = Len(link)
    BY DEF Linked
<1>3. n_rec_used \in Nat /\ n_rec_free \in Nat
    BY RecordsAssumption DEF TypeOK
<1>4. PICK n \in Nat : n = Len(link)
    BY <1>2
<1>5. u \in Seq(1..n) /\ Len(u) = n_rec_used
    BY <1>1, <1>3, <1>4
<1>6. f \in Seq(1..n) /\ Len(f) = n_rec_free
    BY <1>1, <1>3, <1>4
<1>7. /\ used \in Seq(Items) /\ Len(used) = n_rec_used
      /\ \A k \in 1..n_rec_used : used[k] = event[u[k]]
    BY <1>1, <1>3 DEF TypeOK
<1>8. u # <<>> /\ n_rec_used >= 1
    <2>1. n_rec_used # 0
        BY <1>7
    <2> QED BY <1>3, <1>5, <2>1, ListFacts
<1> DEFINE v == Tail(u)
           g == <<used_head>> \o f
<1>9. /\ free_head' = used_head
      /\ link' = [link EXCEPT ![used_head] = free_head]
      /\ used_head' = link[used_head]
      /\ used_tail' = IF used_head = used_tail THEN 0 ELSE used_tail
      /\ event' = event
    BY DEF Lists!PopUsed, Lists!DeallocRecord, Lists!NULL
<1>10. Arranged(n, link', used_head', free_head', used_tail', v, g)
    <2>1. Arranged(n, [link EXCEPT ![used_head] = free_head], link[used_head], used_head,
                   IF used_head = used_tail THEN 0 ELSE used_tail, v, g)
        BY <1>1, <1>4, <1>8, DeallocArranged
    <2> QED BY <1>9, <2>1
<1>11. used_head \in 1..n
    <2>1. used_head = u[1]
        BY <1>1, <1>8 DEF Arranged, Follows
    <2>2. 1 \in 1..Len(u)
        BY <1>3, <1>5, <1>8
    <2> QED BY <1>5, <2>1, <2>2, ListFacts
<1>12. link' \in Seq(Nat) /\ Len(link') = n
    <2>1. link' \in [1..n -> Nat]
        BY <1>10 DEF Arranged
    <2> QED BY <2>1
<1>13. event' \in Seq(Items) /\ Len(event') = n
    BY <1>2, <1>4, <1>9
<1>14. /\ v \in Seq(1..n) /\ Len(v) = n_rec_used - 1
       /\ \A i \in 1..(n_rec_used - 1) : v[i] = u[i + 1]
    BY <1>5, <1>8, ShorterFacts
<1>15. g \in Seq(1..n) /\ Len(g) = n_rec_free + 1
    BY <1>6, <1>11, FrontedFacts
<1> HIDE DEF v, g
<1>16. v \in [1..n_rec_used' -> 1..Len(link')] /\ g \in [1..n_rec_free' -> 1..Len(link')]
    BY <1>12, <1>14, <1>15, LenProperties
<1>17. used' = [k \in 1..n_rec_used' |-> event'[v[k]]]
    <2>1. /\ used' \in Seq(Items) /\ Len(used') = n_rec_used - 1
          /\ \A k \in 1..(n_rec_used - 1) : used'[k] = used[k + 1]
        BY <1>7, HeadTailProperties
    <2>2. ASSUME NEW k \in 1..(n_rec_used - 1)
          PROVE  used'[k] = event'[v[k]]
        <3>1. k + 1 \in 1..n_rec_used
            BY <1>3
        <3> QED BY <1>7, <1>9, <1>14, <2>1, <3>1
    <2>3. used' = [k \in 1..(n_rec_used - 1) |-> used'[k]]
        BY <2>1, LenProperties
    <2> QED BY <2>2, <2>3
<1>18. Arranged(Len(link'), link', used_head', free_head', used_tail', v, g)
    BY <1>10, <1>12
<1> QED BY <1>12, <1>13, <1>16, <1>17, <1>18 DEF Linked

-----------------------------------------------------------------------------
(* The invariants.                                                         *)

\* The lists do not hinder the queue: its behaviours with the lists are behaviours of
\* LogQueue, so what is proved of those holds of these.
LEMMA QueueRefines == QueueSpec => Spec
<1>1. [QueueNext]_allVars => [Next]_vars
    BY DEF QueueNext, allVars
<1> QED BY <1>1, PTL DEF QueueSpec, Spec, QueueInit

LEMMA LinkedInit == QueueInit => Linked
<1> SUFFICES ASSUME QueueInit PROVE Linked
    OBVIOUS
<1>1. /\ link = <<>> /\ event = <<>>
      /\ free_head = 0 /\ used_head = 0 /\ used_tail = 0
      /\ used = <<>> /\ n_rec_used = 0 /\ n_rec_free = 0
    BY DEF QueueInit, Init, Lists!ListsInit, Lists!NULL
<1> DEFINE none == <<>>
<1>2. link \in Seq(Nat) /\ event \in Seq(Items) /\ Len(event) = Len(link) /\ Len(link) = 0
    BY <1>1
<1>3. none \in [1..n_rec_used -> 1..Len(link)] /\ none \in [1..n_rec_free -> 1..Len(link)]
    BY <1>1, <1>2
<1>4. Shared(0, none, none)
    BY DEF Shared
<1>5. Follows(link, 0, none)
    BY DEF Follows
<1>6. Arranged(Len(link), link, used_head, free_head, used_tail, none, none)
    BY <1>1, <1>2, <1>4, <1>5 DEF Arranged, TailOf
<1>7. used = [k \in 1..n_rec_used |-> event[none[k]]]
    BY <1>1
<1> HIDE DEF none
<1> QED BY <1>2, <1>3, <1>6, <1>7 DEF Linked

\* What Linked speaks of.
linked == <<link, event, free_head, used_head, used_tail, used, n_rec_used, n_rec_free>>

LEMMA StillLinked ==
    ASSUME Linked, UNCHANGED linked
    PROVE  Linked'
<1>1. /\ link' = link /\ event' = event /\ free_head' = free_head /\ used_head' = used_head
      /\ used_tail' = used_tail /\ used' = used
      /\ n_rec_used' = n_rec_used /\ n_rec_free' = n_rec_free
    BY DEF linked
<1>2. PICK u \in [1..n_rec_used -> 1..Len(link)], f \in [1..n_rec_free -> 1..Len(link)] :
        /\ Arranged(Len(link), link, used_head, free_head, used_tail, u, f)
        /\ used = [k \in 1..n_rec_used |-> event[u[k]]]
    BY DEF Linked
<1>3. /\ u \in [1..n_rec_used' -> 1..Len(link')] /\ f \in [1..n_rec_free' -> 1..Len(link')]
      /\ Arranged(Len(link'), link', used_head', free_head', used_tail', u, f)
    BY <1>1, <1>2
<1>4. used' = [k \in 1..n_rec_used' |-> event'[u[k]]]
    BY <1>1, <1>2
<1>5. link' \in Seq(Nat) /\ event' \in Seq(Items) /\ Len(event') = Len(link')
    BY <1>1 DEF Linked
<1> QED BY <1>3, <1>4, <1>5 DEF Linked

\* Whatever the queue's step does to its sequence and its counters, the lists follow.
LEMMA LinkedStep ==
    ASSUME IInv, Linked, [QueueNext]_allVars
    PROVE  Linked'
<1>1. CASE UNCHANGED allVars
    <2>1. UNCHANGED linked
        BY <1>1 DEF allVars, vars, object, lists, linked
    <2> QED BY <2>1, StillLinked
<1>2. CASE QueueNext
    <2>1. TypeOK /\ ListsFollow /\ Len(used) \in Nat
        BY <1>2, LenProperties DEF QueueNext, IInv, TypeOK
    <2>2. CASE LeftAlone
        <3>1. UNCHANGED lists
            BY <2>1, <2>2 DEF LeftAlone, ListsFollow
        <3>2. UNCHANGED linked
            BY <2>2, <3>1 DEF LeftAlone, lists, linked
        <3> QED BY <3>2, StillLinked
    <2>3. CASE LinkedIn
        <3>1. PICK e \in Items :
                /\ used' = Append(used, e)
                /\ n_rec_used' = n_rec_used + 1
                /\ n_rec_free' = (IF n_rec_free > 0 THEN n_rec_free ELSE PoolSize) - 1
                /\ n_rec_free = 0 => PoolSize > 0
            BY <2>3 DEF LinkedIn
        <3>2. Len(used') = Len(used) + 1 /\ Last(used') = e
            <4>1. used \in Seq(Items)
                BY <2>1 DEF TypeOK
            <4>2. Len(used') = Len(used) + 1 /\ used'[Len(used) + 1] = e
                BY <3>1, <4>1, AppendProperties
            <4> QED BY <4>2 DEF Last
        <3>3. IF n_rec_free > 0 THEN Lists!PushReused(e) ELSE Lists!PushPooled(e, PoolSize)
            <4>1. used' # used /\ Len(used') > Len(used) /\ ~(Len(used') < Len(used))
                BY <2>1, <3>2
            <4> HIDE DEF Last
            <4> QED BY <2>1, <3>2, <4>1 DEF ListsFollow
        <3>4. CASE n_rec_free > 0
            BY <2>1, <3>1, <3>3, <3>4, ReusedLinked
        <3>5. CASE ~(n_rec_free > 0)
            <4>1. n_rec_free = 0
                BY <2>1, <3>5, RecordsAssumption DEF TypeOK
            <4>2. PoolSize \in Nat
                BY PoolFits DEF IInv
            <4> QED BY <2>1, <3>1, <3>3, <3>5, <4>1, <4>2, PooledLinked
        <3> QED BY <3>4, <3>5
    <2>4. CASE GivenBack
        <3>1. used # <<>> /\ used' = Tail(used)
            BY <2>4 DEF GivenBack
        <3>2. Len(used') = Len(used) - 1
            BY <2>1, <3>1, HeadTailProperties DEF TypeOK
        <3>3. Lists!PopUsed
            <4>1. used' # used /\ ~(Len(used') > Len(used))
                BY <2>1, <3>2
            <4> QED BY <2>1, <4>1 DEF ListsFollow
        <3> QED BY <2>1, <2>4, <3>3, PoppedLinked DEF GivenBack
    <2>5. [Next]_vars
        BY <1>2 DEF QueueNext
    <2> QED BY <2>2, <2>3, <2>4, <2>5, CountsFollow
<1> QED BY <1>1, <1>2

\* For every number of threads, every size of the pools and every order of pushes and
\* pops, the links are those of two lists without a record in common.
THEOREM ListsLinked == QueueSpec => [](IInv /\ Linked)
<1>1. IInv /\ Linked /\ [QueueNext]_allVars => Linked'
    BY LinkedStep
<1> QED BY <1>1, LinkedInit, QueueRefines, Invariance, PTL DEF QueueSpec

LEMMA LinkedSound ==
    ASSUME IInv, Linked
    PROVE  ListsSound
<1>1. PICK u \in [1..n_rec_used -> 1..Len(link)], f \in [1..n_rec_free -> 1..Len(link)] :
        Arranged(Len(link), link, used_head, free_head, used_tail, u, f)
    BY DEF Linked
<1>2. n_rec_used \in Nat /\ n_rec_free \in Nat
    BY RecordsAssumption DEF IInv, TypeOK
<1>3. PICK n \in Nat : n = Len(link)
    BY DEF Linked
<1>4. u \in Seq(1..n) /\ Len(u) = n_rec_used
    BY <1>1, <1>2, <1>3
<1>5. f \in Seq(1..n) /\ Len(f) = n_rec_free
    BY <1>1, <1>2, <1>3
<1>6. Lists!IsList(used_head, u) /\ Lists!IsList(free_head, f)
    BY <1>1 DEF Arranged, Follows, Lists!IsList, Lists!NULL
<1>7. Shared(n, u, f)
    BY <1>1, <1>3 DEF Arranged
<1> DEFINE s == u \o f
<1>8. /\ DOMAIN s = 1..(n_rec_used + n_rec_free)
      /\ \A i \in 1..n_rec_used : s[i] = u[i]
      /\ \A i \in 1..n_rec_free : s[n_rec_used + i] = f[i]
    <2>1. /\ s \in Seq(1..n) /\ Len(s) = n_rec_used + n_rec_free
          /\ \A i \in 1..(n_rec_used + n_rec_free) :
                s[i] = IF i <= n_rec_used THEN u[i] ELSE f[i - n_rec_used]
        BY <1>4, <1>5, ConcatProperties
    <2> HIDE DEF s
    <2>2. DOMAIN s = 1..(n_rec_used + n_rec_free)
        BY <2>1, LenProperties
    <2>3. \A i \in 1..n_rec_used : s[i] = u[i]
        BY <1>2, <2>1
    <2>4. \A i \in 1..n_rec_free : s[n_rec_used + i] = f[i]
        <3>1. SUFFICES ASSUME NEW i \in 1..n_rec_free PROVE s[n_rec_used + i] = f[i]
            OBVIOUS
        <3>2. /\ n_rec_used + i \in 1..(n_rec_used + n_rec_free)
              /\ ~(n_rec_used + i <= n_rec_used) /\ (n_rec_used + i) - n_rec_used = i
            BY <1>2
        <3> QED BY <2>1, <3>2
    <2> QED BY <2>2, <2>3, <2>4
<1> HIDE DEF s
<1>9. \A i \in DOMAIN s : i \in 1..n_rec_used \/ \E j \in 1..n_rec_free : i = n_rec_used + j
    <2>1. \A i \in 1..(n_rec_used + n_rec_free) :
            i \in 1..n_rec_used \/ (i - n_rec_used \in 1..n_rec_free /\ i = n_rec_used + (i - n_rec_used))
        BY <1>2
    <2> QED BY <1>8, <2>1
<1>10. IsInjective(s)
    <2>1. SUFFICES ASSUME NEW i \in DOMAIN s, NEW j \in DOMAIN s, s[i] = s[j] PROVE i = j
        BY DEF IsInjective
    <2>2. /\ \A k, l \in 1..n_rec_used : u[k] = u[l] => k = l
          /\ \A k, l \in 1..n_rec_free : f[k] = f[l] => k = l
          /\ \A k \in 1..n_rec_used, l \in 1..n_rec_free : u[k] # f[l]
        BY <1>4, <1>5, <1>7 DEF Shared
    <2> QED BY <1>8, <1>9, <2>1, <2>2
<1>11. Range(s) = Lists!Records
    <2>1. \A r \in 1..n : (\E i \in 1..n_rec_used : u[i] = r) \/ (\E j \in 1..n_rec_free : f[j] = r)
        BY <1>4, <1>5, <1>7 DEF Shared
    <2>2. \A i \in 1..n_rec_used : i \in DOMAIN s
        BY <1>2, <1>8
    <2>3. \A j \in 1..n_rec_free : n_rec_used + j \in DOMAIN s
        BY <1>2, <1>8
    <2>4. \A r \in 1..n : \E i \in DOMAIN s : s[i] = r
        BY <1>8, <2>1, <2>2, <2>3
    <2>5. \A i \in DOMAIN s : s[i] \in 1..n
        BY <1>1, <1>3, <1>8, <1>9
    <2>6. Range(s) = 1..n
        BY <2>4, <2>5 DEF Range
    <2> QED BY <1>3, <2>6 DEF Lists!Records
<1> QED BY <1>1, <1>6, <1>10, <1>11 DEF ListsSound, Lists!Records, s

LEMMA LinkedInOrder ==
    ASSUME IInv, Linked
    PROVE  ListsInOrder
<1>1. PICK u \in [1..n_rec_used -> 1..Len(link)], f \in [1..n_rec_free -> 1..Len(link)] :
        /\ Arranged(Len(link), link, used_head, free_head, used_tail, u, f)
        /\ used = [k \in 1..n_rec_used |-> event[u[k]]]
    BY DEF Linked
<1>2. n_rec_used \in Nat /\ Len(used) = n_rec_used
    BY RecordsAssumption DEF IInv, TypeOK, RecordsBounded
<1>3. Len(u) = n_rec_used
    BY <1>1, <1>2
<1>4. Lists!IsList(used_head, u)
    BY <1>1 DEF Arranged, Follows, Lists!IsList, Lists!NULL
<1>5. used_tail = IF u = <<>> THEN Lists!NULL ELSE Last(u)
    BY <1>1 DEF Arranged, TailOf, Last, Lists!NULL
<1>6. u \in [1..Len(used) -> Lists!Records] /\ used = [k \in 1..Len(u) |-> event[u[k]]]
    BY <1>1, <1>2, <1>3 DEF Lists!Records
<1> QED BY <1>4, <1>5, <1>6 DEF ListsInOrder

\* No record is ever lost, on both lists, or twice on one, and the counters that
\* decide whether log_queue_push needs a pool are the lengths of the lists.
THEOREM SoundLists == QueueSpec => []ListsSound
<1>1. IInv /\ Linked => ListsSound
    BY LinkedSound
<1> QED BY <1>1, ListsLinked, PTL

\* The used list is the queue, first event first, and its tail pointer is right.
THEOREM OrderedLists == QueueSpec => []ListsInOrder
<1>1. IInv /\ Linked => ListsInOrder
    BY LinkedInOrder
<1> QED BY <1>1, ListsLinked, PTL

-----------------------------------------------------------------------------
(* There is but one list from a head.                                      *)

\* Two sequences that follow the same links from the same head are the same, so the
\* lists of ListsSound and ListsInOrder are the ones a walk from the heads finds.
THEOREM ListDetermined ==
    ASSUME NEW h, NEW s \in Seq(Lists!Records), NEW t \in Seq(Lists!Records),
           Lists!IsList(h, s), Lists!IsList(h, t)
    PROVE  s = t
<1> DEFINE R == Lists!Records
           Agreed == {k \in Nat : /\ k <= Len(s) => k <= Len(t)
                                  /\ k <= Len(t) => k <= Len(s)
                                  /\ \A i \in 1..k : i <= Len(s) => s[i] = t[i]}
<1>1. /\ Len(s) \in Nat /\ Len(t) \in Nat
      /\ \A i \in 1..Len(s) : s[i] \in Nat \ {0}
      /\ \A i \in 1..Len(t) : t[i] \in Nat \ {0}
    <2>1. \A r \in R : r \in Nat \ {0}
        BY DEF Lists!Records
    <2>2. /\ Len(s) \in Nat /\ Len(t) \in Nat
          /\ \A i \in 1..Len(s) : s[i] \in R
          /\ \A i \in 1..Len(t) : t[i] \in R
        OBVIOUS
    <2> QED BY <2>1, <2>2
<1>2. /\ \A k \in 1..Len(s) : link[s[k]] = IF k = Len(s) THEN 0 ELSE s[k + 1]
      /\ \A k \in 1..Len(t) : link[t[k]] = IF k = Len(t) THEN 0 ELSE t[k + 1]
    BY DEF Lists!IsList, Lists!NULL
<1>3. /\ h = IF Len(s) = 0 THEN 0 ELSE s[1]
      /\ h = IF Len(t) = 0 THEN 0 ELSE t[1]
    <2>1. ((s = <<>>) <=> (Len(s) = 0)) /\ ((t = <<>>) <=> (Len(t) = 0))
        OBVIOUS
    <2> QED BY <2>1 DEF Lists!IsList, Lists!NULL
<1>4. 0 \in Agreed
    BY <1>1
<1>5. ASSUME NEW k \in Agreed \cap Nat PROVE k + 1 \in Agreed
    <2>1. k \in Nat /\ (k <= Len(s) <=> k <= Len(t)) /\ \A i \in 1..k : i <= Len(s) => s[i] = t[i]
        OBVIOUS
    <2>2. CASE k > Len(s)
        BY <1>1, <2>1, <2>2
    <2>3. CASE k = 0
        <3>1. 1 <= Len(s) => 1 \in 1..Len(s)
            BY <1>1
        <3>2. 1 <= Len(t) => 1 \in 1..Len(t)
            BY <1>1
        <3>3. (1 <= Len(s) <=> 1 <= Len(t)) /\ (1 <= Len(s) => s[1] = t[1])
            BY <1>1, <1>3, <3>1, <3>2
        <3> QED BY <2>3, <3>3
    <2>4. CASE k # 0 /\ k <= Len(s)
        <3>1. k \in 1..Len(s) /\ k \in 1..Len(t) /\ k \in 1..k
            BY <1>1, <2>1, <2>4
        <3>2. s[k] = t[k]
            BY <2>1, <2>4, <3>1
        <3>3. (IF k = Len(s) THEN 0 ELSE s[k + 1]) = (IF k = Len(t) THEN 0 ELSE t[k + 1])
            BY <1>2, <3>1, <3>2
        <3>4. k # Len(s) => k + 1 \in 1..Len(s)
            BY <1>1, <3>1
        <3>5. k # Len(t) => k + 1 \in 1..Len(t)
            BY <1>1, <3>1
        <3>6. ((k = Len(s)) <=> (k = Len(t))) /\ (k # Len(s) => s[k + 1] = t[k + 1])
            BY <1>1, <3>3, <3>4, <3>5
        <3>7. /\ k + 1 <= Len(s) => k + 1 <= Len(t)
              /\ k + 1 <= Len(t) => k + 1 <= Len(s)
              /\ k + 1 <= Len(s) => s[k + 1] = t[k + 1]
            BY <1>1, <3>1, <3>6
        <3>8. \A i \in 1..(k + 1) : i = k + 1 \/ i \in 1..k
            BY <2>1
        <3> QED BY <2>1, <3>7, <3>8
    <2> QED BY <1>1, <2>1, <2>2, <2>3, <2>4
<1>6. Nat \subseteq Agreed
    <2> HIDE DEF Agreed
    <2> QED BY <1>4, <1>5, SetInduction
<1>7. Len(s) = Len(t)
    <2>1. Len(s) \in Agreed /\ Len(t) \in Agreed
        BY <1>1, <1>6
    <2> QED BY <1>1, <2>1
<1>8. \A i \in 1..Len(s) : s[i] = t[i]
    <2>1. Len(s) \in Agreed
        BY <1>1, <1>6
    <2> QED BY <1>1, <2>1
<1> QED BY <1>7, <1>8, SeqEqual

-----------------------------------------------------------------------------
(* The lists are the queue.                                                *)

\* The list from used_head, and the events that its records hold.
Walk == CHOOSE s \in Seq(Lists!Records) : Lists!IsList(used_head, s)
InLists == [k \in 1..Len(Walk) |-> event[Walk[k]]]

\* EventQueue with the pointers and the records for its queue: the variable used of
\* LogQueue does not occur.
Pointers == INSTANCE EventQueue WITH
    Capacity <- Limit,
    queue    <- InLists,
    call     <- Calls,
    item     <- data

LEMMA WalkFindsQueue ==
    ASSUME TypeOK, ListsInOrder
    PROVE  InLists = used
<1>1. PICK u \in [1..Len(used) -> Lists!Records] :
        /\ Lists!IsList(used_head, u)
        /\ used = [k \in 1..Len(u) |-> event[u[k]]]
    BY DEF ListsInOrder
<1>2. Len(used) \in Nat
    BY LenProperties DEF TypeOK
<1>3. u \in Seq(Lists!Records)
    BY <1>2, ListOf
<1>4. Walk \in Seq(Lists!Records) /\ Lists!IsList(used_head, Walk)
    BY <1>1, <1>3 DEF Walk
<1>5. Walk = u
    BY <1>1, <1>3, <1>4, ListDetermined
<1> QED BY <1>1, <1>5 DEF InLists

LEMMA SameQueue ==
    ASSUME InLists = used, InLists' = used', [Queue!Next]_Queue!vars
    PROVE  [Pointers!Next]_Pointers!vars
<1>1. CASE UNCHANGED Queue!vars
    BY <1>1 DEF Queue!vars, Pointers!vars
<1>2. ASSUME NEW p \in Pushers, Queue!PushCall(p) \/ Queue!Put(p) \/ Queue!PutFail(p) \/ Queue!Return(p)
      PROVE  Pointers!Next
    <2>1. Pointers!PushCall(p) \/ Pointers!Put(p) \/ Pointers!PutFail(p) \/ Pointers!Return(p)
        BY <1>2 DEF Queue!PushCall, Queue!Call, Queue!Put, Queue!PutFail, Queue!Return,
            Pointers!PushCall, Pointers!Call, Pointers!Put, Pointers!PutFail, Pointers!Return
    <2> QED BY <2>1 DEF Pointers!Next
<1>3. ASSUME NEW c \in Poppers, Queue!PopCall(c) \/ Queue!Take(c) \/ Queue!TakeNothing(c) \/ Queue!Return(c)
      PROVE  Pointers!Next
    <2>1. Pointers!PopCall(c) \/ Pointers!Take(c) \/ Pointers!TakeNothing(c) \/ Pointers!Return(c)
        BY <1>3 DEF Queue!PopCall, Queue!Call, Queue!Take, Queue!TakeNothing, Queue!Return,
            Pointers!PopCall, Pointers!Call, Pointers!Take, Pointers!TakeNothing, Pointers!Return
    <2> QED BY <2>1 DEF Pointers!Next
<1> QED BY <1>1, <1>2, <1>3 DEF Queue!Next

\* What the functions of log_queue.c leave in memory is a first-in first-out queue:
\* the events that a walk along the links finds are pushed, popped and ordered as
\* log_queue.h promises.
THEOREM ListsAreTheQueue == QueueSpec => Pointers!Spec
<1>1. IInv /\ ListsInOrder => InLists = used
    BY WalkFindsQueue DEF IInv
<1>2. Queue!Init /\ InLists = used => Pointers!Init
    BY DEF Queue!Init, Pointers!Init
<1>3. InLists = used /\ (InLists = used)' /\ [Queue!Next]_Queue!vars => [Pointers!Next]_Pointers!vars
    BY SameQueue
<1>4. QueueSpec => Queue!Spec
    BY QueueRefines, Refinement, PTL DEF ImplementsEventQueue
<1> QED BY <1>1, <1>2, <1>3, <1>4, OrderedLists, ListsLinked, PTL DEF Queue!Spec, Pointers!Spec
=============================================================================
