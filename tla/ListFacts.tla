----------------------------- MODULE ListFacts -----------------------------
(***************************************************************************)
(* What lib/kernel/list.c's operations do to a list that holds each        *)
(* element once, and to its elements, for lists of any length; what a loop *)
(* that erases elements, or a sort, leaves of a list; lists joined one     *)
(* after the other; and places on a ring.                                  *)
(***************************************************************************)
EXTENDS Integers, Sequences, SequenceTheorems, FiniteSetTheorems, WellFoundedInduction, Lists, TLAPS

\* x is on list q, and no element is on q twice.
OnList(x, q) == \E i \in 1..Len(q) : q[i] = x
NoDup(q) == \A i, j \in 1..Len(q) : q[i] = q[j] => i = j
-----------------------------------------------------------------------------
LEMMA SplitType ==
    ASSUME NEW S, NEW q \in Seq(S), NEW n \in 0..Len(q)
    PROVE  /\ SubSeq(q, 1, n) \in Seq(S)
           /\ SubSeq(q, n + 1, Len(q)) \in Seq(S)
<1>1. Len(q) \in Nat /\ \A i \in 1..Len(q) : q[i] \in S
  BY LenProperties, ElementOfSeq
<1>2. SubSeq(q, 1, n) \in Seq(S)
  <2>1. \A i \in 1..n : q[i] \in S
    BY <1>1
  <2> QED
    BY <1>1, <2>1, SubSeqProperties
<1>3. SubSeq(q, n + 1, Len(q)) \in Seq(S)
  <2>1. \A i \in (n + 1)..Len(q) : q[i] \in S
    BY <1>1
  <2>2. n + 1 \in Int /\ Len(q) \in Int
    BY <1>1
  <2> QED
    BY <2>1, <2>2, SubSeqProperties
<1> QED
  BY <1>2, <1>3

LEMMA ListEmpty == \A x : ~OnList(x, <<>>)
BY DEF OnList

LEMMA ListAppend ==
    ASSUME NEW S, NEW q \in Seq(S), NEW e \in S, NoDup(q), ~OnList(e, q)
    PROVE  /\ NoDup(Append(q, e))
           /\ \A x : OnList(x, Append(q, e)) <=> OnList(x, q) \/ x = e
<1> DEFINE r == Append(q, e)
<1>1. /\ Len(q) \in Nat /\ Len(r) = Len(q) + 1 /\ r[Len(q) + 1] = e
      /\ \A i \in 1..Len(q) : r[i] = q[i]
  BY AppendProperties, LenProperties
<1> HIDE DEF r
<1>2. \A i \in 1..Len(r) : i \in 1..Len(q) \/ i = Len(q) + 1
  BY <1>1
<1>3. Len(q) + 1 \in 1..Len(r) /\ \A i \in 1..Len(q) : i \in 1..Len(r)
  BY <1>1
<1>4. \A x : OnList(x, r) <=> OnList(x, q) \/ x = e
  BY <1>1, <1>2, <1>3 DEF OnList
<1>5. NoDup(r)
  BY <1>1, <1>2 DEF NoDup, OnList
<1> QED
  BY <1>4, <1>5 DEF r

LEMMA ListTail ==
    ASSUME NEW S, NEW q \in Seq(S), q # <<>>, NoDup(q)
    PROVE  /\ NoDup(Tail(q)) /\ Head(q) \in S /\ OnList(Head(q), q)
           /\ \A x : OnList(x, Tail(q)) <=> OnList(x, q) /\ x # Head(q)
<1> DEFINE r == Tail(q)
           h == Head(q)
<1>1. /\ Len(q) \in Nat /\ Len(r) = Len(q) - 1 /\ Len(q) >= 1 /\ h = q[1] /\ h \in S
      /\ \A i \in 1..Len(r) : r[i] = q[i + 1]
  BY HeadTailProperties, LenProperties, EmptySeq
<1> HIDE DEF r, h
<1>2. 1 \in 1..Len(q) /\ \A i \in 1..Len(r) : i + 1 \in 1..Len(q) /\ i + 1 # 1
  BY <1>1
<1>3. \A i \in 1..Len(q) : i = 1 \/ (i - 1 \in 1..Len(r) /\ (i - 1) + 1 = i)
  BY <1>1
<1>4. ASSUME NEW x, OnList(x, r) PROVE OnList(x, q) /\ x # h
  BY <1>1, <1>2, <1>4 DEF OnList, NoDup
<1>5. ASSUME NEW x, OnList(x, q), x # h PROVE OnList(x, r)
  <2>1. PICK i \in 1..Len(q) : q[i] = x
    BY <1>5 DEF OnList
  <2>2. i - 1 \in 1..Len(r) /\ (i - 1) + 1 = i
    BY <1>1, <1>3, <1>5, <2>1
  <2>3. r[i - 1] = q[(i - 1) + 1]
    BY <1>1, <2>2
  <2> QED
    BY <2>1, <2>2, <2>3 DEF OnList
<1>6. NoDup(r)
  <2> SUFFICES ASSUME NEW i \in 1..Len(r), NEW j \in 1..Len(r), r[i] = r[j] PROVE i = j
    BY DEF NoDup
  <2>1. i + 1 = j + 1
    BY <1>1, <1>2 DEF NoDup
  <2> QED
    BY <2>1
<1> QED
  BY <1>1, <1>2, <1>4, <1>5, <1>6 DEF r, h, OnList

LEMMA ListConcat ==
    ASSUME NEW S, NEW q \in Seq(S), NEW r \in Seq(S), NoDup(q), NoDup(r),
           \A x \in S : ~(OnList(x, q) /\ OnList(x, r))
    PROVE  /\ NoDup(q \o r)
           /\ \A x \in S : OnList(x, q \o r) <=> OnList(x, q) \/ OnList(x, r)
<1> DEFINE c == q \o r
<1>1. /\ Len(q) \in Nat /\ Len(r) \in Nat /\ Len(c) = Len(q) + Len(r)
      /\ \A i \in 1..Len(q) : c[i] = q[i] /\ q[i] \in S
      /\ \A i \in 1..Len(r) : c[Len(q) + i] = r[i] /\ r[i] \in S
  <2>1. /\ Len(q) \in Nat /\ Len(r) \in Nat /\ Len(c) = Len(q) + Len(r)
        /\ \A i \in 1..Len(c) : c[i] = IF i <= Len(q) THEN q[i] ELSE r[i - Len(q)]
    BY ConcatProperties, LenProperties
  <2>2. (\A i \in 1..Len(q) : q[i] \in S) /\ (\A i \in 1..Len(r) : r[i] \in S)
    BY ElementOfSeq
  <2> HIDE DEF c
  <2>3. ASSUME NEW i \in 1..Len(q) PROVE c[i] = q[i]
    <3>1. i \in 1..Len(c) /\ i <= Len(q)
      BY <2>1
    <3> QED
      BY <2>1, <3>1
  <2>4. ASSUME NEW i \in 1..Len(r) PROVE c[Len(q) + i] = r[i]
    <3>1. Len(q) + i \in 1..Len(c) /\ ~(Len(q) + i <= Len(q)) /\ (Len(q) + i) - Len(q) = i
      BY <2>1
    <3> QED
      BY <2>1, <3>1
  <2> QED
    BY <2>1, <2>2, <2>3, <2>4
<1> HIDE DEF c
<1>2. ASSUME NEW i \in 1..Len(c)
      PROVE  \/ i \in 1..Len(q) /\ c[i] = q[i] /\ OnList(c[i], q) /\ c[i] \in S
             \/ i - Len(q) \in 1..Len(r) /\ c[i] = r[i - Len(q)] /\ OnList(c[i], r) /\ c[i] \in S
  <2>1. CASE i <= Len(q)
    <3>1. i \in 1..Len(q)
      BY <1>1, <2>1
    <3> QED
      BY <1>1, <3>1 DEF OnList
  <2>2. CASE ~(i <= Len(q))
    <3>1. i - Len(q) \in 1..Len(r) /\ Len(q) + (i - Len(q)) = i
      BY <1>1, <2>2
    <3>2. c[Len(q) + (i - Len(q))] = r[i - Len(q)] /\ r[i - Len(q)] \in S
      BY <1>1, <3>1
    <3> QED
      BY <3>1, <3>2 DEF OnList
  <2> QED
    BY <2>1, <2>2
<1>3. ASSUME NEW x \in S
      PROVE  OnList(x, c) <=> OnList(x, q) \/ OnList(x, r)
  <2>1. ASSUME OnList(x, q) PROVE OnList(x, c)
    <3>1. PICK i \in 1..Len(q) : q[i] = x
      BY <2>1 DEF OnList
    <3>2. i \in 1..Len(c)
      BY <1>1
    <3> QED
      BY <1>1, <3>1, <3>2 DEF OnList
  <2>2. ASSUME OnList(x, r) PROVE OnList(x, c)
    <3>1. PICK i \in 1..Len(r) : r[i] = x
      BY <2>2 DEF OnList
    <3>2. Len(q) + i \in 1..Len(c)
      BY <1>1
    <3> QED
      BY <1>1, <3>1, <3>2 DEF OnList
  <2>3. ASSUME OnList(x, c) PROVE OnList(x, q) \/ OnList(x, r)
    BY <1>2, <2>3 DEF OnList
  <2> QED
    BY <2>1, <2>2, <2>3
<1>4. NoDup(c)
  <2> SUFFICES ASSUME NEW i \in 1..Len(c), NEW j \in 1..Len(c), c[i] = c[j]
               PROVE  i = j
    BY DEF NoDup
  <2>1. CASE i \in 1..Len(q) /\ j \in 1..Len(q)
    BY <1>1, <2>1 DEF NoDup
  <2>2. CASE ~(i \in 1..Len(q)) /\ ~(j \in 1..Len(q))
    <3>1. /\ i - Len(q) \in 1..Len(r) /\ c[i] = r[i - Len(q)]
          /\ j - Len(q) \in 1..Len(r) /\ c[j] = r[j - Len(q)]
      BY <1>2, <2>2
    <3>2. i - Len(q) = j - Len(q)
      BY <3>1 DEF NoDup
    <3> QED
      BY <1>1, <3>2
  <2>3. CASE (i \in 1..Len(q) /\ ~(j \in 1..Len(q))) \/ (~(i \in 1..Len(q)) /\ j \in 1..Len(q))
    <3>1. (OnList(c[i], q) /\ OnList(c[j], r)) \/ (OnList(c[i], r) /\ OnList(c[j], q))
      BY <1>1, <1>2, <2>3 DEF OnList
    <3>2. c[i] \in S
      BY <1>2
    <3> QED
      BY <3>1, <3>2
  <2> QED
    BY <2>1, <2>2, <2>3
<1> QED
  BY <1>3, <1>4 DEF c

LEMMA SuffixAt ==
    ASSUME NEW S, NEW q \in Seq(S), NEW n \in 0..Len(q)
    PROVE  LET b == SubSeq(q, n + 1, Len(q))
           IN  Len(b) = Len(q) - n /\ \A i \in 1..Len(b) : b[i] = q[n + i]
<1> DEFINE b == SubSeq(q, n + 1, Len(q))
<1>1. Len(q) \in Nat /\ n \in Nat /\ n <= Len(q)
  BY LenProperties
<1>2. \A i \in (n + 1)..Len(q) : q[i] \in S
  BY <1>1, ElementOfSeq
<1>3. n + 1 \in Int /\ Len(q) \in Int
  BY <1>1
<1>4. /\ Len(b) = IF n + 1 <= Len(q) THEN Len(q) - (n + 1) + 1 ELSE 0
      /\ \A i \in 1..(Len(q) - (n + 1) + 1) : b[i] = q[n + 1 + i - 1]
  BY <1>2, <1>3, SubSeqProperties
<1> HIDE DEF b
<1>5. Len(q) - (n + 1) + 1 = Len(q) - n /\ \A i \in 1..(Len(q) - n) : n + 1 + i - 1 = n + i
  BY <1>1
<1>6. Len(b) = Len(q) - n
  <2>1. CASE n + 1 <= Len(q)
    BY <1>1, <1>4, <2>1
  <2>2. CASE ~(n + 1 <= Len(q))
    <3>1. n = Len(q)
      BY <1>1, <2>2
    <3> QED
      BY <1>1, <1>4, <2>2, <3>1
  <2> QED
    BY <2>1, <2>2
<1>7. Len(b) = Len(q) - n /\ \A i \in 1..Len(b) : b[i] = q[n + i]
  BY <1>4, <1>5, <1>6
<1> QED
  BY <1>7 DEF b

LEMMA ListSplit ==
    ASSUME NEW S, NEW q \in Seq(S), NEW n \in 0..Len(q), NoDup(q)
    PROVE  /\ SubSeq(q, 1, n) \in Seq(S) /\ SubSeq(q, n + 1, Len(q)) \in Seq(S)
           /\ NoDup(SubSeq(q, 1, n)) /\ NoDup(SubSeq(q, n + 1, Len(q)))
           /\ \A x : OnList(x, SubSeq(q, 1, n)) <=> \E i \in 1..n : q[i] = x
           /\ \A x : OnList(x, SubSeq(q, n + 1, Len(q))) <=>
                        OnList(x, q) /\ ~OnList(x, SubSeq(q, 1, n))
<1> DEFINE a == SubSeq(q, 1, n)
           b == SubSeq(q, n + 1, Len(q))
<1>1. Len(q) \in Nat /\ n \in Nat /\ n <= Len(q)
  BY LenProperties
<1>2. Len(a) = n /\ \A i \in 1..n : a[i] = q[i]
  <2>1. \A i \in 1..n : q[i] \in S
    BY <1>1, ElementOfSeq
  <2>2. 1 \in Int /\ n \in Int
    BY <1>1
  <2>3. /\ Len(a) = IF 1 <= n THEN n - 1 + 1 ELSE 0
        /\ \A i \in 1..(n - 1 + 1) : a[i] = q[1 + i - 1]
    BY <2>1, <2>2, SubSeqProperties
  <2> HIDE DEF a
  <2>4. n - 1 + 1 = n /\ \A i \in 1..n : 1 + i - 1 = i
    BY <1>1
  <2>5. Len(a) = n
    BY <1>1, <2>3
  <2> QED
    BY <2>3, <2>4, <2>5
<1>3. Len(b) = Len(q) - n /\ \A i \in 1..(Len(q) - n) : b[i] = q[n + i]
  <2>1. Len(b) = Len(q) - n /\ \A i \in 1..Len(b) : b[i] = q[n + i]
    BY SuffixAt
  <2> HIDE DEF b
  <2> QED
    BY <2>1
<1>4. a \in Seq(S) /\ b \in Seq(S)
  BY SplitType
<1> HIDE DEF a, b
<1>5. \A x : OnList(x, a) <=> \E i \in 1..n : q[i] = x
  BY <1>2 DEF OnList
<1>6. \A i \in 1..(Len(q) - n) : n + i \in 1..Len(q) /\ ~(n + i \in 1..n)
  BY <1>1
<1>7. ASSUME NEW x, OnList(x, b) PROVE OnList(x, q) /\ ~OnList(x, a)
  <2>1. PICK i \in 1..(Len(q) - n) : q[n + i] = x
    BY <1>3, <1>7 DEF OnList
  <2>2. \A j \in 1..n : j \in 1..Len(q) /\ j # n + i
    BY <1>1, <1>6
  <2> QED
    BY <1>5, <1>6, <2>1, <2>2 DEF OnList, NoDup
<1>8. ASSUME NEW x, OnList(x, q), ~OnList(x, a) PROVE OnList(x, b)
  <2>1. PICK i \in 1..Len(q) : q[i] = x
    BY <1>8 DEF OnList
  <2>2. ~(i \in 1..n)
    BY <1>5, <1>8, <2>1
  <2>3. i - n \in 1..(Len(q) - n) /\ n + (i - n) = i
    BY <1>1, <2>2
  <2>4. b[i - n] = q[n + (i - n)]
    BY <1>3, <2>3
  <2> QED
    BY <1>3, <2>1, <2>3, <2>4 DEF OnList
<1>9. NoDup(a)
  <2>1. \A i \in 1..n : i \in 1..Len(q)
    BY <1>1
  <2> QED
    BY <1>2, <2>1 DEF NoDup
<1>10. NoDup(b)
  <2> SUFFICES ASSUME NEW i \in 1..(Len(q) - n), NEW j \in 1..(Len(q) - n), b[i] = b[j]
               PROVE  i = j
    BY <1>3 DEF NoDup
  <2>1. n + i = n + j
    BY <1>3, <1>6 DEF NoDup
  <2> QED
    BY <1>1, <2>1
<1> QED
  BY <1>4, <1>5, <1>7, <1>8, <1>9, <1>10 DEF a, b


LEMMA ListInsert ==
    ASSUME NEW S, NEW q \in Seq(S), NEW n \in 0..Len(q), NEW e \in S, NoDup(q), ~OnList(e, q)
    PROVE  LET r == SubSeq(q, 1, n) \o <<e>> \o SubSeq(q, n + 1, Len(q))
           IN  NoDup(r) /\ \A x \in S : OnList(x, r) <=> OnList(x, q) \/ x = e
<1> DEFINE a == SubSeq(q, 1, n)
           b == SubSeq(q, n + 1, Len(q))
           u == <<e>>
           c == a \o u
<1>1. /\ a \in Seq(S) /\ b \in Seq(S) /\ NoDup(a) /\ NoDup(b)
      /\ \A x : OnList(x, a) => OnList(x, q)
      /\ \A x : OnList(x, b) <=> OnList(x, q) /\ ~OnList(x, a)
  <2>1. \A i \in 1..n : i \in 1..Len(q)
    BY LenProperties
  <2>2. /\ a \in Seq(S) /\ b \in Seq(S) /\ NoDup(a) /\ NoDup(b)
        /\ \A x : OnList(x, a) <=> \E i \in 1..n : q[i] = x
        /\ \A x : OnList(x, b) <=> OnList(x, q) /\ ~OnList(x, a)
    BY ListSplit
  <2>3. \A x : OnList(x, a) => OnList(x, q)
    <3> HIDE DEF a, b
    <3> QED
      BY <2>1, <2>2 DEF OnList
  <2> QED
    BY <2>2, <2>3
<1>2. u \in Seq(S) /\ NoDup(u) /\ \A x : OnList(x, u) <=> x = e
  <2>1. u \in Seq(S) /\ Len(u) = 1 /\ u[1] = e
    OBVIOUS
  <2> HIDE DEF u
  <2>2. 1..Len(u) = {1}
    BY <2>1
  <2> QED
    BY <2>1, <2>2 DEF NoDup, OnList
<1> HIDE DEF a, b, u
<1>3. c \in Seq(S) /\ NoDup(c) /\ \A x \in S : OnList(x, c) <=> OnList(x, a) \/ x = e
  <2>1. \A x \in S : ~(OnList(x, a) /\ OnList(x, u))
    BY <1>1, <1>2
  <2>2. c \in Seq(S)
    BY <1>1, <1>2, ConcatProperties
  <2> QED
    BY <1>1, <1>2, <2>1, <2>2, ListConcat
<1> HIDE DEF c
<1>4. \A x \in S : ~(OnList(x, c) /\ OnList(x, b))
  BY <1>1, <1>3
<1>5. NoDup(c \o b) /\ \A x \in S : OnList(x, c \o b) <=> OnList(x, c) \/ OnList(x, b)
  BY <1>1, <1>3, <1>4, ListConcat
<1>6. \A x \in S : OnList(x, c \o b) <=> OnList(x, q) \/ x = e
  BY <1>1, <1>3, <1>5
<1> QED
  BY <1>5, <1>6 DEF a, b, c, u

\* List p is q with e inserted behind its first n elements.
Inserted(p, q, n, e) ==
    /\ Len(p) = Len(q) + 1
    /\ \A i \in 1..Len(p) : p[i] = IF i <= n THEN q[i] ELSE IF i = n + 1 THEN e ELSE q[i - 1]

LEMMA InsertPlace ==
    ASSUME NEW S, NEW q \in Seq(S), NEW n \in 0..Len(q), NEW e \in S
    PROVE  Inserted(SubSeq(q, 1, n) \o <<e>> \o SubSeq(q, n + 1, Len(q)), q, n, e)
<1> DEFINE a == SubSeq(q, 1, n)
           b == SubSeq(q, n + 1, Len(q))
           u == <<e>>
           c == a \o u
           r == c \o b
<1>1. Len(q) \in Nat /\ n \in Nat /\ n <= Len(q)
  BY LenProperties
<1>2. a \in Seq(S) /\ Len(a) = n /\ \A i \in 1..n : a[i] = q[i]
  <2>1. \A i \in 1..n : q[i] \in S
    BY <1>1, ElementOfSeq
  <2>2. 1 \in Int /\ n \in Int
    BY <1>1
  <2>3. /\ a \in Seq(S) /\ Len(a) = IF 1 <= n THEN n - 1 + 1 ELSE 0
        /\ \A i \in 1..(n - 1 + 1) : a[i] = q[1 + i - 1]
    BY <2>1, <2>2, SubSeqProperties
  <2> HIDE DEF a
  <2>4. n - 1 + 1 = n /\ \A i \in 1..n : 1 + i - 1 = i
    BY <1>1
  <2> QED
    BY <1>1, <2>3, <2>4
<1>3. b \in Seq(S) /\ Len(b) = Len(q) - n /\ \A i \in 1..(Len(q) - n) : b[i] = q[n + i]
  <2>1. b \in Seq(S) /\ Len(b) = Len(q) - n /\ \A i \in 1..Len(b) : b[i] = q[n + i]
    BY SplitType, SuffixAt
  <2> HIDE DEF b
  <2> QED
    BY <2>1
<1>4. u \in Seq(S) /\ Len(u) = 1 /\ u[1] = e
  OBVIOUS
<1> HIDE DEF a, b, u
<1>5. /\ c \in Seq(S) /\ Len(c) = n + 1
      /\ \A i \in 1..(n + 1) : c[i] = IF i <= n THEN a[i] ELSE u[i - n]
  <2>1. /\ c \in Seq(S) /\ Len(c) = Len(a) + Len(u)
        /\ \A i \in 1..(Len(a) + Len(u)) : c[i] = IF i <= Len(a) THEN a[i] ELSE u[i - Len(a)]
    BY <1>2, <1>4, ConcatProperties
  <2> HIDE DEF c
  <2> QED
    BY <1>2, <1>4, <2>1
<1>6. \A i \in 1..(n + 1) : c[i] = IF i <= n THEN q[i] ELSE e
  <2> SUFFICES ASSUME NEW i \in 1..(n + 1) PROVE c[i] = IF i <= n THEN q[i] ELSE e
    OBVIOUS
  <2> HIDE DEF c
  <2>1. i <= n => i \in 1..n
    BY <1>1
  <2>2. ~(i <= n) => i - n = 1
    BY <1>1
  <2> QED
    BY <1>2, <1>4, <1>5, <2>1, <2>2
<1> HIDE DEF c
<1>7. /\ Len(r) = n + 1 + (Len(q) - n)
      /\ \A i \in 1..Len(r) : r[i] = IF i <= n + 1 THEN c[i] ELSE b[i - (n + 1)]
  <2>1. /\ Len(r) = Len(c) + Len(b)
        /\ \A i \in 1..(Len(c) + Len(b)) : r[i] = IF i <= Len(c) THEN c[i] ELSE b[i - Len(c)]
    BY <1>3, <1>5, ConcatProperties
  <2> HIDE DEF r
  <2> QED
    BY <1>3, <1>5, <2>1
<1> HIDE DEF r
<1>8. Len(r) = Len(q) + 1
  BY <1>1, <1>7
<1>9. ASSUME NEW i \in 1..Len(r)
      PROVE  r[i] = IF i <= n THEN q[i] ELSE IF i = n + 1 THEN e ELSE q[i - 1]
  <2>1. CASE i <= n + 1
    <3>1. i \in 1..(n + 1) /\ (~(i <= n) => i = n + 1)
      BY <1>1, <2>1
    <3> QED
      BY <1>6, <1>7, <2>1, <3>1
  <2>2. CASE ~(i <= n + 1)
    <3>1. /\ i - (n + 1) \in 1..(Len(q) - n) /\ n + (i - (n + 1)) = i - 1
          /\ ~(i <= n) /\ i # n + 1
      BY <1>1, <1>8, <2>2
    <3> QED
      BY <1>3, <1>7, <2>2, <3>1
  <2> QED
    BY <2>1, <2>2
<1>10. Inserted(r, q, n, e)
  BY <1>8, <1>9 DEF Inserted
<1> QED
  BY <1>10 DEF a, b, c, u, r


LEMMA ListRemove ==
    ASSUME NEW S, NEW q \in Seq(S), NEW n \in 1..Len(q), NoDup(q)
    PROVE  LET r == SubSeq(q, 1, n - 1) \o SubSeq(q, n + 1, Len(q))
           IN  r \in Seq(S) /\ NoDup(r) /\ \A x \in S : OnList(x, r) <=> OnList(x, q) /\ x # q[n]
<1> DEFINE a == SubSeq(q, 1, n - 1)
           b == SubSeq(q, n + 1, Len(q))
           c == SubSeq(q, 1, n)
<1>1. Len(q) \in Nat /\ n - 1 \in 0..Len(q) /\ n \in 0..Len(q)
  BY LenProperties
<1>2. a \in Seq(S) /\ NoDup(a) /\ \A x : OnList(x, a) <=> \E i \in 1..(n - 1) : q[i] = x
  BY <1>1, ListSplit
<1>3. /\ b \in Seq(S) /\ NoDup(b)
      /\ \A x : OnList(x, c) <=> \E i \in 1..n : q[i] = x
      /\ \A x : OnList(x, b) <=> OnList(x, q) /\ ~OnList(x, c)
  BY <1>1, ListSplit
<1> HIDE DEF a, b, c
<1>4. \A i \in 1..n : i \in 1..(n - 1) \/ i = n
  BY <1>1
<1>5. \A i \in 1..(n - 1) : i \in 1..n /\ i \in 1..Len(q) /\ i # n
  BY <1>1
<1>6. \A x : OnList(x, c) <=> OnList(x, a) \/ x = q[n]
  <2>1. n \in 1..n
    BY <1>1
  <2> QED
    BY <1>2, <1>3, <1>4, <1>5, <2>1
<1>7. \A x : OnList(x, a) => OnList(x, q) /\ x # q[n]
  BY <1>2, <1>5 DEF OnList, NoDup
<1>8. \A x \in S : ~(OnList(x, a) /\ OnList(x, b))
  BY <1>3, <1>6
<1>9. /\ a \o b \in Seq(S) /\ NoDup(a \o b)
      /\ \A x \in S : OnList(x, a \o b) <=> OnList(x, a) \/ OnList(x, b)
  BY <1>2, <1>3, <1>8, ListConcat, ConcatProperties
<1>10. \A x \in S : OnList(x, a \o b) <=> OnList(x, q) /\ x # q[n]
  BY <1>3, <1>6, <1>7, <1>9
<1> QED
  BY <1>9, <1>10 DEF a, b
-----------------------------------------------------------------------------
(***************************************************************************)
(* Induction on numbers, stated of a set, from the well-foundedness of the *)
(* finite sets; and with it the loop of Chosen.                            *)
(***************************************************************************)

\* A set of numbers that is not empty has a least one.
LEMMA LeastNumber ==
    ASSUME NEW S, S \subseteq Nat, S # {}
    PROVE  \E n \in S : \A m \in S : n <= m
<1> DEFINE T == {0 .. n : n \in S}
<1>1. T \subseteq FiniteSubsetsOf(Nat) /\ T # {}
  <2>1. \A n \in S : IsFiniteSet(0 .. n)
    BY FS_Interval
  <2>2. \A n \in S : 0 .. n \in FiniteSubsetsOf(Nat)
    BY <2>1 DEF FiniteSubsetsOf
  <2> QED
    BY <2>2
<1>2. PICK x \in T : \A y \in T : ~ (<<y, x>> \in StrictSubsetOrdering(Nat))
  <2> HIDE DEF T
  <2> QED
    BY <1>1, FS_StrictSubsetOrderingWellFounded, WFMin
<1>3. PICK n \in S : x = 0 .. n
  OBVIOUS
<1>4. ASSUME NEW m \in S, m < n PROVE FALSE
  <2>1. 0 .. m \in T /\ 0 .. m \subseteq 0 .. n /\ n \in 0 .. n /\ n \notin 0 .. m
    BY <1>4
  <2>2. <<0 .. m, 0 .. n>> \in StrictSubsetOrdering(Nat)
    BY <2>1 DEF StrictSubsetOrdering
  <2> QED
    BY <1>2, <1>3, <2>1, <2>2
<1> QED
  BY <1>4

\* Induction: a set with 0 that has the successor of each of its numbers has all.
LEMMA Induction ==
    ASSUME NEW S, 0 \in S, \A n \in Nat : n \in S => n + 1 \in S
    PROVE  \A n \in Nat : n \in S
<1> SUFFICES ASSUME Nat \ S # {} PROVE FALSE
  OBVIOUS
<1>1. PICK n \in Nat \ S : \A m \in Nat \ S : n <= m
  BY LeastNumber
<1>2. n # 0 /\ n - 1 \in Nat
  BY <1>1
<1>3. n - 1 \in S
  BY <1>1, <1>2
<1> QED
  BY <1>1, <1>2, <1>3

\* The first n steps of Chosen (s, I).
ChosenUpTo(s, I, f, n) ==
    f = [i \in 0 .. n |-> IF i = 0 THEN <<>>
                          ELSE IF i \in I THEN Append(f[i - 1], s[i]) ELSE f[i - 1]]

\* Chosen is what its recursion says: the recursion has a solution.
LEMMA ChosenDefined ==
    ASSUME NEW S, NEW s \in Seq(S), NEW I
    PROVE  \E f : ChosenUpTo(s, I, f, Len(s)) /\ Chosen(s, I) = f[Len(s)]
<1> DEFINE D == {n \in Nat : \E f : ChosenUpTo(s, I, f, n)}
<1>1. 0 \in D
  <2>1. ChosenUpTo(s, I, [i \in 0 .. 0 |-> <<>>], 0)
    BY DEF ChosenUpTo
  <2> QED
    BY <2>1
<1>2. ASSUME NEW n \in Nat, n \in D PROVE n + 1 \in D
  <2>1. PICK f : ChosenUpTo(s, I, f, n)
    BY <1>2
  <2> DEFINE g == [i \in 0 .. n + 1 |-> IF i <= n THEN f[i]
                                        ELSE IF i \in I THEN Append(f[n], s[i]) ELSE f[n]]
  <2>2. \A i \in 0 .. n : f[i] = IF i = 0 THEN <<>>
                                 ELSE IF i \in I THEN Append(f[i - 1], s[i]) ELSE f[i - 1]
    BY <2>1 DEF ChosenUpTo
  <2>3. \A i \in 0 .. n + 1 : g[i] = IF i = 0 THEN <<>>
                                     ELSE IF i \in I THEN Append(g[i - 1], s[i]) ELSE g[i - 1]
    BY <2>2
  <2>4. g = [i \in 0 .. n + 1 |-> g[i]]
    OBVIOUS
  <2> HIDE DEF g
  <2>5. ChosenUpTo(s, I, g, n + 1)
    BY <2>3, <2>4 DEF ChosenUpTo
  <2> QED
    BY <2>5
<1> HIDE DEF D
<1>3. Len(s) \in D
  BY <1>1, <1>2, Induction
<1> DEFINE kept[i \in 0 .. Len(s)] ==
            IF i = 0 THEN <<>>
            ELSE IF i \in I THEN Append(kept[i - 1], s[i]) ELSE kept[i - 1]
<1>4. Chosen(s, I) = kept[Len(s)]
  BY DEF Chosen
<1>5. ChosenUpTo(s, I, kept, Len(s))
  BY <1>3 DEF D, ChosenUpTo
<1> QED
  BY <1>4, <1>5

\* f numbers the elements of c, which are those of s at the places in I up to n.
Numbering(f, c, s, I, n) ==
    /\ f \in [1 .. Len(c) -> 1 .. n] /\ \A i \in 1 .. Len(c) : f[i] \in I /\ c[i] = s[f[i]]
    /\ \A i, j \in 1 .. Len(c) : f[i] = f[j] => i = j
    /\ \A k \in 1 .. n : k \in I => \E i \in 1 .. Len(c) : f[i] = k

LEMMA NumberingAppend ==
    ASSUME NEW S, NEW s \in Seq(S), NEW I, NEW n \in Nat, n + 1 <= Len(s), NEW c \in Seq(S),
           NEW f, Numbering(f, c, s, I, n), n + 1 \in I
    PROVE  \E g : Numbering(g, Append(c, s[n + 1]), s, I, n + 1)
<1> DEFINE d == Append(c, s[n + 1])
           g == [i \in 1 .. Len(c) + 1 |-> IF i <= Len(c) THEN f[i] ELSE n + 1]
<1>1. /\ Len(d) = Len(c) + 1 /\ d[Len(c) + 1] = s[n + 1] /\ Len(c) \in Nat
      /\ \A i \in 1 .. Len(c) : d[i] = c[i]
  BY AppendProperties
<1>0. \A i \in 1 .. Len(c) : f[i] \in 1 .. n /\ f[i] \in I
  BY DEF Numbering
<1>2. /\ \A i \in 1 .. Len(c) : g[i] = f[i] /\ f[i] \in 1 .. n /\ f[i] \in I
      /\ g[Len(c) + 1] = n + 1
  BY ONLY <1>0, <1>1
<1>3. \A i \in 1 .. Len(c) + 1 : i \in 1 .. Len(c) \/ i = Len(c) + 1
  BY <1>1
<1>4. g \in [1 .. Len(c) + 1 -> 1 .. n + 1]
  <2> HIDE DEF g
  <2>1. \A i \in 1 .. Len(c) + 1 : g[i] \in 1 .. n + 1
    BY <1>2, <1>3
  <2> QED
    BY <2>1 DEF g
<1> HIDE DEF d, g
<1>5. \A i \in 1 .. Len(c) + 1 : g[i] \in I /\ d[i] = s[g[i]]
  BY <1>1, <1>2, <1>3 DEF Numbering
<1>6. \A i, j \in 1 .. Len(c) + 1 : g[i] = g[j] => i = j
  BY <1>1, <1>2, <1>3 DEF Numbering
<1>7. ASSUME NEW k \in 1 .. n + 1, k \in I PROVE \E i \in 1 .. Len(c) + 1 : g[i] = k
  <2>1. CASE k = n + 1
    BY <1>1, <1>2, <2>1
  <2>2. CASE k \in 1 .. n
    BY <1>1, <1>2, <1>7, <2>2 DEF Numbering
  <2> QED
    BY <2>1, <2>2
<1>8. Numbering(g, d, s, I, n + 1)
  BY <1>1, <1>4, <1>5, <1>6, <1>7 DEF Numbering
<1> QED
  BY <1>8 DEF d

LEMMA ChosenNumbering ==
    ASSUME NEW S, NEW s \in Seq(S), NEW I
    PROVE  Chosen(s, I) \in Seq(S) /\ \E f : Numbering(f, Chosen(s, I), s, I, Len(s))
<1>1. PICK k : ChosenUpTo(s, I, k, Len(s)) /\ Chosen(s, I) = k[Len(s)]
  BY ChosenDefined
<1>2. \A i \in 0 .. Len(s) : k[i] = IF i = 0 THEN <<>>
                                    ELSE IF i \in I THEN Append(k[i - 1], s[i]) ELSE k[i - 1]
  BY <1>1 DEF ChosenUpTo
<1> DEFINE D == {n \in Nat : n <= Len(s) => k[n] \in Seq(S) /\ \E f : Numbering(f, k[n], s, I, n)}
<1>3. 0 \in D
  <2>1. k[0] = <<>> /\ Len(k[0]) = 0 /\ k[0] \in Seq(S)
    <3>1. 0 \in 0 .. Len(s)
      BY LenProperties
    <3>2. k[0] = <<>>
      BY <1>2, <3>1
    <3> QED
      BY <3>2
  <2>2. Numbering([i \in 1 .. 0 |-> 0], k[0], s, I, 0)
    BY <2>1 DEF Numbering
  <2> QED
    BY <2>1, <2>2
<1>4. ASSUME NEW n \in Nat, n \in D PROVE n + 1 \in D
  <2> SUFFICES ASSUME n + 1 <= Len(s)
               PROVE  k[n + 1] \in Seq(S) /\ \E f : Numbering(f, k[n + 1], s, I, n + 1)
    OBVIOUS
  <2>1. n <= Len(s) /\ n + 1 \in 0 .. Len(s) /\ n + 1 # 0 /\ (n + 1) - 1 = n
    OBVIOUS
  <2>2. k[n] \in Seq(S)
    BY <1>4, <2>1
  <2>3. PICK f : Numbering(f, k[n], s, I, n)
    BY <1>4, <2>1
  <2>4. s[n + 1] \in S
    BY <2>1, ElementOfSeq
  <2>5. CASE n + 1 \in I
    <3>1. k[n + 1] = Append(k[n], s[n + 1])
      BY <1>2, <2>1, <2>5
    <3> QED
      BY <2>1, <2>2, <2>3, <2>4, <2>5, <3>1, NumberingAppend, AppendProperties
  <2>6. CASE n + 1 \notin I
    <3>1. k[n + 1] = k[n]
      BY <1>2, <2>1, <2>6
    <3>2. Numbering(f, k[n], s, I, n + 1)
      BY <2>3, <2>6 DEF Numbering
    <3> QED
      BY <2>2, <3>1, <3>2
  <2> QED
    BY <2>5, <2>6
<1> HIDE DEF D
<1>5. Len(s) \in D
  BY <1>3, <1>4, Induction
<1> QED
  BY <1>1, <1>5 DEF D

\* What Chosen leaves was in the list, at one of the places.
LEMMA ChosenFrom ==
    ASSUME NEW S, NEW s \in Seq(S), NEW I
    PROVE  /\ Chosen(s, I) \in Seq(S)
           /\ \A i \in 1 .. Len(Chosen(s, I)) :
                 \E j \in 1 .. Len(s) : j \in I /\ Chosen(s, I)[i] = s[j]
  BY ChosenNumbering DEF Numbering

\* One more element at the end, chosen or not.
LEMMA ChosenAppend ==
    ASSUME NEW S, NEW s \in Seq(S), NEW x \in S, NEW I, NEW J,
           \A i \in 1 .. Len(s) : i \in I <=> i \in J
    PROVE  Chosen(Append(s, x), J) =
               IF Len(s) + 1 \in J THEN Append(Chosen(s, I), x) ELSE Chosen(s, I)
<1>1. PICK w : w = Append(s, x)
  OBVIOUS
<1>2. /\ w \in Seq(S) /\ Len(w) = Len(s) + 1 /\ w[Len(s) + 1] = x /\ Len(s) \in Nat
      /\ \A i \in 1 .. Len(s) : w[i] = s[i]
  BY <1>1, AppendProperties
<1>3. PICK f : ChosenUpTo(s, I, f, Len(s)) /\ Chosen(s, I) = f[Len(s)]
  BY ChosenDefined
<1>4. PICK g : ChosenUpTo(w, J, g, Len(w)) /\ Chosen(w, J) = g[Len(w)]
  BY <1>2, ChosenDefined
<1>5. \A i \in 0 .. Len(s) : f[i] = IF i = 0 THEN <<>>
                                    ELSE IF i \in I THEN Append(f[i - 1], s[i]) ELSE f[i - 1]
  BY <1>3 DEF ChosenUpTo
<1>6. \A i \in 0 .. Len(w) : g[i] = IF i = 0 THEN <<>>
                                    ELSE IF i \in J THEN Append(g[i - 1], w[i]) ELSE g[i - 1]
  BY <1>4 DEF ChosenUpTo
<1> DEFINE D == {n \in Nat : n <= Len(s) => f[n] = g[n]}
<1>7. 0 \in D
  <2>1. 0 \in 0 .. Len(s) /\ 0 \in 0 .. Len(w)
    BY <1>2
  <2>2. f[0] = <<>> /\ g[0] = <<>>
    BY <1>5, <1>6, <2>1
  <2> QED
    BY <2>2
<1>8. ASSUME NEW n \in Nat, n \in D PROVE n + 1 \in D
  <2> SUFFICES ASSUME n + 1 <= Len(s) PROVE f[n + 1] = g[n + 1]
    OBVIOUS
  <2>1. /\ n + 1 \in 0 .. Len(s) /\ n + 1 \in 0 .. Len(w) /\ n + 1 \in 1 .. Len(s)
        /\ n + 1 # 0 /\ (n + 1) - 1 = n
    BY <1>2
  <2>2. f[n] = g[n] /\ w[n + 1] = s[n + 1] /\ (n + 1 \in I <=> n + 1 \in J)
    BY <1>2, <1>8, <2>1
  <2>3. f[n + 1] = IF n + 1 \in I THEN Append(f[n], s[n + 1]) ELSE f[n]
    BY <1>5, <2>1
  <2>4. g[n + 1] = IF n + 1 \in J THEN Append(g[n], w[n + 1]) ELSE g[n]
    BY <1>6, <2>1
  <2> QED
    BY <2>2, <2>3, <2>4
<1> HIDE DEF D
<1>9. f[Len(s)] = g[Len(s)]
  <2>1. Len(s) \in D
    BY <1>2, <1>7, <1>8, Induction
  <2> QED
    BY <2>1 DEF D
<1>10. g[Len(w)] = IF Len(s) + 1 \in J THEN Append(g[Len(s)], x) ELSE g[Len(s)]
  <2>1. Len(w) \in 0 .. Len(w) /\ Len(w) # 0 /\ Len(w) - 1 = Len(s)
    BY <1>2
  <2> QED
    BY <1>2, <1>6, <2>1
<1> QED
  BY <1>1, <1>3, <1>4, <1>9, <1>10
-----------------------------------------------------------------------------
\* t has the elements of s in the order f.
Reorders(f, s, t) ==
    /\ f \in [1 .. Len(s) -> 1 .. Len(s)]
    /\ \A i, j \in 1 .. Len(s) : f[i] = f[j] => i = j
    /\ \A i \in 1 .. Len(s) : \E k \in 1 .. Len(s) : f[k] = i
    /\ t = [k \in 1 .. Len(s) |-> s[f[k]]]

\* Sorted puts the elements of a list in another order.
LEMMA SortedOrder ==
    ASSUME NEW S, NEW s \in Seq(S), NEW key \in [1 .. Len(s) -> Int]
    PROVE  \E f : Reorders(f, s, Sorted(s, key))
<1> DEFINE N == 1 .. Len(s)
           Upto(i) == {j \in N : key[j] < key[i] \/ (key[j] = key[i] /\ j <= i)}
           place == [i \in N |-> Cardinality(Upto(i))]
           f == [k \in N |-> CHOOSE i \in N : Cardinality(Upto(i)) = k]
<1>1. Len(s) \in Nat /\ DOMAIN s = N /\ \A i \in N : i \in Int /\ key[i] \in Int
  <2>1. Len(s) \in Nat /\ DOMAIN s = 1 .. Len(s)
    BY LenProperties
  <2> QED
    BY <2>1
<1>2. IsFiniteSet(N) /\ Cardinality(N) = Len(s)
  <2>1. Len(s) \in Nat /\ 1 \in Int /\ Len(s) \in Int
    BY <1>1
  <2>2. IsFiniteSet(1 .. Len(s)) /\ Cardinality(1 .. Len(s)) = IF 1 > Len(s) THEN 0 ELSE Len(s) - 1 + 1
    BY ONLY <2>1, FS_Interval
  <2> QED
    BY <2>1, <2>2
<1>3. ASSUME NEW i \in N PROVE /\ IsFiniteSet(Upto(i)) /\ i \in Upto(i) /\ Cardinality(Upto(i)) \in N
  <2>1. Upto(i) \in SUBSET N /\ i \in Upto(i)
    BY <1>1
  <2> HIDE DEF Upto
  <2>2. IsFiniteSet(Upto(i)) /\ Cardinality(Upto(i)) <= Len(s)
    BY <1>2, <2>1, FS_Subset
  <2>3. Cardinality(Upto(i)) \in Nat /\ Cardinality(Upto(i)) # 0
    BY <2>1, <2>2, FS_CardinalityType, FS_EmptySet
  <2> QED
    BY <1>1, <2>1, <2>2, <2>3
<1>4. ASSUME NEW i \in N, NEW j \in N, Upto(i) \subseteq Upto(j), j \notin Upto(i)
      PROVE  Cardinality(Upto(i)) # Cardinality(Upto(j))
  <2> HIDE DEF Upto
  <2> QED
    BY <1>3, <1>4, FS_Subset
<1>5. ASSUME NEW i \in N, NEW j \in N, place[i] = place[j], i # j PROVE FALSE
  <2>1. Cardinality(Upto(i)) = Cardinality(Upto(j))
    BY <1>5
  <2>2. CASE key[i] < key[j] \/ (key[i] = key[j] /\ i < j)
    <3>1. Upto(i) \subseteq Upto(j) /\ j \notin Upto(i)
      BY <1>1, <2>2
    <3> QED
      BY <1>4, <2>1, <3>1
  <2>3. CASE key[j] < key[i] \/ (key[j] = key[i] /\ j < i)
    <3>1. Upto(j) \subseteq Upto(i) /\ i \notin Upto(j)
      BY <1>1, <2>3
    <3> QED
      BY <1>4, <2>1, <3>1
  <2> QED
    BY <1>1, <1>5, <2>2, <2>3
<1>6. \A k \in N : \E i \in N : place[i] = k
  <2>1. place \in [N -> N]
    BY <1>3
  <2> HIDE DEF place, N
  <2>2. place \in Injection(N, N)
    BY <1>5, <2>1 DEF Injection, IsInjective
  <2>3. place \in Surjection(N, N)
    BY <1>2, <2>2, FS_Injection
  <2> QED
    BY <2>3 DEF Surjection
<1>7. \A k \in N : f[k] \in N /\ place[f[k]] = k
  <2>1. \A k \in N : \E i \in N : Cardinality(Upto(i)) = k
    BY <1>6
  <2> HIDE DEF Upto, N
  <2>2. \A k \in N : f[k] \in N /\ Cardinality(Upto(f[k])) = k
    BY <2>1
  <2> HIDE DEF f
  <2> QED
    BY <2>2
<1>8. Sorted(s, key) = [k \in N |-> s[f[k]]]
  <2>1. Sorted(s, key) = [k \in N |-> s[CHOOSE i \in N : Cardinality(Upto(i)) = k]]
    BY <1>1 DEF Sorted
  <2>2. \A k \in N : f[k] = CHOOSE i \in N : Cardinality(Upto(i)) = k
    OBVIOUS
  <2> HIDE DEF f, Upto, N
  <2> QED
    BY <2>1, <2>2
<1>9. \A i \in N : place[i] \in N /\ f[place[i]] = i
  <2>1. \A i \in N : place[i] \in N
    BY <1>3
  <2> HIDE DEF f, place, N
  <2> QED
    BY <1>5, <1>7, <2>1
<1>10. f \in [N -> N]
  <2> HIDE DEF place, Upto, N
  <2> QED
    BY <1>7
<1>11. \A i, j \in N : f[i] = f[j] => i = j
  <2> HIDE DEF f, place, N
  <2> QED
    BY <1>7
<1>12. Reorders(f, s, Sorted(s, key))
  <2> HIDE DEF f, place
  <2> QED
    BY <1>8, <1>9, <1>10, <1>11 DEF Reorders
<1> QED
  BY <1>12

\* Another order has the same elements, each as often as before.
LEMMA ListReordered ==
    ASSUME NEW S, NEW s \in Seq(S), NEW t, NEW f, Reorders(f, s, t)
    PROVE  /\ t \in Seq(S) /\ Len(t) = Len(s)
           /\ NoDup(s) => NoDup(t)
           /\ \A x : OnList(x, t) <=> OnList(x, s)
<1>2. Len(s) \in Nat /\ \A i \in 1 .. Len(s) : s[i] \in S /\ f[i] \in 1 .. Len(s)
  <2>1. \A i \in 1 .. Len(s) : s[i] \in S
    BY ElementOfSeq
  <2> QED
    BY <2>1, LenProperties DEF Reorders
<1>3. DOMAIN t = 1 .. Len(s) /\ \A k \in 1 .. Len(s) : t[k] = s[f[k]] /\ t[k] \in S
  BY <1>2 DEF Reorders
<1>4. t \in Seq(S) /\ Len(t) = Len(s)
  <2>1. t \in [1 .. Len(s) -> S]
    BY <1>3 DEF Reorders
  <2>2. t \in Seq(S)
    BY <1>2, <2>1, SeqDef
  <2> QED
    BY <1>2, <2>1, <2>2, LenProperties
<1>5. ASSUME NoDup(s) PROVE NoDup(t)
  <2> SUFFICES ASSUME NEW i \in 1 .. Len(s), NEW j \in 1 .. Len(s), t[i] = t[j] PROVE i = j
    BY <1>4 DEF NoDup
  <2>1. s[f[i]] = s[f[j]] /\ f[i] \in 1 .. Len(s) /\ f[j] \in 1 .. Len(s)
    BY <1>2, <1>3
  <2>2. f[i] = f[j]
    BY <1>5, <2>1 DEF NoDup
  <2> QED
    BY <2>2 DEF Reorders
<1>6. \A x : OnList(x, t) <=> OnList(x, s)
  <2>1. \A x : OnList(x, t) => OnList(x, s)
    BY <1>2, <1>3, <1>4 DEF OnList
  <2>2. ASSUME NEW x, OnList(x, s) PROVE OnList(x, t)
    <3>1. PICK i \in 1 .. Len(s) : s[i] = x
      BY <2>2 DEF OnList
    <3>2. PICK k \in 1 .. Len(s) : f[k] = i
      BY DEF Reorders
    <3> QED
      BY <1>3, <1>4, <3>1, <3>2 DEF OnList
  <2> QED
    BY <2>1, <2>2
<1> QED
  BY <1>4, <1>5, <1>6

\* What is left of a list, when the places in I hold different elements.
LEMMA ListChosen ==
    ASSUME NEW S, NEW s \in Seq(S), NEW I, I \subseteq 1 .. Len(s),
           \A i, j \in I : s[i] = s[j] => i = j
    PROVE  /\ NoDup(Chosen(s, I))
           /\ \A x : OnList(x, Chosen(s, I)) <=> \E i \in I : s[i] = x
<1> DEFINE c == Chosen(s, I)
<1>1. PICK f : Numbering(f, c, s, I, Len(s))
  BY ChosenNumbering
<1> HIDE DEF c
<1>2. \A i \in 1 .. Len(c) : f[i] \in I /\ c[i] = s[f[i]]
  BY <1>1 DEF Numbering
<1>3. NoDup(c)
  <2> SUFFICES ASSUME NEW i \in 1 .. Len(c), NEW j \in 1 .. Len(c), c[i] = c[j] PROVE i = j
    BY DEF NoDup
  <2>1. f[i] \in I /\ f[j] \in I /\ s[f[i]] = s[f[j]]
    BY <1>2
  <2>2. f[i] = f[j]
    BY <2>1
  <2> QED
    BY <1>1, <2>2 DEF Numbering
<1>4. \A x : OnList(x, c) => \E i \in I : s[i] = x
  BY <1>2 DEF OnList
<1>5. ASSUME NEW i \in I PROVE OnList(s[i], c)
  <2>1. PICK k \in 1 .. Len(c) : f[k] = i
    BY <1>1 DEF Numbering
  <2> QED
    BY <1>2, <2>1 DEF OnList
<1> QED
  BY <1>3, <1>4, <1>5 DEF c
-----------------------------------------------------------------------------
\* The first n steps of Joined (ss).
JoinedUpTo(ss, f, n) == f = [i \in 0 .. n |-> IF i = 0 THEN <<>> ELSE f[i - 1] \o ss[i]]

LEMMA JoinedDefined ==
    ASSUME NEW S, NEW ss \in Seq(S)
    PROVE  \E f : JoinedUpTo(ss, f, Len(ss)) /\ Joined(ss) = f[Len(ss)]
<1> DEFINE D == {n \in Nat : \E f : JoinedUpTo(ss, f, n)}
<1>1. 0 \in D
  <2>1. JoinedUpTo(ss, [i \in 0 .. 0 |-> <<>>], 0)
    BY DEF JoinedUpTo
  <2> QED
    BY <2>1
<1>2. ASSUME NEW n \in Nat, n \in D PROVE n + 1 \in D
  <2>1. PICK f : JoinedUpTo(ss, f, n)
    BY <1>2
  <2> DEFINE g == [i \in 0 .. n + 1 |-> IF i <= n THEN f[i] ELSE f[n] \o ss[i]]
  <2>2. \A i \in 0 .. n : f[i] = IF i = 0 THEN <<>> ELSE f[i - 1] \o ss[i]
    BY <2>1 DEF JoinedUpTo
  <2>3. \A i \in 0 .. n + 1 : g[i] = IF i = 0 THEN <<>> ELSE g[i - 1] \o ss[i]
    BY <2>2
  <2>4. g = [i \in 0 .. n + 1 |-> g[i]]
    OBVIOUS
  <2> HIDE DEF g
  <2>5. JoinedUpTo(ss, g, n + 1)
    BY <2>3, <2>4 DEF JoinedUpTo
  <2> QED
    BY <2>5
<1> HIDE DEF D
<1>3. Len(ss) \in D
  BY <1>1, <1>2, Induction
<1> DEFINE upto[i \in 0 .. Len(ss)] == IF i = 0 THEN <<>> ELSE upto[i - 1] \o ss[i]
<1>4. Joined(ss) = upto[Len(ss)]
  BY DEF Joined
<1>5. JoinedUpTo(ss, upto, Len(ss))
  BY <1>3 DEF D, JoinedUpTo
<1> QED
  BY <1>4, <1>5

\* Lists of elements of S, one after the other, are a list of elements of S.
LEMMA JoinedType ==
    ASSUME NEW S, NEW ss \in Seq(Seq(S))
    PROVE  Joined(ss) \in Seq(S)
<1>1. PICK f : JoinedUpTo(ss, f, Len(ss)) /\ Joined(ss) = f[Len(ss)]
  BY JoinedDefined
<1>2. \A i \in 0 .. Len(ss) : f[i] = IF i = 0 THEN <<>> ELSE f[i - 1] \o ss[i]
  BY <1>1 DEF JoinedUpTo
<1> DEFINE D == {n \in Nat : n <= Len(ss) => f[n] \in Seq(S)}
<1>3. 0 \in D
  <2>1. 0 \in 0 .. Len(ss)
    BY LenProperties
  <2>2. f[0] = <<>>
    BY <1>2, <2>1
  <2>3. f[0] \in Seq(S)
    BY <2>2
  <2> QED
    BY <2>3
<1>4. ASSUME NEW n \in Nat, n \in D PROVE n + 1 \in D
  <2> SUFFICES ASSUME n + 1 <= Len(ss) PROVE f[n + 1] \in Seq(S)
    OBVIOUS
  <2>1. n + 1 \in 1 .. Len(ss) /\ n + 1 \in 0 .. Len(ss) /\ n + 1 # 0 /\ (n + 1) - 1 = n /\ n <= Len(ss)
    BY LenProperties
  <2>2. f[n] \in Seq(S)
    BY <1>4, <2>1
  <2>3. ss[n + 1] \in Seq(S)
    BY <2>1, ElementOfSeq
  <2>4. f[n + 1] = f[n] \o ss[n + 1]
    BY <1>2, <2>1
  <2> QED
    BY <2>2, <2>3, <2>4
<1> HIDE DEF D
<1>5. Len(ss) \in D
  BY <1>3, <1>4, Induction
<1> QED
  BY <1>1, <1>5 DEF D
-----------------------------------------------------------------------------
\* A number once around.
LEMMA AroundOnce ==
    ASSUME NEW b \in Nat \ {0}, NEW x \in Int, -b <= x, x < 2 * b
    PROVE  x % b = IF x < 0 THEN x + b ELSE IF x < b THEN x ELSE x - b
  BY SMTT(30)

LEMMA SumAround ==
    ASSUME NEW b \in Nat \ {0}, NEW x \in 0 .. b - 1, NEW y \in 0 .. b - 1
    PROVE  (x + y) % b = IF x + y < b THEN x + y ELSE x + y - b
<1>1. SUFFICES ASSUME NEW z \in Int, z = x + y
               PROVE  z % b = IF z < b THEN z ELSE z - b
  OBVIOUS
<1>2. z \in Int /\ -b <= z /\ z < 2 * b /\ ~ (z < 0)
  BY <1>1
<1> QED
  BY <1>2, AroundOnce

LEMMA DifferenceAround ==
    ASSUME NEW b \in Nat \ {0}, NEW x \in 0 .. b - 1, NEW y \in 0 .. b - 1
    PROVE  (x - y) % b = IF x >= y THEN x - y ELSE x - y + b
<1>1. SUFFICES ASSUME NEW z \in Int, z = x - y
               PROVE  z % b = IF z >= 0 THEN z ELSE z + b
  OBVIOUS
<1>2. z \in Int /\ -b <= z /\ z < b /\ z < 2 * b
  BY <1>1
<1>3. z % b = IF z < 0 THEN z + b ELSE IF z < b THEN z ELSE z - b
  BY ONLY <1>2, b \in Nat \ {0}, AroundOnce
<1> QED
  BY ONLY <1>2, <1>3
=============================================================================
