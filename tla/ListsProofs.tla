----------------------------- MODULE ListsProofs -----------------------------
(***************************************************************************)
(* Lemmas on lists: the prefix two lists share, lists without some of      *)
(* their elements, lists that grow by one.  Induction is over sets of      *)
(* numbers: the theorems of the library that take a predicate cannot be    *)
(* cited, but that a set of numbers has a least one can.                   *)
(***************************************************************************)
EXTENDS Lists, SequenceTheorems, WellFoundedInduction, TLAPS

(* What holds of 0, and of n + 1 when of n, holds of every number.         *)
LEMMA NatInd ==
  ASSUME NEW T \in SUBSET Nat, 0 \in T, \A n \in T : n + 1 \in T
  PROVE  T = Nat
PROOF
  <1> DEFINE less == OpToRel(<, Nat)
             out  == Nat \ T
  <1>1. IsWellFoundedOn(less, Nat) BY NatLessThanWellFounded
  <1>2. SUFFICES ASSUME out # {} PROVE FALSE
    OBVIOUS
  <1>3. PICK x \in out : \A y \in out : <<y, x>> \notin less
    <2>1. out \subseteq Nat OBVIOUS
    <2> HIDE DEF less, out
    <2> QED BY <1>1, <1>2, <2>1, WFMin
  <1>4. x \in Nat /\ x # 0 /\ x \notin T
    BY <1>3
  <1>5. x - 1 \in Nat /\ x - 1 < x /\ (x - 1) + 1 = x
    BY <1>4
  <1>6. <<x - 1, x>> \in less
    BY <1>4, <1>5 DEF OpToRel
  <1>7. x - 1 \in T
    BY <1>3, <1>5, <1>6
  <1> QED
    BY <1>4, <1>5, <1>7

(* A set of numbers up to some one has a greatest.                         *)
LEMMA MaxIs ==
  ASSUME NEW n \in Nat, NEW A \in SUBSET (0..n), A # {}
  PROVE  Max(A) \in A /\ \A y \in A : Max(A) >= y
PROOF
  <1> DEFINE T == {m \in Nat : \A B \in SUBSET (0..m) : B # {} => \E x \in B : \A y \in B : x >= y}
  <1>1. 0 \in T
    <2>1. ASSUME NEW B \in SUBSET (0..0), B # {}
          PROVE  \E x \in B : \A y \in B : x >= y
      <3>1. \A y \in 0..0 : y = 0 OBVIOUS
      <3>2. PICK x \in B : x = 0 BY <2>1, <3>1
      <3>3. \A y \in B : x >= y BY <2>1, <3>1, <3>2
      <3> QED BY <3>3
    <2> QED BY <2>1
  <1>2. ASSUME NEW m \in T PROVE m + 1 \in T
    <2>1. ASSUME NEW B \in SUBSET (0..(m + 1)), B # {}
          PROVE  \E x \in B : \A y \in B : x >= y
      <3>1. CASE m + 1 \in B BY <3>1
      <3>2. CASE m + 1 \notin B
        <4>1. B \in SUBSET (0..m) BY <3>2
        <4> QED BY <4>1, <2>1
      <3> QED BY <3>1, <3>2
    <2> QED BY <2>1
  <1> HIDE DEF T
  <1>3. T = Nat
    <2>1. T \in SUBSET Nat BY DEF T
    <2> QED BY <1>1, <1>2, <2>1, NatInd
  <1>4. \E x \in A : \A y \in A : x >= y
    BY <1>3 DEF T
  <1> QED
    BY <1>4 DEF Max
(* A set of numbers has a least.                                           *)
LEMMA MinIs ==
  ASSUME NEW A \in SUBSET Nat, A # {}
  PROVE  Min(A) \in A /\ \A y \in A : Min(A) <= y
PROOF
  <1> DEFINE less == OpToRel(<, Nat)
  <1>1. IsWellFoundedOn(less, Nat) BY NatLessThanWellFounded
  <1>2. PICK m \in A : \A y \in A : <<y, m>> \notin less
    <2> HIDE DEF less
    <2> QED BY <1>1, WFMin
  <1>3. \A y \in A : ~ (y < m) BY <1>2 DEF OpToRel
  <1>4. \A y \in A : m <= y BY <1>3
  <1> QED BY <1>4 DEF Min

----------------------------------------------------------------------------
(* Common(s, t) is the length of a prefix of both; no longer one is.       *)
LEMMA CommonIs ==
  ASSUME NEW S, NEW s \in Seq(S), NEW t \in Seq(S)
  PROVE  /\ Common(s, t) \in Nat /\ Common(s, t) <= Len(s) /\ Common(s, t) <= Len(t)
         /\ Take(s, Common(s, t)) = Take(t, Common(s, t))
PROOF
  <1> DEFINE both == IF Len(s) < Len(t) THEN Len(s) ELSE Len(t)
             A    == {k \in 0..both : Take(s, k) = Take(t, k)}
  <1>1. both \in Nat /\ both <= Len(s) /\ both <= Len(t) OBVIOUS
  <1>2. 0 \in A BY <1>1 DEF Take
  <1>3. Common(s, t) = Max(A) BY DEF Common
  <1>4. Max(A) \in A
    <2>1. A \in SUBSET (0..both) /\ A # {} BY <1>2
    <2> HIDE DEF A, both
    <2> QED BY <1>1, <2>1, MaxIs
  <1> QED BY <1>1, <1>3, <1>4

(* The first k of a list.                                                  *)
LEMMA TakeIs ==
  ASSUME NEW S, NEW s \in Seq(S), NEW k \in 0..Len(s)
  PROVE  /\ Take(s, k) \in Seq(S) /\ Len(Take(s, k)) = k
         /\ \A i \in 1..k : Take(s, k)[i] = s[i]
BY DEF Take

(* The b elements of a list after its first a.                             *)
LEMMA SubSeqIs ==
  ASSUME NEW S, NEW s \in Seq(S), NEW a \in Nat, NEW b \in Nat, a + b =< Len(s)
  PROVE  /\ SubSeq(s, a + 1, a + b) \in Seq(S) /\ Len(SubSeq(s, a + 1, a + b)) = b
         /\ \A i \in 1..b : SubSeq(s, a + 1, a + b)[i] = s[a + i]
PROOF
  <1>1. a + 1 \in 1..(Len(s) + 1) /\ a + b \in a..Len(s) OBVIOUS
  <1>2. \A i \in (a + 1)..(a + b) : s[i] \in S OBVIOUS
  <1>3. b = 0 => a + 1 > a + b OBVIOUS
  <1>4. b # 0 => a + 1 =< a + b OBVIOUS
  <1> QED BY <1>1, <1>2, <1>3, <1>4

\* The same of a sequence t known to be the part from i to k.
LEMMA PartOf ==
  ASSUME NEW S, NEW s \in Seq(S), NEW i \in Nat \ {0}, NEW k \in Nat, i =< k + 1, k =< Len(s),
         NEW t, t = SubSeq(s, i, k)
  PROVE  t \in Seq(S) /\ Len(t) = k - i + 1 /\ \A n \in 1..(k - i + 1) : t[n] = s[i - 1 + n]
PROOF
  <1> DEFINE a == i - 1
             b == k - i + 1
  <1>1. a \in Nat /\ b \in Nat /\ a + b =< Len(s) /\ a + 1 = i /\ a + b = k OBVIOUS
  <1> HIDE DEF a, b
  <1>2. /\ SubSeq(s, a + 1, a + b) \in Seq(S) /\ Len(SubSeq(s, a + 1, a + b)) = b
        /\ \A n \in 1..b : SubSeq(s, a + 1, a + b)[n] = s[a + n]
    BY <1>1, SubSeqIs
  <1>3. t \in Seq(S) /\ Len(t) = b /\ \A n \in 1..b : t[n] = s[a + n] BY <1>1, <1>2
  <1> QED BY <1>3 DEF a, b

LEMMA TakeAll ==
  ASSUME NEW S, NEW s \in Seq(S)
  PROVE  Take(s, Len(s)) = s /\ Take(s, 0) = <<>>
BY SubSeqFull DEF Take

LEMMA TakeTake ==
  ASSUME NEW S, NEW s \in Seq(S), NEW k \in 0..Len(s), NEW j \in 0..k
  PROVE  Take(Take(s, k), j) = Take(s, j)
PROOF
  <1>1. Take(s, k) \in Seq(S) /\ Len(Take(s, k)) = k /\ \A i \in 1..k : Take(s, k)[i] = s[i]
    BY TakeIs
  <1>2. /\ Take(Take(s, k), j) \in Seq(S) /\ Len(Take(Take(s, k), j)) = j
        /\ \A i \in 1..j : Take(Take(s, k), j)[i] = Take(s, k)[i]
    BY <1>1, TakeIs
  <1>3. Take(s, j) \in Seq(S) /\ Len(Take(s, j)) = j /\ \A i \in 1..j : Take(s, j)[i] = s[i]
    BY TakeIs
  <1>4. \A i \in 1..j : Take(Take(s, k), j)[i] = Take(s, j)[i]
    BY <1>1, <1>2, <1>3
  <1> HIDE DEF Take
  <1> QED BY <1>2, <1>3, <1>4, SeqEqual

(* Lists that agree as far as k agree as far as any j up to it.            *)
LEMMA TakeLess ==
  ASSUME NEW S, NEW s \in Seq(S), NEW t \in Seq(S),
         NEW k \in 0..Len(s), k <= Len(t), Take(s, k) = Take(t, k), NEW j \in 0..k
  PROVE  Take(s, j) = Take(t, j)
BY TakeTake

(* A prefix is the first tokens of what it is a prefix of.                 *)
LEMMA PrefixIs ==
  ASSUME NEW S, NEW s \in Seq(S), NEW t \in Seq(S)
  PROVE  IsPrefix(s, t) <=> Len(s) <= Len(t) /\ s = Take(t, Len(s))
BY SubSeqFull DEF IsPrefix, Take
----------------------------------------------------------------------------
(* What is in a queue, and that nothing is in it twice, as it changes.     *)
LEMMA RangeIs ==
  ASSUME NEW S, NEW s \in Seq(S)
  PROVE  /\ Range(s) = {s[i] : i \in 1..Len(s)} /\ Range(s) \subseteq S
         /\ s = <<>> <=> Range(s) = {}
BY DEF Range

LEMMA AppendRange ==
  ASSUME NEW S, NEW s \in Seq(S), NEW x \in S
  PROVE  Range(Append(s, x)) = Range(s) \cup {x}
PROOF
  <1>1. /\ Append(s, x) \in Seq(S) /\ Len(Append(s, x)) = Len(s) + 1 /\ Append(s, x)[Len(s) + 1] = x
        /\ \A i \in 1..Len(s) : Append(s, x)[i] = s[i]
    BY AppendProperties
  <1>2. Range(Append(s, x)) = {Append(s, x)[i] : i \in 1..Len(Append(s, x))} BY <1>1, RangeIs
  <1>3. Range(s) = {s[i] : i \in 1..Len(s)} BY RangeIs
  <1> QED BY <1>1, <1>2, <1>3

LEMMA AppendOnce ==
  ASSUME NEW S, NEW s \in Seq(S), NEW x \in S, IsInjective(s), x \notin Range(s)
  PROVE  IsInjective(Append(s, x))
PROOF
  <1>1. /\ DOMAIN Append(s, x) = 1..(Len(s) + 1) /\ Append(s, x)[Len(s) + 1] = x
        /\ \A i \in 1..Len(s) : Append(s, x)[i] = s[i]
    BY AppendProperties
  <1>2. \A i \in 1..Len(s) : s[i] # x BY RangeIs
  <1>3. \A i, j \in 1..Len(s) : s[i] = s[j] => i = j BY DEF IsInjective
  <1> QED BY <1>1, <1>2, <1>3 DEF IsInjective

(* The head of a queue and the rest.                                       *)
LEMMA TailRange ==
  ASSUME NEW S, NEW s \in Seq(S), s # <<>>
  PROVE  Head(s) \in Range(s) /\ Range(s) = Range(Tail(s)) \cup {Head(s)}
PROOF
  <1>1. /\ Tail(s) \in Seq(S) /\ Len(Tail(s)) = Len(s) - 1 /\ Head(s) = s[1] /\ Len(s) >= 1
        /\ \A i \in 1..(Len(s) - 1) : Tail(s)[i] = s[i + 1]
    OBVIOUS
  <1>2. /\ Range(s) = {s[i] : i \in 1..Len(s)}
        /\ Range(Tail(s)) = {Tail(s)[i] : i \in 1..Len(Tail(s))}
    BY <1>1, RangeIs
  <1>3. \A i \in 1..Len(s) : i = 1 \/ (i - 1 \in 1..(Len(s) - 1) /\ Tail(s)[i - 1] = s[i]) BY <1>1
  <1>4. \A i \in 1..(Len(s) - 1) : i + 1 \in 1..Len(s)
    <2> DEFINE n == Len(s)
    <2>1. n \in Nat OBVIOUS
    <2> HIDE DEF n
    <2>2. \A i \in 1..(n - 1) : i + 1 \in 1..n BY <2>1
    <2> QED BY <2>2 DEF n
  <1>5. Range(s) \subseteq Range(Tail(s)) \cup {Head(s)}
    <2>1. SUFFICES ASSUME NEW i \in 1..Len(s) PROVE s[i] \in Range(Tail(s)) \cup {Head(s)}
      BY <1>2
    <2>2. CASE i = 1 BY <1>1, <2>2
    <2>3. CASE i - 1 \in 1..(Len(s) - 1) /\ Tail(s)[i - 1] = s[i]
      <3>1. i - 1 \in 1..Len(Tail(s)) BY <1>1, <2>3
      <3> QED BY <1>2, <2>3, <3>1
    <2> QED BY <1>3, <2>2, <2>3
  <1>6. Range(Tail(s)) \subseteq Range(s)
    <2>1. SUFFICES ASSUME NEW i \in 1..(Len(s) - 1) PROVE Tail(s)[i] \in Range(s)
      BY <1>1, <1>2
    <2>2. Tail(s)[i] = s[i + 1] /\ i + 1 \in 1..Len(s) BY <1>1, <1>4
    <2> QED BY <1>2, <2>2
  <1>7. Head(s) \in Range(s) BY <1>1, <1>2
  <1> QED BY <1>5, <1>6, <1>7

LEMMA TailOnce ==
  ASSUME NEW S, NEW s \in Seq(S), s # <<>>, IsInjective(s)
  PROVE  IsInjective(Tail(s)) /\ Head(s) \notin Range(Tail(s))
PROOF
  <1>1. /\ Tail(s) \in Seq(S) /\ DOMAIN Tail(s) = 1..(Len(s) - 1) /\ Head(s) = s[1] /\ Len(s) >= 1
        /\ \A i \in 1..(Len(s) - 1) : Tail(s)[i] = s[i + 1]
    OBVIOUS
  <1>2. \A i, j \in 1..Len(s) : s[i] = s[j] => i = j BY DEF IsInjective
  <1>3. \A i, j \in 1..(Len(s) - 1) : Tail(s)[i] = Tail(s)[j] => i = j BY <1>1, <1>2
  <1>4. \A i \in 1..(Len(s) - 1) : Tail(s)[i] # Head(s) BY <1>1, <1>2
  <1>5. IsInjective(Tail(s)) BY <1>1, <1>3 DEF IsInjective
  <1>6. Head(s) \notin Range(Tail(s)) BY <1>1, <1>4 DEF Range
  <1> QED BY <1>5, <1>6

(* Two queues in one.                                                      *)
LEMMA ConcatOnce ==
  ASSUME NEW S, NEW s \in Seq(S), NEW t \in Seq(S)
  PROVE  /\ Range(s \o t) = Range(s) \cup Range(t)
         /\ IsInjective(s \o t) <=> IsInjective(s) /\ IsInjective(t) /\ Range(s) \cap Range(t) = {}
PROOF
  <1>1. /\ s \o t \in Seq(S) /\ Len(s \o t) = Len(s) + Len(t)
        /\ \A i \in 1..Len(s) : i \in 1..(Len(s) + Len(t)) /\ (s \o t)[i] = s[i]
        /\ \A i \in 1..Len(t) : Len(s) + i \in 1..(Len(s) + Len(t)) /\ (s \o t)[Len(s) + i] = t[i]
    OBVIOUS
  <1>2. \A i \in 1..(Len(s) + Len(t)) : i \in 1..Len(s) \/ (i - Len(s) \in 1..Len(t) /\ Len(s) + (i - Len(s)) = i)
    OBVIOUS
  <1>3. /\ DOMAIN s = 1..Len(s) /\ DOMAIN t = 1..Len(t) /\ DOMAIN (s \o t) = 1..(Len(s) + Len(t))
        /\ Len(s) \in Nat /\ Len(t) \in Nat
    OBVIOUS
  <1>4. ASSUME IsInjective(s \o t)
        PROVE  IsInjective(s) /\ IsInjective(t) /\ Range(s) \cap Range(t) = {}
    <2>1. \A i, j \in 1..(Len(s) + Len(t)) : (s \o t)[i] = (s \o t)[j] => i = j BY <1>3, <1>4 DEF IsInjective
    <2>2. IsInjective(s) BY <1>1, <1>3, <2>1 DEF IsInjective
    <2>3. IsInjective(t) BY <1>1, <1>3, <2>1 DEF IsInjective
    <2>4. \A i \in 1..Len(s), j \in 1..Len(t) : s[i] # t[j] BY <1>1, <1>3, <2>1
    <2>5. Range(s) \cap Range(t) = {} BY <2>4, <1>3 DEF Range
    <2> QED BY <2>2, <2>3, <2>5
  <1>5. ASSUME IsInjective(s), IsInjective(t), Range(s) \cap Range(t) = {}
        PROVE  IsInjective(s \o t)
    <2>1. \A i, j \in 1..Len(s) : s[i] = s[j] => i = j BY <1>3, <1>5 DEF IsInjective
    <2>2. \A i, j \in 1..Len(t) : t[i] = t[j] => i = j BY <1>3, <1>5 DEF IsInjective
    <2>3. \A i \in 1..Len(s), j \in 1..Len(t) : s[i] # t[j] BY <1>3, <1>5 DEF Range
    <2>4. \A i, j \in 1..(Len(s) + Len(t)) : (s \o t)[i] = (s \o t)[j] => i = j
      BY <1>1, <1>2, <1>3, <2>1, <2>2, <2>3
    <2> QED BY <2>4, <1>3 DEF IsInjective
  <1>6. Range(s \o t) = Range(s) \cup Range(t) BY RangeConcatenation
  <1> QED BY <1>4, <1>5, <1>6

----------------------------------------------------------------------------
(* Without(q, S) by steps along q: the list left of its first n.           *)
LeftStep(f, n, q, S) ==
  IF n = 0 THEN <<>> ELSE IF q[n] \in S THEN f[n - 1] ELSE Append(f[n - 1], q[n])
IsLeft(f, m, q, S) == f = [n \in 0..m |-> LeftStep(f, n, q, S)]

LEMMA LeftExists ==
  ASSUME NEW q, NEW S, NEW m \in Nat
  PROVE  \E f : IsLeft(f, m, q, S)
PROOF
  <1> DEFINE T == {k \in Nat : \E f : IsLeft(f, k, q, S)}
  <1>1. 0 \in T
    <2> DEFINE f == [n \in 0..0 |-> <<>>]
    <2>1. \A n \in 0..0 : n = 0 OBVIOUS
    <2>2. \A n \in 0..0 : LeftStep(f, n, q, S) = <<>> BY <2>1 DEF LeftStep
    <2>3. IsLeft(f, 0, q, S) BY <2>2 DEF IsLeft
    <2> QED BY <2>3
  <1>2. ASSUME NEW k \in T PROVE k + 1 \in T
    <2>1. PICK f : IsLeft(f, k, q, S) OBVIOUS
    <2> DEFINE g == [n \in 0..(k + 1) |-> IF n = k + 1 THEN LeftStep(f, k + 1, q, S) ELSE f[n]]
    <2>2. \A n \in 0..k : g[n] = f[n] OBVIOUS
    <2>3. ASSUME NEW n \in 0..(k + 1) PROVE g[n] = LeftStep(g, n, q, S)
      <3>1. n = 0 \/ n - 1 \in 0..k OBVIOUS
      <3>2. LeftStep(g, n, q, S) = LeftStep(f, n, q, S)
        <4>1. CASE n = 0 BY <4>1 DEF LeftStep
        <4>2. CASE n - 1 \in 0..k
          <5>1. g[n - 1] = f[n - 1] BY <4>2, <2>2
          <5> HIDE DEF g
          <5> QED BY <5>1 DEF LeftStep
        <4> QED BY <3>1, <4>1, <4>2
      <3>3. CASE n = k + 1 BY <3>2, <3>3
      <3>4. CASE n \in 0..k
        <4>1. f[n] = LeftStep(f, n, q, S) BY <3>4, <2>1 DEF IsLeft
        <4> QED BY <4>1, <3>2, <3>4, <2>2
      <3> QED BY <3>3, <3>4
    <2>4. g = [n \in 0..(k + 1) |-> g[n]] OBVIOUS
    <2> HIDE DEF g
    <2>5. [n \in 0..(k + 1) |-> g[n]] = [n \in 0..(k + 1) |-> LeftStep(g, n, q, S)] BY <2>3
    <2>6. IsLeft(g, k + 1, q, S) BY <2>4, <2>5 DEF IsLeft
    <2> QED BY <2>6
  <1> HIDE DEF T
  <1>3. T = Nat
    <2>1. T \in SUBSET Nat BY DEF T
    <2> QED BY <1>1, <1>2, <2>1, NatInd
  <1> QED BY <1>3 DEF T

LEMMA WithoutLeft ==
  ASSUME NEW Q, NEW q \in Seq(Q), NEW S
  PROVE  \E f : /\ Without(q, S) = f[Len(q)]
                /\ f[0] = <<>>
                /\ \A n \in 1..Len(q) :
                     f[n] = IF q[n] \in S THEN f[n - 1] ELSE Append(f[n - 1], q[n])
PROOF
  <1> DEFINE f == CHOOSE h : IsLeft(h, Len(q), q, S)
  <1>1. Len(q) \in Nat OBVIOUS
  <1>2. IsLeft(f, Len(q), q, S) BY <1>1, LeftExists
  <1>3. Without(q, S) = f[Len(q)] BY DEF Without, IsLeft, LeftStep
  <1> HIDE DEF f
  <1>4. \A n \in 0..Len(q) : f[n] = LeftStep(f, n, q, S) BY <1>2 DEF IsLeft
  <1>5. f[0] = <<>> BY <1>1, <1>4 DEF LeftStep
  <1>6. \A n \in 1..Len(q) : f[n] = IF q[n] \in S THEN f[n - 1] ELSE Append(f[n - 1], q[n])
    BY <1>4 DEF LeftStep
  <1> QED BY <1>3, <1>5, <1>6

(* The places of q that are not S's differ.                                *)
OnceBut(q, S) == \A i, j \in 1..Len(q) : q[i] = q[j] /\ q[i] \notin S => i = j

(* A queue without S has the others, in it once if they were.              *)
LEMMA WithoutIs ==
  ASSUME NEW Q, NEW q \in Seq(Q), NEW S
  PROVE  /\ Without(q, S) \in Seq(Q) /\ Len(Without(q, S)) <= Len(q)
         /\ Range(Without(q, S)) = Range(q) \ S
         /\ IsInjective(q) => IsInjective(Without(q, S))
         /\ OnceBut(q, S) => IsInjective(Without(q, S))
PROOF
  <1>1. PICK f : /\ Without(q, S) = f[Len(q)] /\ f[0] = <<>>
                 /\ \A n \in 1..Len(q) :
                      f[n] = IF q[n] \in S THEN f[n - 1] ELSE Append(f[n - 1], q[n])
    BY WithoutLeft
  <1> DEFINE Upto(n) == {q[i] : i \in 1..n}
             P(n) == /\ f[n] \in Seq(Q) /\ Len(f[n]) <= n /\ Range(f[n]) = Upto(n) \ S
                     /\ OnceBut(q, S) => IsInjective(f[n])
             T == {n \in Nat : n <= Len(q) => P(n)}
  <1>2. 0 \in T
    <2>1. <<>> \in Seq(Q) /\ Len(<<>>) = 0 /\ Range(<<>>) = {} /\ IsInjective(<<>>)
      BY DEF Range, IsInjective
    <2>2. Upto(0) = {} OBVIOUS
    <2> HIDE DEF Upto
    <2>3. f[0] \in Seq(Q) /\ Len(f[0]) <= 0 /\ IsInjective(f[0]) BY <1>1, <2>1
    <2>4. Range(f[0]) = Upto(0) \ S BY <1>1, <2>1, <2>2
    <2>5. P(0) BY <2>3, <2>4
    <2> QED BY <2>5
  <1>3. ASSUME NEW n \in T PROVE n + 1 \in T
    <2>1. SUFFICES ASSUME n + 1 <= Len(q) PROVE P(n + 1)
      OBVIOUS
    <2>2. P(n) /\ n \in Nat /\ n + 1 \in 1..Len(q) /\ q[n + 1] \in Q BY <2>1
    <2>3. Upto(n + 1) = Upto(n) \cup {q[n + 1]}
      <3>1. \A i \in 1..(n + 1) : i \in 1..n \/ i = n + 1 BY <2>2
      <3>2. \A i \in 1..n : i \in 1..(n + 1) BY <2>2
      <3> QED BY <2>2, <3>1, <3>2
    <2>4. OnceBut(q, S) /\ q[n + 1] \notin S => q[n + 1] \notin Upto(n)
      <3>1. \A i \in 1..n : i # n + 1 /\ i \in 1..Len(q) BY <2>2
      <3> QED BY <2>2, <3>1 DEF OnceBut
    <2>5. f[n + 1] = IF q[n + 1] \in S THEN f[n] ELSE Append(f[n], q[n + 1])
      <3>1. (n + 1) - 1 = n BY <2>2
      <3> QED BY <1>1, <2>2, <3>1
    <2> HIDE DEF Upto
    <2>6. CASE q[n + 1] \in S BY <2>2, <2>3, <2>5, <2>6
    <2>7. CASE q[n + 1] \notin S
      <3>1. f[n + 1] = Append(f[n], q[n + 1]) BY <2>5, <2>7
      <3>2. f[n + 1] \in Seq(Q) /\ Len(f[n + 1]) <= n + 1 BY <3>1, <2>2, AppendProperties
      <3>3. Range(f[n + 1]) = Upto(n + 1) \ S
        <4>1. Range(f[n + 1]) = Range(f[n]) \cup {q[n + 1]} BY <3>1, <2>2, AppendRange
        <4> QED BY <4>1, <2>2, <2>3, <2>7
      <3>4. ASSUME OnceBut(q, S) PROVE IsInjective(f[n + 1])
        <4>1. q[n + 1] \notin Range(f[n]) /\ IsInjective(f[n]) BY <3>4, <2>2, <2>4, <2>7
        <4> QED BY <4>1, <3>1, <2>2, AppendOnce
      <3> QED BY <3>2, <3>3, <3>4
    <2> QED BY <2>6, <2>7
  <1> HIDE DEF T, P
  <1>4. T = Nat
    <2>1. T \in SUBSET Nat BY DEF T
    <2> QED BY <1>2, <1>3, <2>1, NatInd
  <1>5. Len(q) \in Nat /\ P(Len(q)) BY <1>4 DEF T
  <1>6. Upto(Len(q)) = Range(q) BY RangeIs
  <1>7. IsInjective(q) => OnceBut(q, S) BY DEF IsInjective, OnceBut
  <1> QED BY <1>1, <1>5, <1>6, <1>7 DEF P

----------------------------------------------------------------------------
(* Contexts that grow by a token, and replies.                             *)
LEMMA TakeNext ==
  ASSUME NEW S, NEW s \in Seq(S), NEW k \in Nat, k < Len(s)
  PROVE  s[k + 1] \in S /\ Append(Take(s, k), s[k + 1]) = Take(s, k + 1)
PROOF
  <1>1. k \in 0..Len(s) /\ k + 1 \in 0..Len(s) /\ k + 1 \in 1..Len(s) OBVIOUS
  <1>2. s[k + 1] \in S BY <1>1
  <1>3. Take(s, k) \in Seq(S) /\ Len(Take(s, k)) = k /\ \A i \in 1..k : Take(s, k)[i] = s[i]
    BY <1>1, TakeIs
  <1>4. /\ Take(s, k + 1) \in Seq(S) /\ Len(Take(s, k + 1)) = k + 1
        /\ \A i \in 1..(k + 1) : Take(s, k + 1)[i] = s[i]
    BY <1>1, TakeIs
  <1>5. /\ Append(Take(s, k), s[k + 1]) \in Seq(S) /\ Len(Append(Take(s, k), s[k + 1])) = k + 1
        /\ \A i \in 1..k : Append(Take(s, k), s[k + 1])[i] = s[i]
        /\ Append(Take(s, k), s[k + 1])[k + 1] = s[k + 1]
    BY <1>2, <1>3, AppendProperties
  <1>6. \A i \in 1..(k + 1) : Append(Take(s, k), s[k + 1])[i] = Take(s, k + 1)[i]
    BY <1>4, <1>5
  <1> QED BY <1>2, <1>4, <1>5, <1>6, SeqEqual

(* A prefix of a prefix.                                                   *)
LEMMA TakePrefix ==
  ASSUME NEW S, NEW s \in Seq(S), NEW k \in 0..Len(s)
  PROVE  IsPrefix(Take(s, k), s)
BY TakeIs, PrefixIs

(* A reply that nothing has ended yet goes on: it asks for `limit` tokens  *)
(* at most, or ends with one of `stop`.                                    *)
LEMMA ReplyGoesOn ==
  ASSUME NEW S, NEW reply \in Seq(S), reply # <<>>, NEW limit \in Nat, NEW stop,
         Last(reply) \in stop \/ Len(reply) >= limit,
         NEW words \in Seq(S), IsPrefix(words, reply), Len(words) < limit,
         \A i \in 1..Len(words) : words[i] \notin stop
  PROVE  LET n == Len(words)
         IN /\ n \in 0..(Len(reply) - 1) /\ words = Take(reply, n)
            /\ reply[n + 1] \in S /\ IsPrefix(Append(words, reply[n + 1]), reply)
PROOF
  <1> DEFINE n == Len(words)
             m == Len(reply)
             t == reply[n + 1]
  <1>1. n \in Nat /\ m \in Nat /\ m # 0 /\ n <= m /\ words = Take(reply, n) BY PrefixIs
  <1>2. n # m
    <2>1. SUFFICES ASSUME n = m PROVE FALSE
      OBVIOUS
    <2>2. words = reply BY <1>1, <2>1, TakeAll
    <2>3. Last(reply) = words[n] /\ n \in 1..n BY <1>1, <2>1, <2>2 DEF Last
    <2>4. Last(reply) \notin stop BY <2>3
    <2>5. ~ (m >= limit) BY <1>1, <2>1
    <2> QED BY <2>4, <2>5
  <1>3. n < m /\ n \in 0..(m - 1) /\ n + 1 \in 0..m BY <1>1, <1>2
  <1>4. t \in S /\ Append(words, t) = Take(reply, n + 1) BY <1>1, <1>3, TakeNext
  <1>5. IsPrefix(Append(words, t), reply) BY <1>3, <1>4, TakePrefix
  <1> QED BY <1>1, <1>3, <1>4, <1>5

(* A list grows at its end.                                                *)
LEMMA AppendLast ==
  ASSUME NEW S, NEW p \in Seq(S), NEW words \in Seq(S), NEW t \in S
  PROVE  Append(p \o words, t) = p \o Append(words, t)
PROOF
  <1>1. <<t>> \in Seq(S) /\ p \o words \in Seq(S) OBVIOUS
  <1>2. Append(p \o words, t) = (p \o words) \o <<t>> BY <1>1, AppendIsConcat
  <1>3. Append(words, t) = words \o <<t>> BY AppendIsConcat
  <1> QED BY <1>1, <1>2, <1>3, ConcatAssociative

LEMMA PrefixGrows ==
  ASSUME NEW S, NEW s \in Seq(S), NEW t \in Seq(S), IsPrefix(s, t), NEW x \in S
  PROVE  Append(t, x) \in Seq(S) /\ IsPrefix(s, Append(t, x))
PROOF
  <1>1. Len(s) <= Len(t) /\ s = Take(t, Len(s)) /\ Len(s) \in 0..Len(t) BY PrefixIs
  <1>2. /\ Append(t, x) \in Seq(S) /\ Len(Append(t, x)) = Len(t) + 1
        /\ \A i \in 1..Len(t) : Append(t, x)[i] = t[i]
    BY AppendProperties
  <1>3. Len(s) \in 0..Len(Append(t, x)) BY <1>1, <1>2
  <1>4. /\ Take(Append(t, x), Len(s)) \in Seq(S) /\ Len(Take(Append(t, x), Len(s))) = Len(s)
        /\ \A i \in 1..Len(s) : Take(Append(t, x), Len(s))[i] = Append(t, x)[i]
    BY <1>2, <1>3, TakeIs
  <1>5. \A i \in 1..Len(s) : s[i] = t[i] /\ i \in 1..Len(t) BY <1>1, TakeIs
  <1>6. Take(Append(t, x), Len(s)) = s BY <1>2, <1>4, <1>5, SeqEqual
  <1> DEFINE u == Append(t, x)
  <1>7. u \in Seq(S) /\ Len(s) <= Len(u) /\ s = Take(u, Len(s)) BY <1>2, <1>3, <1>6
  <1> HIDE DEF u
  <1>8. IsPrefix(s, u) BY <1>7, PrefixIs
  <1> QED BY <1>7, <1>8 DEF u

(* A queue cut in two.                                                     *)
LEMMA SplitIs ==
  ASSUME NEW S, NEW s \in Seq(S), NEW k \in 0..Len(s)
  PROVE  LET front == Take(s, k)
             rest  == SubSeq(s, k + 1, Len(s))
         IN /\ front \in Seq(S) /\ rest \in Seq(S) /\ front \o rest = s
            /\ Range(s) = Range(front) \cup Range(rest)
            /\ IsInjective(s) => /\ IsInjective(front) /\ IsInjective(rest)
                                 /\ Range(front) \cap Range(rest) = {}
PROOF
  <1> DEFINE front == Take(s, k)
             rest == SubSeq(s, k + 1, Len(s))
  <1>1. front \in Seq(S) /\ rest \in Seq(S)
    <2>1. front \in Seq(S) BY TakeIs
    <2> DEFINE b == Len(s) - k
    <2>2. k \in Nat /\ b \in Nat /\ k + b =< Len(s) /\ k + b = Len(s) OBVIOUS
    <2> HIDE DEF b
    <2>3. SubSeq(s, k + 1, k + b) \in Seq(S) BY <2>2, SubSeqIs
    <2> QED BY <2>1, <2>2, <2>3
  <1>2. front \o rest = s
    <2>1. 1 \in 1..(Len(s) + 1) /\ k \in (1 - 1)..Len(s) /\ Len(s) \in k..Len(s) OBVIOUS
    <2>2. SubSeq(s, 1, k) \o SubSeq(s, k + 1, Len(s)) = SubSeq(s, 1, Len(s))
      BY <2>1, ConcatAdjacentSubSeq, Zenon
    <2>3. SubSeq(s, 1, Len(s)) = s BY SubSeqFull
    <2> QED BY <2>2, <2>3, Zenon DEF Take
  <1> HIDE DEF front, rest
  <1>3. /\ Range(front \o rest) = Range(front) \cup Range(rest)
        /\ IsInjective(front \o rest) <=> IsInjective(front) /\ IsInjective(rest) /\ Range(front) \cap Range(rest) = {}
    BY <1>1, ConcatOnce, Zenon
  <1> QED BY <1>1, <1>2, <1>3, Zenon DEF front, rest

LEMMA SeqWithin ==
  ASSUME NEW S, NEW T, NEW s \in Seq(S), Range(s) \subseteq T
  PROVE  s \in Seq(T)
PROOF
  <1>1. \A i \in 1..Len(s) : s[i] \in T BY RangeIs
  <1>2. s = [i \in 1..Len(s) |-> s[i]] OBVIOUS
  <1> QED BY <1>1, <1>2

LEMMA MinMax ==
  ASSUME NEW a \in Int, NEW b \in Int
  PROVE  /\ Min({a, b}) \in {a, b} /\ Min({a, b}) <= a /\ Min({a, b}) <= b
         /\ Max({a, b}) \in {a, b} /\ Max({a, b}) >= a /\ Max({a, b}) >= b
PROOF
  <1>1. \E x \in {a, b} : \A y \in {a, b} : x <= y BY a <= b \/ b <= a
  <1>2. \E x \in {a, b} : \A y \in {a, b} : x >= y BY a <= b \/ b <= a
  <1>3. Min({a, b}) \in {a, b} /\ \A y \in {a, b} : Min({a, b}) <= y BY <1>1 DEF Min
  <1>4. Max({a, b}) \in {a, b} /\ \A y \in {a, b} : Max({a, b}) >= y BY <1>2 DEF Max
  <1> QED BY <1>3, <1>4

LEMMA MaxThree ==
  ASSUME NEW a \in Int, NEW b \in Int, NEW c \in Int
  PROVE  LET m == Max({a, b, c}) IN m \in {a, b, c} /\ m >= a /\ m >= b /\ m >= c
PROOF
  <1> DEFINE A == {a, b, c}
  <1>1. \E x \in A : \A y \in A : x >= y
    <2>1. CASE a >= b /\ a >= c BY <2>1
    <2>2. CASE b >= a /\ b >= c BY <2>2
    <2>3. CASE c >= a /\ c >= b BY <2>3
    <2> HIDE DEF A
    <2> QED BY <2>1, <2>2, <2>3
  <1>2. Max(A) \in A /\ \A y \in A : Max(A) >= y BY <1>1 DEF Max
  <1> QED BY <1>2
----------------------------------------------------------------------------
(* FlattenSeq(ss) by steps: the first n lists in one.                      *)
FlatStep(f, n, ss) == IF n = 1 THEN ss[n] ELSE f[n - 1] \o ss[n]
IsFlat(f, m, ss) == f = [n \in 1..m |-> FlatStep(f, n, ss)]

LEMMA FlatExists ==
  ASSUME NEW ss, NEW m \in Nat
  PROVE  \E f : IsFlat(f, m, ss)
PROOF
  <1> DEFINE T == {k \in Nat : \E f : IsFlat(f, k, ss)}
  <1>1. 0 \in T
    <2> DEFINE f == [n \in 1..0 |-> <<>>]
    <2>1. IsFlat(f, 0, ss) BY DEF IsFlat
    <2> QED BY <2>1
  <1>2. ASSUME NEW k \in T PROVE k + 1 \in T
    <2>1. PICK f : IsFlat(f, k, ss) OBVIOUS
    <2> DEFINE g == [n \in 1..(k + 1) |-> IF n = k + 1 THEN FlatStep(f, k + 1, ss) ELSE f[n]]
    <2>2. \A n \in 1..k : g[n] = f[n] OBVIOUS
    <2>3. ASSUME NEW n \in 1..(k + 1) PROVE g[n] = FlatStep(g, n, ss)
      <3>1. n = 1 \/ n - 1 \in 1..k OBVIOUS
      <3>2. FlatStep(g, n, ss) = FlatStep(f, n, ss)
        <4>1. CASE n = 1 BY <4>1 DEF FlatStep
        <4>2. CASE n - 1 \in 1..k
          <5>1. g[n - 1] = f[n - 1] BY <4>2, <2>2
          <5> HIDE DEF g
          <5> QED BY <5>1 DEF FlatStep
        <4> QED BY <3>1, <4>1, <4>2
      <3>3. CASE n = k + 1 BY <3>2, <3>3
      <3>4. CASE n \in 1..k
        <4>1. f[n] = FlatStep(f, n, ss) BY <3>4, <2>1 DEF IsFlat
        <4> QED BY <4>1, <3>2, <3>4, <2>2
      <3> QED BY <3>3, <3>4
    <2>4. g = [n \in 1..(k + 1) |-> g[n]] OBVIOUS
    <2> HIDE DEF g
    <2>5. [n \in 1..(k + 1) |-> g[n]] = [n \in 1..(k + 1) |-> FlatStep(g, n, ss)] BY <2>3
    <2>6. IsFlat(g, k + 1, ss) BY <2>4, <2>5 DEF IsFlat
    <2> QED BY <2>6
  <1> HIDE DEF T
  <1>3. T = Nat
    <2>1. T \in SUBSET Nat BY DEF T
    <2> QED BY <1>1, <1>2, <2>1, NatInd
  <1> QED BY <1>3 DEF T

LEMMA FlattenSteps ==
  ASSUME NEW S, NEW ss \in Seq(S), Len(ss) # 0
  PROVE  \E f : /\ FlattenSeq(ss) = f[Len(ss)]
                /\ f[1] = ss[1]
                /\ \A n \in 2..Len(ss) : f[n] = f[n - 1] \o ss[n]
PROOF
  <1> DEFINE f == CHOOSE h : IsFlat(h, Len(ss), ss)
  <1>1. Len(ss) \in Nat OBVIOUS
  <1>2. IsFlat(f, Len(ss), ss) BY <1>1, FlatExists
  <1>3. FlattenSeq(ss) = f[Len(ss)] BY DEF FlattenSeq, IsFlat, FlatStep
  <1> HIDE DEF f
  <1>4. \A n \in 1..Len(ss) : f[n] = FlatStep(f, n, ss) BY <1>2 DEF IsFlat
  <1>5. f[1] = ss[1] BY <1>1, <1>4 DEF FlatStep
  <1>6. \A n \in 2..Len(ss) : n \in 1..Len(ss) /\ n # 1 BY <1>1
  <1>7. \A n \in 2..Len(ss) : f[n] = f[n - 1] \o ss[n] BY <1>4, <1>6 DEF FlatStep
  <1> QED BY <1>3, <1>5, <1>7

(* What two lists, or some, have in one.                                   *)
LEMMA ConcatSet ==
  ASSUME NEW S, NEW s \in Seq(S), NEW t \in Seq(S)
  PROVE  s \o t \in Seq(S) /\ ToSet(s \o t) = ToSet(s) \cup ToSet(t)
PROOF
  <1>1. \A u : ToSet(u) = Range(u) BY DEF ToSet, Range
  <1>2. s \o t \in Seq(S) OBVIOUS
  <1> QED BY <1>1, <1>2, RangeConcatenation
=============================================================================
