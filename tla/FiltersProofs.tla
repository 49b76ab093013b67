---------------------------- MODULE FiltersProofs ----------------------------
(***************************************************************************)
(* What Filter returns, for every sequence and set: by induction over the  *)
(* part of the sequence that has been read.                                *)
(***************************************************************************)
EXTENDS Filters, Functions, TLAPS, WellFoundedInduction

\* The order of the natural numbers.
Below == {pair \in Nat \X Nat : pair[1] < pair[2]}

LEMMA BelowIsWellFounded == IsWellFoundedOn(Below, Nat)
BY NatLessThanWellFounded, Zenon DEF Below, OpToRel

\* Induction, in a form without an operator: a set of numbers that is not empty has
\* a least one.
LEMMA LeastNumber ==
  ASSUME NEW T, T \subseteq Nat, T # {}
  PROVE  \E x \in T : \A y \in T : x <= y
<1>1. PICK x \in T : \A y \in T : <<y, x>> \notin Below
  BY BelowIsWellFounded, WFMin
<1>2. ASSUME NEW y \in T PROVE x <= y
  <2>1. <<y, x>> \in Nat \X Nat /\ <<y, x>>[1] = y /\ <<y, x>>[2] = x
    OBVIOUS
  <2>2. ~(y < x)
    BY <1>1, <2>1 DEF Below
  <2> QED
    BY <2>2
<1> QED
  BY <1>2

\* What holds of 0, and of n + 1 if of n, holds up to any bound.
LEMMA Induction ==
  ASSUME NEW N \in Nat, NEW T \in SUBSET (0..N), 0 \in T,
         \A n \in 0..N - 1 : n \in T => n + 1 \in T
  PROVE  T = 0..N
<1> SUFFICES ASSUME (0..N) \ T # {} PROVE FALSE
  OBVIOUS
<1> DEFINE U == (0..N) \ T
<1>1. PICK x \in U : \A y \in U : x <= y
  <2>1. U \subseteq Nat /\ U # {}
    OBVIOUS
  <2> HIDE DEF U
  <2> QED
    BY <2>1, LeastNumber
<1>2. x - 1 \in 0..N - 1 /\ x - 1 \in T
  BY <1>1
<1> QED
  BY <1>1, <1>2
-----------------------------------------------------------------------------
\* A sequence of whatever is in it.
Listed(s) == s \in Seq(Range(s))

LEMMA ListedFacts ==
  ASSUME NEW S, NEW s \in Seq(S)
  PROVE  Listed(s) /\ Range(s) \subseteq S
<1>1. Range(s) \subseteq S /\ s = [i \in 1..Len(s) |-> s[i]] /\ Len(s) \in Nat
  BY DEF Range
<1>2. \A i \in 1..Len(s) : s[i] \in Range(s)
  BY DEF Range
<1> QED
  BY <1>1, <1>2 DEF Listed

LEMMA AppendFacts ==
  ASSUME NEW S, NEW list \in Seq(S), NEW x \in S
  PROVE  Range(Append(list, x)) = Range(list) \cup {x}
<1>1. /\ DOMAIN Append(list, x) = DOMAIN list \cup {Len(list) + 1}
      /\ Append(list, x)[Len(list) + 1] = x
      /\ \A i \in DOMAIN list : Append(list, x)[i] = list[i]
  OBVIOUS
<1> QED
  BY <1>1 DEF Range

LEMMA AppendListed ==
  ASSUME NEW list, Listed(list), NEW x
  PROVE  Listed(Append(list, x)) /\ Range(Append(list, x)) = Range(list) \cup {x}
<1> DEFINE S == Range(list) \cup {x}
<1>1. list \in Seq(S) /\ x \in S
  BY DEF Listed
<1> HIDE DEF S
<1>2. Append(list, x) \in Seq(S)
  BY <1>1
<1>3. Listed(Append(list, x))
  BY <1>2, ListedFacts
<1>4. Range(Append(list, x)) = Range(list) \cup {x}
  BY <1>1, AppendFacts
<1> QED
  BY <1>3, <1>4

LEMMA ConcatFacts ==
  ASSUME NEW S, NEW a \in Seq(S), NEW b \in Seq(S)
  PROVE  a \o b \in Seq(S) /\ Range(a \o b) = Range(a) \cup Range(b)
<1>1. /\ DOMAIN (a \o b) = 1..Len(a) + Len(b)
      /\ \A i \in 1..Len(a) : (a \o b)[i] = a[i]
      /\ \A i \in 1..Len(b) : (a \o b)[Len(a) + i] = b[i]
      /\ DOMAIN a = 1..Len(a) /\ DOMAIN b = 1..Len(b) /\ Len(a) \in Nat /\ Len(b) \in Nat
  OBVIOUS
<1>2. ASSUME NEW i \in 1..Len(a) + Len(b) PROVE (a \o b)[i] \in Range(a) \cup Range(b)
  <2>1. CASE i \in 1..Len(a)
    BY <1>1, <2>1 DEF Range
  <2>2. CASE i \notin 1..Len(a)
    <3>1. i - Len(a) \in 1..Len(b) /\ Len(a) + (i - Len(a)) = i
      BY <1>1, <2>2
    <3>2. (a \o b)[i] = b[i - Len(a)]
      BY <1>1, <3>1
    <3> QED
      BY <1>1, <3>1, <3>2 DEF Range
  <2> QED
    BY <2>1, <2>2
<1>3. Range(a) \subseteq Range(a \o b)
  BY <1>1 DEF Range
<1>4. ASSUME NEW i \in 1..Len(b) PROVE b[i] \in Range(a \o b)
  <2>1. Len(a) + i \in 1..Len(a) + Len(b)
    BY <1>1
  <2> QED
    BY <1>1, <2>1 DEF Range
<1>5. Range(b) \subseteq Range(a \o b)
  BY <1>1, <1>4 DEF Range
<1>6. Range(a \o b) \subseteq Range(a) \cup Range(b)
  BY <1>1, <1>2 DEF Range
<1> QED
  BY <1>3, <1>5, <1>6
-----------------------------------------------------------------------------
Kept(s, P, n, f) ==
  f = [m \in 0..n |-> IF m = 0 THEN <<>>
                      ELSE IF s[m] \in P THEN Append(f[m - 1], s[m]) ELSE f[m - 1]]

LEMMA KeptExists ==
  ASSUME NEW s, Len(s) \in Nat, NEW P
  PROVE  \E f : Kept(s, P, Len(s), f)
<1> DEFINE T == {n \in 0..Len(s) : \E f : Kept(s, P, n, f)}
<1>1. 0 \in T
  <2>1. Kept(s, P, 0, [m \in 0..0 |-> <<>>])
    BY DEF Kept
  <2> QED
    BY <2>1
<1>2. ASSUME NEW n \in 0..Len(s) - 1, n \in T PROVE n + 1 \in T
  <2>1. PICK f : Kept(s, P, n, f)
    BY <1>2
  <2> DEFINE g == [m \in 0..n + 1 |->
                     IF m <= n THEN f[m]
                     ELSE IF s[m] \in P THEN Append(f[m - 1], s[m]) ELSE f[m - 1]]
  <2>2. \A m \in 0..n : f[m] = IF m = 0 THEN <<>>
                      ELSE IF s[m] \in P THEN Append(f[m - 1], s[m]) ELSE f[m - 1]
    BY <2>1 DEF Kept
  <2>3. ASSUME NEW m \in 0..n + 1
        PROVE g[m] = IF m = 0 THEN <<>>
                      ELSE IF s[m] \in P THEN Append(g[m - 1], s[m]) ELSE g[m - 1]
    <3>1. CASE m <= n
      BY <2>2, <3>1
    <3>2. CASE m = n + 1
      BY <2>2, <3>2
    <3> QED
      BY <3>1, <3>2
  <2>4. Kept(s, P, n + 1, g)
    <3> HIDE DEF g
    <3>1. g = [m \in 0..n + 1 |-> g[m]]
      BY DEF g
    <3> QED
      BY <3>1, <2>3 DEF Kept
  <2> QED
    BY <2>4
<1> HIDE DEF T
<1>3. T = 0..Len(s)
  BY <1>1, <1>2, Induction DEF T
<1> QED
  BY <1>3 DEF T

\* The result is a sequence of the elements of s that are in P, no longer than s.
LEMMA FilterFacts ==
  ASSUME NEW S, NEW s \in Seq(S), NEW P
  PROVE  /\ Filter(s, P) \in Seq(S)
         /\ Range(Filter(s, P)) = Range(s) \cap P
         /\ Len(Filter(s, P)) <= Len(s)
<1> DEFINE f == CHOOSE f : Kept(s, P, Len(s), f)
<1>1. Filter(s, P) = f[Len(s)]
  BY DEF Filter, Kept
<1>2. Len(s) \in Nat
  OBVIOUS
<1>3. Kept(s, P, Len(s), f)
  BY <1>2, KeptExists
<1> HIDE DEF f
<1>4. /\ f[0] = <<>>
      /\ \A n \in 0..Len(s) - 1 :
           f[n + 1] = IF s[n + 1] \in P THEN Append(f[n], s[n + 1]) ELSE f[n]
  <2>1. ASSUME NEW m \in 0..Len(s)
        PROVE  f[m] = IF m = 0 THEN <<>>
                      ELSE IF s[m] \in P THEN Append(f[m - 1], s[m]) ELSE f[m - 1]
    BY <1>3 DEF Kept
  <2>2. f[0] = <<>>
    BY <1>2, <2>1
  <2>3. ASSUME NEW n \in 0..Len(s) - 1
        PROVE  f[n + 1] = IF s[n + 1] \in P THEN Append(f[n], s[n + 1]) ELSE f[n]
    <3>1. n + 1 \in 0..Len(s) /\ n + 1 # 0 /\ (n + 1) - 1 = n
      BY <1>2
    <3> QED
      BY <2>1, <3>1
  <2> QED
    BY <2>2, <2>3
<1> DEFINE Front(n) == {s[i] : i \in 1..n}
           Good(n) == /\ f[n] \in Seq(S)
                      /\ Range(f[n]) = Front(n) \cap P
                      /\ Len(f[n]) <= n
           T == {n \in 0..Len(s) : Good(n)}
<1>9. /\ Front(0) = {} /\ Front(Len(s)) = Range(s)
      /\ \A n \in 0..Len(s) - 1 : Front(n + 1) = Front(n) \cup {s[n + 1]}
  <2>1. Front(Len(s)) = Range(s)
    BY DEF Range
  <2>2. ASSUME NEW n \in 0..Len(s) - 1 PROVE Front(n + 1) = Front(n) \cup {s[n + 1]}
    BY <1>2
  <2> QED
    BY <2>1, <2>2
<1> HIDE DEF Front
<1>5. 0 \in T
  <2>1. Range(<<>>) = {}
    BY DEF Range
  <2>2. Good(0)
    BY <1>4, <2>1, <1>9
  <2> QED
    BY <1>2, <2>2
<1>6. ASSUME NEW n \in 0..Len(s) - 1, n \in T PROVE n + 1 \in T
  <2>1. n + 1 \in 1..Len(s) /\ s[n + 1] \in S
    OBVIOUS
  <2>2. Front(n + 1) = Front(n) \cup {s[n + 1]}
    BY <1>9
  <2>3. CASE s[n + 1] \in P
    <3>1. f[n + 1] = Append(f[n], s[n + 1])
      BY <1>4, <2>3
    <3>2. Good(n)
      BY <1>6
    <3>3. Range(Append(f[n], s[n + 1])) = Range(f[n]) \cup {s[n + 1]}
      BY <2>1, <3>2, AppendFacts
    <3>4. Append(f[n], s[n + 1]) \in Seq(S) /\ Len(Append(f[n], s[n + 1])) <= n + 1
      BY <2>1, <3>2
    <3>5. Good(n + 1)
      BY <2>2, <2>3, <3>1, <3>2, <3>3, <3>4
    <3> QED
      BY <2>1, <3>5
  <2>4. CASE s[n + 1] \notin P
    BY <1>6, <1>4, <2>1, <2>2, <2>4
  <2> QED
    BY <2>3, <2>4
<1> HIDE DEF T
<1>7. T = 0..Len(s)
  BY <1>2, <1>5, <1>6, Induction DEF T
<1>8. Good(Len(s))
  BY <1>2, <1>7 DEF T
<1> QED
  BY <1>1, <1>8, <1>9
=============================================================================
