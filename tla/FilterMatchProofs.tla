-------------------------- MODULE FilterMatchProofs ---------------------------
(***************************************************************************)
(* The clause of CheckFilter against the substring search it stands for,   *)
(* for texts of any length.                                                *)
(*                                                                         *)
(* LIKE and escapeLike are computed by recursive functions.  Each is shown *)
(* to have the value its definition says by induction on the part computed *)
(* so far, and so is what it computes; SetInduction is induction over the  *)
(* naturals that form a set.                                               *)
(***************************************************************************)
EXTENDS FilterMatch, TLAPS, WellFoundedInduction, SequenceTheorems

LessThan == {ss \in Nat \X Nat : ss[1] < ss[2]}

LEMMA LessThanWellFounded == IsWellFoundedOn(LessThan, Nat)
BY NatLessThanWellFounded DEF OpToRel, LessThan

LEMMA SetInduction ==
  ASSUME NEW S \in SUBSET Nat, 0 \in S, \A n \in S : n + 1 \in S
  PROVE  \A n \in Nat : n \in S
<1> SUFFICES ASSUME Nat \ S # {} PROVE FALSE
  OBVIOUS
<1>1. PICK x \in Nat \ S : \A y \in Nat \ S : ~ (<<y, x>> \in LessThan)
  BY LessThanWellFounded, WFMin
<1>2. x # 0 /\ x - 1 \in Nat /\ x - 1 < x
  OBVIOUS
<1>3. x - 1 \in S
  BY <1>1, <1>2 DEF LessThan
<1> QED
  BY <1>2, <1>3

-----------------------------------------------------------------------------
(* LIKE *)

(* One column of the table of Like, made from those to its right. *)
Column(f, s, p, j) ==
  {i \in 1..Len(s) + 1 :
     \/ j > Len(p) /\ i > Len(s)
     \/ j <= Len(p) /\ p[j] = "%" /\ \E k \in f[j + 1] : i <= k
     \/ j <= Len(p) /\ p[j] = "_" /\ i <= Len(s) /\ i + 1 \in f[j + 1]
     \/ /\ j < Len(p) /\ p[j] = "\\"
        /\ i <= Len(s) /\ s[i] = p[j + 1] /\ i + 1 \in f[j + 2]
     \/ /\ j <= Len(p) /\ p[j] \notin Special
        /\ i <= Len(s) /\ s[i] = p[j] /\ i + 1 \in f[j + 1]}

LEMMA ColumnDepends ==
  ASSUME NEW f, NEW g, NEW s, NEW p, NEW j,
         j <= Len(p) => f[j + 1] = g[j + 1],
         j < Len(p) => f[j + 2] = g[j + 2]
  PROVE  Column(f, s, p, j) = Column(g, s, p, j)
BY DEF Column

(* f is the table of Like for s and p. *)
IsTable(f, s, p) == f = [j \in 1..Len(p) + 1 |-> Column(f, s, p, j)]

(* There is a table all of whose columns are as they should be. *)
LEMMA TableExists ==
  ASSUME NEW s, NEW p, Len(p) \in Nat
  PROVE  \E f : IsTable(f, s, p)
<1> DEFINE n == Len(p)
           From(f, d) == \A j \in 1..n + 1 : j > n - d => f[j] = Column(f, s, p, j)
           S == {d \in Nat : d <= n => \E f : DOMAIN f = 1..n + 1 /\ From(f, d)}
<1>1. 0 \in S
  <2> DEFINE g == [j \in 1..n + 1 |-> Column(<<>>, s, p, n + 1)]
  <2>1. DOMAIN g = 1..n + 1 /\ g[n + 1] = Column(<<>>, s, p, n + 1)
    OBVIOUS
  <2>2. Column(<<>>, s, p, n + 1) = Column(g, s, p, n + 1)
    BY ColumnDepends
  <2> HIDE DEF g
  <2>3. From(g, 0)
    BY <2>1, <2>2
  <2> QED
    BY <2>1, <2>3
<1>2. ASSUME NEW d \in S PROVE d + 1 \in S
  <2> SUFFICES ASSUME d + 1 <= n
               PROVE  \E f : DOMAIN f = 1..n + 1 /\ From(f, d + 1)
    OBVIOUS
  <2>1. PICK f : DOMAIN f = 1..n + 1 /\ From(f, d)
    BY <1>2
  <2> DEFINE c == n - d
             g == [j \in 1..n + 1 |-> IF j = c THEN Column(f, s, p, c) ELSE f[j]]
  <2>2. /\ c \in 1..n /\ DOMAIN g = 1..n + 1
        /\ g[c] = Column(f, s, p, c)
        /\ \A j \in 1..n + 1 : j # c => g[j] = f[j]
    OBVIOUS
  <2> HIDE DEF g
  <2>3. ASSUME NEW j \in 1..n + 1, j > n - (d + 1)
        PROVE  g[j] = Column(g, s, p, j)
    <3>1. j >= c
      BY <2>3
    <3>2. /\ j <= n => g[j + 1] = f[j + 1]
          /\ j < n => g[j + 2] = f[j + 2]
      <4>1. /\ j <= n => j + 1 \in 1..n + 1 /\ j + 1 # c
            /\ j < n => j + 2 \in 1..n + 1 /\ j + 2 # c
        BY <2>2, <3>1
      <4> HIDE DEF c, n
      <4> QED
        BY <2>2, <4>1
    <3>3. Column(g, s, p, j) = Column(f, s, p, j)
      BY <3>2, ColumnDepends
    <3>4. CASE j = c
      BY <2>2, <3>3, <3>4
    <3>5. CASE j # c
      BY <2>1, <2>2, <3>1, <3>3, <3>5
    <3> QED
      BY <3>4, <3>5
  <2> QED
    BY <2>2, <2>3
<1>3. n \in S
  <2> HIDE DEF S
  <2>1. S \in SUBSET Nat
    BY DEF S
  <2> QED
    BY <1>1, <1>2, <2>1, SetInduction
<1>4. PICK f : DOMAIN f = 1..n + 1 /\ From(f, n)
  BY <1>3
<1> DEFINE g == [j \in 1..n + 1 |-> f[j]]
<1>5. \A j \in 1..n + 1 : g[j] = f[j] /\ f[j] = Column(f, s, p, j)
  BY <1>4
<1>6. \A j \in 1..n + 1 : Column(f, s, p, j) = Column(g, s, p, j)
  <2> SUFFICES ASSUME NEW j \in 1..n + 1 PROVE Column(f, s, p, j) = Column(g, s, p, j)
    OBVIOUS
  <2>1. /\ j <= n => f[j + 1] = g[j + 1]
        /\ j < n => f[j + 2] = g[j + 2]
    BY <1>5
  <2> QED
    BY <2>1, ColumnDepends
<1>7. g = [j \in 1..n + 1 |-> Column(g, s, p, j)]
  BY <1>5, <1>6
<1> QED
  BY <1>7 DEF IsTable

LEMMA LikeIs ==
  ASSUME NEW s, NEW p, Len(p) \in Nat
  PROVE  \E f : /\ \A j \in 1..Len(p) + 1 : f[j] = Column(f, s, p, j)
                /\ Like(s, p) <=> 1 \in f[1]
<1> DEFINE From[j \in 1..Len(p) + 1] ==
        {i \in 1..Len(s) + 1 :
           \/ j > Len(p) /\ i > Len(s)
           \/ j <= Len(p) /\ p[j] = "%" /\ \E k \in From[j + 1] : i <= k
           \/ j <= Len(p) /\ p[j] = "_" /\ i <= Len(s) /\ i + 1 \in From[j + 1]
           \/ /\ j < Len(p) /\ p[j] = "\\"
              /\ i <= Len(s) /\ s[i] = p[j + 1] /\ i + 1 \in From[j + 2]
           \/ /\ j <= Len(p) /\ p[j] \notin Special
              /\ i <= Len(s) /\ s[i] = p[j] /\ i + 1 \in From[j + 1]}
<1>1. Like(s, p) <=> 1 \in From[1]
  BY DEF Like
<1>2. From = CHOOSE f : IsTable(f, s, p)
  BY DEF Column, IsTable
<1> HIDE DEF From
<1>3. IsTable(From, s, p)
  <2>1. \E f : IsTable(f, s, p)
    BY TableExists
  <2> QED
    BY <1>2, <2>1, Zenon
<1>4. \A j \in 1..Len(p) + 1 : From[j] = Column(From, s, p, j)
  BY <1>3 DEF IsTable
<1> QED
  BY <1>1, <1>4

-----------------------------------------------------------------------------
(* FlattenSeq *)

(* One entry of the table of FlattenSeq, made from the one before it. *)
Joined(f, u, i) == IF i = 1 THEN u[i] ELSE f[i - 1] \o u[i]

(* f is the table of FlattenSeq for the n sequences of u. *)
IsJoin(f, u, n) == f = [i \in 1..n |-> Joined(f, u, i)]

LEMMA JoinExists ==
  ASSUME NEW u, NEW n \in Nat, n > 0
  PROVE  \E f : IsJoin(f, u, n)
<1> DEFINE Flat(f, d) == \A i \in 1..n : i <= d => f[i] = Joined(f, u, i)
           S == {d \in Nat : d <= n => \E f : DOMAIN f = 1..n /\ Flat(f, d)}
<1>1. 0 \in S
  <2> DEFINE g == [i \in 1..n |-> u]
  <2>1. DOMAIN g = 1..n /\ Flat(g, 0)
    OBVIOUS
  <2> QED
    BY <2>1
<1>2. ASSUME NEW d \in S PROVE d + 1 \in S
  <2> SUFFICES ASSUME d + 1 <= n
               PROVE  \E f : DOMAIN f = 1..n /\ Flat(f, d + 1)
    OBVIOUS
  <2>1. PICK f : DOMAIN f = 1..n /\ Flat(f, d)
    BY <1>2
  <2> DEFINE c == d + 1
             g == [i \in 1..n |-> IF i = c THEN Joined(f, u, c) ELSE f[i]]
  <2>2. /\ c \in 1..n /\ DOMAIN g = 1..n
        /\ g[c] = Joined(f, u, c)
        /\ \A i \in 1..n : i # c => g[i] = f[i]
    OBVIOUS
  <2> HIDE DEF g
  <2>3. ASSUME NEW i \in 1..n, i <= c
        PROVE  g[i] = Joined(g, u, i)
    <3>1. i # 1 => i - 1 \in 1..n /\ i - 1 # c
      BY <2>3
    <3>2. Joined(g, u, i) = Joined(f, u, i)
      BY <2>2, <3>1 DEF Joined
    <3>3. CASE i = c
      BY <2>2, <3>2, <3>3
    <3>4. CASE i # c
      BY <2>1, <2>2, <2>3, <3>2, <3>4
    <3> QED
      BY <3>3, <3>4
  <2> QED
    BY <2>2, <2>3
<1>3. n \in S
  <2> HIDE DEF S
  <2>1. S \in SUBSET Nat
    BY DEF S
  <2> QED
    BY <1>1, <1>2, <2>1, SetInduction
<1>4. PICK f : DOMAIN f = 1..n /\ Flat(f, n)
  BY <1>3
<1> DEFINE g == [i \in 1..n |-> f[i]]
<1>5. \A i \in 1..n : g[i] = f[i] /\ f[i] = Joined(f, u, i)
  BY <1>4
<1>6. \A i \in 1..n : Joined(f, u, i) = Joined(g, u, i)
  <2> SUFFICES ASSUME NEW i \in 1..n PROVE Joined(f, u, i) = Joined(g, u, i)
    OBVIOUS
  <2>1. i # 1 => f[i - 1] = g[i - 1]
    BY <1>5
  <2> QED
    BY <2>1 DEF Joined
<1>7. g = [i \in 1..n |-> Joined(g, u, i)]
  BY <1>5, <1>6
<1> QED
  BY <1>7 DEF IsJoin

LEMMA FlattenIs ==
  ASSUME NEW u, Len(u) \in Nat, Len(u) > 0
  PROVE  \E f : /\ \A i \in 1..Len(u) : f[i] = Joined(f, u, i)
                /\ FlattenSeq(u) = f[Len(u)]
<1> DEFINE flatten[i \in 1..Len(u)] == IF i = 1 THEN u[i] ELSE flatten[i-1] \o u[i]
<1>1. FlattenSeq(u) = flatten[Len(u)]
  BY DEF FlattenSeq
<1>2. flatten = CHOOSE f : IsJoin(f, u, Len(u))
  BY DEF Joined, IsJoin
<1> HIDE DEF flatten
<1>3. IsJoin(flatten, u, Len(u))
  <2>1. \E f : IsJoin(f, u, Len(u))
    BY JoinExists
  <2> QED
    BY <1>2, <2>1, Zenon
<1>4. \A i \in 1..Len(u) : flatten[i] = Joined(flatten, u, i)
  BY <1>3 DEF IsJoin
<1> QED
  BY <1>1, <1>4

-----------------------------------------------------------------------------
(* Occurrences *)

Small(c) == IF c = "A" THEN "a" ELSE c

(* The first m characters of q end at position i of x, in upper or lower case. *)
EndsAt(x, i, q, m) == m <= i /\ \A k \in 1..m : Small(x[i - m + k]) = q[k]

(* q occurs within the first i characters of x. *)
OccursBy(x, i, q) == \E a \in 0..i : EndsAt(x, a, q, Len(q))

(* One more character: what ends there goes on from what ended before it.   *)
LEMMA OneMore ==
  ASSUME NEW x, NEW i \in Nat, NEW q, NEW m \in Nat
  PROVE  EndsAt(x, i + 1, q, m + 1) <=> EndsAt(x, i, q, m) /\ Small(x[i + 1]) = q[m + 1]
<1>1. ASSUME EndsAt(x, i + 1, q, m + 1)
      PROVE  EndsAt(x, i, q, m) /\ Small(x[i + 1]) = q[m + 1]
  <2>1. \A k \in 1..m + 1 : Small(x[(i + 1) - (m + 1) + k]) = q[k]
    BY <1>1 DEF EndsAt
  <2>2. \A k \in 1..m + 1 : (i + 1) - (m + 1) + k = i - m + k
    OBVIOUS
  <2>3. \A k \in 1..m + 1 : Small(x[i - m + k]) = q[k]
    BY <2>1, <2>2
  <2>4. i - m + (m + 1) = i + 1 /\ m + 1 \in 1..m + 1
    OBVIOUS
  <2> QED
    BY <1>1, <2>3, <2>4 DEF EndsAt
<1>2. ASSUME EndsAt(x, i, q, m), Small(x[i + 1]) = q[m + 1]
      PROVE  EndsAt(x, i + 1, q, m + 1)
  <2> SUFFICES ASSUME NEW k \in 1..m + 1
               PROVE  Small(x[(i + 1) - (m + 1) + k]) = q[k]
    BY <1>2 DEF EndsAt
  <2>1. (i + 1) - (m + 1) + k = i - m + k
    OBVIOUS
  <2>2. CASE k = m + 1
    <3>1. i - m + k = i + 1
      BY <2>2
    <3> QED
      BY <1>2, <2>1, <2>2, <3>1
  <2>3. CASE k # m + 1
    BY <1>2, <2>1, <2>3 DEF EndsAt
  <2> QED
    BY <2>2, <2>3
<1> QED
  BY <1>1, <1>2

LEMMA OneBack ==
  ASSUME NEW x, NEW i \in Nat, NEW q
  PROVE  \A m \in Nat : m > 0 =>
           (EndsAt(x, i + 1, q, m) <=> EndsAt(x, i, q, m - 1) /\ Small(x[i + 1]) = q[m])
<1> SUFFICES ASSUME NEW m \in Nat, m > 0
             PROVE  EndsAt(x, i + 1, q, m) <=> EndsAt(x, i, q, m - 1) /\ Small(x[i + 1]) = q[m]
  OBVIOUS
<1> DEFINE k == m - 1
<1>1. k \in Nat /\ m = k + 1
  OBVIOUS
<1> HIDE DEF k
<1>2. EndsAt(x, i + 1, q, k + 1) <=> EndsAt(x, i, q, k) /\ Small(x[i + 1]) = q[k + 1]
  BY <1>1, OneMore
<1> QED
  BY <1>1, <1>2 DEF k

LEMMA NothingEnds ==
  ASSUME NEW x, NEW i \in Nat, NEW q
  PROVE  EndsAt(x, i, q, 0)
BY DEF EndsAt

LEMMA OccursByOneMore ==
  ASSUME NEW x, NEW i \in Nat, NEW q
  PROVE  OccursBy(x, i + 1, q) <=> OccursBy(x, i, q) \/ EndsAt(x, i + 1, q, Len(q))
<1>1. 0..(i + 1) = (0..i) \cup {i + 1}
  OBVIOUS
<1> QED
  BY <1>1 DEF OccursBy

(* Only the characters so far count. *)
LEMMA SamePrefix ==
  ASSUME NEW x, NEW y, NEW i \in Nat, \A k \in 1..i : x[k] = y[k], NEW q, Len(q) \in Nat
  PROVE  /\ \A a \in 0..i, m \in Nat : EndsAt(x, a, q, m) <=> EndsAt(y, a, q, m)
         /\ OccursBy(x, i, q) <=> OccursBy(y, i, q)
<1>1. ASSUME NEW a \in 0..i, NEW m \in Nat
      PROVE  EndsAt(x, a, q, m) <=> EndsAt(y, a, q, m)
  <2>1. m <= a => \A k \in 1..m : a - m + k \in 1..i
    OBVIOUS
  <2> QED
    BY <2>1 DEF EndsAt
<1> QED
  BY <1>1 DEF OccursBy

-----------------------------------------------------------------------------
(* escapeLike *)

(* y says of q what the first i characters of t say. *)
Alike(y, t, i, q) ==
  /\ \A m \in 0..Len(q) : EndsAt(y, Len(y), q, m) <=> EndsAt(t, i, q, m)
  /\ OccursBy(y, Len(y), q) <=> OccursBy(t, i, q)

Plain(q) == Len(q) \in Nat /\ \A k \in 1..Len(q) : q[k] \notin Special

Chars == {"a", "A", "b", "%", "_", "\\"}

(* Where a special character stands nothing plain ends. *)
LEMMA SpecialNext ==
  ASSUME NEW x, NEW i \in Nat, x[i + 1] \in Special, NEW q, Plain(q)
  PROVE  /\ \A m \in 0..Len(q) : EndsAt(x, i + 1, q, m) <=> m = 0
         /\ OccursBy(x, i + 1, q) <=> OccursBy(x, i, q)
<1>1. Small(x[i + 1]) \in Special
  BY DEF Small, Special
<1>0. \A m \in Nat : m > 0 =>
        (EndsAt(x, i + 1, q, m) <=> EndsAt(x, i, q, m - 1) /\ Small(x[i + 1]) = q[m])
  BY OneBack
<1>2. ASSUME NEW m \in 0..Len(q)
      PROVE  EndsAt(x, i + 1, q, m) <=> m = 0
  <2>1. CASE m = 0
    BY <2>1, NothingEnds, i + 1 \in Nat
  <2>2. CASE m # 0
    <3>1. m \in 1..Len(q)
      BY <2>2 DEF Plain
    <3>2. q[m] \notin Special
      BY <3>1 DEF Plain
    <3>3. EndsAt(x, i + 1, q, m) => Small(x[i + 1]) = q[m]
      BY <1>0, <2>2 DEF Plain
    <3> QED
      BY <1>1, <2>2, <3>1, <3>2, <3>3
  <2> QED
    BY <2>1, <2>2
<1>3. OccursBy(x, i + 1, q) <=> OccursBy(x, i, q) \/ EndsAt(x, i + 1, q, Len(q))
  BY OccursByOneMore
<1>4. Len(q) \in Nat /\ (Len(q) = 0 => OccursBy(x, i, q))
  <2>1. EndsAt(x, i, q, 0) /\ i \in 0..i
    BY NothingEnds
  <2> QED
    BY <2>1 DEF OccursBy, Plain
<1> QED
  BY <1>2, <1>3, <1>4

(* The same character on both sides. *)
LEMMA AlikeNext ==
  ASSUME NEW y \in Seq(Chars), NEW t, NEW i \in Nat, t[i + 1] \in Chars,
         NEW q, Plain(q), Alike(y, t, i, q)
  PROVE  Alike(y \o <<t[i + 1]>>, t, i + 1, q)
<1> DEFINE z == y \o <<t[i + 1]>>
           n == Len(y)
<1>1. /\ n \in Nat /\ Len(z) = n + 1 /\ z[n + 1] = t[i + 1]
      /\ \A k \in 1..n : z[k] = y[k]
  OBVIOUS
<1> HIDE DEF z
<1>2. Len(q) \in Nat
  BY DEF Plain
<1>2a. \A m \in Nat : m > 0 =>
         (EndsAt(z, n + 1, q, m) <=> EndsAt(z, n, q, m - 1) /\ Small(z[n + 1]) = q[m])
  <2>1. n \in Nat
    BY <1>1
  <2> HIDE DEF n
  <2> QED
    BY <2>1, OneBack
<1>2b. \A m \in Nat : m > 0 =>
         (EndsAt(t, i + 1, q, m) <=> EndsAt(t, i, q, m - 1) /\ Small(t[i + 1]) = q[m])
  BY OneBack
<1>3. /\ \A a \in 0..n, m \in Nat : EndsAt(z, a, q, m) <=> EndsAt(y, a, q, m)
      /\ OccursBy(z, n, q) <=> OccursBy(y, n, q)
  <2> HIDE DEF n
  <2> QED
    BY <1>1, <1>2, SamePrefix
<1>4. ASSUME NEW m \in 0..Len(q)
      PROVE  EndsAt(z, n + 1, q, m) <=> EndsAt(t, i + 1, q, m)
  <2>1. CASE m = 0
    <3>1. EndsAt(z, n + 1, q, 0)
      BY <1>1, NothingEnds, n + 1 \in Nat
    <3>2. EndsAt(t, i + 1, q, 0)
      BY NothingEnds, i + 1 \in Nat
    <3> QED
      BY <2>1, <3>1, <3>2
  <2>2. CASE m # 0
    <3>1. m - 1 \in Nat /\ m - 1 \in 0..Len(q) /\ m \in Nat /\ m > 0 /\ n \in 0..n
      BY <1>1, <1>2, <2>2
    <3>2. EndsAt(z, n + 1, q, m) <=> EndsAt(z, n, q, m - 1) /\ Small(t[i + 1]) = q[m]
      BY <1>1, <1>2a, <3>1
    <3>3. EndsAt(t, i + 1, q, m) <=> EndsAt(t, i, q, m - 1) /\ Small(t[i + 1]) = q[m]
      BY <1>2b, <3>1
    <3>4. EndsAt(z, n, q, m - 1) <=> EndsAt(t, i, q, m - 1)
      BY <1>3, <3>1 DEF Alike
    <3> QED
      BY <3>1, <3>2, <3>3, <3>4
  <2> QED
    BY <2>1, <2>2
<1>5. OccursBy(z, n + 1, q) <=> OccursBy(z, n, q) \/ EndsAt(z, n + 1, q, Len(q))
  BY <1>1, OccursByOneMore
<1>6. OccursBy(t, i + 1, q) <=> OccursBy(t, i, q) \/ EndsAt(t, i + 1, q, Len(q))
  BY OccursByOneMore
<1>7. Len(q) \in 0..Len(q)
  BY <1>2
<1>8. OccursBy(z, n + 1, q) <=> OccursBy(t, i + 1, q)
  BY <1>3, <1>4, <1>5, <1>6, <1>7 DEF Alike
<1>9. Alike(z, t, i + 1, q)
  BY <1>1, <1>4, <1>8 DEF Alike
<1> QED
  BY <1>9 DEF z

LEMMA TwoMore ==
  ASSUME NEW C, NEW y \in Seq(C), NEW v \in Seq(C), Len(v) = 2
  PROVE  /\ Len(y \o v) = Len(y) + 2
         /\ (y \o v)[Len(y) + 1] = v[1] /\ (y \o v)[Len(y) + 2] = v[2]
         /\ \A k \in 1..Len(y) : (y \o v)[k] = y[k]
<1> DEFINE w == y \o v
           n == Len(y)
<1>1. n \in Nat
  OBVIOUS
<1>2. /\ Len(w) = n + 2
      /\ \A k \in 1..n + 2 : w[k] = IF k <= n THEN y[k] ELSE v[k - n]
  <2>1. /\ Len(y \o v) = Len(y) + Len(v)
        /\ \A k \in 1..Len(y) + Len(v) : (y \o v)[k] =
             IF k <= Len(y) THEN y[k] ELSE v[k - Len(y)]
    BY ConcatProperties, Zenon
  <2> QED
    BY <2>1, Zenon
<1> HIDE DEF w, n
<1>3. n + 1 \in 1..n + 2 /\ n + 2 \in 1..n + 2 /\ (n + 1) - n = 1 /\ (n + 2) - n = 2
  BY <1>1
<1>4. /\ Len(w) = n + 2
      /\ w[n + 1] = v[1] /\ w[n + 2] = v[2]
      /\ \A k \in 1..n : w[k] = y[k]
  BY <1>1, <1>2, <1>3
<1> QED
  BY <1>4 DEF w, n

(* A special character and, on the other side, its escaped form. *)
LEMMA AlikeEscaped ==
  ASSUME NEW y \in Seq(Chars), NEW c \in Special, NEW t, NEW i \in Nat, t[i + 1] = c,
         NEW q, Plain(q), Alike(y, t, i, q)
  PROVE  Alike(y \o <<"\\", c>>, t, i + 1, q)
<1> DEFINE w == y \o <<"\\", c>>
           n == Len(y)
<1>1. /\ n \in Nat /\ n + 1 \in Nat /\ Len(w) = (n + 1) + 1
      /\ w[n + 1] = "\\" /\ w[(n + 1) + 1] = c
      /\ \A k \in 1..n : w[k] = y[k]
  <2> DEFINE v == <<"\\", c>>
  <2>1. "\\" \in Chars /\ c \in Chars
    BY DEF Special, Chars
  <2>2. v \in Seq(Chars) /\ Len(v) = 2 /\ v[1] = "\\" /\ v[2] = c
    BY <2>1
  <2>3. w = y \o v
    OBVIOUS
  <2> HIDE DEF v, w
  <2>4. n \in Nat
    OBVIOUS
  <2>5. /\ Len(w) = n + 2
        /\ w[n + 1] = v[1] /\ w[n + 2] = v[2]
        /\ \A k \in 1..n : w[k] = y[k]
    BY <2>2, <2>3, TwoMore
  <2>7. (n + 1) + 1 = n + 2 /\ n + 1 \in Nat
    BY <2>4
  <2> QED
    BY <2>2, <2>4, <2>5, <2>7
<1> HIDE DEF w
<1>2. OccursBy(w, n, q) <=> OccursBy(y, n, q)
  <2> HIDE DEF n
  <2> QED
    BY <1>1, SamePrefix DEF Plain
<1>3. OccursBy(w, n + 1, q) <=> OccursBy(w, n, q)
  <2>1. w[n + 1] \in Special
    BY <1>1 DEF Special
  <2> HIDE DEF n
  <2> QED
    BY <1>1, <2>1, SpecialNext
<1>4. /\ \A m \in 0..Len(q) : EndsAt(w, (n + 1) + 1, q, m) <=> m = 0
      /\ OccursBy(w, (n + 1) + 1, q) <=> OccursBy(w, n + 1, q)
  <2> DEFINE n1 == n + 1
  <2>1. n1 \in Nat /\ w[n1 + 1] \in Special
    BY <1>1
  <2> HIDE DEF n1
  <2>2. /\ \A m \in 0..Len(q) : EndsAt(w, n1 + 1, q, m) <=> m = 0
        /\ OccursBy(w, n1 + 1, q) <=> OccursBy(w, n1, q)
    BY <2>1, SpecialNext
  <2> QED
    BY <2>2 DEF n1
<1>5. /\ \A m \in 0..Len(q) : EndsAt(t, i + 1, q, m) <=> m = 0
      /\ OccursBy(t, i + 1, q) <=> OccursBy(t, i, q)
  BY SpecialNext
<1>6. Alike(w, t, i + 1, q)
  <2> HIDE DEF n
  <2>1. OccursBy(y, n, q) <=> OccursBy(t, i, q)
    BY DEF Alike, n
  <2> QED
    BY <1>1, <1>2, <1>3, <1>4, <1>5, <2>1 DEF Alike
<1> QED
  BY <1>6 DEF w

(* Escaping neither adds nor hides an occurrence of plain characters. *)
LEMMA EscapeKeepsPlain ==
  ASSUME NEW t \in Seq(Chars), NEW q, Plain(q)
  PROVE  /\ escapeLike(t) \in Seq(Chars)
         /\ OccursBy(escapeLike(t), Len(escapeLike(t)), q) <=> OccursBy(t, Len(t), q)
<1> DEFINE u == [i \in DOMAIN t |-> IF t[i] \in Special THEN <<"\\", t[i]>> ELSE <<t[i]>>]
           n == Len(t)
<1>1. escapeLike(t) = FlattenSeq(u)
  BY DEF escapeLike
<1>2. n \in Nat /\ DOMAIN t = 1..n /\ \A i \in 1..n : t[i] \in Chars
  OBVIOUS
<1>3. /\ DOMAIN u = 1..n
      /\ \A i \in 1..n : u[i] = IF t[i] \in Special THEN <<"\\", t[i]>> ELSE <<t[i]>>
  BY <1>2
<1>4. \A i \in 1..n : u[i] \in Seq(Chars)
  <2> SUFFICES ASSUME NEW i \in 1..n PROVE u[i] \in Seq(Chars)
    OBVIOUS
  <2> DEFINE c == t[i]
  <2>1. c \in Chars /\ "\\" \in Chars
    BY <1>2 DEF Chars
  <2>2. u[i] = IF c \in Special THEN <<"\\", c>> ELSE <<c>>
    BY <1>3
  <2> HIDE DEF c, u
  <2>3. <<"\\", c>> \in Seq(Chars) /\ <<c>> \in Seq(Chars)
    BY <2>1
  <2> QED
    BY <2>2, <2>3
<1>5. u \in Seq(Seq(Chars)) /\ Len(u) = n
  <2>1. u \in [1..n -> Seq(Chars)]
    BY <1>2, <1>4
  <2> QED
    BY <1>2, <2>1, SeqDef, LenProperties
<1> HIDE DEF u
<1>6. ASSUME NEW y \in Seq(Chars), NEW i \in Nat, i < n, Alike(y, t, i, q)
      PROVE  y \o u[i + 1] \in Seq(Chars) /\ Alike(y \o u[i + 1], t, i + 1, q)
  <2>1. i + 1 \in 1..n
    BY <1>6, <1>2
  <2>2. y \o u[i + 1] \in Seq(Chars)
    BY <1>4, <2>1
  <2> DEFINE c == t[i + 1]
  <2>3. c \in Chars
    BY <1>2, <2>1
  <2>4. CASE c \in Special
    <3>1. u[i + 1] = <<"\\", c>>
      BY <1>3, <2>1, <2>4
    <3> HIDE DEF c, n
    <3>2. Alike(y \o <<"\\", c>>, t, i + 1, q)
      BY <1>6, <2>4, AlikeEscaped DEF c
    <3> QED
      BY <2>2, <3>1, <3>2
  <2>5. CASE c \notin Special
    <3>1. u[i + 1] = <<c>>
      BY <1>3, <2>1, <2>5
    <3> HIDE DEF c, n
    <3>2. Alike(y \o <<c>>, t, i + 1, q)
      <4>1. t[i + 1] \in Chars
        BY <2>3 DEF c
      <4> QED
        BY <1>6, <4>1, AlikeNext DEF c
    <3> QED
      BY <2>2, <3>1, <3>2
  <2> QED
    BY <2>4, <2>5
<1>7. /\ Alike(<<>>, t, 0, q)
      /\ <<>> \in Seq(Chars)
  <2>1. \A k \in 1..0 : <<>>[k] = t[k]
    OBVIOUS
  <2>2. Len(q) \in Nat /\ 0 \in Nat /\ 0 \in 0..0 /\ \A m \in 0..Len(q) : m \in Nat
    BY DEF Plain
  <2> DEFINE e == <<>>
  <2>3. /\ \A k \in 1..0 : e[k] = t[k]
        /\ Len(e) = 0
    BY <2>1
  <2> HIDE DEF e
  <2>4. /\ \A a \in 0..0, m \in Nat : EndsAt(e, a, q, m) <=> EndsAt(t, a, q, m)
        /\ OccursBy(e, 0, q) <=> OccursBy(t, 0, q)
    BY <2>2, <2>3, SamePrefix
  <2>5. Alike(e, t, 0, q)
    BY <2>2, <2>3, <2>4 DEF Alike
  <2> QED
    BY <2>5 DEF e
<1>8. CASE n = 0
  <2>1. escapeLike(t) = <<>>
    <3>1. FlattenSeq(u) = u /\ u = <<>>
      BY <1>5, <1>8 DEF FlattenSeq
    <3> QED
      BY <1>1, <3>1
  <2> DEFINE e == escapeLike(t)
  <2>2. Len(e) = 0 /\ e \in Seq(Chars) /\ e = <<>>
    BY <2>1
  <2> HIDE DEF e
  <2>3. Alike(e, t, 0, q)
    BY <1>7, <2>2
  <2>4. OccursBy(e, Len(e), q) <=> OccursBy(t, n, q)
    BY <1>8, <2>3 DEF Alike
  <2> QED
    BY <2>2, <2>4 DEF e
<1>9. CASE n > 0
  <2>1. PICK f : /\ \A i \in 1..n : f[i] = Joined(f, u, i)
                 /\ FlattenSeq(u) = f[n]
    <3> HIDE DEF n
    <3> QED
      BY <1>2, <1>5, <1>9, FlattenIs
  <2> DEFINE S == {d \in Nat : d < n => f[d + 1] \in Seq(Chars) /\ Alike(f[d + 1], t, d + 1, q)}
  <2>2. 0 \in S
    <3>1. f[1] = u[1]
      BY <1>9, <2>1 DEF Joined
    <3>2. u[1] \in Seq(Chars)
      BY <1>2, <1>4, <1>9
    <3>3. <<>> \o u[1] = u[1]
      BY <3>2
    <3>4. <<>> \o u[0 + 1] \in Seq(Chars) /\ Alike(<<>> \o u[0 + 1], t, 0 + 1, q)
      BY <1>6, <1>7, <1>9
    <3>5. Alike(u[1], t, 1, q)
      BY <3>3, <3>4
    <3> QED
      BY <3>1, <3>2, <3>5
  <2>3. ASSUME NEW d \in S PROVE d + 1 \in S
    <3> SUFFICES ASSUME d + 1 < n
                 PROVE  /\ f[(d + 1) + 1] \in Seq(Chars)
                        /\ Alike(f[(d + 1) + 1], t, (d + 1) + 1, q)
      BY <2>3
    <3> DEFINE d1 == d + 1
    <3>1. d \in Nat /\ d < n /\ d1 \in Nat /\ d1 < n /\ d1 + 1 \in 1..n /\ d1 + 1 # 1 /\ (d1 + 1) - 1 = d1
      BY <1>2, <2>3
    <3>2. f[d1] \in Seq(Chars) /\ Alike(f[d1], t, d1, q)
      BY <2>3, <3>1
    <3> HIDE DEF d1
    <3>3. f[d1 + 1] = f[d1] \o u[d1 + 1]
      BY <2>1, <3>1 DEF Joined
    <3>4. f[d1 + 1] \in Seq(Chars) /\ Alike(f[d1 + 1], t, d1 + 1, q)
      BY <1>6, <3>1, <3>2, <3>3
    <3> QED
      BY <3>4 DEF d1
  <2>4. n - 1 \in S
    <3>1. n - 1 \in Nat
      BY <1>2, <1>9
    <3> HIDE DEF S
    <3>2. S \in SUBSET Nat
      BY DEF S
    <3> QED
      BY <2>2, <2>3, <3>1, <3>2, SetInduction
  <2>5. f[n] \in Seq(Chars) /\ Alike(f[n], t, n, q)
    <3>1. n - 1 < n /\ (n - 1) + 1 = n
      BY <1>2
    <3> QED
      BY <2>4, <3>1
  <2>6. escapeLike(t) = f[n]
    BY <1>1, <2>1
  <2> HIDE DEF n
  <2> QED
    BY <2>5, <2>6 DEF Alike, n
<1> QED
  BY <1>2, <1>8, <1>9

-----------------------------------------------------------------------------
(* LIKE with a plain pattern that is open at both ends *)

(* The last d characters of q stand from position i of s on. *)
StartsAt(s, i, q, d) ==
  /\ i + d <= Len(s) + 1
  /\ \A k \in 1..d : s[i + k - 1] = q[Len(q) - d + k]

LEMMA StartsBefore ==
  ASSUME NEW s, Len(s) \in Nat, NEW q, Len(q) \in Nat, NEW d \in Nat, NEW i \in Nat
  PROVE  StartsAt(s, i, q, d + 1)
           <=> i <= Len(s) /\ s[i] = q[Len(q) - d] /\ StartsAt(s, i + 1, q, d)
<1> DEFINE n == Len(q)
           L == Len(s)
<1>1. n \in Nat /\ L \in Nat
  OBVIOUS
<1>2. StartsAt(s, i, q, d + 1) <=>
        i + (d + 1) <= L + 1 /\ \A k \in 1..d + 1 : s[i + k - 1] = q[n - (d + 1) + k]
  BY DEF StartsAt
<1>3. StartsAt(s, i + 1, q, d) <=>
        (i + 1) + d <= L + 1 /\ \A k \in 1..d : s[(i + 1) + k - 1] = q[n - d + k]
  BY DEF StartsAt
<1> HIDE DEF n, L
<1>4. ASSUME StartsAt(s, i, q, d + 1)
      PROVE  i <= L /\ s[i] = q[n - d] /\ StartsAt(s, i + 1, q, d)
  <2>1. s[i] = q[n - d]
    <3>1. 1 \in 1..d + 1 /\ i + 1 - 1 = i /\ n - (d + 1) + 1 = n - d
      BY <1>1
    <3> QED
      BY <1>2, <1>4, <3>1
  <2>2. ASSUME NEW k \in 1..d PROVE s[(i + 1) + k - 1] = q[n - d + k]
    <3> DEFINE h == k + 1
    <3>1. h \in 1..d + 1 /\ i + h - 1 = (i + 1) + k - 1 /\ n - (d + 1) + h = n - d + k
      BY <1>1
    <3>2. s[i + h - 1] = q[n - (d + 1) + h]
      <4> HIDE DEF h
      <4> QED
        BY <1>2, <1>4, <3>1
    <3> HIDE DEF h
    <3> QED
      BY <3>1, <3>2
  <2>3. i <= L /\ (i + 1) + d <= L + 1
    BY <1>1, <1>2, <1>4
  <2> QED
    BY <1>3, <2>1, <2>2, <2>3
<1>5. ASSUME i <= L, s[i] = q[n - d], StartsAt(s, i + 1, q, d)
      PROVE  StartsAt(s, i, q, d + 1)
  <2>1. ASSUME NEW k \in 1..d + 1 PROVE s[i + k - 1] = q[n - (d + 1) + k]
    <3>1. CASE k = 1
      <4>1. i + k - 1 = i /\ n - (d + 1) + k = n - d
        BY <1>1, <3>1
      <4> QED
        BY <1>5, <4>1
    <3>2. CASE k # 1
      <4> DEFINE h == k - 1
      <4>1. h \in 1..d /\ (i + 1) + h - 1 = i + k - 1 /\ n - d + h = n - (d + 1) + k
        BY <1>1, <3>2
      <4>2. s[(i + 1) + h - 1] = q[n - d + h]
        <5> HIDE DEF h
        <5> QED
          BY <1>3, <1>5, <4>1
      <4> HIDE DEF h
      <4> QED
        BY <4>1, <4>2
    <3> QED
      BY <3>1, <3>2
  <2>2. i + (d + 1) <= L + 1
    BY <1>1, <1>3, <1>5
  <2> QED
    BY <1>2, <2>1, <2>2
<1>6. StartsAt(s, i, q, d + 1) <=> i <= L /\ s[i] = q[n - d] /\ StartsAt(s, i + 1, q, d)
  BY <1>4, <1>5
<1> QED
  BY <1>6 DEF n, L

(* p is q between two percent signs. *)
OpenAround(p, q) ==
  /\ Len(p) = Len(q) + 2
  /\ p[1] = "%" /\ p[Len(q) + 2] = "%"
  /\ \A k \in 1..Len(q) : p[k + 1] = q[k]

LEMMA LikeOpenBothEnds ==
  ASSUME NEW s, Len(s) \in Nat, NEW q, Plain(q), NEW p, OpenAround(p, q)
  PROVE  Like(s, p) <=> \E i \in 1..Len(s) + 1 : StartsAt(s, i, q, Len(q))
<1> DEFINE n == Len(q)
           L == Len(s)
<1>1. n \in Nat /\ L \in Nat /\ Len(p) = n + 2
  BY DEF Plain, OpenAround
<1>2. PICK f : /\ \A j \in 1..n + 3 : f[j] = Column(f, s, p, j)
               /\ Like(s, p) <=> 1 \in f[1]
  <2>1. Len(p) \in Nat /\ Len(p) + 1 = n + 3
    BY <1>1
  <2>2. \E f : /\ \A j \in 1..Len(p) + 1 : f[j] = Column(f, s, p, j)
               /\ Like(s, p) <=> 1 \in f[1]
    BY <2>1, LikeIs
  <2> QED
    BY <2>1, <2>2
<1>3. f[n + 3] = {L + 1}
  <2>1. n + 3 \in 1..n + 3 /\ n + 3 > Len(p)
    BY <1>1
  <2>2. f[n + 3] = Column(f, s, p, n + 3)
    BY <1>2, <2>1
  <2>3. \A i : i \in Column(f, s, p, n + 3) <=> i \in 1..L + 1 /\ i > L
    BY <1>1, <2>1 DEF Column
  <2> QED
    BY <1>1, <2>2, <2>3
<1>4. \A j \in 1..n + 2 : p[j] = "%" => f[j] = {i \in 1..L + 1 : \E k \in f[j + 1] : i <= k}
  <2> SUFFICES ASSUME NEW j \in 1..n + 2, p[j] = "%"
               PROVE  f[j] = {i \in 1..L + 1 : \E k \in f[j + 1] : i <= k}
    OBVIOUS
  <2>1. j <= Len(p) /\ ~ (j > Len(p)) /\ j \in 1..n + 3
    BY <1>1
  <2>2. p[j] # "_" /\ p[j] # "\\" /\ p[j] \in Special
    BY DEF Special
  <2>3. f[j] = Column(f, s, p, j)
    BY <1>2, <2>1
  <2>4. Column(f, s, p, j) = {i \in 1..L + 1 : \E k \in f[j + 1] : i <= k}
    BY <2>1, <2>2 DEF Column
  <2> QED
    BY <2>3, <2>4
<1>5. \A j \in 1..n : f[j + 1] = {i \in 1..L + 1 : i <= L /\ s[i] = q[j] /\ i + 1 \in f[j + 2]}
  <2> SUFFICES ASSUME NEW j \in 1..n
               PROVE  f[j + 1] = {i \in 1..L + 1 : i <= L /\ s[i] = q[j] /\ i + 1 \in f[j + 2]}
    OBVIOUS
  <2> DEFINE c == j + 1
  <2>1. c <= Len(p) /\ ~ (c > Len(p)) /\ c \in 1..n + 3 /\ c + 1 = j + 2
    BY <1>1
  <2>2. p[c] = q[j]
    BY DEF OpenAround
  <2>3. q[j] \notin Special
    BY DEF Plain
  <2>4. p[c] # "%" /\ p[c] # "_" /\ p[c] # "\\" /\ p[c] \notin Special
    BY <2>2, <2>3 DEF Special
  <2> HIDE DEF c
  <2>5. f[c] = Column(f, s, p, c)
    BY <1>2, <2>1
  <2>6. Column(f, s, p, c) = {i \in 1..L + 1 : i <= L /\ s[i] = p[c] /\ i + 1 \in f[c + 1]}
    BY <2>1, <2>4 DEF Column
  <2> QED
    BY <2>1, <2>2, <2>5, <2>6 DEF c
<1> DEFINE S == {d \in Nat : d <= n =>
                   f[n + 2 - d] = {i \in 1..L + 1 : StartsAt(s, i, q, d)}}
<1>6. 0 \in S
  <2>1. n + 2 \in 1..n + 2 /\ (n + 2) + 1 = n + 3 /\ n + 2 - 0 = n + 2
    BY <1>1
  <2>2. f[n + 2] = {i \in 1..L + 1 : \E k \in f[n + 3] : i <= k}
    BY <1>4, <2>1 DEF OpenAround
  <2>3. f[n + 2] = 1..L + 1
    BY <1>1, <1>3, <2>2
  <2>4. \A i \in 1..L + 1 : StartsAt(s, i, q, 0)
    BY <1>1 DEF StartsAt
  <2> QED
    BY <2>1, <2>3, <2>4
<1>7. ASSUME NEW d \in S PROVE d + 1 \in S
  <2> SUFFICES ASSUME d + 1 <= n
               PROVE  f[n + 2 - (d + 1)] = {i \in 1..L + 1 : StartsAt(s, i, q, d + 1)}
    BY <1>7
  <2> DEFINE j == n - d
  <2>1. /\ d \in Nat /\ d <= n /\ j \in 1..n
        /\ n + 2 - (d + 1) = j + 1 /\ n + 2 - d = j + 2
    BY <1>1, <1>7
  <2>2. f[j + 2] = {i \in 1..L + 1 : StartsAt(s, i, q, d)}
    BY <1>7, <2>1
  <2>3. f[j + 1] = {i \in 1..L + 1 : i <= L /\ s[i] = q[j] /\ i + 1 \in f[j + 2]}
    <3> HIDE DEF j
    <3> QED
      BY <1>5, <2>1
  <2>4. ASSUME NEW i \in 1..L + 1
        PROVE  StartsAt(s, i, q, d + 1) <=> i <= L /\ s[i] = q[j] /\ StartsAt(s, i + 1, q, d)
    <3>1. i \in Nat
      BY <1>1
    <3>2. StartsAt(s, i, q, d + 1)
            <=> i <= Len(s) /\ s[i] = q[Len(q) - d] /\ StartsAt(s, i + 1, q, d)
      BY <1>1, <2>1, <3>1, StartsBefore
    <3> QED
      BY <3>2
  <2>5. \A i \in 1..L + 1 : i <= L => i + 1 \in 1..L + 1
    BY <1>1
  <2> HIDE DEF j, n, L
  <2>6. f[j + 1] = {i \in 1..L + 1 : StartsAt(s, i, q, d + 1)}
    BY <2>2, <2>3, <2>4, <2>5
  <2> QED
    BY <2>1, <2>6
<1>8. n \in S
  <2> HIDE DEF S
  <2>1. S \in SUBSET Nat
    BY DEF S
  <2> QED
    BY <1>1, <1>6, <1>7, <2>1, SetInduction
<1>9. f[2] = {i \in 1..L + 1 : StartsAt(s, i, q, n)}
  <2>1. n + 2 - n = 2
    BY <1>1
  <2> QED
    BY <1>1, <1>8, <2>1
<1>10. 1 \in f[1] <=> \E i \in f[2] : TRUE
  <2>1. 1 \in 1..n + 2 /\ 1 + 1 = 2 /\ 1 \in 1..L + 1
    BY <1>1
  <2>2. f[1] = {i \in 1..L + 1 : \E k \in f[2] : i <= k}
    BY <1>4, <2>1 DEF OpenAround
  <2>3. \A k \in f[2] : 1 <= k
    BY <1>1, <1>9
  <2> QED
    BY <2>1, <2>2, <2>3
<1> QED
  BY <1>2, <1>9, <1>10

-----------------------------------------------------------------------------
(* The clause and the substring search *)

LEMMA LowerIs ==
  ASSUME NEW x \in Seq(Chars)
  PROVE  /\ Lower(x) \in Seq(Chars) /\ Len(Lower(x)) = Len(x)
         /\ \A k \in 1..Len(x) : Lower(x)[k] = Small(x[k])
<1>1. /\ Len(x) \in Nat /\ DOMAIN x = 1..Len(x)
      /\ \A k \in 1..Len(x) : x[k] \in Chars
  OBVIOUS
<1>2. Lower(x) = [k \in 1..Len(x) |-> Small(x[k])]
  BY <1>1 DEF Lower, Small
<1>3. \A k \in 1..Len(x) : Small(x[k]) \in Chars
  BY <1>1 DEF Small, Chars
<1>4. Lower(x) \in [1..Len(x) -> Chars]
  BY <1>2, <1>3
<1>5. Lower(x) \in Seq(Chars) /\ Len(Lower(x)) = Len(x)
  BY <1>1, <1>4, SeqDef, LenProperties
<1> QED
  BY <1>2, <1>5

LEMMA OpenAroundIs ==
  ASSUME NEW q \in Seq(Chars)
  PROVE  OpenAround(<<"%">> \o q \o <<"%">>, q)
<1> DEFINE o == <<"%">>
           l == o \o q
           p == l \o o
           n == Len(q)
<1>1. n \in Nat /\ o \in Seq(Chars) /\ Len(o) = 1 /\ o[1] = "%" /\ Len(q) = n
  <2>1. "%" \in Chars
    BY DEF Chars
  <2>2. o \in Seq(Chars)
    BY <2>1
  <2> QED
    BY <2>2
<1>2. /\ l \in Seq(Chars) /\ Len(l) = n + 1
      /\ l[1] = "%" /\ \A k \in 1..n : l[k + 1] = q[k]
  <2> HIDE DEF o
  <2>1. /\ o \o q \in Seq(Chars)
        /\ Len(o \o q) = Len(o) + Len(q)
        /\ \A k \in 1..Len(o) + Len(q) : (o \o q)[k] =
             IF k <= Len(o) THEN o[k] ELSE q[k - Len(o)]
    BY <1>1, ConcatProperties
  <2> HIDE DEF l, n
  <2>2. \A k \in 1..1 + n : l[k] = IF k <= 1 THEN o[k] ELSE q[k - 1]
    BY <1>1, <2>1 DEF l
  <2>3. 1 \in 1..1 + n /\ \A k \in 1..n : k + 1 \in 1..1 + n /\ ~ (k + 1 <= 1) /\ (k + 1) - 1 = k
    BY <1>1
  <2>4. \A k \in 1..n : l[k + 1] = q[k]
    BY <2>2, <2>3
  <2>5. l[1] = "%"
    BY <1>1, <2>2, <2>3
  <2> QED
    BY <1>1, <2>1, <2>4, <2>5 DEF l
<1>3. /\ Len(p) = n + 2 /\ p[n + 2] = "%"
      /\ \A k \in 1..n + 1 : p[k] = l[k]
  <2> HIDE DEF o, l
  <2>1. /\ Len(l \o o) = Len(l) + Len(o)
        /\ \A k \in 1..Len(l) + Len(o) : (l \o o)[k] =
             IF k <= Len(l) THEN l[k] ELSE o[k - Len(l)]
    BY <1>1, <1>2, ConcatProperties
  <2> HIDE DEF p, n
  <2>2. \A k \in 1..n + 2 : p[k] = IF k <= n + 1 THEN l[k] ELSE o[k - (n + 1)]
    <3>1. Len(l) + Len(o) = n + 2
      BY <1>1, <1>2
    <3> QED
      BY <1>2, <2>1, <3>1 DEF p
  <2>3. n + 2 \in 1..n + 2 /\ ~ (n + 2 <= n + 1) /\ (n + 2) - (n + 1) = 1
    BY <1>1
  <2>4. \A k \in 1..n + 1 : k \in 1..n + 2 /\ k <= n + 1
    BY <1>1
  <2>5. Len(p) = n + 2
    BY <1>1, <1>2, <2>1 DEF p
  <2> QED
    BY <1>1, <2>2, <2>3, <2>4, <2>5
<1>4. 1 \in 1..n + 1 /\ \A k \in 1..n : k + 1 \in 1..n + 1
  BY <1>1
<1> HIDE DEF l, o
<1>5. OpenAround(p, q)
  <2> HIDE DEF p
  <2> QED
    BY <1>2, <1>3, <1>4 DEF OpenAround
<1> QED
  BY <1>5 DEF p, l, o

LEMMA StartsIsOccurs ==
  ASSUME NEW x \in Seq(Chars), NEW q, Len(q) \in Nat
  PROVE  (\E i \in 1..Len(Lower(x)) + 1 : StartsAt(Lower(x), i, q, Len(q)))
           <=> OccursBy(x, Len(x), q)
<1> DEFINE s == Lower(x)
           L == Len(x)
           n == Len(q)
<1>1. /\ L \in Nat /\ n \in Nat /\ Len(s) = L
      /\ \A k \in 1..L : s[k] = Small(x[k])
  BY LowerIs
<1> HIDE DEF s
<1>2. ASSUME NEW a \in 0..L, NEW i \in Int, i = a - n + 1, n <= a
      PROVE  StartsAt(s, i, q, n) <=> EndsAt(x, a, q, n)
  <2>1. i + n <= L + 1
    BY <1>1, <1>2
  <2>2. \A k \in 1..n : i + k - 1 = a - n + k /\ a - n + k \in 1..L /\ n - n + k = k
    BY <1>1, <1>2
  <2>3. \A k \in 1..n : s[i + k - 1] = Small(x[a - n + k])
    <3> SUFFICES ASSUME NEW k \in 1..n PROVE s[i + k - 1] = Small(x[a - n + k])
      OBVIOUS
    <3> DEFINE h == a - n + k
    <3>1. h \in 1..L /\ i + k - 1 = h
      BY <2>2
    <3> HIDE DEF h
    <3>2. s[i + k - 1] = Small(x[h])
      BY <1>1, <3>1
    <3> QED
      BY <3>2 DEF h
  <2> QED
    BY <1>1, <1>2, <2>1, <2>2, <2>3 DEF StartsAt, EndsAt
<1>3. ASSUME NEW i \in 1..L + 1, StartsAt(s, i, q, n)
      PROVE  OccursBy(x, L, q)
  <2> DEFINE a == i + n - 1
  <2>1. a \in 0..L /\ i = a - n + 1 /\ n <= a /\ i \in Int
    BY <1>1, <1>3 DEF StartsAt
  <2> HIDE DEF a
  <2> QED
    BY <1>2, <1>3, <2>1 DEF OccursBy
<1>4. ASSUME NEW a \in 0..L, EndsAt(x, a, q, n)
      PROVE  \E i \in 1..L + 1 : StartsAt(s, i, q, n)
  <2> DEFINE i == a - n + 1
  <2>1. i \in 1..L + 1 /\ n <= a /\ i \in Int
    BY <1>1, <1>4 DEF EndsAt
  <2>2. StartsAt(s, i, q, n)
    BY <1>2, <1>4, <2>1
  <2> HIDE DEF i
  <2> QED
    BY <2>1, <2>2
<1>5. OccursBy(x, L, q) <=> \E a \in 0..L : EndsAt(x, a, q, n)
  BY DEF OccursBy
<1>6. (\E i \in 1..L + 1 : StartsAt(s, i, q, n)) <=> OccursBy(x, L, q)
  BY <1>3, <1>4, <1>5
<1> QED
  BY <1>1, <1>6 DEF s

LEMMA OccursInIs ==
  ASSUME NEW t \in Seq(Chars), NEW p \in Seq(Chars)
  PROVE  OccursIn(t, p) <=> OccursBy(t, Len(t), Lower(p))
<1> DEFINE q == Lower(p)
           L == Len(t)
           n == Len(p)
<1>1. L \in Nat /\ n \in Nat /\ Len(q) = n /\ q \in Seq(Chars)
  BY LowerIs
<1> HIDE DEF q
<1>2. ASSUME NEW i \in 0..L - n
      PROVE  Lower(SubSeq(t, i + 1, i + n)) = q <=> EndsAt(t, i + n, q, n)
  <2> DEFINE b == SubSeq(t, i + 1, i + n)
  <2>1. i \in Nat /\ i + n <= L /\ i + n \in Nat
    BY <1>1, <1>2
  <2>2. b \in Seq(Chars) /\ Len(b) = n /\ \A k \in 1..n : b[k] = t[i + k]
    BY <1>1, <2>1
  <2> HIDE DEF b
  <2>3. /\ Lower(b) \in Seq(Chars) /\ Len(Lower(b)) = n
        /\ \A k \in 1..n : Lower(b)[k] = Small(b[k])
    BY <2>2, LowerIs
  <2>4. Lower(b) = q <=> \A k \in 1..n : Lower(b)[k] = q[k]
    BY <1>1, <2>3
  <2>5. \A k \in 1..n : Lower(b)[k] = Small(t[i + k]) /\ (i + n) - n + k = i + k
    BY <1>1, <2>1, <2>2, <2>3
  <2>6. EndsAt(t, i + n, q, n) <=> \A k \in 1..n : Small(t[i + k]) = q[k]
    <3>1. n <= i + n /\ \A k \in 1..n : (i + n) - n + k = i + k
      BY <1>1, <2>1
    <3>2. EndsAt(t, i + n, q, n) <=> \A k \in 1..n : Small(t[(i + n) - n + k]) = q[k]
      BY <3>1 DEF EndsAt
    <3> QED
      BY <3>1, <3>2
  <2>7. Lower(b) = q <=> EndsAt(t, i + n, q, n)
    BY <2>4, <2>5, <2>6
  <2> QED
    BY <2>7 DEF b
<1>3. OccursIn(t, p) <=> \E i \in 0..L - n : Lower(SubSeq(t, i + 1, i + n)) = q
  BY DEF OccursIn, q
<1>4. OccursIn(t, p) <=> \E i \in 0..L - n : EndsAt(t, i + n, q, n)
  BY <1>2, <1>3
<1>5. OccursBy(t, L, q) <=> \E a \in 0..L : EndsAt(t, a, q, n)
  BY <1>1 DEF OccursBy
<1>6. ASSUME NEW i \in 0..L - n, EndsAt(t, i + n, q, n)
      PROVE  OccursBy(t, L, q)
  <2>1. i + n \in 0..L
    BY <1>1
  <2> QED
    BY <1>5, <1>6, <2>1
<1>7. ASSUME NEW a \in 0..L, EndsAt(t, a, q, n)
      PROVE  OccursIn(t, p)
  <2> DEFINE i == a - n
  <2>1. i \in 0..L - n /\ i + n = a
    BY <1>1, <1>7 DEF EndsAt
  <2> HIDE DEF i
  <2>2. EndsAt(t, i + n, q, n)
    BY <1>7, <2>1
  <2> QED
    BY <1>4, <2>1, <2>2
<1> QED
  BY <1>4, <1>5, <1>6, <1>7 DEF q

(* The clause selects exactly the topics a plain pattern occurs in.         *)
LEMMA PlainMatches ==
  ASSUME NEW t \in Seq(Chars), NEW p \in Seq(Chars), IsPlain(p)
  PROVE  Matches(t, p) <=> OccursIn(t, p)
<1> DEFINE q == Lower(p)
           x == escapeLike(t)
           s == Lower(x)
           o == <<"%">> \o q \o <<"%">>
<1>1. q \in Seq(Chars) /\ Plain(q)
  <2>1. /\ Len(p) \in Nat /\ DOMAIN p = 1..Len(p) /\ Len(q) = Len(p) /\ q \in Seq(Chars)
        /\ \A k \in 1..Len(p) : q[k] = Small(p[k])
    BY LowerIs
  <2>2. \A k \in 1..Len(p) : p[k] \notin Special
    BY <2>1 DEF IsPlain
  <2>3. \A k \in 1..Len(p) : Small(p[k]) \notin Special
    BY <2>2 DEF Small, Special
  <2> HIDE DEF q
  <2> QED
    BY <2>1, <2>3 DEF Plain
<1> HIDE DEF q
<1>2. x \in Seq(Chars) /\ (OccursBy(x, Len(x), q) <=> OccursBy(t, Len(t), q))
  BY <1>1, EscapeKeepsPlain
<1> HIDE DEF x
<1>3. Len(s) \in Nat
  BY <1>2, LowerIs
<1>4. (\E i \in 1..Len(s) + 1 : StartsAt(s, i, q, Len(q))) <=> OccursBy(x, Len(x), q)
  BY <1>1, <1>2, StartsIsOccurs DEF Plain
<1>5. OpenAround(o, q)
  BY <1>1, OpenAroundIs
<1> HIDE DEF s, o
<1>6. Like(s, o) <=> \E i \in 1..Len(s) + 1 : StartsAt(s, i, q, Len(q))
  BY <1>1, <1>3, <1>5, LikeOpenBothEnds
<1>7. Matches(t, p) <=> Like(s, o)
  BY DEF Matches, s, o, x, q
<1>8. OccursIn(t, p) <=> OccursBy(t, Len(t), q)
  BY OccursInIs DEF q
<1> QED
  BY <1>2, <1>4, <1>6, <1>7, <1>8

-----------------------------------------------------------------------------
(* The filter *)

LEMMA TextsAreSequences == \A n \in Nat : Texts(n) \subseteq Seq(Chars)
<1> SUFFICES ASSUME NEW n \in Nat, NEW k \in 0..n, NEW t \in [1..k -> Alphabet]
             PROVE  t \in Seq(Chars)
  BY DEF Texts
<1>1. Alphabet \subseteq Chars
  BY FilterMatchAssumption DEF Chars
<1>2. k \in Nat /\ t \in [1..k -> Chars]
  BY <1>1
<1> QED
  BY <1>2, SeqDef

(* The texts are texts, and a verdict is the clause's. *)
Decided ==
  /\ topic \in Seq(Chars) /\ pattern \in Seq(Chars)
  /\ verdict # "unchecked" => (verdict = "matched" <=> Matches(topic, pattern))

LEMMA DecidedInit == Init => Decided
BY TextsAreSequences, FilterMatchAssumption DEF Init, Decided

LEMMA DecidedStep == Decided /\ [Next]_vars => Decided'
<1> SUFFICES ASSUME Decided, [Next]_vars PROVE Decided'
  OBVIOUS
<1>1. CASE CheckFilter
  BY <1>1 DEF Decided, CheckFilter
<1>2. CASE UNCHANGED vars
  BY <1>2 DEF Decided, vars
<1> QED
  BY <1>1, <1>2 DEF Next

(* For texts of any length, also topics with special characters: a filter   *)
(* whose pattern has none of them selects exactly the topics it occurs in.  *)
(* CheckFilter escapes the topic and not the pattern, so this is what is    *)
(* left of "the pattern is a literal substring".                            *)
THEOREM PlainPatternSelectsItsTopics == Spec => []PlainPatternIsSubstring
<1>1. Decided => PlainPatternIsSubstring
  BY PlainMatches DEF Decided, PlainPatternIsSubstring
<1> QED
  BY <1>1, DecidedInit, DecidedStep, PTL DEF Spec
=============================================================================
