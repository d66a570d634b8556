------------------------------ MODULE NameProofs ------------------------------
(***************************************************************************)
(* What the matching of names computes, for every alphabet and for names   *)
(* of any length: the capped edit distance with its cut-offs is the least  *)
(* number of single edits between two names, and normalisation keeps the   *)
(* words of a name.  The functions are recursive, so each is shown to      *)
(* satisfy its own equation first; what they compute follows by induction  *)
(* over a set of numbers or over the cells of the table.                   *)
(***************************************************************************)
EXTENDS NameMatching, Counting, SequenceTheorems, TLAPS

-----------------------------------------------------------------------------
(* Induction and recursion.                                                  *)

(* A set that holds zero and the successor of each of its numbers below n    *)
(* holds all numbers up to n.                                                *)
LEMMA UpTo ==
  ASSUME NEW n \in Nat, NEW P, 0 \in P, \A i \in 1..n : i - 1 \in P => i \in P
  PROVE  \A i \in 0..n : i \in P
<1> DEFINE T == {i \in 0..n : i \notin P}
<1>1. T = {}
  <2> SUFFICES ASSUME T # {} PROVE FALSE OBVIOUS
  <2>0. T \subseteq Nat OBVIOUS
  <2>1. PICK i \in T : \A y \in T : i <= y BY <2>0, LeastNat, Zenon
  <2>2. i \in 0..n /\ i \notin P BY <2>1
  <2>3. i # 0 BY <2>2
  <2>4. i \in 1..n /\ i - 1 \in 0..n BY <2>2, <2>3
  <2>5. i - 1 \notin T BY <2>1, <2>4
  <2> QED BY <2>2, <2>4, <2>5
<1> QED BY <1>1

(* A set of cells that holds each cell of a table as soon as it holds the    *)
(* others to the left of it and above it, holds all cells.                   *)
LEMMA OverTable ==
  ASSUME NEW m \in Nat, NEW n \in Nat, NEW P,
         \A i \in 0..m, j \in 0..n : (\A a \in 0..i, b \in 0..j : (a = i /\ b = j) \/ <<a, b>> \in P) => <<i, j>> \in P
  PROVE  \A i \in 0..m, j \in 0..n : <<i, j>> \in P
<1> DEFINE T == {k \in Nat : \E i \in 0..m, j \in 0..n : i + j = k /\ <<i, j>> \notin P}
<1>1. T = {}
  <2> SUFFICES ASSUME T # {} PROVE FALSE OBVIOUS
  <2>0. T \subseteq Nat OBVIOUS
  <2>1. PICK k \in T : \A y \in T : k <= y BY <2>0, LeastNat, Zenon
  <2>2. PICK i \in 0..m, j \in 0..n : i + j = k /\ <<i, j>> \notin P BY <2>1
  <2>3. ASSUME NEW a \in 0..i, NEW b \in 0..j, ~(a = i /\ b = j) PROVE <<a, b>> \in P
    <3>1. a + b \in Nat /\ a + b < k /\ a \in 0..m /\ b \in 0..n BY <2>2, <2>3
    <3>2. a + b \notin T
      <4> HIDE DEF T
      <4> QED BY <2>0, <2>1, <3>1
    <3> QED BY <3>1, <3>2
  <2> QED BY <2>2, <2>3
<1>2. SUFFICES ASSUME NEW i \in 0..m, NEW j \in 0..n, <<i, j>> \notin P PROVE FALSE OBVIOUS
<1>3. i + j \in Nat OBVIOUS
<1>4. i + j \in T BY <1>2, <1>3
<1> QED BY <1>1, <1>4

(* f starts with v and goes on as the step g says.                           *)
Follows(f, n, v, g) == f[0] = v /\ \A i \in 1..n : f[i] = g[<<i, f[i - 1]>>]

(* A function on 0..n is defined by its value at zero and by a step.         *)
LEMMA Recursion ==
  ASSUME NEW n \in Nat, NEW V, NEW v \in V, NEW g \in [Nat \X V -> V]
  PROVE  \E f \in [0..n -> V] : Follows(f, n, v, g)
<1> DEFINE Q(m, f) == Follows(f, m, v, g)
           P == {m \in 0..n : \E f \in [0..m -> V] : Q(m, f)}
<1>1. 0 \in P
  <2> DEFINE c == [i \in 0..0 |-> v]
  <2>1. c \in [0..0 -> V] /\ c[0] = v /\ 0 \in 0..n /\ 1..0 = {} OBVIOUS
  <2> HIDE DEF c
  <2>2. Q(0, c) BY <2>1 DEF Follows
  <2> QED BY <2>1, <2>2
<1>2. ASSUME NEW m \in 1..n, m - 1 \in P PROVE m \in P
  <2>1. PICK f \in [0..(m - 1) -> V] : Q(m - 1, f) BY <1>2
  <2> DEFINE h == [i \in 0..m |-> IF i = m THEN g[<<m, f[m - 1]>>] ELSE f[i]]
  <2>2. f[m - 1] \in V /\ g[<<m, f[m - 1]>>] \in V BY <2>1
  <2>3. h \in [0..m -> V] BY <2>2
  <2>4. \A i \in 0..(m - 1) : h[i] = f[i] OBVIOUS
  <2>5. h[m] = g[<<m, f[m - 1]>>] OBVIOUS
  <2> HIDE DEF h
  <2>6. Q(m, h)
    <3>1. h[0] = v BY <2>1, <2>4 DEF Follows
    <3>2. ASSUME NEW i \in 1..m PROVE h[i] = g[<<i, h[i - 1]>>]
      <4>1. CASE i = m
        <5>1. m - 1 \in 0..(m - 1) OBVIOUS
        <5>2. h[m - 1] = f[m - 1] BY <5>1, <2>4
        <5> QED BY <4>1, <5>2, <2>5
      <4>2. CASE i # m
        <5>1. i \in 1..(m - 1) /\ i \in 0..(m - 1) /\ i - 1 \in 0..(m - 1) BY <4>2
        <5> QED BY <5>1, <2>1, <2>4 DEF Follows
      <4> QED BY <4>1, <4>2
    <3> QED BY <3>1, <3>2 DEF Follows
  <2> QED BY <2>3, <2>6
<1> HIDE DEF P
<1>3. \A m \in 0..n : m \in P BY <1>1, <1>2, UpTo
<1>4. n \in P BY <1>3
<1> QED BY <1>4 DEF P

-----------------------------------------------------------------------------
(* The table of distances.                                                   *)

(* min3 returns one of its arguments, and none of them is less.              *)
LEMMA LeastIsLeast ==
  ASSUME NEW a \in Nat, NEW b \in Nat, NEW c \in Nat
  PROVE  /\ Least(a, b, c) \in {a, b, c} /\ Least(a, b, c) \in Nat
         /\ Least(a, b, c) <= a /\ Least(a, b, c) <= b /\ Least(a, b, c) <= c
<1>1. \E x \in {a, b, c} : \A y \in {a, b, c} : x <= y OBVIOUS
<1>2. Least(a, b, c) \in {a, b, c} /\ \A y \in {a, b, c} : Least(a, b, c) <= y
  BY <1>1 DEF Least, Min
<1> QED BY <1>2

(* Whether a character has to be replaced.                                   *)
Cost(s, t, i, j) == IF s[i] = t[j] THEN 0 ELSE 1

(* The equation of the cells of a row.                                       *)
IsRow(curr, prev, i, s, t) ==
  curr = [j \in 0..Len(t) |-> IF j = 0 THEN i
                              ELSE Least(curr[j-1] + 1, prev[j] + 1, prev[j-1] + Cost(s, t, i, j))]

(* NextRow is the function that satisfies it.                                *)
LEMMA RowIsChosen ==
  ASSUME NEW prev, NEW i, NEW s, NEW t
  PROVE  NextRow(prev, i, s, t) = CHOOSE curr : IsRow(curr, prev, i, s, t)
  BY DEF NextRow, IsRow, Cost

(* What the cells of a row satisfy.                                          *)
RowFollows(curr, prev, i, s, t) ==
  /\ curr \in [0..Len(t) -> Nat] /\ curr[0] = i
  /\ \A j \in 1..Len(t) : curr[j] = Least(curr[j-1] + 1, prev[j] + 1, prev[j-1] + Cost(s, t, i, j))

(* NextRow computes such a row.                                              *)
LEMMA RowUnfolds ==
  ASSUME NEW s, NEW t, Len(t) \in Nat, NEW prev \in [0..Len(t) -> Nat], NEW i \in Nat
  PROVE  RowFollows(NextRow(prev, i, s, t), prev, i, s, t)
<1> DEFINE L == Len(t)
           cell(j, v) == Least(v + 1, prev[j] + 1, prev[j-1] + Cost(s, t, i, j))
           g == [p \in Nat \X Nat |-> IF p[1] \in 1..L THEN cell(p[1], p[2]) ELSE 0]
<1>1. \A j \in 1..L : prev[j] \in Nat /\ prev[j-1] \in Nat /\ Cost(s, t, i, j) \in Nat BY DEF Cost
<1>2. \A j \in 1..L, v \in Nat : cell(j, v) \in Nat
  <2> SUFFICES ASSUME NEW j \in 1..L, NEW v \in Nat PROVE cell(j, v) \in Nat OBVIOUS
  <2>1. v + 1 \in Nat /\ prev[j] + 1 \in Nat /\ prev[j-1] + Cost(s, t, i, j) \in Nat BY <1>1
  <2> QED BY <2>1, LeastIsLeast
<1> HIDE DEF cell
<1>3. g \in [Nat \X Nat -> Nat] BY <1>2
<1>4. \A j \in 1..L, v \in Nat : g[<<j, v>>] = cell(j, v) OBVIOUS
<1>0. L \in Nat OBVIOUS
<1> HIDE DEF g, L
<1>5. PICK f \in [0..L -> Nat] : Follows(f, L, i, g) BY <1>0, <1>3, Recursion, Zenon
<1>6. ASSUME NEW j \in 1..L PROVE f[j] = cell(j, f[j-1])
  <2>1. j - 1 \in 0..L BY <1>0
  <2>2. f[j-1] \in Nat BY <2>1
  <2> QED BY <1>4, <1>5, <2>2 DEF Follows
<1>7. f = [j \in 0..L |-> IF j = 0 THEN i ELSE cell(j, f[j-1])] BY <1>5, <1>6 DEF Follows
<1>8. IsRow(f, prev, i, s, t) BY <1>7 DEF IsRow, cell, L
<1>9. PICK c : c = NextRow(prev, i, s, t) OBVIOUS
<1>10. IsRow(c, prev, i, s, t) BY <1>8, <1>9, RowIsChosen
<1>11. c = [j \in 0..L |-> IF j = 0 THEN i ELSE cell(j, c[j-1])] BY <1>10 DEF IsRow, cell, L
<1>12. c[0] = i /\ \A j \in 1..L : c[j] = cell(j, c[j-1])
  <2>1. \A j \in 0..L : c[j] = IF j = 0 THEN i ELSE cell(j, c[j-1]) BY <1>11, Zenon
  <2>2. 0 \in 0..L /\ \A j \in 1..L : j \in 0..L /\ j # 0 BY <1>0
  <2> QED BY <2>1, <2>2
<1>13. \A j \in 0..L : c[j] \in Nat
  <2> DEFINE P == {j \in 0..L : c[j] \in Nat}
  <2>1. 0 \in P BY <1>0, <1>12
  <2>2. ASSUME NEW j \in 1..L, j - 1 \in P PROVE j \in P
    <3>1. c[j-1] \in Nat /\ j \in 0..L BY <2>2, <1>0
    <3>2. c[j] \in Nat BY <3>1, <1>12, <1>2
    <3> QED BY <3>1, <3>2
  <2> HIDE DEF P
  <2>3. \A j \in 0..L : j \in P BY <1>0, <2>1, <2>2, UpTo
  <2> QED BY <2>3 DEF P
<1>14. c \in [0..L -> Nat]
  <2>1. \E h : c = [j \in 0..L |-> h[j]] 
    <3> DEFINE h == [j \in 0..L |-> IF j = 0 THEN i ELSE cell(j, c[j-1])]
    <3>1. c = [j \in 0..L |-> h[j]] BY <1>11
    <3> QED BY <3>1
  <2> QED BY <1>13, <2>1
<1> QED BY <1>9, <1>12, <1>14 DEF cell, L, RowFollows

(* What the cells of the table of s and t satisfy: no edit for no            *)
(* characters, and otherwise the cheapest of an insertion, a removal and a   *)
(* replacement.                                                              *)
IsTable(d, s, t) ==
  /\ d \in [0..Len(s) -> [0..Len(t) -> Nat]]
  /\ \A j \in 0..Len(t) : d[0][j] = j
  /\ \A i \in 0..Len(s) : d[i][0] = i
  /\ \A i \in 1..Len(s), j \in 1..Len(t) :
       d[i][j] = Least(d[i][j-1] + 1, d[i-1][j] + 1, d[i-1][j-1] + Cost(s, t, i, j))

(* The rows that levenshteinAtMost computes are such a table.                *)
LEMMA TableUnfolds ==
  ASSUME NEW s, NEW t, Len(s) \in Nat, Len(t) \in Nat
  PROVE  IsTable(Table(s, t), s, t)
<1> DEFINE L == Len(s)
           V == [0..Len(t) -> Nat]
           first == [j \in 0..Len(t) |-> j]
           g == [p \in Nat \X V |-> NextRow(p[2], p[1], s, t)]
           IsTab(r) == r = [i \in 0..L |-> IF i = 0 THEN first ELSE NextRow(r[i-1], i, s, t)]
<1>1. first \in V OBVIOUS
<1>2. \A i \in Nat, r \in V : NextRow(r, i, s, t) \in V BY RowUnfolds DEF RowFollows
<1>3. g \in [Nat \X V -> V] BY <1>2
<1>4. \A i \in Nat, r \in V : g[<<i, r>>] = NextRow(r, i, s, t) OBVIOUS
<1>0. L \in Nat OBVIOUS
<1> HIDE DEF g, first, L
<1>5. PICK f \in [0..L -> V] : Follows(f, L, first, g)
  <2> HIDE DEF V
  <2> QED BY <1>0, <1>1, <1>3, Recursion, Zenon
<1>6. ASSUME NEW i \in 1..L PROVE f[i] = NextRow(f[i-1], i, s, t)
  <2> HIDE DEF V
  <2>1. i - 1 \in 0..L /\ i \in Nat BY <1>0
  <2>2. f[i-1] \in V BY <2>1
  <2> QED BY <1>4, <1>5, <2>1, <2>2 DEF Follows
<1>7. IsTab(f)
  <2> HIDE DEF V
  <2> QED BY <1>5, <1>6 DEF Follows
<1>8. Table(s, t) = CHOOSE r : IsTab(r) BY DEF Table, first, L
<1>9. PICK r : r = Table(s, t) OBVIOUS
<1>10. IsTab(r) BY <1>7, <1>8, <1>9
<1>11. r[0] = first /\ \A i \in 1..L : r[i] = NextRow(r[i-1], i, s, t) BY <1>0, <1>10
<1>12. \A i \in 0..L : r[i] \in V
  <2> DEFINE P == {i \in 0..L : r[i] \in V}
  <2> HIDE DEF V
  <2>1. 0 \in P BY <1>0, <1>1, <1>11
  <2>2. \A i \in 1..L : i - 1 \in P => i \in P BY <1>0, <1>2, <1>11
  <2> HIDE DEF P
  <2>3. \A i \in 0..L : i \in P BY <1>0, <2>1, <2>2, UpTo
  <2> QED BY <2>3 DEF P
<1>13. r \in [0..L -> V]
  <2> HIDE DEF V
  <2>1. DOMAIN r = 0..L /\ r = [i \in DOMAIN r |-> r[i]] BY <1>10
  <2> QED BY <1>12, <2>1
<1>14. \A j \in 0..Len(t) : r[0][j] = j BY <1>11 DEF first
<1>15. ASSUME NEW i \in 1..L
       PROVE  r[i][0] = i /\ \A j \in 1..Len(t) : r[i][j] = Least(r[i][j-1] + 1, r[i-1][j] + 1, r[i-1][j-1] + Cost(s, t, i, j))
  <2>1. i - 1 \in 0..L /\ i \in Nat BY <1>0
  <2>2. r[i-1] \in V BY <1>12, <2>1
  <2>3. r[i] = NextRow(r[i-1], i, s, t) BY <1>11
  <2>4. PICK q : q = r[i-1] OBVIOUS
  <2>5. q \in [0..Len(t) -> Nat] BY <2>2, <2>4
  <2>6. RowFollows(NextRow(q, i, s, t), q, i, s, t) BY <2>1, <2>5, RowUnfolds, Zenon
  <2>7. RowFollows(r[i], r[i-1], i, s, t) BY <2>3, <2>4, <2>6, Zenon
  <2> QED BY <2>7 DEF RowFollows
<1>16. r[0][0] = 0 BY <1>14
<1>17. \A i \in 0..L : r[i][0] = i BY <1>0, <1>15, <1>16
<1> QED BY <1>9, <1>13, <1>14, <1>15, <1>17 DEF IsTable, L

(* The number of edits is a number, whatever prefixes are compared.          *)
LEMMA CellIsNat ==
  ASSUME NEW s, NEW t, NEW d, IsTable(d, s, t), NEW i \in 0..Len(s), NEW j \in 0..Len(t)
  PROVE  d[i][j] \in Nat
  BY DEF IsTable

(* A number e that is the cheapest of the ways to reach a cell from the cells *)
(* with l, u and v edits, where a replacement costs c.                       *)
Cheapest(e, l, u, v, c) ==
  /\ e \in Nat /\ l \in Nat /\ u \in Nat /\ v \in Nat /\ c \in {0, 1}
  /\ e <= l + 1 /\ e <= u + 1 /\ e <= v + c
  /\ e = l + 1 \/ e = u + 1 \/ e = v + c

(* A cell is one of the three ways to reach it, and none of them is shorter. *)
LEMMA CellIsLeast ==
  ASSUME NEW s, NEW t, Len(s) \in Nat, Len(t) \in Nat, NEW d, IsTable(d, s, t),
         NEW i \in 1..Len(s), NEW j \in 1..Len(t)
  PROVE  Cheapest(d[i][j], d[i][j-1], d[i-1][j], d[i-1][j-1], Cost(s, t, i, j))
<1>1. i - 1 \in 0..Len(s) /\ j - 1 \in 0..Len(t) /\ i \in 0..Len(s) /\ j \in 0..Len(t) OBVIOUS
<1>2. PICK e, l, u, v, c : /\ e = d[i][j] /\ l = d[i][j-1] /\ u = d[i-1][j] /\ v = d[i-1][j-1]
                           /\ c = Cost(s, t, i, j)
  OBVIOUS
<1>3. e \in Nat /\ l \in Nat /\ u \in Nat /\ v \in Nat BY <1>1, <1>2, CellIsNat
<1>4. e = Least(l + 1, u + 1, v + c) BY <1>2 DEF IsTable
<1>5. c \in {0, 1} BY <1>2 DEF Cost
<1>6. l + 1 \in Nat /\ u + 1 \in Nat /\ v + c \in Nat BY <1>3, <1>5
<1>7. e \in {l + 1, u + 1, v + c} /\ e <= l + 1 /\ e <= u + 1 /\ e <= v + c BY <1>4, <1>6, LeastIsLeast
<1>8. Cheapest(e, l, u, v, c) BY <1>3, <1>5, <1>7 DEF Cheapest
<1> QED BY <1>2, <1>8

(* A replacement costs at most one.                                          *)
LEMMA CostIsSmall ==
  ASSUME NEW s, NEW t, NEW i, NEW j
  PROVE  Cost(s, t, i, j) \in {0, 1} /\ (s[i] = t[j] => Cost(s, t, i, j) = 0)
  BY DEF Cost

(* At least as many edits as one prefix is longer than the other: the first  *)
(* cut-off.                                                                  *)
LEMMA LengthsDiffer ==
  ASSUME NEW s, NEW t, Len(s) \in Nat, Len(t) \in Nat, NEW d, IsTable(d, s, t)
  PROVE  \A i \in 0..Len(s), j \in 0..Len(t) : d[i][j] >= i - j
<1> DEFINE P == {p \in (0..Len(s)) \X (0..Len(t)) : d[p[1]][p[2]] >= p[1] - p[2]}
<1>1. \A i \in 0..Len(s), j \in 0..Len(t) : <<i, j>> \in P <=> d[i][j] >= i - j OBVIOUS
<1>2. ASSUME NEW i \in 0..Len(s), NEW j \in 0..Len(t), 
             \A a \in 0..i, b \in 0..j : (a = i /\ b = j) \/ <<a, b>> \in P
      PROVE  <<i, j>> \in P
  <2> HIDE DEF P
  <2>1. CASE i = 0
    <3>1. d[i][j] = j BY <2>1 DEF IsTable
    <3> QED BY <2>1, <3>1, <1>1
  <2>2. CASE j = 0
    <3>1. d[i][j] = i BY <2>2 DEF IsTable
    <3> QED BY <2>2, <3>1, <1>1
  <2>3. CASE i # 0 /\ j # 0
    <3>1. i \in 1..Len(s) /\ j \in 1..Len(t) /\ i - 1 \in 0..i /\ j - 1 \in 0..j /\ i \in 0..i /\ j \in 0..j BY <2>3
    <3>2. <<i-1, j>> \in P /\ <<i, j-1>> \in P /\ <<i-1, j-1>> \in P BY <3>1, <1>2
    <3>3. d[i-1][j] >= i - 1 - j /\ d[i][j-1] >= i - (j - 1) /\ d[i-1][j-1] >= i - 1 - (j - 1)
      <4>1. i - 1 \in 0..Len(s) /\ j - 1 \in 0..Len(t) BY <3>1
      <4> QED BY <3>2, <4>1, <1>1
    <3>4. d[i][j] >= i - j
      <4>1. Cheapest(d[i][j], d[i][j-1], d[i-1][j], d[i-1][j-1], Cost(s, t, i, j)) BY <3>1, CellIsLeast
      <4> QED BY <3>3, <4>1, SMTT(60) DEF Cheapest
    <3> QED BY <3>4, <1>1
  <2> QED BY <2>1, <2>2, <2>3
<1> HIDE DEF P
<1>3. \A i \in 0..Len(s), j \in 0..Len(t) : <<i, j>> \in P BY <1>2, OverTable
<1> QED BY <1>1, <1>3

(* When every cell of a row is over the cap, so are those of the next row.   *)
LEMMA NextRowIsOver ==
  ASSUME NEW s, NEW t, Len(s) \in Nat, Len(t) \in Nat, NEW d, IsTable(d, s, t), NEW max \in Nat,
         NEW i \in 1..Len(s), \A j \in 0..Len(t) : d[i-1][j] > max
  PROVE  \A j \in 0..Len(t) : d[i][j] > max
<1> DEFINE P == {j \in 0..Len(t) : d[i][j] > max}
<1>1. 0 \in P
  <2>1. d[i-1][0] = i - 1 /\ d[i][0] = i BY DEF IsTable
  <2>2. d[i-1][0] > max OBVIOUS
  <2> QED BY <2>1, <2>2
<1>2. ASSUME NEW j \in 1..Len(t), j - 1 \in P PROVE j \in P
  <2>1. d[i][j-1] > max /\ d[i-1][j] > max /\ d[i-1][j-1] > max /\ j \in 0..Len(t) BY <1>2
  <2>2. Cheapest(d[i][j], d[i][j-1], d[i-1][j], d[i-1][j-1], Cost(s, t, i, j)) BY CellIsLeast
  <2>3. d[i][j] > max BY <2>1, <2>2, SMTT(60) DEF Cheapest
  <2> QED BY <2>1, <2>3
<1> HIDE DEF P
<1>3. \A j \in 0..Len(t) : j \in P BY <1>1, <1>2, UpTo
<1> QED BY <1>3 DEF P

(* Once a row is over the cap, so is every later one: the second cut-off.    *)
LEMMA RowsStayOver ==
  ASSUME NEW s, NEW t, Len(s) \in Nat, Len(t) \in Nat, NEW d, IsTable(d, s, t), NEW max \in Nat,
         NEW k \in 0..Len(s), \A j \in 0..Len(t) : d[k][j] > max
  PROVE  \A j \in 0..Len(t) : d[Len(s)][j] > max
<1> DEFINE P == {i \in 0..Len(s) : i >= k => \A j \in 0..Len(t) : d[i][j] > max}
<1>1. 0 \in P BY DEF P
<1>2. ASSUME NEW i \in 1..Len(s), i - 1 \in P PROVE i \in P
  <2>1. CASE i <= k BY <2>1
  <2>2. CASE i > k
    <3>1. \A j \in 0..Len(t) : d[i-1][j] > max BY <1>2, <2>2
    <3>2. \A j \in 0..Len(t) : d[i][j] > max BY <3>1, NextRowIsOver
    <3> QED BY <3>2
  <2> QED BY <2>1, <2>2
<1> HIDE DEF P
<1>3. \A i \in 0..Len(s) : i \in P BY <1>1, <1>2, UpTo
<1>4. Len(s) \in P BY <1>3
<1> QED BY <1>4 DEF P

(* A name is no edit away from itself.                                       *)
LEMMA DiagonalIsZero ==
  ASSUME NEW s, Len(s) \in Nat, NEW d, IsTable(d, s, s)
  PROVE  \A i \in 0..Len(s) : d[i][i] = 0
<1> DEFINE P == {i \in 0..Len(s) : d[i][i] = 0}
<1>1. 0 \in P BY DEF IsTable
<1>2. ASSUME NEW i \in 1..Len(s), i - 1 \in P PROVE i \in P
  <2>1. d[i-1][i-1] = 0 /\ i \in 0..Len(s) BY <1>2
  <2>2. d[i][i] = 0 BY <2>1, CellIsLeast, CostIsSmall DEF Cheapest
  <2> QED BY <2>1, <2>2
<1> HIDE DEF P
<1>3. \A i \in 0..Len(s) : i \in P BY <1>1, <1>2, UpTo
<1> QED BY <1>3 DEF P

(* The cheapest way is determined by the three cells, in whatever order.     *)
LEMMA CheapestIsOne ==
  ASSUME NEW e, NEW f, NEW l, NEW u, NEW v, NEW c, Cheapest(e, l, u, v, c),
         Cheapest(f, l, u, v, c) \/ Cheapest(f, u, l, v, c)
  PROVE  e = f
  BY DEF Cheapest

(* Cells that need at most one edit more are reached with at most one more.  *)
LEMMA CheapestIsNear ==
  ASSUME NEW e, NEW l, NEW u, NEW v, NEW c, Cheapest(e, l, u, v, c),
         NEW f, NEW x, NEW y, NEW z, NEW b, Cheapest(f, x, y, z, b),
         x <= l + 1, y <= u + 1, z + b <= v + c + 1
  PROVE  f <= e + 1
  BY DEF Cheapest

(* The distance from s to t is that from t to s.                             *)
LEMMA TableIsSymmetric ==
  ASSUME NEW s, NEW t, Len(s) \in Nat, Len(t) \in Nat, NEW d, IsTable(d, s, t), NEW e, IsTable(e, t, s)
  PROVE  \A i \in 0..Len(s), j \in 0..Len(t) : d[i][j] = e[j][i]
<1> DEFINE P == {p \in (0..Len(s)) \X (0..Len(t)) : d[p[1]][p[2]] = e[p[2]][p[1]]}
<1>1. \A i \in 0..Len(s), j \in 0..Len(t) : <<i, j>> \in P <=> d[i][j] = e[j][i] OBVIOUS
<1>2. ASSUME NEW i \in 0..Len(s), NEW j \in 0..Len(t),
             \A a \in 0..i, b \in 0..j : (a = i /\ b = j) \/ <<a, b>> \in P
      PROVE  <<i, j>> \in P
  <2> HIDE DEF P
  <2>1. CASE i = 0
    <3>1. d[i][j] = j /\ e[j][i] = j BY <2>1 DEF IsTable
    <3> QED BY <3>1, <1>1
  <2>2. CASE j = 0
    <3>1. d[i][j] = i /\ e[j][i] = i BY <2>2 DEF IsTable
    <3> QED BY <3>1, <1>1
  <2>3. CASE i # 0 /\ j # 0
    <3>1. i \in 1..Len(s) /\ j \in 1..Len(t) /\ i - 1 \in 0..i /\ j - 1 \in 0..j /\ i \in 0..i /\ j \in 0..j BY <2>3
    <3>2. <<i-1, j>> \in P /\ <<i, j-1>> \in P /\ <<i-1, j-1>> \in P BY <3>1, <1>2
    <3>3. d[i-1][j] = e[j][i-1] /\ d[i][j-1] = e[j-1][i] /\ d[i-1][j-1] = e[j-1][i-1]
      <4>1. i - 1 \in 0..Len(s) /\ j - 1 \in 0..Len(t) BY <3>1
      <4> QED BY <3>2, <4>1, <1>1
    <3>4. Cheapest(d[i][j], d[i][j-1], d[i-1][j], d[i-1][j-1], Cost(s, t, i, j)) BY <3>1, CellIsLeast
    <3>5. Cheapest(e[j][i], e[j][i-1], e[j-1][i], e[j-1][i-1], Cost(t, s, j, i)) BY <3>1, CellIsLeast
    <3>6. Cost(t, s, j, i) = Cost(s, t, i, j) BY DEF Cost
    <3>7. d[i][j] = e[j][i] BY <3>3, <3>4, <3>5, <3>6, CheapestIsOne
    <3> QED BY <3>7, <1>1
  <2> QED BY <2>1, <2>2, <2>3
<1> HIDE DEF P
<1>3. \A i \in 0..Len(s), j \in 0..Len(t) : <<i, j>> \in P BY <1>2, OverTable
<1> QED BY <1>1, <1>3

(* One character more is at most one edit less.                              *)
LEMMA LeftIsNear ==
  ASSUME NEW s, NEW t, Len(s) \in Nat, Len(t) \in Nat, NEW d, IsTable(d, s, t), NEW j \in 1..Len(t)
  PROVE  \A i \in 0..Len(s) : d[i][j-1] <= d[i][j] + 1
<1> DEFINE P == {i \in 0..Len(s) : d[i][j-1] <= d[i][j] + 1}
<1>1. 0 \in P
  <2>1. d[0][j-1] = j - 1 /\ d[0][j] = j BY DEF IsTable
  <2> QED BY <2>1
<1>2. ASSUME NEW i \in 1..Len(s), i - 1 \in P PROVE i \in P
  <2>1. d[i-1][j-1] <= d[i-1][j] + 1 /\ i \in 0..Len(s) BY <1>2
  <2>2. Cheapest(d[i][j], d[i][j-1], d[i-1][j], d[i-1][j-1], Cost(s, t, i, j)) BY CellIsLeast
  <2>3. d[i][j-1] <= d[i-1][j-1] + 1 
    <3>1. CASE j = 1
      <4>1. d[i][0] = i /\ d[i-1][0] = i - 1 BY DEF IsTable
      <4> QED BY <3>1, <4>1
    <3>2. CASE j # 1
      <4>1. j - 1 \in 1..Len(t) BY <3>2
      <4>2. Cheapest(d[i][j-1], d[i][j-1-1], d[i-1][j-1], d[i-1][j-1-1], Cost(s, t, i, j-1)) BY <4>1, CellIsLeast
      <4> QED BY <4>2 DEF Cheapest
    <3> QED BY <3>1, <3>2
  <2>4. d[i][j-1] <= d[i][j] + 1
    <3>1. PICK e, l, u, v, c : e = d[i][j] /\ l = d[i][j-1] /\ u = d[i-1][j] /\ v = d[i-1][j-1] /\ c = Cost(s, t, i, j)
      OBVIOUS
    <3>2. Cheapest(e, l, u, v, c) /\ v <= u + 1 /\ l <= v + 1 BY <2>1, <2>2, <2>3, <3>1
    <3>3. l <= e + 1 BY <3>2 DEF Cheapest
    <3> QED BY <3>1, <3>3
  <2> QED BY <2>1, <2>4
<1> HIDE DEF P
<1>3. \A i \in 0..Len(s) : i \in P BY <1>1, <1>2, UpTo
<1> QED BY <1>3 DEF P

(* u and v have their first p characters in common.                          *)
SamePrefix(u, v, p) == p \in Nat /\ p <= Len(u) /\ p <= Len(v) /\ \A j \in 1..p : u[j] = v[j]

(* Names with a common prefix have the cells of that prefix in common.       *)
LEMMA PrefixIsShared ==
  ASSUME NEW s, NEW u, NEW v, Len(s) \in Nat, Len(u) \in Nat, Len(v) \in Nat,
         NEW d, IsTable(d, s, u), NEW e, IsTable(e, s, v),
         NEW p, SamePrefix(u, v, p)
  PROVE  \A i \in 0..Len(s), j \in 0..p : e[i][j] = d[i][j]
<1> DEFINE P == {q \in (0..Len(s)) \X (0..p) : e[q[1]][q[2]] = d[q[1]][q[2]]}
<1>0. p \in Nat /\ p <= Len(u) /\ p <= Len(v) /\ \A j \in 1..p : u[j] = v[j] BY DEF SamePrefix
<1>1. \A i \in 0..Len(s), j \in 0..p : <<i, j>> \in P <=> e[i][j] = d[i][j] OBVIOUS
<1>2. ASSUME NEW i \in 0..Len(s), NEW j \in 0..p,
             \A a \in 0..i, b \in 0..j : (a = i /\ b = j) \/ <<a, b>> \in P
      PROVE  <<i, j>> \in P
  <2> HIDE DEF P
  <2>0. j \in 0..Len(u) /\ j \in 0..Len(v) BY <1>0
  <2>1. CASE i = 0
    <3>1. d[i][j] = j /\ e[i][j] = j BY <2>0, <2>1 DEF IsTable
    <3> QED BY <3>1, <1>1
  <2>2. CASE j = 0
    <3>1. d[i][j] = i /\ e[i][j] = i BY <2>2 DEF IsTable
    <3> QED BY <3>1, <1>1
  <2>3. CASE i # 0 /\ j # 0
    <3>1. i \in 1..Len(s) /\ j \in 1..Len(u) /\ j \in 1..Len(v) /\ j \in 1..p /\ i - 1 \in 0..i /\ j - 1 \in 0..j /\ i \in 0..i /\ j \in 0..j BY <1>0, <2>3
    <3>2. <<i-1, j>> \in P /\ <<i, j-1>> \in P /\ <<i-1, j-1>> \in P BY <3>1, <1>2
    <3>3. d[i-1][j] = e[i-1][j] /\ d[i][j-1] = e[i][j-1] /\ d[i-1][j-1] = e[i-1][j-1]
      <4>1. i - 1 \in 0..Len(s) /\ j - 1 \in 0..p BY <1>0, <3>1
      <4> QED BY <3>2, <4>1, <1>1
    <3>4. Cheapest(d[i][j], d[i][j-1], d[i-1][j], d[i-1][j-1], Cost(s, u, i, j)) BY <3>1, CellIsLeast
    <3>5. Cheapest(e[i][j], e[i][j-1], e[i-1][j], e[i-1][j-1], Cost(s, v, i, j)) BY <3>1, CellIsLeast
    <3>6. Cost(s, u, i, j) = Cost(s, v, i, j) BY <1>0, <3>1 DEF Cost
    <3>7. d[i][j] = e[i][j] BY <3>3, <3>4, <3>5, <3>6, CheapestIsOne
    <3> QED BY <3>7, <1>1
  <2> QED BY <2>1, <2>2, <2>3
<1> HIDE DEF P
<1>3. \A i \in 0..Len(s), j \in 0..p : <<i, j>> \in P BY <1>0, <1>2, OverTable
<1> QED BY <1>1, <1>3

-----------------------------------------------------------------------------
(* Single edits.                                                             *)

(* v is u with one more character, after the first p.                        *)
Shifted(u, v, p) ==
  /\ Len(u) \in Nat /\ Len(v) = Len(u) + 1 /\ p \in 0..Len(u)
  /\ \A j \in 1..p : u[j] = v[j]
  /\ \A j \in (p + 1)..Len(u) : v[j+1] = u[j]

(* v is u with another character at p.                                       *)
Replaced(u, v, p) ==
  /\ Len(u) \in Nat /\ Len(v) = Len(u) /\ p \in 1..Len(u)
  /\ \A j \in 1..Len(u) : j # p => v[j] = u[j]

(* Behind the character that is inserted, cells differ by one at most.       *)
LEMMA ShiftedIsNear ==
  ASSUME NEW s, NEW u, NEW v, NEW p, Len(s) \in Nat, Shifted(u, v, p),
         NEW d, IsTable(d, s, u), NEW e, IsTable(e, s, v)
  PROVE  \A i \in 0..Len(s), j \in 0..Len(u) : j >= p => e[i][j+1] <= d[i][j] + 1 /\ d[i][j] <= e[i][j+1] + 1
<1> DEFINE Q(i, j) == j >= p => e[i][j+1] <= d[i][j] + 1 /\ d[i][j] <= e[i][j+1] + 1
           P == {q \in (0..Len(s)) \X (0..Len(u)) : Q(q[1], q[2])}
<1>0. /\ Len(u) \in Nat /\ Len(v) \in Nat /\ Len(v) = Len(u) + 1 /\ p \in Nat /\ p <= Len(u) /\ p <= Len(v)
      /\ \A j \in 1..p : u[j] = v[j]
      /\ \A j \in (p + 1)..Len(u) : v[j+1] = u[j]
  BY DEF Shifted
<1>1. \A i \in 0..Len(s), j \in 0..Len(u) : <<i, j>> \in P <=> Q(i, j) OBVIOUS
<1>2. \A i \in 0..Len(s), j \in 0..p : e[i][j] = d[i][j]
  <2>1. SamePrefix(u, v, p) BY <1>0 DEF SamePrefix
  <2> QED BY <1>0, <2>1, PrefixIsShared
<1>3. ASSUME NEW i \in 0..Len(s), NEW j \in 0..Len(u),
             \A a \in 0..i, b \in 0..j : (a = i /\ b = j) \/ <<a, b>> \in P
      PROVE  <<i, j>> \in P
  <2> HIDE DEF P
  <2> SUFFICES ASSUME j >= p PROVE e[i][j+1] <= d[i][j] + 1 /\ d[i][j] <= e[i][j+1] + 1 BY <1>1
  <2>0. j \in Nat /\ j + 1 \in 1..Len(v) /\ j + 1 \in 0..Len(v) /\ j + 1 - 1 = j BY <1>0
  <2>4. PICK k \in 1..Len(v) : k = j + 1 BY <2>0
  <2>1. CASE i = 0
    <3>1. d[i][j] = j /\ e[i][j+1] = j + 1 BY <2>0, <2>1 DEF IsTable
    <3> QED BY <3>1, <2>0
  <2>2. CASE i # 0 /\ j = p
    <3>1. e[i][p] = d[i][p] BY <1>0, <1>2
    <3>2. e[i][j] <= e[i][j+1] + 1
      <4>1. \A h \in 0..Len(s) : e[h][k-1] <= e[h][k] + 1 BY <1>0, LeftIsNear
      <4>2. k - 1 = j BY <2>0, <2>4
      <4> QED BY <4>1, <4>2, <2>4
    <3>3. i \in 1..Len(s) BY <2>2
    <3>4. Cheapest(e[i][j+1], e[i][j], e[i-1][j+1], e[i-1][j], Cost(s, v, i, j+1)) 
      <4>1. Cheapest(e[i][k], e[i][k-1], e[i-1][k], e[i-1][k-1], Cost(s, v, i, k)) BY <1>0, <3>3, CellIsLeast
      <4>2. k - 1 = j BY <2>0, <2>4
      <4> QED BY <4>1, <4>2, <2>4
    <3>5. e[i][j+1] <= e[i][j] + 1 BY <3>4 DEF Cheapest
    <3> QED BY <2>2, <3>1, <3>2, <3>5
  <2>3. CASE i # 0 /\ j # p
    <3>1. i \in 1..Len(s) /\ j \in 1..Len(u) /\ i - 1 \in 0..i /\ j - 1 \in 0..j /\ i \in 0..i /\ j \in 0..j 
          /\ i - 1 \in 0..Len(s) /\ j - 1 \in 0..Len(u) /\ j - 1 >= p /\ j \in (p + 1)..Len(u) /\ j - 1 + 1 = j
      BY <2>3, <1>0
    <3>2. <<i-1, j>> \in P /\ <<i, j-1>> \in P /\ <<i-1, j-1>> \in P BY <3>1, <1>3
    <3>3. Q(i-1, j) /\ Q(i, j-1) /\ Q(i-1, j-1) BY <3>1, <3>2, <1>1, Zenon
    <3>4. Cheapest(d[i][j], d[i][j-1], d[i-1][j], d[i-1][j-1], Cost(s, u, i, j)) BY <1>0, <3>1, CellIsLeast
    <3>5. Cheapest(e[i][j+1], e[i][j], e[i-1][j+1], e[i-1][j], Cost(s, v, i, j+1)) 
      <4>1. Cheapest(e[i][k], e[i][k-1], e[i-1][k], e[i-1][k-1], Cost(s, v, i, k)) BY <1>0, <3>1, CellIsLeast
      <4>2. k - 1 = j BY <2>0, <2>4
      <4> QED BY <4>1, <4>2, <2>4
    <3>6. Cost(s, u, i, j) = Cost(s, v, i, j+1) BY <3>1, <1>0 DEF Cost
    <3>7. /\ e[i-1][j+1] <= d[i-1][j] + 1 /\ e[i][j] <= d[i][j-1] + 1 /\ e[i-1][j] <= d[i-1][j-1] + 1
          /\ d[i-1][j] <= e[i-1][j+1] + 1 /\ d[i][j-1] <= e[i][j] + 1 /\ d[i-1][j-1] <= e[i-1][j] + 1
      BY <3>1, <3>3
    <3>8. PICK c : c = Cost(s, u, i, j) OBVIOUS
    <3>9. c \in {0, 1} BY <3>8, CostIsSmall
    <3>10. /\ d[i-1][j-1] \in Nat /\ e[i-1][j] \in Nat BY <3>4, <3>5 DEF Cheapest
    <3>11. e[i-1][j] + c <= d[i-1][j-1] + c + 1 /\ d[i-1][j-1] + c <= e[i-1][j] + c + 1
      <4>1. PICK x, y : x = e[i-1][j] /\ y = d[i-1][j-1] OBVIOUS
      <4>2. x \in Nat /\ y \in Nat /\ x <= y + 1 /\ y <= x + 1 BY <3>7, <3>10, <4>1
      <4>3. x + c <= y + c + 1 /\ y + c <= x + c + 1 BY <3>9, <4>2
      <4> QED BY <4>1, <4>3
    <3>12. e[i][j+1] <= d[i][j] + 1 BY <3>4, <3>5, <3>6, <3>7, <3>8, <3>11, CheapestIsNear
    <3>13. d[i][j] <= e[i][j+1] + 1 BY <3>4, <3>5, <3>6, <3>7, <3>8, <3>11, CheapestIsNear
    <3> QED BY <3>12, <3>13
  <2> QED BY <2>1, <2>2, <2>3
<1> HIDE DEF P
<1>4. \A i \in 0..Len(s), j \in 0..Len(u) : <<i, j>> \in P BY <1>0, <1>3, OverTable
<1> QED BY <1>1, <1>4

(* Behind the character that is replaced, cells differ by one at most.       *)
LEMMA ReplacedIsNear ==
  ASSUME NEW s, NEW u, NEW v, NEW p, Len(s) \in Nat, Replaced(u, v, p),
         NEW d, IsTable(d, s, u), NEW e, IsTable(e, s, v)
  PROVE  \A i \in 0..Len(s), j \in 0..Len(u) : e[i][j] <= d[i][j] + 1
<1> DEFINE P == {q \in (0..Len(s)) \X (0..Len(u)) : e[q[1]][q[2]] <= d[q[1]][q[2]] + 1}
<1>0. /\ Len(u) \in Nat /\ Len(v) \in Nat /\ Len(v) = Len(u) /\ p \in 1..Len(u) /\ p - 1 \in Nat /\ p - 1 <= Len(u)
      /\ \A j \in 1..Len(u) : j # p => v[j] = u[j]
  BY DEF Replaced
<1>1. \A i \in 0..Len(s), j \in 0..Len(u) : <<i, j>> \in P <=> e[i][j] <= d[i][j] + 1 OBVIOUS
<1>2. \A i \in 0..Len(s), j \in 0..(p-1) : e[i][j] = d[i][j]
  <2>1. PICK r \in Nat : r = p - 1 BY <1>0
  <2>2. r <= Len(u) /\ r <= Len(v) /\ \A j \in 1..r : u[j] = v[j] BY <1>0, <2>1
  <2>3. SamePrefix(u, v, r) BY <2>2 DEF SamePrefix
  <2>4. \A i \in 0..Len(s), j \in 0..r : e[i][j] = d[i][j] BY <1>0, <2>3, PrefixIsShared, SMTT(60)
  <2> QED BY <2>1, <2>4
<1>3. ASSUME NEW i \in 0..Len(s), NEW j \in 0..Len(u),
             \A a \in 0..i, b \in 0..j : (a = i /\ b = j) \/ <<a, b>> \in P
      PROVE  <<i, j>> \in P
  <2> HIDE DEF P
  <2> SUFFICES e[i][j] <= d[i][j] + 1 BY <1>1
  <2>1. CASE i = 0
    <3>1. d[i][j] = j /\ e[i][j] = j BY <1>0, <2>1 DEF IsTable
    <3> QED BY <3>1
  <2>2. CASE j = 0
    <3>1. d[i][j] = i /\ e[i][j] = i BY <2>2 DEF IsTable
    <3> QED BY <3>1
  <2>3. CASE i # 0 /\ j # 0
    <3>1. i \in 1..Len(s) /\ j \in 1..Len(u) /\ i - 1 \in 0..i /\ j - 1 \in 0..j /\ i \in 0..i /\ j \in 0..j
          /\ i - 1 \in 0..Len(s) /\ j - 1 \in 0..Len(u)
      BY <2>3, <1>0
    <3>2. <<i-1, j>> \in P /\ <<i, j-1>> \in P /\ <<i-1, j-1>> \in P BY <3>1, <1>3
    <3>3. e[i-1][j] <= d[i-1][j] + 1 /\ e[i][j-1] <= d[i][j-1] + 1 /\ e[i-1][j-1] <= d[i-1][j-1] + 1
      BY <3>1, <3>2, <1>1
    <3>4. Cheapest(d[i][j], d[i][j-1], d[i-1][j], d[i-1][j-1], Cost(s, u, i, j)) BY <1>0, <3>1, CellIsLeast
    <3>5. Cheapest(e[i][j], e[i][j-1], e[i-1][j], e[i-1][j-1], Cost(s, v, i, j)) BY <1>0, <3>1, CellIsLeast
    <3>6. e[i-1][j-1] + Cost(s, v, i, j) <= d[i-1][j-1] + Cost(s, u, i, j) + 1
      <4>0. d[i-1][j-1] \in Nat /\ e[i-1][j-1] \in Nat BY <3>4, <3>5 DEF Cheapest
      <4>1. CASE j = p
        <5>1. e[i-1][j-1] = d[i-1][j-1] BY <1>0, <1>2, <3>1, <4>1
        <5>2. Cost(s, v, i, j) \in {0, 1} /\ Cost(s, u, i, j) \in {0, 1} BY CostIsSmall
        <5> QED BY <4>0, <5>1, <5>2
      <4>2. CASE j # p
        <5>1. Cost(s, v, i, j) = Cost(s, u, i, j) BY <1>0, <3>1, <4>2 DEF Cost
        <5>2. Cost(s, u, i, j) \in {0, 1} BY CostIsSmall
        <5> QED BY <4>0, <5>1, <5>2, <3>3, SMTT(60)
      <4> QED BY <4>1, <4>2
    <3> QED BY <3>3, <3>4, <3>5, <3>6, CheapestIsNear
  <2> QED BY <2>1, <2>2, <2>3
<1> HIDE DEF P
<1>4. \A i \in 0..Len(s), j \in 0..Len(u) : <<i, j>> \in P BY <1>0, <1>3, OverTable
<1> QED BY <1>1, <1>4

(* The distance that the table ends with.                                    *)
Distance(s, t) == Table(s, t)[Len(s)][Len(t)]

(* It is symmetric.                                                          *)
LEMMA DistanceIsSymmetric ==
  ASSUME NEW s, NEW t, Len(s) \in Nat, Len(t) \in Nat
  PROVE  Distance(s, t) = Distance(t, s) /\ Distance(s, t) \in Nat
<1>1. IsTable(Table(s, t), s, t) /\ IsTable(Table(t, s), t, s) BY TableUnfolds
<1>2. \A i \in 0..Len(s), j \in 0..Len(t) : Table(s, t)[i][j] = Table(t, s)[j][i] BY <1>1, TableIsSymmetric
<1>3. Len(s) \in 0..Len(s) /\ Len(t) \in 0..Len(t) OBVIOUS
<1>4. Table(s, t)[Len(s)][Len(t)] \in Nat BY <1>1, <1>3, CellIsNat
<1> QED BY <1>2, <1>3, <1>4 DEF Distance

(* One edit changes it by one at most.                                       *)
LEMMA EditIsNear ==
  ASSUME NEW s, NEW u, NEW v, NEW p, Len(s) \in Nat, Shifted(u, v, p) \/ Shifted(v, u, p) \/ Replaced(u, v, p)
  PROVE  Distance(s, v) <= Distance(s, u) + 1
<1>1. Len(u) \in Nat /\ Len(v) \in Nat BY DEF Shifted, Replaced
<1>2. PICK d, e : d = Table(s, u) /\ e = Table(s, v) OBVIOUS
<1>3. IsTable(d, s, u) /\ IsTable(e, s, v) BY <1>1, <1>2, TableUnfolds
<1>4. Len(s) \in 0..Len(s) /\ Len(u) \in 0..Len(u) /\ Len(v) \in 0..Len(v) BY <1>1
<1>5. CASE Shifted(u, v, p)
  <2>1. Len(v) = Len(u) + 1 /\ Len(u) >= p BY <1>5 DEF Shifted
  <2>2. e[Len(s)][Len(u) + 1] <= d[Len(s)][Len(u)] + 1 BY <1>3, <1>4, <1>5, <2>1, ShiftedIsNear
  <2> QED BY <1>2, <2>1, <2>2 DEF Distance
<1>6. CASE Shifted(v, u, p)
  <2>1. Len(u) = Len(v) + 1 /\ Len(v) >= p BY <1>6 DEF Shifted
  <2>2. e[Len(s)][Len(v)] <= d[Len(s)][Len(v) + 1] + 1 BY <1>3, <1>4, <1>6, <2>1, ShiftedIsNear
  <2> QED BY <1>2, <2>1, <2>2 DEF Distance
<1>7. CASE Replaced(u, v, p)
  <2>1. Len(u) = Len(v) BY <1>7 DEF Replaced
  <2>2. e[Len(s)][Len(u)] <= d[Len(s)][Len(u)] + 1 BY <1>3, <1>4, <1>7, ReplacedIsNear
  <2> QED BY <1>2, <2>1, <2>2 DEF Distance
<1> QED BY <1>5, <1>6, <1>7

(* The characters of a name that has been normalised.                        *)
Text == Letter \cup {Space}

(* The pieces of a name that a removal leaves, and that an insertion parts.   *)
LEMMA Pieces ==
  ASSUME NEW S, NEW u \in Seq(S), NEW m \in Nat, NEW n \in Nat, m > 0, n <= Len(u), m <= n + 1
  PROVE  /\ SubSeq(u, m, n) \in Seq(S) /\ Len(SubSeq(u, m, n)) = n - m + 1
         /\ \A i \in 1..(n - m + 1) : SubSeq(u, m, n)[i] = u[m + i - 1]
<1>1. Len(u) \in Nat BY LenProperties
<1>2. \A i \in m..n : u[i] \in S
  <2> SUFFICES ASSUME NEW i \in m..n PROVE u[i] \in S OBVIOUS
  <2>1. i \in 1..Len(u) BY <1>1
  <2> QED BY <2>1, ElementOfSeq
<1>3. /\ SubSeq(u, m, n) \in Seq(S)
      /\ Len(SubSeq(u, m, n)) = IF m <= n THEN n - m + 1 ELSE 0
      /\ \A i \in 1 .. n - m + 1 : SubSeq(u, m, n)[i] = u[m + i - 1]
  BY <1>2, SubSeqProperties
<1> QED BY <1>3

(* What RemoveAt leaves.                                                     *)
LEMMA RemovedAt ==
  ASSUME NEW S, NEW u \in Seq(S), NEW i \in 1..Len(u)
  PROVE  /\ RemoveAt(u, i) \in Seq(S) /\ Len(RemoveAt(u, i)) = Len(u) - 1
         /\ \A j \in 1..(Len(u) - 1) : RemoveAt(u, i)[j] = IF j < i THEN u[j] ELSE u[j+1]
<1>1. Len(u) \in Nat BY LenProperties
<1>2. PICK a, b : a = SubSeq(u, 1, i - 1) /\ b = SubSeq(u, i + 1, Len(u)) OBVIOUS
<1>3. a \in Seq(S) /\ Len(a) = i - 1 /\ \A j \in 1..(i - 1) : a[j] = u[j]
  <2>1. PICK n \in Nat : n = i - 1 BY <1>1
  <2>2. 1 <= n + 1 /\ n <= Len(u) BY <1>1, <2>1
  <2>3. a \in Seq(S) /\ Len(a) = n - 1 + 1 /\ \A j \in 1..(n - 1 + 1) : a[j] = u[1 + j - 1]
    BY <1>2, <2>1, <2>2, Pieces
  <2> QED BY <2>1, <2>3
<1>4. b \in Seq(S) /\ Len(b) = Len(u) - i /\ \A j \in 1..(Len(u) - i) : b[j] = u[i + j]
  <2>1. PICK m \in Nat : m = i + 1 BY <1>1
  <2>2. m > 0 /\ m <= Len(u) + 1 BY <1>1, <2>1
  <2>3. b \in Seq(S) /\ Len(b) = Len(u) - m + 1 /\ \A j \in 1..(Len(u) - m + 1) : b[j] = u[m + j - 1]
    BY <1>1, <1>2, <2>1, <2>2, Pieces
  <2>4. Len(u) - m + 1 = Len(u) - i BY <1>1, <2>1
  <2>5. \A j \in 1..(Len(u) - i) : m + j - 1 = i + j BY <1>1, <2>1
  <2> QED BY <2>3, <2>4, <2>5
<1>5. RemoveAt(u, i) = a \o b BY <1>2 DEF RemoveAt
<1>6. /\ a \o b \in Seq(S) /\ Len(a \o b) = Len(a) + Len(b)
      /\ \A j \in 1 .. Len(a) + Len(b) : (a \o b)[j] = IF j <= Len(a) THEN a[j] ELSE b[j - Len(a)]
  BY <1>3, <1>4, ConcatProperties
<1>7. Len(a) + Len(b) = Len(u) - 1 BY <1>1, <1>3, <1>4
<1>8. ASSUME NEW j \in 1..(Len(u) - 1) PROVE (a \o b)[j] = IF j < i THEN u[j] ELSE u[j+1]
  <2>1. CASE j < i BY <1>1, <1>3, <1>6, <1>7, <2>1
  <2>2. CASE j >= i
    <3>1. PICK k : k = j - Len(a) OBVIOUS
    <3>2. Len(a) = i - 1 BY <1>3
    <3>3. k \in 1..(Len(u) - i) /\ i + k = j + 1 /\ ~(j <= Len(a)) /\ ~(j < i) BY <1>1, <2>2, <3>1, <3>2
    <3>4. (a \o b)[j] = b[k] BY <1>6, <1>7, <3>1, <3>3
    <3>5. b[k] = u[i + k] BY <1>4, <3>3
    <3>6. u[i + k] = u[j + 1] BY <3>3
    <3> QED BY <3>3, <3>4, <3>5, <3>6, Zenon
  <2>3. j < i \/ j >= i OBVIOUS
  <2> QED BY <2>1, <2>2, <2>3, Zenon
<1> QED BY <1>5, <1>6, <1>7, <1>8

(* v is a sequence with c after the first i elements of u.                   *)
Inserted(S, v, u, i, c) ==
  /\ v \in Seq(S) /\ Len(v) = Len(u) + 1
  /\ \A j \in 1..(Len(u) + 1) : v[j] = IF j <= i THEN u[j] ELSE IF j = i + 1 THEN c ELSE u[j-1]

(* What InsertAt leaves.                                                     *)
LEMMA InsertedAt ==
  ASSUME NEW S, NEW u \in Seq(S), NEW c \in S, NEW i \in 0..Len(u)
  PROVE  Inserted(S, InsertAt(u, i + 1, c), u, i, c)
<1>1. Len(u) \in Nat /\ i + 1 - 1 = i BY LenProperties
<1>2. PICK a, b : a = SubSeq(u, 1, i) /\ b = SubSeq(u, i + 1, Len(u)) OBVIOUS
<1>3. a \in Seq(S) /\ Len(a) = i /\ \A j \in 1..i : a[j] = u[j]
  <2>1. i \in Nat /\ 1 <= i + 1 /\ i <= Len(u) BY <1>1
  <2>3. a \in Seq(S) /\ Len(a) = i - 1 + 1 /\ \A j \in 1..(i - 1 + 1) : a[j] = u[1 + j - 1]
    BY <1>2, <2>1, Pieces
  <2> QED BY <2>1, <2>3
<1>4. b \in Seq(S) /\ Len(b) = Len(u) - i /\ \A j \in 1..(Len(u) - i) : b[j] = u[i + j]
  <2>1. PICK m \in Nat : m = i + 1 BY <1>1
  <2>2. m > 0 /\ m <= Len(u) + 1 BY <1>1, <2>1
  <2>3. b \in Seq(S) /\ Len(b) = Len(u) - m + 1 /\ \A j \in 1..(Len(u) - m + 1) : b[j] = u[m + j - 1]
    BY <1>1, <1>2, <2>1, <2>2, Pieces
  <2>4. Len(u) - m + 1 = Len(u) - i BY <1>1, <2>1
  <2>5. \A j \in 1..(Len(u) - i) : m + j - 1 = i + j BY <1>1, <2>1
  <2> QED BY <2>3, <2>4, <2>5
<1>5. PICK w : w = a \o <<c>> OBVIOUS
<1>6. w \in Seq(S) /\ Len(w) = i + 1 /\ \A j \in 1..(i + 1) : w[j] = IF j <= i THEN u[j] ELSE c
  <2>1. <<c>> \in Seq(S) /\ Len(<<c>>) = 1 /\ <<c>>[1] = c OBVIOUS
  <2>2. PICK x : x = <<c>> OBVIOUS
  <2>3. /\ a \o x \in Seq(S) /\ Len(a \o x) = Len(a) + Len(x)
        /\ \A j \in 1 .. Len(a) + Len(x) : (a \o x)[j] = IF j <= Len(a) THEN a[j] ELSE x[j - Len(a)]
    BY <1>3, <2>1, <2>2, ConcatProperties
  <2>4. x[1] = c /\ Len(x) = 1 BY <2>1, <2>2
  <2>5. \A j \in 1..(i + 1) : j <= i \/ j - i = 1 BY <1>1
  <2>6. \A j \in 1..(i + 1) : (a \o x)[j] = IF j <= i THEN u[j] ELSE c BY <1>1, <1>3, <2>3, <2>4, <2>5
  <2> QED BY <1>3, <1>5, <2>2, <2>3, <2>4, <2>6
<1>7. /\ w \o b \in Seq(S) /\ Len(w \o b) = Len(w) + Len(b)
      /\ \A j \in 1 .. Len(w) + Len(b) : (w \o b)[j] = IF j <= Len(w) THEN w[j] ELSE b[j - Len(w)]
  BY <1>4, <1>6, ConcatProperties
<1>8. Len(w) + Len(b) = Len(u) + 1 BY <1>1, <1>4, <1>6
<1>9. ASSUME NEW j \in 1..(Len(u) + 1)
      PROVE  (w \o b)[j] = IF j <= i THEN u[j] ELSE IF j = i + 1 THEN c ELSE u[j-1]
  <2>1. CASE j <= i + 1 BY <1>1, <1>6, <1>7, <1>8, <2>1
  <2>2. CASE j > i + 1
    <3>1. PICK k : k = j - Len(w) OBVIOUS
    <3>2. Len(w) = i + 1 BY <1>6
    <3>3. k \in 1..(Len(u) - i) /\ i + k = j - 1 /\ ~(j <= Len(w)) /\ ~(j <= i) /\ j # i + 1
      BY <1>1, <2>2, <3>1, <3>2
    <3>4. (w \o b)[j] = b[k] BY <1>7, <1>8, <3>1, <3>3
    <3>5. b[k] = u[i + k] BY <1>4, <3>3
    <3>6. u[i + k] = u[j - 1] BY <3>3
    <3> QED BY <3>3, <3>4, <3>5, <3>6, Zenon
  <2>3. j <= i + 1 \/ j > i + 1 OBVIOUS
  <2> QED BY <2>1, <2>2, <2>3, Zenon
<1>10. InsertAt(u, i + 1, c) = w \o b
  <2>1. PICK h : h = i + 1 OBVIOUS
  <2>2. h - 1 = i BY <1>1, <2>1
  <2>3. InsertAt(u, h, c) = SubSeq(u, 1, h - 1) \o <<c>> \o SubSeq(u, h, Len(u)) BY Zenon DEF InsertAt
  <2> QED BY <1>2, <1>5, <2>1, <2>2, <2>3, Zenon
<1>11. Inserted(S, w \o b, u, i, c) BY <1>7, <1>8, <1>9 DEF Inserted
<1> QED BY <1>10, <1>11

(* The three ways in which v can be one edit away from u.                    *)
Edited(u, v) == \E p \in Nat : Shifted(u, v, p) \/ Shifted(v, u, p) \/ Replaced(u, v, p)

(* An edit is a text that differs in one of these ways.                      *)
LEMMA EditIsEdited ==
  ASSUME NEW u \in Seq(Text), NEW v \in OneEdit(u)
  PROVE  v \in Seq(Text) /\ Edited(u, v)
<1>1. Len(u) \in Nat /\ DOMAIN u = 1..Len(u) BY LenProperties
<1>2. CASE \E i \in DOMAIN u : v = RemoveAt(u, i)
  <2>1. PICK i \in 1..Len(u) : v = RemoveAt(u, i) BY <1>1, <1>2
  <2>2. /\ v \in Seq(Text) /\ Len(v) = Len(u) - 1
        /\ \A j \in 1..(Len(u) - 1) : v[j] = IF j < i THEN u[j] ELSE u[j+1]
    BY <2>1, RemovedAt
  <2>3. PICK p \in Nat : p = i - 1 BY <1>1
  <2>4. Len(v) \in Nat /\ Len(u) = Len(v) + 1 /\ p \in 0..Len(v) BY <1>1, <2>2, <2>3
  <2>5. \A j \in 1..p : v[j] = u[j] BY <1>1, <2>2, <2>3
  <2>6. \A j \in (p + 1)..Len(v) : u[j+1] = v[j] BY <1>1, <2>2, <2>3
  <2>7. Shifted(v, u, p) BY <2>4, <2>5, <2>6 DEF Shifted
  <2> QED BY <2>2, <2>7 DEF Edited
<1>3. CASE \E i \in DOMAIN u, c \in Text : v = [u EXCEPT ![i] = c]
  <2>1. PICK i \in 1..Len(u), c \in Text : v = [u EXCEPT ![i] = c] BY <1>1, <1>3
  <2>2. /\ v \in Seq(Text) /\ Len(v) = Len(u)
        /\ \A j \in 1 .. Len(u) : v[j] = IF j = i THEN c ELSE u[j]
    BY <2>1, ExceptSeq
  <2>3. Replaced(u, v, i) /\ i \in Nat BY <1>1, <2>2 DEF Replaced
  <2> QED BY <2>2, <2>3 DEF Edited
<1>4. CASE \E i \in 1..(Len(u) + 1), c \in Text : v = InsertAt(u, i, c)
  <2>1. PICK h \in 1..(Len(u) + 1), c \in Text : v = InsertAt(u, h, c) BY <1>4
  <2>6. PICK i \in 0..Len(u) : h = i + 1
    <3>1. h - 1 \in 0..Len(u) /\ h = (h - 1) + 1 BY <1>1
    <3> QED BY <3>1
  <2>2. /\ v \in Seq(Text) /\ Len(v) = Len(u) + 1
        /\ \A j \in 1..(Len(u) + 1) : v[j] = IF j <= i THEN u[j] ELSE IF j = i + 1 THEN c ELSE u[j-1]
    <3>1. Inserted(Text, InsertAt(u, i + 1, c), u, i, c) BY InsertedAt
    <3>2. Inserted(Text, v, u, i, c) BY <2>1, <2>6, <3>1
    <3> QED BY <3>2 DEF Inserted
  <2>3. \A j \in 1..i : u[j] = v[j] BY <1>1, <2>2
  <2>4. \A j \in (i + 1)..Len(u) : v[j+1] = u[j]
    <3> SUFFICES ASSUME NEW j \in (i + 1)..Len(u) PROVE v[j+1] = u[j] OBVIOUS
    <3>1. PICK k : k = j + 1 OBVIOUS
    <3>2. k \in 1..(Len(u) + 1) /\ ~(k <= i) /\ k # i + 1 /\ k - 1 = j BY <1>1, <3>1
    <3>3. v[k] = u[k-1] BY <2>2, <3>2
    <3> QED BY <3>1, <3>2, <3>3
  <2>5. Shifted(u, v, i) /\ i \in Nat BY <1>1, <2>2, <2>3, <2>4 DEF Shifted
  <2> QED BY <2>2, <2>5 DEF Edited
<1>5. \/ \E i \in DOMAIN u : v = RemoveAt(u, i)
      \/ \E i \in DOMAIN u, c \in Text : v = [u EXCEPT ![i] = c]
      \/ \E i \in 1..(Len(u) + 1), c \in Text : v = InsertAt(u, i, c)
  BY DEF OneEdit, Text
<1> QED BY <1>2, <1>3, <1>4, <1>5, Zenon

(* And every text that differs in one of these ways is an edit.              *)
LEMMA EditedIsEdit ==
  ASSUME NEW u \in Seq(Text), NEW v \in Seq(Text), Edited(u, v)
  PROVE  v \in OneEdit(u)
<1>1. /\ Len(u) \in Nat /\ DOMAIN u = 1..Len(u) /\ Len(v) \in Nat
      /\ \A j \in 1..Len(v) : v[j] \in Text
  BY LenProperties, ElementOfSeq
<1>2. PICK p \in Nat : Shifted(u, v, p) \/ Shifted(v, u, p) \/ Replaced(u, v, p) BY DEF Edited
<1>3. CASE Shifted(u, v, p)
  <2>1. /\ Len(v) = Len(u) + 1 /\ p \in 0..Len(u) /\ \A j \in 1..p : u[j] = v[j]
        /\ \A j \in (p + 1)..Len(u) : v[j+1] = u[j]
    BY <1>3 DEF Shifted
  <2>2. PICK c \in Text : c = v[p+1] BY <1>1, <2>1
  <2>3. PICK w : w = InsertAt(u, p + 1, c) OBVIOUS
  <2>4. /\ w \in Seq(Text) /\ Len(w) = Len(u) + 1
        /\ \A j \in 1..(Len(u) + 1) : w[j] = IF j <= p THEN u[j] ELSE IF j = p + 1 THEN c ELSE u[j-1]
    <3>1. Inserted(Text, InsertAt(u, p + 1, c), u, p, c) BY <2>1, InsertedAt
    <3>2. Inserted(Text, w, u, p, c) BY <2>3, <3>1
    <3> QED BY <3>2 DEF Inserted
  <2>5. ASSUME NEW j \in 1..Len(v) PROVE v[j] = w[j]
    <3>1. CASE j <= p BY <1>1, <2>1, <2>4, <3>1
    <3>2. CASE j = p + 1 BY <1>1, <2>1, <2>2, <2>4, <3>2
    <3>3. CASE j > p + 1
      <4>1. PICK k : k = j - 1 OBVIOUS
      <4>2. k \in (p + 1)..Len(u) /\ k + 1 = j /\ ~(j <= p) /\ j # p + 1 BY <1>1, <2>1, <3>3, <4>1
      <4>3. v[k + 1] = u[k] BY <2>1, <4>2
      <4> QED BY <2>1, <2>4, <4>1, <4>2, <4>3
    <3>4. j <= p \/ j = p + 1 \/ j > p + 1 BY <1>1
    <3> QED BY <3>1, <3>2, <3>3, <3>4, Zenon
  <2>6. v = w BY <2>1, <2>4, <2>5, SeqEqual
  <2>7. p + 1 \in 1..(Len(u) + 1) BY <1>1, <2>1
  <2> QED BY <2>3, <2>6, <2>7 DEF OneEdit, Text
<1>4. CASE Shifted(v, u, p)
  <2>1. /\ Len(u) = Len(v) + 1 /\ p \in 0..Len(v) /\ \A j \in 1..p : v[j] = u[j]
        /\ \A j \in (p + 1)..Len(v) : u[j+1] = v[j]
    BY <1>4 DEF Shifted
  <2>2. PICK i \in 1..Len(u) : i = p + 1 BY <1>1, <2>1
  <2>3. PICK w : w = RemoveAt(u, i) OBVIOUS
  <2>4. /\ w \in Seq(Text) /\ Len(w) = Len(u) - 1
        /\ \A j \in 1..(Len(u) - 1) : w[j] = IF j < i THEN u[j] ELSE u[j+1]
    BY <2>3, RemovedAt
  <2>5. \A j \in 1..Len(v) : v[j] = w[j] BY <1>1, <2>1, <2>2, <2>4
  <2>6. v = w BY <1>1, <2>1, <2>4, <2>5, SeqEqual
  <2> QED BY <1>1, <2>3, <2>6 DEF OneEdit
<1>5. CASE Replaced(u, v, p)
  <2>1. Len(v) = Len(u) /\ p \in 1..Len(u) /\ \A j \in 1..Len(u) : j # p => v[j] = u[j] BY <1>5 DEF Replaced
  <2>2. PICK c \in Text : c = v[p] BY <1>1, <2>1
  <2>3. PICK w : w = [u EXCEPT ![p] = c] OBVIOUS
  <2>4. w \in Seq(Text) /\ Len(w) = Len(u) /\ \A j \in 1..Len(u) : w[j] = IF j = p THEN c ELSE u[j]
    BY <2>1, <2>3, ExceptSeq
  <2>5. \A j \in 1..Len(v) : v[j] = w[j] BY <1>1, <2>1, <2>2, <2>4
  <2>6. v = w BY <1>1, <2>1, <2>4, <2>5, SeqEqual
  <2> DEFINE R(i, x) == [u EXCEPT ![i] = x]
  <2>7. v = R(p, c) BY <2>3, <2>6
  <2>8. v \in {R(i, x) : i \in DOMAIN u, x \in Letter \cup {Space}}
    <3> HIDE DEF R
    <3> QED BY <1>1, <2>1, <2>7 DEF Text
  <2> QED BY <2>8 DEF OneEdit
<1> QED BY <1>2, <1>3, <1>4, <1>5

(* What Append adds.                                                         *)
LEMMA Appended ==
  ASSUME NEW S, NEW u \in Seq(S), NEW c \in S
  PROVE  /\ Append(u, c) \in Seq(S) /\ Len(u) \in Nat /\ Len(Append(u, c)) = Len(u) + 1
         /\ \A j \in 1..Len(u) : Append(u, c)[j] = u[j]
         /\ Append(u, c)[Len(u) + 1] = c
<1>1. Len(u) \in Nat BY LenProperties
<1> QED BY <1>1, AppendProperties

(* Edits at the end of a text, and edits in front of a last character.       *)
LEMMA EditsAtTheEnd ==
  ASSUME NEW u \in Seq(Text), NEW b \in Text, NEW c \in Text
  PROVE  /\ Append(u, c) \in OneEdit(u)
         /\ u \in OneEdit(Append(u, c))
         /\ Append(u, b) \in OneEdit(Append(u, c))
<1>1. PICK v, w : v = Append(u, c) /\ w = Append(u, b) OBVIOUS
<1>2. v \in Seq(Text) /\ Len(u) \in Nat /\ Len(v) = Len(u) + 1 /\ \A j \in 1..Len(u) : v[j] = u[j]
  BY <1>1, Appended
<1>3. w \in Seq(Text) /\ Len(w) = Len(u) + 1 /\ \A j \in 1..Len(u) : w[j] = u[j] BY <1>1, Appended
<1>4. Shifted(u, v, Len(u)) BY <1>2 DEF Shifted
<1>5. Replaced(v, w, Len(u) + 1) BY <1>2, <1>3 DEF Replaced
<1>6. Edited(u, v) /\ Edited(v, u) BY <1>2, <1>4 DEF Edited
<1>7. Edited(v, w) BY <1>2, <1>5 DEF Edited
<1> QED BY <1>1, <1>2, <1>3, <1>6, <1>7, EditedIsEdit

(* An edit stays one when both texts get the same last character.            *)
LEMMA EditBeforeTheEnd ==
  ASSUME NEW u \in Seq(Text), NEW v \in OneEdit(u), NEW c \in Text
  PROVE  Append(v, c) \in OneEdit(Append(u, c))
<1>1. v \in Seq(Text) /\ Edited(u, v) BY EditIsEdited
<1>2. PICK p \in Nat : Shifted(u, v, p) \/ Shifted(v, u, p) \/ Replaced(u, v, p) BY <1>1 DEF Edited
<1>3. PICK x, y : x = Append(u, c) /\ y = Append(v, c) OBVIOUS
<1>4. /\ x \in Seq(Text) /\ Len(u) \in Nat /\ Len(x) = Len(u) + 1 /\ \A j \in 1..Len(u) : x[j] = u[j]
      /\ x[Len(u) + 1] = c
  BY <1>3, Appended
<1>5. /\ y \in Seq(Text) /\ Len(v) \in Nat /\ Len(y) = Len(v) + 1 /\ \A j \in 1..Len(v) : y[j] = v[j]
      /\ y[Len(v) + 1] = c
  BY <1>1, <1>3, Appended
<1>6. CASE Shifted(u, v, p)
  <2>1. /\ Len(v) = Len(u) + 1 /\ p \in 0..Len(u) /\ \A j \in 1..p : u[j] = v[j]
        /\ \A j \in (p + 1)..Len(u) : v[j+1] = u[j]
    BY <1>6 DEF Shifted
  <2>2. \A j \in 1..p : x[j] = y[j] BY <1>4, <1>5, <2>1
  <2>3. \A j \in (p + 1)..(Len(u) + 1) : y[j+1] = x[j] BY <1>4, <1>5, <2>1, SMTT(60)
  <2>4. Shifted(x, y, p) BY <1>4, <1>5, <2>1, <2>2, <2>3 DEF Shifted
  <2> QED BY <1>3, <1>4, <1>5, <2>4, EditedIsEdit DEF Edited
<1>7. CASE Shifted(v, u, p)
  <2>1. /\ Len(u) = Len(v) + 1 /\ p \in 0..Len(v) /\ \A j \in 1..p : v[j] = u[j]
        /\ \A j \in (p + 1)..Len(v) : u[j+1] = v[j]
    BY <1>7 DEF Shifted
  <2>2. \A j \in 1..p : y[j] = x[j] BY <1>4, <1>5, <2>1
  <2>3. \A j \in (p + 1)..(Len(v) + 1) : x[j+1] = y[j] BY <1>4, <1>5, <2>1
  <2>4. Shifted(y, x, p) BY <1>4, <1>5, <2>1, <2>2, <2>3 DEF Shifted
  <2> QED BY <1>3, <1>4, <1>5, <2>4, EditedIsEdit DEF Edited
<1>8. CASE Replaced(u, v, p)
  <2>1. Len(v) = Len(u) /\ p \in 1..Len(u) /\ \A j \in 1..Len(u) : j # p => v[j] = u[j] BY <1>8 DEF Replaced
  <2>2. \A j \in 1..(Len(u) + 1) : j # p => y[j] = x[j] BY <1>4, <1>5, <2>1
  <2>3. Replaced(x, y, p) BY <1>4, <1>5, <2>1, <2>2 DEF Replaced
  <2> QED BY <1>3, <1>4, <1>5, <2>3, EditedIsEdit DEF Edited
<1> QED BY <1>2, <1>6, <1>7, <1>8

-----------------------------------------------------------------------------
(* Chains of edits.                                                          *)

(* What the sets of texts within n edits of s satisfy.                       *)
IsNear(near, s, k) ==
  /\ near[0] = {s}
  /\ \A n \in 1..k : near[n] = near[n-1] \cup UNION {OneEdit(u) : u \in near[n-1]}
  /\ \A n \in 0..k : near[n] \in SUBSET Seq(Text)

(* Near computes these sets.                                                 *)
LEMMA NearUnfolds ==
  ASSUME NEW k \in Nat, NEW s \in Seq(Text)
  PROVE  IsNear(Near(s, k), s, k)
<1> DEFINE V == SUBSET Seq(Text)
           next(A) == A \cup UNION {OneEdit(u) : u \in A}
           g == [p \in Nat \X V |-> next(p[2])]
           IsN(f) == f = [n \in 0..k |-> IF n = 0 THEN {s} ELSE next(f[n-1])]
<1>1. {s} \in V OBVIOUS
<1>2. \A A \in V : next(A) \in V BY EditIsEdited
<1> HIDE DEF V, next
<1>3. g \in [Nat \X V -> V] BY <1>2
<1>4. \A n \in Nat, A \in V : g[<<n, A>>] = next(A) OBVIOUS
<1> HIDE DEF g
<1>5. PICK f \in [0..k -> V] : Follows(f, k, {s}, g) BY <1>1, <1>3, Recursion, Zenon
<1>6. ASSUME NEW n \in 1..k PROVE f[n] = next(f[n-1])
  <2>1. n - 1 \in 0..k /\ n \in Nat OBVIOUS
  <2>2. f[n-1] \in V BY <2>1
  <2> QED BY <1>4, <1>5, <2>1, <2>2 DEF Follows
<1>7. IsN(f) BY <1>5, <1>6 DEF Follows
<1>8. Near(s, k) = CHOOSE h : IsN(h) BY DEF Near, next
<1>9. PICK r : r = Near(s, k) OBVIOUS
<1>10. IsN(r) BY <1>7, <1>8, <1>9
<1>11. r[0] = {s} /\ \A n \in 1..k : r[n] = next(r[n-1])
  <2>1. \A n \in 0..k : r[n] = IF n = 0 THEN {s} ELSE next(r[n-1]) BY <1>10, Zenon
  <2>2. 0 \in 0..k /\ \A n \in 1..k : n \in 0..k /\ n # 0 OBVIOUS
  <2> QED BY <2>1, <2>2
<1>12. \A n \in 0..k : r[n] \in V
  <2> DEFINE P == {n \in 0..k : r[n] \in V}
  <2>0. 0 \in 0..k OBVIOUS
  <2>1. 0 \in P BY <1>1, <1>11, <2>0
  <2>2. \A n \in 1..k : n - 1 \in P => n \in P BY <1>2, <1>11
  <2> HIDE DEF P
  <2>3. \A n \in 0..k : n \in P BY <2>1, <2>2, UpTo
  <2> QED BY <2>3 DEF P
<1> QED BY <1>9, <1>11, <1>12 DEF IsNear, V, next

(* A chain of n edits leads to a text that the table says is within n.       *)
LEMMA ChainIsCounted ==
  ASSUME NEW s \in Seq(Text), NEW k \in Nat, NEW near, IsNear(near, s, k)
  PROVE  \A n \in 0..k : \A v \in near[n] : Distance(s, v) <= n
<1>0. Len(s) \in Nat BY LenProperties
<1> DEFINE P == {n \in 0..k : \A v \in near[n] : Distance(s, v) <= n}
<1>1. 0 \in P
  <2>1. IsTable(Table(s, s), s, s) BY <1>0, TableUnfolds
  <2>2. Len(s) \in 0..Len(s) BY <1>0
  <2>3. Distance(s, s) = 0 BY <1>0, <2>1, <2>2, DiagonalIsZero DEF Distance
  <2> QED BY <2>3 DEF IsNear
<1>2. ASSUME NEW n \in 1..k, n - 1 \in P PROVE n \in P
  <2>0. n \in 0..k /\ n - 1 \in 0..k OBVIOUS
  <2>1. SUFFICES ASSUME NEW v \in near[n] PROVE Distance(s, v) <= n BY <2>0
  <2>2. near[n] = near[n-1] \cup UNION {OneEdit(u) : u \in near[n-1]} BY DEF IsNear
  <2>3. \A u \in near[n-1] : u \in Seq(Text) /\ Len(u) \in Nat /\ Distance(s, u) <= n - 1 /\ Distance(s, u) \in Nat
    <3> SUFFICES ASSUME NEW u \in near[n-1] 
                 PROVE  u \in Seq(Text) /\ Len(u) \in Nat /\ Distance(s, u) <= n - 1 /\ Distance(s, u) \in Nat OBVIOUS
    <3>1. u \in Seq(Text) BY <2>0 DEF IsNear
    <3>2. Len(u) \in Nat BY <3>1, LenProperties
    <3>3. Distance(s, u) \in Nat BY <1>0, <3>2, DistanceIsSymmetric
    <3>4. Distance(s, u) <= n - 1 BY <1>2
    <3> QED BY <3>1, <3>2, <3>3, <3>4
  <2>4. CASE v \in near[n-1] BY <2>3, <2>4
  <2>5. CASE v \in UNION {OneEdit(u) : u \in near[n-1]}
    <3>1. PICK u \in near[n-1] : v \in OneEdit(u) BY <2>5
    <3>2. u \in Seq(Text) BY <2>3
    <3>3. v \in Seq(Text) /\ Edited(u, v) BY <3>1, <3>2, EditIsEdited
    <3>4. PICK p \in Nat : Shifted(u, v, p) \/ Shifted(v, u, p) \/ Replaced(u, v, p) BY <3>3 DEF Edited
    <3>5. Distance(s, v) <= Distance(s, u) + 1 BY <1>0, <3>4, EditIsNear
    <3>6. Len(v) \in Nat BY <3>3, LenProperties
    <3>7. Distance(s, v) \in Nat BY <1>0, <3>6, DistanceIsSymmetric
    <3> QED BY <2>3, <3>5, <3>7
  <2> QED BY <2>2, <2>4, <2>5
<1> HIDE DEF P
<1>3. \A n \in 0..k : n \in P BY <1>1, <1>2, UpTo
<1> QED BY <1>3 DEF P

(* A chain stays one when all its texts get the same last character.         *)
LEMMA ChainBeforeTheEnd ==
  ASSUME NEW s \in Seq(Text), NEW c \in Text, NEW k \in Nat,
         NEW near, IsNear(near, s, k), NEW longer, IsNear(longer, Append(s, c), k)
  PROVE  \A n \in 0..k : \A v \in near[n] : Append(v, c) \in longer[n]
<1> DEFINE P == {n \in 0..k : \A v \in near[n] : Append(v, c) \in longer[n]}
<1>1. 0 \in P
  <2>1. near[0] = {s} /\ longer[0] = {Append(s, c)} BY DEF IsNear
  <2>2. 0 \in 0..k OBVIOUS
  <2> QED BY <2>1, <2>2, Zenon
<1>2. ASSUME NEW n \in 1..k, n - 1 \in P PROVE n \in P
  <2>0. n \in 0..k /\ n - 1 \in 0..k OBVIOUS
  <2>1. SUFFICES ASSUME NEW v \in near[n] PROVE Append(v, c) \in longer[n] BY <2>0
  <2>2. /\ near[n] = near[n-1] \cup UNION {OneEdit(u) : u \in near[n-1]}
        /\ longer[n] = longer[n-1] \cup UNION {OneEdit(u) : u \in longer[n-1]} 
    BY DEF IsNear
  <2>3. \A u \in near[n-1] : u \in Seq(Text) /\ Append(u, c) \in longer[n-1] BY <1>2, <2>0 DEF IsNear
  <2>4. CASE v \in near[n-1] BY <2>2, <2>3, <2>4
  <2>5. CASE v \in UNION {OneEdit(u) : u \in near[n-1]}
    <3>1. PICK u \in near[n-1] : v \in OneEdit(u) BY <2>5
    <3>2. Append(v, c) \in OneEdit(Append(u, c)) BY <2>3, <3>1, EditBeforeTheEnd
    <3> QED BY <2>2, <2>3, <3>2
  <2> QED BY <2>2, <2>4, <2>5
<1> HIDE DEF P
<1>3. \A n \in 0..k : n \in P BY <1>1, <1>2, UpTo
<1> QED BY <1>3 DEF P

(* One edit more.                                                            *)
LEMMA ChainGoesOn ==
  ASSUME NEW s, NEW k \in Nat, NEW near, IsNear(near, s, k), NEW n \in Nat, n + 1 <= k, NEW u \in near[n]
  PROVE  \A v \in OneEdit(u) : v \in near[n + 1]
<1>1. PICK m : m = n + 1 OBVIOUS
<1>2. m \in 1..k /\ m - 1 = n BY <1>1
<1>3. near[m] = near[m-1] \cup UNION {OneEdit(w) : w \in near[m-1]} BY <1>2 DEF IsNear
<1>4. near[m] = near[n] \cup UNION {OneEdit(w) : w \in near[n]} BY <1>2, <1>3
<1> QED BY <1>1, <1>4

(* What is within n edits is within more.                                    *)
LEMMA ChainMayBeShort ==
  ASSUME NEW s, NEW k \in Nat, NEW near, IsNear(near, s, k), NEW n \in 0..k
  PROVE  near[n] \subseteq near[k]
<1> DEFINE P == {m \in 0..k : m >= n => near[n] \subseteq near[m]}
<1>1. 0 \in P BY DEF P
<1>2. ASSUME NEW m \in 1..k, m - 1 \in P PROVE m \in P
  <2>1. near[m] = near[m-1] \cup UNION {OneEdit(w) : w \in near[m-1]} BY DEF IsNear
  <2>2. CASE m = n BY <2>2
  <2>3. CASE m < n BY <2>3
  <2>4. CASE m > n
    <3>1. near[n] \subseteq near[m-1] BY <1>2, <2>4
    <3> QED BY <2>1, <3>1
  <2> QED BY <2>2, <2>3, <2>4
<1> HIDE DEF P
<1>3. \A m \in 0..k : m \in P BY <1>1, <1>2, UpTo
<1>4. k \in P BY <1>3
<1> QED BY <1>4 DEF P

(* The first i characters.                                                   *)
Prefix(s, i) == SubSeq(s, 1, i)

(* A prefix is the one before it and a character.                            *)
LEMMA PrefixGrows ==
  ASSUME NEW S, NEW s \in Seq(S)
  PROVE  /\ \A i \in 0..Len(s) : Prefix(s, i) \in Seq(S)
         /\ Prefix(s, 0) = <<>> /\ Prefix(s, Len(s)) = s
         /\ \A i \in 1..Len(s) : s[i] \in S /\ Prefix(s, i) = Append(Prefix(s, i - 1), s[i])
<1>0. Len(s) \in Nat /\ \A i \in 1..Len(s) : s[i] \in S BY LenProperties, ElementOfSeq
<1>1. ASSUME NEW i \in 0..Len(s)
      PROVE  Prefix(s, i) \in Seq(S) /\ Len(Prefix(s, i)) = i /\ \A j \in 1..i : Prefix(s, i)[j] = s[j]
  <2>1. i \in Nat /\ 1 <= i + 1 /\ i <= Len(s) BY <1>0
  <2>2. PICK a : a = Prefix(s, i) OBVIOUS
  <2>3. a \in Seq(S) /\ Len(a) = i - 1 + 1 /\ \A j \in 1..(i - 1 + 1) : a[j] = s[1 + j - 1]
    BY <2>1, <2>2, Pieces DEF Prefix
  <2>4. i - 1 + 1 = i /\ \A j \in 1..i : 1 + j - 1 = j BY <2>1
  <2> QED BY <2>2, <2>3, <2>4
<1>2. Prefix(s, 0) = <<>> BY SubSeqEmpty DEF Prefix
<1>3. Prefix(s, Len(s)) = s BY SubSeqFull DEF Prefix
<1>4. ASSUME NEW i \in 1..Len(s) PROVE Prefix(s, i) = Append(Prefix(s, i - 1), s[i])
  <2>1. PICK h : h = i - 1 OBVIOUS
  <2>2. h \in 0..Len(s) /\ h + 1 = i /\ i \in 0..Len(s) BY <1>0, <2>1
  <2>3. PICK a, b : a = Prefix(s, i) /\ b = Prefix(s, h) OBVIOUS
  <2>4. a \in Seq(S) /\ Len(a) = i /\ \A j \in 1..i : a[j] = s[j] BY <1>1, <2>2, <2>3
  <2>5. b \in Seq(S) /\ Len(b) = h /\ \A j \in 1..h : b[j] = s[j] BY <1>1, <2>2, <2>3
  <2>6. PICK c : c = Append(b, s[i]) OBVIOUS
  <2>7. c \in Seq(S) /\ Len(c) = h + 1 /\ \A j \in 1..h : c[j] = b[j]
    BY <1>0, <2>5, <2>6, Appended
  <2>8. c[h + 1] = s[i] BY <1>0, <2>5, <2>6, Appended
  <2>9. \A j \in 1..i : a[j] = c[j]
    <3> SUFFICES ASSUME NEW j \in 1..i PROVE a[j] = c[j] OBVIOUS
    <3>1. CASE j = i BY <2>2, <2>4, <2>8, <3>1
    <3>2. CASE j # i
      <4>1. j \in 1..h BY <1>0, <2>2, <3>2
      <4> QED BY <4>1, <2>4, <2>5, <2>7
    <3> QED BY <3>1, <3>2
  <2>10. a = c BY <2>2, <2>4, <2>7, <2>9, SeqEqual
  <2> QED BY <2>1, <2>3, <2>6, <2>10
<1> QED BY <1>0, <1>1, <1>2, <1>3, <1>4

(* The texts that are n edits or less away from a text, for n up to k.       *)
Reached(x, y, n, k) == y \in Near(x, k)[n]

(* A chain of edits starts with none.                                        *)
LEMMA ReachedByNone ==
  ASSUME NEW x \in Seq(Text), NEW k \in Nat
  PROVE  Reached(x, x, 0, k)
<1>1. Near(x, k)[0] = {x} BY NearUnfolds DEF IsNear
<1> QED BY <1>1 DEF Reached

(* It goes on with an edit at the end: a character added, taken away, or     *)
(* another one.                                                              *)
LEMMA ReachedByOneMore ==
  ASSUME NEW x \in Seq(Text), NEW y \in Seq(Text), NEW b \in Text, NEW c \in Text,
         NEW k \in Nat, NEW n \in Nat, n + 1 <= k
  PROVE  /\ Reached(x, y, n, k) => Reached(x, Append(y, c), n + 1, k)
         /\ Reached(x, Append(y, c), n, k) => Reached(x, y, n + 1, k)
         /\ Reached(x, Append(y, b), n, k) => Reached(x, Append(y, c), n + 1, k)
<1>1. PICK near : near = Near(x, k) OBVIOUS
<1>2. IsNear(near, x, k) BY <1>1, NearUnfolds
<1>3. /\ Append(y, c) \in OneEdit(y) /\ y \in OneEdit(Append(y, c)) /\ Append(y, c) \in OneEdit(Append(y, b))
  BY EditsAtTheEnd
<1>4. \A u \in near[n] : \A v \in OneEdit(u) : v \in near[n + 1] BY <1>2, ChainGoesOn
<1> QED BY <1>1, <1>3, <1>4, Zenon DEF Reached

(* And it can be made in front of a last character.                          *)
LEMMA ReachedBeforeTheEnd ==
  ASSUME NEW x \in Seq(Text), NEW y, NEW c \in Text, NEW k \in Nat, NEW n \in 0..k, Reached(x, y, n, k)
  PROVE  Reached(Append(x, c), Append(y, c), n, k)
<1>1. PICK a, b : a = Near(x, k) /\ b = Near(Append(x, c), k) OBVIOUS
<1>2. Append(x, c) \in Seq(Text) BY Appended
<1>3. IsNear(a, x, k) /\ IsNear(b, Append(x, c), k) BY <1>1, <1>2, NearUnfolds
<1>4. \A v \in a[n] : Append(v, c) \in b[n] BY <1>3, ChainBeforeTheEnd
<1> QED BY <1>1, <1>4, Zenon DEF Reached

(* As many edits as a cell says lead from the one prefix to the other.       *)
LEMMA CellIsReached ==
  ASSUME NEW s \in Seq(Text), NEW t \in Seq(Text), NEW k \in Nat, NEW d, IsTable(d, s, t)
  PROVE  \A i \in 0..Len(s), j \in 0..Len(t) : d[i][j] <= k => Reached(Prefix(s, i), Prefix(t, j), d[i][j], k)
<1> DEFINE Q(i, j) == d[i][j] <= k => Reached(Prefix(s, i), Prefix(t, j), d[i][j], k)
           P == {p \in (0..Len(s)) \X (0..Len(t)) : Q(p[1], p[2])}
<1>0. Len(s) \in Nat /\ Len(t) \in Nat BY LenProperties
<1>1. \A i \in 0..Len(s), j \in 0..Len(t) : <<i, j>> \in P <=> Q(i, j) OBVIOUS
<1>4. /\ \A i \in 0..Len(s) : Prefix(s, i) \in Seq(Text)
      /\ Prefix(s, 0) = <<>>
      /\ \A i \in 1..Len(s) : s[i] \in Text /\ Prefix(s, i) = Append(Prefix(s, i - 1), s[i])
  BY PrefixGrows
<1>5. /\ \A j \in 0..Len(t) : Prefix(t, j) \in Seq(Text)
      /\ Prefix(t, 0) = <<>>
      /\ \A j \in 1..Len(t) : t[j] \in Text /\ Prefix(t, j) = Append(Prefix(t, j - 1), t[j])
  BY PrefixGrows
<1>2. ASSUME NEW i \in 0..Len(s), NEW j \in 0..Len(t),
             \A a \in 0..i, b \in 0..j : (a = i /\ b = j) \/ <<a, b>> \in P
      PROVE  <<i, j>> \in P
  <2> HIDE DEF P
  <2> SUFFICES ASSUME d[i][j] <= k PROVE Reached(Prefix(s, i), Prefix(t, j), d[i][j], k) BY <1>1
  <2>0. \A a \in 0..i, b \in 0..j : (a = i /\ b = j) \/ Q(a, b)
    <3> SUFFICES ASSUME NEW a \in 0..i, NEW b \in 0..j, ~(a = i /\ b = j) PROVE Q(a, b) OBVIOUS
    <3>1. a \in 0..Len(s) /\ b \in 0..Len(t) BY <1>0
    <3>2. <<a, b>> \in P BY <1>2
    <3> QED BY <1>1, <3>1, <3>2, Zenon
  <2>1. CASE i = 0 /\ j = 0
    <3>1. d[i][j] = 0 BY <2>1 DEF IsTable
    <3>2. Prefix(s, i) = Prefix(t, j) /\ Prefix(s, i) \in Seq(Text) BY <1>4, <1>5, <2>1
    <3> QED BY <3>1, <3>2, ReachedByNone
  <2>2. CASE i = 0 /\ j # 0
    <3>1. j \in 1..Len(t) /\ j - 1 \in 0..j /\ j - 1 \in 0..Len(t) /\ 0 \in 0..i /\ j - 1 \in Nat BY <1>0, <2>2
    <3>2. d[0][j] = j /\ d[0][j-1] = j - 1 BY <3>1 DEF IsTable
    <3>3. Q(0, j - 1) BY <2>0, <3>1
    <3>4. Reached(Prefix(s, 0), Prefix(t, j - 1), j - 1, k) BY <1>0, <2>2, <3>1, <3>2, <3>3
    <3>5. PICK x, y, c, n : x = Prefix(s, 0) /\ y = Prefix(t, j - 1) /\ c = t[j] /\ n = j - 1 OBVIOUS
    <3>6. x \in Seq(Text) /\ y \in Seq(Text) /\ c \in Text /\ n \in Nat /\ n + 1 = j /\ n + 1 <= k
      BY <1>0, <1>4, <1>5, <2>2, <3>1, <3>2, <3>5
    <3>7. Reached(x, Append(y, c), n + 1, k) BY <3>4, <3>5, <3>6, ReachedByOneMore
    <3>8. Append(y, c) = Prefix(t, j) BY <1>5, <3>1, <3>5
    <3> QED BY <2>2, <3>2, <3>5, <3>6, <3>7, <3>8
  <2>3. CASE i # 0 /\ j = 0
    <3>1. i \in 1..Len(s) /\ i - 1 \in 0..i /\ i - 1 \in 0..Len(s) /\ 0 \in 0..j /\ i - 1 \in Nat BY <1>0, <2>3
    <3>2. d[i][0] = i /\ d[i-1][0] = i - 1 BY <3>1 DEF IsTable
    <3>3. Q(i - 1, 0) BY <2>0, <3>1
    <3>4. Reached(Prefix(s, i - 1), Prefix(t, 0), i - 1, k) BY <1>0, <2>3, <3>1, <3>2, <3>3
    <3>5. PICK x, y, c, n : x = Prefix(s, i - 1) /\ y = Prefix(t, 0) /\ c = s[i] /\ n = i - 1 OBVIOUS
    <3>6. x \in Seq(Text) /\ y \in Seq(Text) /\ c \in Text /\ n \in Nat /\ n + 1 = i /\ n + 1 <= k /\ n \in 0..k
      BY <1>0, <1>4, <1>5, <2>3, <3>1, <3>2, <3>5
    <3>7. Reached(Append(x, c), Append(y, c), n, k) BY <3>4, <3>5, <3>6, ReachedBeforeTheEnd
    <3>8. Append(x, c) = Prefix(s, i) /\ Append(x, c) \in Seq(Text) BY <1>4, <3>1, <3>5
    <3>9. Reached(Append(x, c), y, n + 1, k) BY <3>6, <3>7, <3>8, ReachedByOneMore
    <3> QED BY <2>3, <3>2, <3>5, <3>6, <3>8, <3>9
  <2>4. CASE i # 0 /\ j # 0
    <3>1. /\ i \in 1..Len(s) /\ j \in 1..Len(t) /\ i - 1 \in 0..Len(s) /\ j - 1 \in 0..Len(t)
          /\ i - 1 \in 0..i /\ j - 1 \in 0..j /\ i \in 0..i /\ j \in 0..j /\ i - 1 # i /\ j - 1 # j
      BY <1>0, <2>4
    <3>2. Q(i - 1, j) /\ Q(i, j - 1) /\ Q(i - 1, j - 1) BY <2>0, <3>1
    <3>3. Cheapest(d[i][j], d[i][j-1], d[i-1][j], d[i-1][j-1], Cost(s, t, i, j)) BY <1>0, <3>1, CellIsLeast
    <3>4. PICK e, l, u, v, m : e = d[i][j] /\ l = d[i][j-1] /\ u = d[i-1][j] /\ v = d[i-1][j-1] /\ m = Cost(s, t, i, j)
      OBVIOUS
    <3>5. PICK w, x, y, z : w = Prefix(s, i - 1) /\ x = Prefix(s, i) /\ y = Prefix(t, j - 1) /\ z = Prefix(t, j) OBVIOUS
    <3>6. PICK b, c : b = s[i] /\ c = t[j] OBVIOUS
    <3>7. /\ w \in Seq(Text) /\ x \in Seq(Text) /\ y \in Seq(Text) /\ z \in Seq(Text) /\ b \in Text /\ c \in Text
          /\ x = Append(w, b) /\ z = Append(y, c)
      BY <1>4, <1>5, <3>1, <3>5, <3>6
    <3>8. /\ u <= k => Reached(w, z, u, k)
          /\ l <= k => Reached(x, y, l, k)
          /\ v <= k => Reached(w, y, v, k)
      BY <3>2, <3>4, <3>5
    <3>9. /\ e \in Nat /\ l \in Nat /\ u \in Nat /\ v \in Nat /\ e <= k /\ m \in {0, 1}
          /\ e = l + 1 \/ e = u + 1 \/ e = v + m
      BY <3>3, <3>4 DEF Cheapest
    <3>10. CASE e = l + 1
      <4>1. l <= k /\ l + 1 <= k BY <3>9, <3>10
      <4>2. Reached(x, Append(y, c), l + 1, k) BY <3>7, <3>8, <3>9, <4>1, ReachedByOneMore
      <4> QED BY <3>4, <3>5, <3>7, <3>10, <4>2
    <3>11. CASE e = u + 1
      <4>1. u \in 0..k /\ u <= k /\ u + 1 <= k BY <3>9, <3>11
      <4>2. Reached(x, Append(z, b), u, k) BY <3>7, <3>8, <4>1, ReachedBeforeTheEnd
      <4>3. Reached(x, z, u + 1, k) BY <3>7, <3>9, <4>1, <4>2, ReachedByOneMore
      <4> QED BY <3>4, <3>5, <3>11, <4>3
    <3>12. CASE e = v + m
      <4>1. v \in 0..k /\ v <= k BY <3>9, <3>12
      <4>2. Reached(x, Append(y, b), v, k) BY <3>7, <3>8, <4>1, ReachedBeforeTheEnd
      <4>3. CASE m = 0
        <5>1. b = c /\ e = v BY <3>4, <3>6, <3>9, <3>12, <4>3 DEF Cost
        <5> QED BY <3>4, <3>5, <3>7, <4>2, <5>1
      <4>4. CASE m = 1
        <5>1. v + 1 <= k BY <3>9, <3>12, <4>4
        <5>2. Reached(x, Append(y, c), v + 1, k) BY <3>7, <3>9, <4>2, <5>1, ReachedByOneMore
        <5> QED BY <3>4, <3>5, <3>7, <3>12, <4>4, <5>2
      <4> QED BY <3>9, <4>3, <4>4
    <3> QED BY <3>9, <3>10, <3>11, <3>12
  <2> QED BY <2>1, <2>2, <2>3, <2>4
<1> HIDE DEF P
<1>3. \A i \in 0..Len(s), j \in 0..Len(t) : <<i, j>> \in P BY <1>0, <1>2, OverTable
<1> QED BY <1>1, <1>3

(* The table ends with the least number of edits: a text is within k edits   *)
(* of another exactly when the distance is at most k.                        *)
LEMMA DistanceIsWithin ==
  ASSUME NEW s \in Seq(Text), NEW t \in Seq(Text), NEW k \in Nat
  PROVE  Within(s, t, k) <=> Distance(s, t) <= k
<1>0. Len(s) \in Nat /\ Len(t) \in Nat BY LenProperties
<1>1. IsNear(Near(s, k), s, k) BY NearUnfolds
<1>2. k \in 0..k OBVIOUS
<1>3. Within(s, t, k) => Distance(s, t) <= k BY <1>1, <1>2, ChainIsCounted DEF Within
<1>4. ASSUME Distance(s, t) <= k PROVE Within(s, t, k)
  <2>1. PICK d : d = Table(s, t) OBVIOUS
  <2>2. IsTable(d, s, t) BY <1>0, <2>1, TableUnfolds
  <2>3. PICK n : n = d[Len(s)][Len(t)] OBVIOUS
  <2>4. n = Distance(s, t) BY <2>1, <2>3 DEF Distance
  <2>5. n \in Nat BY <1>0, <2>4, DistanceIsSymmetric
  <2>6. Len(s) \in 0..Len(s) /\ Len(t) \in 0..Len(t) BY <1>0
  <2>7. Reached(Prefix(s, Len(s)), Prefix(t, Len(t)), n, k) BY <1>4, <2>2, <2>3, <2>4, <2>6, CellIsReached
  <2>8. Prefix(s, Len(s)) = s /\ Prefix(t, Len(t)) = t BY PrefixGrows
  <2>9. t \in Near(s, k)[n] BY <2>7, <2>8 DEF Reached
  <2>10. n \in 0..k BY <1>4, <2>4, <2>5
  <2>11. Near(s, k)[n] \subseteq Near(s, k)[k] BY <1>1, <2>10, ChainMayBeShort
  <2> QED BY <2>9, <2>11 DEF Within
<1> QED BY <1>3, <1>4

-----------------------------------------------------------------------------
(* The capped distance.                                                      *)

(* No cell of a row over the cap is at most the cap.                         *)
LEMMA OverCapMeansOver ==
  ASSUME NEW n \in Nat, NEW row \in [0..n -> Nat], NEW max \in Nat, OverCap(row, max)
  PROVE  \A j \in 0..n : row[j] > max
<1> DEFINE S == {row[j] : j \in DOMAIN row}
<1>1. S \subseteq Nat /\ row[0] \in S OBVIOUS
<1>2. \A j \in 0..n : row[j] \in S /\ row[j] \in Nat OBVIOUS
<1>3. Min(S) > max BY DEF OverCap
<1> HIDE DEF S
<1>4. \E x \in S : \A y \in S : x <= y BY <1>1, LeastNat, Zenon
<1>5. Min(S) \in S /\ \A y \in S : Min(S) <= y BY <1>4, Zenon DEF Min
<1>6. PICK m : m = Min(S) OBVIOUS
<1>7. m \in Nat /\ m > max /\ \A y \in S : m <= y BY <1>1, <1>3, <1>5, <1>6
<1> QED BY <1>2, <1>7

(* The lesser of two numbers.                                                *)
LEMMA MinOfTwo ==
  ASSUME NEW a \in Nat, NEW b \in Nat
  PROVE  Min({a, b}) = IF a <= b THEN a ELSE b
<1>1. \E x \in {a, b} : \A y \in {a, b} : x <= y OBVIOUS
<1>2. Min({a, b}) \in {a, b} /\ \A y \in {a, b} : Min({a, b}) <= y BY <1>1 DEF Min
<1> QED BY <1>2

(* Neither cut-off hides a distance that is within the cap.                  *)
LEMMA CutOffsAreSound ==
  ASSUME NEW s, NEW t, Len(s) \in Nat, Len(t) \in Nat, NEW max \in Nat,
         Len(s) - Len(t) > max \/ \E i \in 1..Len(s) : OverCap(Table(s, t)[i], max)
  PROVE  Distance(s, t) > max
<1>1. PICK d : d = Table(s, t) OBVIOUS
<1>2. IsTable(d, s, t) BY <1>1, TableUnfolds
<1>3. Len(s) \in 0..Len(s) /\ Len(t) \in 0..Len(t) OBVIOUS
<1>4. d[Len(s)][Len(t)] \in Nat BY <1>2, <1>3, CellIsNat
<1>5. CASE Len(s) - Len(t) > max
  <2>1. d[Len(s)][Len(t)] >= Len(s) - Len(t) BY <1>2, <1>3, LengthsDiffer
  <2> QED BY <1>1, <1>4, <1>5, <2>1 DEF Distance
<1>6. CASE \E i \in 1..Len(s) : OverCap(d[i], max)
  <2>1. PICK i \in 1..Len(s) : OverCap(d[i], max) BY <1>6
  <2>2. i \in 0..Len(s) /\ d[i] \in [0..Len(t) -> Nat] BY <1>2 DEF IsTable
  <2>3. \A j \in 0..Len(t) : d[i][j] > max BY <2>1, <2>2, OverCapMeansOver
  <2>4. \A j \in 0..Len(t) : d[Len(s)][j] > max BY <1>2, <2>2, <2>3, RowsStayOver
  <2> QED BY <1>1, <1>3, <2>4 DEF Distance
<1> QED BY <1>1, <1>5, <1>6

(* levenshteinAtMost returns the distance, or max + 1 when it is over max.   *)
LEMMA CappedDistance ==
  ASSUME NEW a, NEW b, Len(a) \in Nat, Len(b) \in Nat, NEW max \in Nat
  PROVE  LevenshteinAtMost(a, b, max) = IF Distance(a, b) <= max THEN Distance(a, b) ELSE max + 1
<1>1. PICK s, t : s = (IF Len(a) < Len(b) THEN b ELSE a) /\ t = (IF Len(a) < Len(b) THEN a ELSE b) OBVIOUS
<1>2. Len(s) \in Nat /\ Len(t) \in Nat BY <1>1
<1>3. Distance(a, b) \in Nat /\ Distance(s, t) = Distance(a, b)
  <2>1. Distance(a, b) \in Nat /\ Distance(b, a) = Distance(a, b) BY DistanceIsSymmetric
  <2>2. (s = a /\ t = b) \/ (s = b /\ t = a) BY <1>1
  <2> QED BY <2>1, <2>2
<1>4. LevenshteinAtMost(a, b, max) =
        IF a = b THEN 0
        ELSE IF Len(s) - Len(t) > max \/ \E i \in 1..Len(s) : OverCap(Table(s, t)[i], max) THEN max + 1
        ELSE Min({Distance(s, t), max + 1})
  BY <1>1, Zenon DEF LevenshteinAtMost, Distance
<1>5. CASE a = b
  <2>1. IsTable(Table(a, a), a, a) /\ Len(a) \in 0..Len(a) BY TableUnfolds
  <2>2. Distance(a, a) = 0 BY <2>1, DiagonalIsZero DEF Distance
  <2> QED BY <1>4, <1>5, <2>2
<1>6. CASE a # b /\ (Len(s) - Len(t) > max \/ \E i \in 1..Len(s) : OverCap(Table(s, t)[i], max))
  <2>1. Distance(s, t) > max BY <1>2, <1>6, CutOffsAreSound
  <2>2. LevenshteinAtMost(a, b, max) = max + 1 BY <1>4, <1>6, Zenon
  <2> QED BY <1>3, <2>1, <2>2
<1>7. CASE a # b /\ ~(Len(s) - Len(t) > max \/ \E i \in 1..Len(s) : OverCap(Table(s, t)[i], max))
  <2>1. LevenshteinAtMost(a, b, max) = Min({Distance(s, t), max + 1}) BY <1>4, <1>7, Zenon
  <2>2. PICK x, y : x = Distance(a, b) /\ y = max + 1 OBVIOUS
  <2>3. x \in Nat /\ y \in Nat BY <1>3, <2>2
  <2>4. LevenshteinAtMost(a, b, max) = IF x <= y THEN x ELSE y BY <1>3, <2>1, <2>2, <2>3, MinOfTwo
  <2> QED BY <2>2, <2>3, <2>4
<1> QED BY <1>5, <1>6, <1>7, Zenon

(* It is at most k exactly when k edits are enough.                          *)
LEMMA CappedIsWithin ==
  ASSUME NEW a \in Seq(Text), NEW b \in Seq(Text), NEW max \in Nat, NEW k \in 0..max
  PROVE  LevenshteinAtMost(a, b, max) <= k <=> Within(a, b, k)
<1>1. Len(a) \in Nat /\ Len(b) \in Nat BY LenProperties
<1>2. LevenshteinAtMost(a, b, max) = IF Distance(a, b) <= max THEN Distance(a, b) ELSE max + 1
  BY <1>1, CappedDistance
<1>3. Distance(a, b) \in Nat BY <1>1, DistanceIsSymmetric
<1>4. k \in Nat OBVIOUS
<1>5. Within(a, b, k) <=> Distance(a, b) <= k BY <1>4, DistanceIsWithin
<1> QED BY <1>2, <1>3, <1>4, <1>5

-----------------------------------------------------------------------------
(* Normalised names.                                                         *)

(* What normalizeName writes for the n-th character when it has written w.   *)
Written(name, n, w) ==
  IF name[n] \notin Separator THEN Append(w, ToLower(name[n]))
  ELSE IF w = <<>> \/ Last(w) = Space THEN w
  ELSE Append(w, Space)

(* What the texts written for the prefixes of a name satisfy.                *)
IsScan(o, name) ==
  /\ o[0] = <<>>
  /\ \A n \in 1..Len(name) : o[n] = Written(name, n, o[n-1])
  /\ \A n \in 0..Len(name) : o[n] \in Seq(Text)

(* A character that is kept becomes a letter.                                *)
LEMMA KeptIsLetter ==
  ASSUME NEW c \in Char, c \notin Separator
  PROVE  ToLower(c) \in Letter /\ ToLower(c) # Space /\ ToLower(c) \in Text
  BY Alphabet DEF Char, ToLower, Text

(* Scanned computes these texts.                                             *)
LEMMA ScanUnfolds ==
  ASSUME NEW name \in Seq(Char)
  PROVE  IsScan(Scanned(name), name)
<1> DEFINE L == Len(name)
           V == Seq(Text)
           g == [p \in Nat \X V |-> IF p[1] \in 1..L THEN Written(name, p[1], p[2]) ELSE <<>>]
           IsS(f) == f = [n \in 0..L |-> IF n = 0 THEN <<>> ELSE Written(name, n, f[n-1])]
<1>0. L \in Nat /\ \A n \in 1..L : name[n] \in Char BY LenProperties, ElementOfSeq
<1>1. <<>> \in V OBVIOUS
<1>2. \A n \in 1..L, w \in V : Written(name, n, w) \in V
  <2> SUFFICES ASSUME NEW n \in 1..L, NEW w \in V PROVE Written(name, n, w) \in V OBVIOUS
  <2>1. CASE name[n] \notin Separator
    <3>1. ToLower(name[n]) \in Text BY <1>0, <2>1, KeptIsLetter
    <3> QED BY <2>1, <3>1, AppendProperties DEF Written
  <2>2. CASE name[n] \in Separator
    <3>1. Space \in Text BY DEF Text
    <3> QED BY <2>2, <3>1, AppendProperties DEF Written
  <2> QED BY <2>1, <2>2
<1>3. Scanned(name) = CHOOSE f : IsS(f) BY DEF Scanned, Written
<1> HIDE DEF V, L
<1>4. g \in [Nat \X V -> V] BY <1>1, <1>2
<1>5. \A n \in 1..L, w \in V : g[<<n, w>>] = Written(name, n, w) BY <1>0
<1> HIDE DEF g
<1>6. PICK f \in [0..L -> V] : Follows(f, L, <<>>, g) BY <1>0, <1>1, <1>4, Recursion, Zenon
<1>7. ASSUME NEW n \in 1..L PROVE f[n] = Written(name, n, f[n-1])
  <2>1. n - 1 \in 0..L BY <1>0
  <2>2. f[n-1] \in V BY <2>1
  <2> QED BY <1>5, <1>6, <2>2 DEF Follows
<1>8. IsS(f) BY <1>6, <1>7 DEF Follows
<1>9. PICK r : r = Scanned(name) OBVIOUS
<1>10. IsS(r) BY <1>3, <1>8, <1>9
<1>11. r[0] = <<>> /\ \A n \in 1..L : r[n] = Written(name, n, r[n-1])
  <2>1. \A n \in 0..L : r[n] = IF n = 0 THEN <<>> ELSE Written(name, n, r[n-1]) BY <1>10, Zenon
  <2>2. 0 \in 0..L /\ \A n \in 1..L : n \in 0..L /\ n # 0 BY <1>0
  <2> QED BY <2>1, <2>2
<1>12. \A n \in 0..L : r[n] \in V
  <2> DEFINE P == {n \in 0..L : r[n] \in V}
  <2>0. 0 \in 0..L BY <1>0
  <2>1. 0 \in P BY <1>1, <1>11, <2>0
  <2>2. \A n \in 1..L : n - 1 \in P => n \in P BY <1>0, <1>2, <1>11
  <2> HIDE DEF P
  <2>3. \A n \in 0..L : n \in P BY <1>0, <2>1, <2>2, UpTo
  <2> QED BY <2>3 DEF P
<1> QED BY <1>9, <1>11, <1>12 DEF IsScan, V, L

(* The characters among the first n that are no separators.                  *)
Kept(name, n) == {i \in 1..n : name[i] \notin Separator}

(* Each of them is where the text ended when it was written, and nothing     *)
(* that comes later moves it.                                                *)
KeptInPlace(o, name, n) ==
  \A i \in Kept(name, n) : Len(o[i]) \in 1..Len(o[n]) /\ o[n][Len(o[i])] = ToLower(name[i])

(* One next to the other, or a space between them.                           *)
KeptInOrder(o, name, n) ==
  \A i, j \in Kept(name, n) : i < j /\ (\A k \in Kept(name, n) : k <= i \/ k >= j) =>
    Len(o[j]) = Len(o[i]) + (IF j = i + 1 THEN 1 ELSE 2)

(* And nothing else, but for a space that may be last.                       *)
NothingElse(o, name, n) ==
  \A p \in 1..Len(o[n]) :
    \/ \E i \in Kept(name, n) : Len(o[i]) = p
    \/ /\ o[n][p] = Space
       /\ \E i \in Kept(name, n) : Len(o[i]) = p - 1
       /\ p = Len(o[n]) \/ \E j \in Kept(name, n) : Len(o[j]) = p + 1

(* The text ends with the character kept last, or with the space after it.   *)
EndsWithLast(o, name, n) ==
  \/ Kept(name, n) = {} /\ o[n] = <<>>
  \/ \E i \in Kept(name, n) :
       /\ \A k \in Kept(name, n) : k <= i
       /\ Len(o[n]) = Len(o[i]) + (IF i = n THEN 0 ELSE 1)
       /\ o[n][Len(o[n])] = Space <=> i # n

ScanInv(o, name, n) ==
  KeptInPlace(o, name, n) /\ KeptInOrder(o, name, n) /\ NothingElse(o, name, n) /\ EndsWithLast(o, name, n)

(* A kept character is appended.                                             *)
LEMMA ScanKeeps ==
  ASSUME NEW name \in Seq(Char), NEW o, IsScan(o, name), NEW n \in 1..Len(name),
         ScanInv(o, name, n - 1), name[n] \notin Separator
  PROVE  ScanInv(o, name, n)
<1>0. Len(name) \in Nat /\ name[n] \in Char BY LenProperties, ElementOfSeq
<1>1. PICK m : m = n - 1 OBVIOUS
<1>2. m \in 0..Len(name) /\ m \in Nat /\ n = m + 1 /\ n \in Nat BY <1>0, <1>1
<1>3. PICK w, x, c : w = o[m] /\ x = o[n] /\ c = ToLower(name[n]) OBVIOUS
<1>4. w \in Seq(Text) /\ c \in Text /\ c # Space BY <1>0, <1>2, <1>3, KeptIsLetter DEF IsScan
<1>5. x = Append(w, c) BY <1>1, <1>3 DEF IsScan, Written
<1>6. Len(w) \in Nat /\ Len(x) = Len(w) + 1 /\ (\A j \in 1..Len(w) : x[j] = w[j]) /\ x[Len(w) + 1] = c
  BY <1>4, <1>5, Appended
<1>7. PICK K : K = Kept(name, m) OBVIOUS
<1>8. Kept(name, n) = K \cup {n} /\ n \notin K /\ \A i \in K : i \in 1..m BY <1>1, <1>2, <1>7 DEF Kept
<1>9. \A i \in K : Len(o[i]) \in 1..Len(w) /\ w[Len(o[i])] = ToLower(name[i])
  BY <1>1, <1>3, <1>7 DEF ScanInv, KeptInPlace
<1>10. KeptInPlace(o, name, n)
  <2>1. Len(x) \in 1..Len(x) /\ x[Len(x)] = ToLower(name[n]) BY <1>3, <1>6
  <2>2. ASSUME NEW i \in K PROVE Len(o[i]) \in 1..Len(x) /\ x[Len(o[i])] = ToLower(name[i]) BY <1>6, <1>9
  <2> QED BY <1>3, <1>8, <2>1, <2>2 DEF KeptInPlace
<1>11. EndsWithLast(o, name, n)
  <2>1. \A k \in Kept(name, n) : k <= n BY <1>2, <1>8
  <2>2. x[Len(x)] # Space BY <1>4, <1>6
  <2>3. Len(o[n]) = Len(o[n]) + (IF n = n THEN 0 ELSE 1) BY <1>3, <1>6
  <2>4. o[n][Len(o[n])] = Space <=> n # n BY <1>3, <2>2
  <2>5. n \in Kept(name, n) BY <1>8
  <2> QED BY <2>1, <2>3, <2>4, <2>5, Zenon DEF EndsWithLast
<1>12. KeptInOrder(o, name, n)
  <2> SUFFICES ASSUME NEW i \in Kept(name, n), NEW j \in Kept(name, n), i < j,
                      \A k \in Kept(name, n) : k <= i \/ k >= j
               PROVE  Len(o[j]) = Len(o[i]) + (IF j = i + 1 THEN 1 ELSE 2)
    BY DEF KeptInOrder
  <2>1. CASE j # n
    <3>1. i \in K /\ j \in K BY <1>2, <1>8, <2>1
    <3>2. \A k \in K : k <= i \/ k >= j BY <1>8
    <3> QED BY <1>1, <1>7, <3>1, <3>2 DEF ScanInv, KeptInOrder
  <2>2. CASE j = n
    <3>1. i \in K /\ i \in Nat BY <1>2, <1>8, <2>2
    <3>2. PICK l \in K : /\ \A k \in K : k <= l
                         /\ Len(w) = Len(o[l]) + (IF l = m THEN 0 ELSE 1)
      BY <1>1, <1>3, <1>7, <3>1 DEF ScanInv, EndsWithLast
    <3>3. l = i
      <4>1. l <= i \/ l >= n BY <1>8, <2>2, <3>2
      <4>2. l \in Nat /\ l <= m /\ i <= l BY <1>2, <1>8, <3>1, <3>2
      <4> QED BY <1>2, <3>1, <4>1, <4>2
    <3>4. Len(o[i]) \in Nat BY <1>6, <1>9, <3>1
    <3>5. j = i + 1 <=> l = m BY <1>2, <2>2, <3>1, <3>3
    <3>6. Len(w) = Len(o[i]) + (IF j = i + 1 THEN 0 ELSE 1) BY <3>2, <3>3, <3>5
    <3>7. Len(o[j]) = Len(w) + 1 BY <1>3, <1>6, <2>2
    <3>8. PICK a, b, e : a = Len(o[j]) /\ b = Len(o[i]) /\ e = Len(w) OBVIOUS
    <3>9. b \in Nat /\ a = e + 1 BY <3>4, <3>7, <3>8
    <3>10. CASE j = i + 1
      <4>1. a = b + 1 BY <3>6, <3>8, <3>9, <3>10
      <4> QED BY <3>8, <3>10, <4>1
    <3>11. CASE j # i + 1
      <4>1. e = b + 1 BY <3>6, <3>8, <3>11
      <4>2. a = b + 2 BY <3>9, <4>1
      <4> QED BY <3>8, <3>11, <4>2
    <3> QED BY <3>10, <3>11
  <2> QED BY <2>1, <2>2
<1>13. NothingElse(o, name, n)
  <2> SUFFICES ASSUME NEW p \in 1..Len(x)
               PROVE  \/ \E i \in K \cup {n} : Len(o[i]) = p
                      \/ /\ x[p] = Space
                         /\ \E i \in K \cup {n} : Len(o[i]) = p - 1
                         /\ p = Len(x) \/ \E j \in K \cup {n} : Len(o[j]) = p + 1
    BY <1>3, <1>8 DEF NothingElse
  <2>1. CASE p = Len(x) BY <1>3, <2>1
  <2>2. CASE p # Len(x)
    <3>1. p \in 1..Len(w) /\ x[p] = w[p] BY <1>6, <2>2
    <3>2. \/ \E i \in K : Len(o[i]) = p
          \/ /\ w[p] = Space
             /\ \E i \in K : Len(o[i]) = p - 1
             /\ p = Len(w) \/ \E j \in K : Len(o[j]) = p + 1
      BY <1>1, <1>3, <1>7, <3>1 DEF ScanInv, NothingElse
    <3>3. p = Len(w) => Len(o[n]) = p + 1 BY <1>3, <1>6
    <3> QED BY <3>1, <3>2, <3>3
  <2> QED BY <2>1, <2>2
<1> QED BY <1>10, <1>11, <1>12, <1>13 DEF ScanInv

(* A separator leaves a space behind, unless there is one or nothing yet.    *)
LEMMA ScanSeparates ==
  ASSUME NEW name \in Seq(Char), NEW o, IsScan(o, name), NEW n \in 1..Len(name),
         ScanInv(o, name, n - 1), name[n] \in Separator
  PROVE  ScanInv(o, name, n)
<1>0. Len(name) \in Nat BY LenProperties
<1>1. PICK m : m = n - 1 OBVIOUS
<1>2. m \in 0..Len(name) /\ m \in Nat /\ n = m + 1 /\ n \in Nat BY <1>0, <1>1
<1>3. PICK w, x : w = o[m] /\ x = o[n] OBVIOUS
<1>4. w \in Seq(Text) /\ Space \in Text BY <1>2, <1>3 DEF IsScan, Text
<1>5. x = IF w = <<>> \/ Last(w) = Space THEN w ELSE Append(w, Space) BY <1>1, <1>3 DEF IsScan, Written
<1>6. PICK K : K = Kept(name, m) OBVIOUS
<1>7. Kept(name, n) = K /\ \A i \in K : i \in 1..m BY <1>1, <1>2, <1>6 DEF Kept
<1>8. \A i \in K : Len(o[i]) \in 1..Len(w) /\ w[Len(o[i])] = ToLower(name[i])
  BY <1>1, <1>3, <1>6 DEF ScanInv, KeptInPlace
<1>9. \/ K = {} /\ w = <<>>
      \/ \E i \in K : /\ \A k \in K : k <= i
                      /\ Len(w) = Len(o[i]) + (IF i = m THEN 0 ELSE 1)
                      /\ w[Len(w)] = Space <=> i # m
  BY <1>1, <1>3, <1>6 DEF ScanInv, EndsWithLast
<1>10. KeptInOrder(o, name, n) BY <1>1, <1>6, <1>7 DEF ScanInv, KeptInOrder
<1>11. \A p \in 1..Len(w) :
         \/ \E i \in K : Len(o[i]) = p
         \/ /\ w[p] = Space
            /\ \E i \in K : Len(o[i]) = p - 1
            /\ p = Len(w) \/ \E j \in K : Len(o[j]) = p + 1
  BY <1>1, <1>3, <1>6 DEF ScanInv, NothingElse
<1>12. Len(w) \in Nat BY <1>4, LenProperties
<1>13. CASE x = w
  <2>1. KeptInPlace(o, name, n) BY <1>3, <1>7, <1>8, <1>13 DEF KeptInPlace
  <2>2. NothingElse(o, name, n) BY <1>3, <1>7, <1>11, <1>13 DEF NothingElse
  <2>3. EndsWithLast(o, name, n)
    <3>1. CASE K = {} /\ w = <<>> BY <1>3, <1>7, <1>13, <3>1 DEF EndsWithLast
    <3>2. CASE ~(K = {} /\ w = <<>>)
      <4>1. PICK i \in K : /\ \A k \in K : k <= i
                           /\ Len(w) = Len(o[i]) + (IF i = m THEN 0 ELSE 1)
                           /\ w[Len(w)] = Space <=> i # m
        BY <1>9, <3>2
      <4>2. Len(w) # 0
        <5>1. Len(o[i]) \in 1..Len(w) BY <1>8
        <5> QED BY <1>12, <5>1
      <4>3. w # <<>> BY <4>2
      <4>4. w[Len(w)] = Space
        <5>1. SUFFICES ASSUME w[Len(w)] # Space PROVE FALSE OBVIOUS
        <5>2. x = Append(w, Space) BY <1>5, <4>3, <5>1 DEF Last
        <5>3. Len(x) = Len(w) + 1 BY <1>4, <5>2, Appended
        <5> QED BY <1>12, <1>13, <5>3
      <4>5. i # n /\ i # m BY <1>2, <1>7, <4>1, <4>4
      <4>6. Len(o[n]) = Len(o[i]) + (IF i = n THEN 0 ELSE 1) BY <1>3, <1>13, <4>1, <4>5
      <4>7. o[n][Len(o[n])] = Space <=> i # n BY <1>3, <1>13, <4>4, <4>5
      <4> QED BY <1>7, <4>1, <4>6, <4>7, Zenon DEF EndsWithLast
    <3> QED BY <3>1, <3>2
  <2> QED BY <1>10, <2>1, <2>2, <2>3 DEF ScanInv
<1>14. CASE x # w
  <2>1. x = Append(w, Space) /\ w # <<>> /\ w[Len(w)] # Space BY <1>5, <1>14 DEF Last
  <2>2. Len(x) = Len(w) + 1 /\ (\A j \in 1..Len(w) : x[j] = w[j]) /\ x[Len(w) + 1] = Space
    BY <1>4, <2>1, Appended
  <2>3. PICK i \in K : (\A k \in K : k <= i) /\ Len(w) = Len(o[i]) /\ i = m
    <3>1. PICK i \in K : /\ \A k \in K : k <= i
                         /\ Len(w) = Len(o[i]) + (IF i = m THEN 0 ELSE 1)
                         /\ w[Len(w)] = Space <=> i # m
      BY <1>9, <2>1
    <3>2. i = m BY <2>1, <3>1
    <3>3. Len(o[i]) \in Nat BY <1>8, <1>12, <3>1
    <3> QED BY <3>1, <3>2, <3>3
  <2>4. KeptInPlace(o, name, n)
    <3>1. ASSUME NEW k \in K PROVE Len(o[k]) \in 1..Len(x) /\ x[Len(o[k])] = ToLower(name[k]) BY <1>8, <1>12, <2>2
    <3> QED BY <1>3, <1>7, <3>1 DEF KeptInPlace
  <2>5. NothingElse(o, name, n)
    <3> SUFFICES ASSUME NEW p \in 1..Len(x)
                 PROVE  \/ \E h \in K : Len(o[h]) = p
                        \/ /\ x[p] = Space
                           /\ \E h \in K : Len(o[h]) = p - 1
                           /\ p = Len(x) \/ \E j \in K : Len(o[j]) = p + 1
      BY <1>3, <1>7 DEF NothingElse
    <3>1. CASE p = Len(x)
      <4>1. p - 1 = Len(o[i]) BY <1>12, <2>2, <2>3, <3>1
      <4> QED BY <2>2, <3>1, <4>1
    <3>2. CASE p # Len(x)
      <4>1. p \in 1..Len(w) /\ x[p] = w[p] BY <1>12, <2>2, <3>2
      <4>2. w[p] = Space => p # Len(w) BY <2>1
      <4> QED BY <1>11, <4>1, <4>2
    <3> QED BY <3>1, <3>2
  <2>6. EndsWithLast(o, name, n)
    <3>1. i # n BY <1>2, <2>3
    <3>2. Len(o[n]) = Len(o[i]) + (IF i = n THEN 0 ELSE 1) BY <1>3, <2>2, <2>3, <3>1
    <3>3. o[n][Len(o[n])] = Space <=> i # n BY <1>3, <2>2, <3>1
    <3> QED BY <1>7, <2>3, <3>2, <3>3, Zenon DEF EndsWithLast
  <2> QED BY <1>10, <2>4, <2>5, <2>6 DEF ScanInv
<1> QED BY <1>13, <1>14

(* So what is written for every prefix of a name.                            *)
LEMMA ScanIsRight ==
  ASSUME NEW name \in Seq(Char), NEW o, IsScan(o, name)
  PROVE  ScanInv(o, name, Len(name))
<1>0. Len(name) \in Nat BY LenProperties
<1> DEFINE P == {n \in 0..Len(name) : ScanInv(o, name, n)}
<1>1. 0 \in P
  <2>1. Kept(name, 0) = {} BY DEF Kept
  <2>2. o[0] = <<>> /\ Len(o[0]) = 0 BY DEF IsScan
  <2>3. KeptInPlace(o, name, 0) /\ KeptInOrder(o, name, 0) /\ EndsWithLast(o, name, 0)
    BY <2>1, <2>2, Zenon DEF KeptInPlace, KeptInOrder, EndsWithLast
  <2>4. NothingElse(o, name, 0) BY <2>2 DEF NothingElse
  <2>5. ScanInv(o, name, 0) BY <2>3, <2>4 DEF ScanInv
  <2> QED BY <1>0, <2>5
<1>2. ASSUME NEW n \in 1..Len(name), n - 1 \in P PROVE n \in P
  <2>1. ScanInv(o, name, n - 1) BY <1>2
  <2>2. ScanInv(o, name, n) BY <2>1, ScanKeeps, ScanSeparates
  <2>3. n \in 0..Len(name) BY <1>0
  <2> QED BY <2>2, <2>3
<1> HIDE DEF P
<1>3. \A n \in 0..Len(name) : n \in P BY <1>0, <1>1, <1>2, UpTo
<1>4. Len(name) \in P BY <1>0, <1>3
<1> QED BY <1>4 DEF P

(* normalizeName trims the space that is last, and nothing else.             *)
LEMMA Trimmed ==
  ASSUME NEW name \in Seq(Char), NEW o, o = Scanned(name), NEW n, n = NormalizeName(name)
  PROVE  LET all == o[Len(name)] IN
         /\ n \in Seq(Text) /\ Len(n) \in Nat /\ all \in Seq(Text) /\ Len(all) \in Nat
         /\ \A p \in 1..Len(n) : n[p] = all[p]
         /\ \/ Len(n) = Len(all) /\ (Len(all) = 0 \/ all[Len(all)] # Space)
            \/ Len(n) = Len(all) - 1 /\ all[Len(all)] = Space
<1>1. Len(name) \in Nat BY LenProperties
<1>2. PICK a : a = o[Len(name)] OBVIOUS
<1>3. IsScan(o, name) BY ScanUnfolds
<1>4. a \in Seq(Text) BY <1>1, <1>2, <1>3 DEF IsScan
<1>5. Len(a) \in Nat BY <1>4, LenProperties
<1>6. n = IF a # <<>> /\ Last(a) = Space THEN Front(a) ELSE a BY <1>2 DEF NormalizeName
<1>7. CASE a # <<>> /\ Last(a) = Space
  <2>1. Len(a) # 0 BY <1>4, <1>7, EmptySeq
  <2>2. PICK k \in Nat : k = Len(a) - 1 BY <1>5, <2>1
  <2>3. n = SubSeq(a, 1, k) BY <1>6, <1>7, <2>2 DEF Front
  <2>4. 1 <= k + 1 /\ k <= Len(a) BY <1>5, <2>2
  <2>5. n \in Seq(Text) /\ Len(n) = k - 1 + 1 /\ \A i \in 1..(k - 1 + 1) : n[i] = a[1 + i - 1]
    BY <1>4, <2>3, <2>4, Pieces
  <2>6. k - 1 + 1 = k /\ \A i \in 1..k : 1 + i - 1 = i OBVIOUS
  <2>7. n \in Seq(Text) /\ Len(n) = k /\ \A i \in 1..k : n[i] = a[i] BY <2>5, <2>6
  <2>8. a[Len(a)] = Space BY <1>7 DEF Last
  <2> QED BY <1>2, <1>4, <1>5, <2>2, <2>7, <2>8
<1>8. CASE ~(a # <<>> /\ Last(a) = Space)
  <2>1. n = a BY <1>6, <1>8
  <2>2. Len(a) = 0 \/ a[Len(a)] # Space BY <1>4, <1>8, EmptySeq DEF Last
  <2> QED BY <1>2, <1>4, <1>5, <2>1, <2>2
<1> QED BY <1>7, <1>8

(* A normalised name is a text that holds the words of the name.             *)
LEMMA NormalizedHoldsWords ==
  ASSUME NEW name \in Seq(Char)
  PROVE  HoldsWords(name, NormalizeName(name))
<1>1. PICK o, n : o = Scanned(name) /\ n = NormalizeName(name) OBVIOUS
<1>2. PICK L, a, K : L = Len(name) /\ a = o[L] /\ K = Kept(name, L) OBVIOUS
<1>3. L \in Nat /\ DOMAIN name = 1..L /\ \A i \in 1..L : name[i] \in Char BY <1>2, LenProperties, ElementOfSeq
<1>4. K = {i \in DOMAIN name : name[i] \notin Separator} BY <1>2, <1>3 DEF Kept
<1>5. /\ n \in Seq(Text) /\ Len(n) \in Nat /\ a \in Seq(Text) /\ Len(a) \in Nat
      /\ \A p \in 1..Len(n) : n[p] = a[p]
      /\ \/ Len(n) = Len(a) /\ (Len(a) = 0 \/ a[Len(a)] # Space)
         \/ Len(n) = Len(a) - 1 /\ a[Len(a)] = Space
  BY <1>1, <1>2, Trimmed
<1>6. DOMAIN n = 1..Len(n) BY <1>5, LenProperties
<1>7. ScanInv(o, name, L) BY <1>1, <1>2, ScanUnfolds, ScanIsRight
<1>8. \A i \in K : Len(o[i]) \in 1..Len(a) /\ a[Len(o[i])] = ToLower(name[i]) /\ ToLower(name[i]) # Space
  <2> SUFFICES ASSUME NEW i \in K
               PROVE  Len(o[i]) \in 1..Len(a) /\ a[Len(o[i])] = ToLower(name[i]) /\ ToLower(name[i]) # Space
    OBVIOUS
  <2>1. Len(o[i]) \in 1..Len(a) /\ a[Len(o[i])] = ToLower(name[i]) BY <1>2, <1>7 DEF ScanInv, KeptInPlace
  <2>2. name[i] \in Char /\ name[i] \notin Separator BY <1>3, <1>4
  <2> QED BY <2>1, <2>2, KeptIsLetter
<1>9. \A i \in K : Len(o[i]) \in 1..Len(n)
  <2> SUFFICES ASSUME NEW i \in K PROVE Len(o[i]) \in 1..Len(n) OBVIOUS
  <2>1. a[Len(a)] = Space => Len(o[i]) # Len(a) BY <1>8
  <2>2. PICK x, y, z : x = Len(o[i]) /\ y = Len(a) /\ z = Len(n) OBVIOUS
  <2>3. x \in 1..y /\ y \in Nat /\ z \in Nat /\ (z = y \/ (z = y - 1 /\ x # y)) BY <1>5, <1>8, <2>1, <2>2
  <2>4. x \in 1..z BY <2>3
  <2> QED BY <2>2, <2>4
<1>10. PICK at : at = [i \in K |-> Len(o[i])] OBVIOUS
<1>11. at \in [K -> DOMAIN n] BY <1>6, <1>9, <1>10
<1>12. \A i \in K : at[i] = Len(o[i]) BY <1>10
<1>13. \A i \in K : n[at[i]] = ToLower(name[i]) BY <1>5, <1>8, <1>9, <1>12
<1>14. \A i, j \in K : i < j /\ (\A k \in K : k <= i \/ k >= j) => at[j] = at[i] + (IF j = i + 1 THEN 1 ELSE 2)
  <2> SUFFICES ASSUME NEW i \in K, NEW j \in K, i < j, \A k \in K : k <= i \/ k >= j
               PROVE  at[j] = at[i] + (IF j = i + 1 THEN 1 ELSE 2)
    OBVIOUS
  <2>1. Len(o[j]) = Len(o[i]) + (IF j = i + 1 THEN 1 ELSE 2) BY <1>2, <1>7 DEF ScanInv, KeptInOrder
  <2> QED BY <1>12, <2>1
<1>15. \A p \in DOMAIN n : \/ \E i \in K : at[i] = p
                           \/ n[p] = Space /\ \E i, j \in K : at[i] = p - 1 /\ at[j] = p + 1
  <2> SUFFICES ASSUME NEW p \in 1..Len(n)
               PROVE  \/ \E i \in K : at[i] = p
                      \/ n[p] = Space /\ \E i, j \in K : at[i] = p - 1 /\ at[j] = p + 1
    BY <1>6
  <2>1. p \in 1..Len(a) /\ n[p] = a[p] BY <1>5
  <2>2. \/ \E i \in K : Len(o[i]) = p
        \/ /\ a[p] = Space
           /\ \E i \in K : Len(o[i]) = p - 1
           /\ p = Len(a) \/ \E j \in K : Len(o[j]) = p + 1
    BY <1>2, <1>7, <2>1 DEF ScanInv, NothingElse
  <2>3. a[p] = Space => p # Len(a) BY <1>5, <2>1
  <2>4. \/ \E i \in K : Len(o[i]) = p
        \/ a[p] = Space /\ \E i, j \in K : Len(o[i]) = p - 1 /\ Len(o[j]) = p + 1
    BY <2>2, <2>3
  <2> QED BY <1>12, <2>1, <2>4
<1>16. Spells(n, name, K, at) BY <1>13, <1>14, <1>15, Zenon DEF Spells
<1>17. K = InWords(name) BY <1>4 DEF InWords
<1>18. HoldsWords(name, n) BY <1>11, <1>16, <1>17, Zenon DEF HoldsWords
<1> QED BY <1>1, <1>18

(* A name is a sequence of characters.                                       *)
LEMMA NamesAreSequences ==
  ASSUME NEW name \in Names(Char, MaxName)
  PROVE  name \in Seq(Char)
<1>1. PICK k \in 0..MaxName : name \in [1..k -> Char] BY DEF Names
<1>2. k \in Nat BY NameBounds
<1> QED BY <1>1, <1>2

(* THE THEOREM OF NAME MATCHING.                                             *)
(* Whatever the alphabet, a name is matched against a listed one exactly     *)
(* when a chain of at most threshold single edits leads from the one to the  *)
(* other: neither the length gap nor the row cut-off of levenshteinAtMost    *)
(* hides a match or makes one.  And normalizeName keeps the words of a name  *)
(* in order, in lower case and with one space between them, so that names    *)
(* which differ only in case and punctuation are one name.                   *)
THEOREM NamesAreMatched == NameSpec => []NameSafe
<1>1. NameInit => NameSafe
  <2> SUFFICES ASSUME NameInit PROVE NameSafe OBVIOUS
  <2>1. query \in Seq(Char) /\ sanctioned \in Seq(Char) BY NamesAreSequences DEF NameInit
  <2>2. threshold \in Nat BY NameBounds DEF NameInit
  <2>3. PICK n, e : n = NormalizeName(query) /\ e = NormalizeName(sanctioned) OBVIOUS
  <2>4. n \in Seq(Text) /\ e \in Seq(Text) BY <2>1, <2>3, Trimmed
  <2>5. \A k \in 0..threshold : LevenshteinAtMost(n, e, threshold) <= k <=> Within(n, e, k)
    BY <2>2, <2>4, CappedIsWithin
  <2>6. threshold \in 0..threshold BY <2>2
  <2>7. MatchName(query, {sanctioned}, threshold) <=> n # <<>> /\ e # <<>> /\ Within(n, e, threshold)
    <3>1. MatchName(query, {sanctioned}, threshold) <=> n # <<>> /\ e # <<>> /\ LevenshteinAtMost(n, e, threshold) <= threshold
      BY <2>3, Zenon DEF MatchName
    <3> QED BY <2>5, <2>6, <3>1, Zenon
  <2>8. CappedDistanceIsTrue BY <2>3, <2>5, <2>7, Zenon DEF CappedDistanceIsTrue
  <2>9. SameWordsSameName BY <2>1, NormalizedHoldsWords DEF SameWordsSameName
  <2> QED BY <2>8, <2>9 DEF NameSafe
<1>2. NameSafe /\ [NameNext]_nameVars => NameSafe'
  <2> SUFFICES ASSUME NameSafe, UNCHANGED nameVars PROVE NameSafe' BY DEF NameNext
  <2>1. query' = query /\ sanctioned' = sanctioned /\ threshold' = threshold BY DEF nameVars
  <2> QED BY <2>1, Zenon DEF NameSafe, CappedDistanceIsTrue, SameWordsSameName
<1> QED BY <1>1, <1>2, PTL DEF NameSpec

===============================================================================
