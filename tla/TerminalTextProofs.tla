------------------------- MODULE TerminalTextProofs -------------------------
(***************************************************************************)
(* The selection, the copy, the links and the search of a terminal read    *)
(* the same characters, and a search shows the match it selects, for any   *)
(* size of the screen and the scrollback, any rows and any queries.        *)
(*                                                                         *)
(* The texts are recursive functions over cells; what they compute is      *)
(* shown by induction, stated of sets of indices (Least, UpTo, Recursion). *)
(***************************************************************************)
EXTENDS TerminalText, WellFoundedInduction, TLAPS

(* A set of naturals has a least element: the induction of this module,    *)
(* stated of sets.                                                         *)
LEMMA Least ==
    ASSUME NEW T \in SUBSET Nat, T # {}
    PROVE  \E m \in T : \A n \in T : m <= n
<1> DEFINE R == {p \in Nat \X Nat : p[1] < p[2]}
<1>1. IsWellFoundedOn(R, Nat)
  BY NatLessThanWellFounded DEF OpToRel
<1>2. \E m \in T : \A n \in T : <<n, m>> \notin R
  <2> HIDE DEF R
  <2> QED BY <1>1, WFMin
<1>3. \A m, n \in Nat : <<n, m>> \notin R => m <= n
  OBVIOUS
<1> HIDE DEF R
<1> QED BY <1>2, <1>3

(* Induction over the indices of a sequence, for the set of those at which *)
(* a fact holds.                                                           *)
LEMMA UpTo ==
    ASSUME NEW N \in Nat, NEW G, 0 \in G, \A n \in 1..N : n - 1 \in G => n \in G
    PROVE  0..N \subseteq G
<1> DEFINE B == {n \in 0..N : n \notin G}
<1>1. SUFFICES ASSUME B # {} PROVE FALSE
  OBVIOUS
<1>2. PICK m \in B : \A n \in B : m <= n
  <2>1. B \in SUBSET Nat
    OBVIOUS
  <2> HIDE DEF B
  <2> QED BY <1>1, <2>1, Least
<1>3. m \in 1..N /\ m - 1 \in 0..N /\ m - 1 \notin B
  BY <1>2
<1> QED BY <1>2, <1>3

(* f solves a recursion over 1..N whose step is a function.                *)
Solves(f, N, X, base, step) ==
    /\ f \in [0..N -> X]
    /\ f[0] = base
    /\ \A n \in 1..N : f[n] = step[n][f[n - 1]]

(* Such a recursion has a solution.                                        *)
LEMMA Recursion ==
    ASSUME NEW N \in Nat, NEW X, NEW base \in X, NEW step \in [1..N -> [X -> X]]
    PROVE  \E f : Solves(f, N, X, base, step)
<1> DEFINE G == {m \in 0..N : \E f : Solves(f, m, X, base, step)}
<1>1. 0 \in G
  <2>1. Solves([n \in 0..0 |-> base], 0, X, base, step)
    BY DEF Solves
  <2> QED BY <2>1
<1>2. ASSUME NEW m \in 1..N, m - 1 \in G PROVE m \in G
  <2>0. PICK f : Solves(f, m - 1, X, base, step)
    BY <1>2
  <2>1. /\ f \in [0..(m - 1) -> X]
        /\ f[0] = base
        /\ \A n \in 1..(m - 1) : f[n] = step[n][f[n - 1]]
    BY <2>0 DEF Solves
  <2> DEFINE h == [n \in 0..m |-> IF n < m THEN f[n] ELSE step[m][f[m - 1]]]
  <2>2. step[m][f[m - 1]] \in X
    <3>1. f[m - 1] \in X /\ step[m] \in [X -> X]
      BY <2>1
    <3> QED BY <3>1
  <2>3. h \in [0..m -> X]
    <3>1. \A n \in 0..m : n < m => f[n] \in X
      BY <2>1
    <3> QED BY <2>2, <3>1
  <2>4. ASSUME NEW n \in 1..m PROVE h[n] = step[n][h[n - 1]]
    <3>1. CASE n = m
      BY <3>1
    <3>2. CASE n \in 1..(m - 1)
      BY <2>1, <3>2
    <3> QED BY <3>1, <3>2
  <2>5. h[0] = base
    BY <2>1
  <2> HIDE DEF h
  <2>6. Solves(h, m, X, base, step)
    BY <2>3, <2>4, <2>5 DEF Solves
  <2> QED BY <2>6
<1>3. N \in G
  <2> HIDE DEF G
  <2>1. N \in 0..N
    OBVIOUS
  <2> QED BY <1>1, <1>2, <2>1, UpTo
<1> QED BY <1>3

(* What a recursion over 1..N keeps of its values.                         *)
LEMMA Values ==
    ASSUME NEW N \in Nat, NEW X, NEW f, f[0] \in X, \A n \in 1..N : f[n - 1] \in X => f[n] \in X
    PROVE  \A n \in 0..N : f[n] \in X
<1> DEFINE G == {n \in 0..N : f[n] \in X}
<1>1. 0 \in G
  OBVIOUS
<1>2. \A n \in 1..N : n - 1 \in G => n \in G
  OBVIOUS
<1>3. 0..N \subseteq G
  <2> HIDE DEF G
  <2> QED BY <1>1, <1>2, UpTo
<1> QED BY <1>3


-----------------------------------------------------------------------------
(* Remainders: the places of the scrollback are its rows' columns in order. *)

LEMMA MultNat == ASSUME NEW x \in Nat, NEW y \in Nat PROVE x * y \in Nat
  OBVIOUS

LEMMA Remainder ==
    ASSUME NEW a \in Nat, NEW k \in Nat \ {0}
    PROVE  /\ a \div k \in Nat /\ a % k \in 0..(k - 1)
           /\ a = k * (a \div k) + (a % k)
  OBVIOUS

LEMMA Quotient ==
    ASSUME NEW q \in Nat, NEW k \in Nat \ {0}, NEW r \in 0..(k - 1)
    PROVE  (k * q + r) \div k = q /\ (k * q + r) % k = r
<1> DEFINE a == k * q + r
           d == a \div k
           m == a % k
<1>0. k * q \in Nat /\ a \in Nat
  BY MultNat
<1>1. d \in Nat /\ m \in 0..(k - 1) /\ a = k * d + m
  <2> HIDE DEF a
  <2> QED BY <1>0, Remainder
<1>2. k * d \in Nat /\ k * d - k * q = r - m
  <2>1. k * d \in Nat
    <3> HIDE DEF a, d, m
    <3> QED BY <1>1, MultNat
  <2> HIDE DEF d, m
  <2> QED BY <1>0, <1>1, <2>1
<1>3. k * (d - q) = r - m
  <2> HIDE DEF d, m
  <2> QED BY <1>1, <1>2
<1> HIDE DEF a, d, m
<1>4. ~(d - q >= 1)
  <2>1. SUFFICES ASSUME d - q >= 1 PROVE FALSE
    OBVIOUS
  <2>2. k * (d - q) >= k
    BY <1>1, <2>1
  <2> QED BY <1>1, <1>3, <2>2
<1>5. ~(q - d >= 1)
  <2>1. SUFFICES ASSUME q - d >= 1 PROVE FALSE
    OBVIOUS
  <2>2. k * (q - d) >= k
    BY <1>1, <2>1
  <2>3. k * (q - d) = m - r
    BY <1>1, <1>2
  <2> QED BY <1>1, <2>2, <2>3
<1>6. d = q
  BY <1>1, <1>4, <1>5
<1> QED BY <1>1, <1>2, <1>6 DEF a, d, m

(* Later places are in later rows, or in later columns of the same row.    *)
LEMMA QuotientOrder ==
    ASSUME NEW k \in Nat \ {0}, NEW a \in Nat, NEW b \in Nat, a < b
    PROVE  a \div k < b \div k \/ (a \div k = b \div k /\ a % k < b % k)
<1> DEFINE qa == a \div k
           ra == a % k
           qb == b \div k
           rb == b % k
<1>1. qa \in Nat /\ ra \in 0..(k - 1) /\ a = k * qa + ra
  BY Remainder
<1>2. qb \in Nat /\ rb \in 0..(k - 1) /\ b = k * qb + rb
  BY Remainder
<1> HIDE DEF qa, ra, qb, rb
<1>3. qa <= qb
  <2>1. SUFFICES ASSUME qa - qb >= 1 PROVE FALSE
    BY <1>1, <1>2
  <2>2. k * (qa - qb) >= k
    BY <1>1, <1>2, <2>1
  <2>3. k * (qa - qb) = k * qa - k * qb
    BY <1>1, <1>2
  <2> QED BY <1>1, <1>2, <2>2, <2>3
<1>4. qa = qb => ra < rb
  BY <1>1, <1>2
<1> QED BY <1>1, <1>2, <1>3, <1>4 DEF qa, ra, qb, rb

-----------------------------------------------------------------------------
(* The invariant. *)

(* The rows of the scrollback, and a viewport among them.                  *)
Written == Lines \cup {BlankLine}
BufferInv ==
    /\ buffer \in Seq(Written) /\ Len(buffer) \in Rows..MaxRows
    /\ offset \in 0..MaxOffset

(* A batch of output moves the selection by a row at most.                 *)
SelectionInv ==
    /\ fed \in 0..MaxFeeds
    /\ sel \in [on : BOOLEAN,
                startRow : (1 - fed)..(MaxRows + fed), startCol : Col,
                endRow : (1 - fed)..(MaxRows + fed), endCol : Col]

(* Matches lie in the scrollback, in its order, and are equally long: the  *)
(* last cell of one is covered by none before it.                          *)
Match == [row : Nat \ {0}, col : Col, len : Nat \ {0}]
Precedes(m, n) == m.row < n.row \/ (m.row = n.row /\ m.col < n.col)
InOrder(matches, rows) ==
    /\ \A i \in 1..Len(matches) :
          matches[i].row <= rows /\ matches[i].col + matches[i].len - 1 <= Cols
    /\ \A i, j \in 1..Len(matches) : matches[i].len = matches[j].len
    /\ \A i, j \in 1..Len(matches) : i < j => Precedes(matches[i], matches[j])

SearchInv ==
    /\ search \in [active : BOOLEAN, matches : Seq(Match), selected : Nat]
    /\ search.selected <= Len(search.matches)
    /\ (search.matches = <<>>) = (search.selected = 0)
    /\ search.selected > 0 => search.active
    /\ InOrder(search.matches, Len(buffer))

TextInv == BufferInv /\ SelectionInv /\ SearchInv

-----------------------------------------------------------------------------
(* The search. *)

(* The places of the scrollback.                                           *)
LEMMA PlaceFacts ==
    ASSUME NEW query, Len(query) \in Nat \ {0}, NEW rows \in Nat, NEW n \in 1..(rows * Cols)
    PROVE  /\ Place(n, query) \in Match
           /\ Place(n, query).row \in 1..rows /\ Place(n, query).len = Len(query)
<1>1. Cols \in Nat \ {0} /\ n - 1 \in Nat
  BY TextAssumption
<1> DEFINE q == (n - 1) \div Cols
           r == (n - 1) % Cols
<1>2. q \in Nat /\ r \in 0..(Cols - 1) /\ n - 1 = Cols * q + r
  BY <1>1, Remainder
<1>3. Place(n, query) = [row |-> q + 1, col |-> r + 1, len |-> Len(query)]
  BY DEF Place
<1> HIDE DEF q, r
<1>4. q < rows
  <2>1. SUFFICES ASSUME q - rows >= 0 PROVE FALSE
    BY <1>2
  <2>2. Cols * (q - rows) \in Nat
    BY <1>1, <1>2, <2>1, MultNat
  <2>3. Cols * (q - rows) = Cols * q - rows * Cols
    BY <1>1, <1>2
  <2>4. rows * Cols \in Nat /\ Cols * q \in Nat
    BY <1>1, <1>2, MultNat
  <2>5. n - 1 < rows * Cols
    BY <2>4
  <2> QED BY <1>1, <1>2, <2>2, <2>3, <2>4, <2>5
<1> QED BY <1>1, <1>2, <1>3, <1>4 DEF Match, Col

LEMMA PlaceOrder ==
    ASSUME NEW query, NEW n \in Nat \ {0}, NEW m \in Nat \ {0}, m < n
    PROVE  Precedes(Place(m, query), Place(n, query))
<1>1. Cols \in Nat \ {0} /\ n - 1 \in Nat /\ m - 1 \in Nat /\ m - 1 < n - 1
  BY TextAssumption
<1> DEFINE q(i) == (i - 1) \div Cols
           r(i) == (i - 1) % Cols
<1>2. q(m) < q(n) \/ (q(m) = q(n) /\ r(m) < r(n))
  BY <1>1, QuotientOrder
<1>3. \A i \in {m, n} : q(i) \in Nat /\ r(i) \in Nat
  BY <1>1, Remainder
<1>4. \A i : Place(i, query) = [row |-> q(i) + 1, col |-> r(i) + 1, len |-> Len(query)]
  BY DEF Place
<1> HIDE DEF q, r
<1>5. /\ Place(m, query).row = q(m) + 1 /\ Place(n, query).row = q(n) + 1
      /\ Place(m, query).col = r(m) + 1 /\ Place(n, query).col = r(n) + 1
  BY <1>4
<1> QED BY <1>2, <1>3, <1>5 DEF Precedes

(* Every place is one of them.                                             *)
LEMMA PlaceOf ==
    ASSUME NEW query, NEW rows \in Nat, NEW row \in 1..rows, NEW c \in Col
    PROVE  \E n \in 1..(rows * Cols) :
              Place(n, query) = [row |-> row, col |-> c, len |-> Len(query)]
<1> DEFINE a == Cols * (row - 1) + (c - 1)
<1>1. Cols \in Nat \ {0} /\ row - 1 \in Nat /\ c - 1 \in 0..(Cols - 1)
  BY TextAssumption DEF Col
<1>2. Cols * (row - 1) \in Nat
  BY <1>1, MultNat
<1>3. a \div Cols = row - 1 /\ a % Cols = c - 1
  BY <1>1, Quotient
<1>4. a + 1 \in 1..(rows * Cols)
  <2>1. Cols * (rows - row) \in Nat
    BY <1>1, MultNat
  <2>2. Cols * (rows - row) = rows * Cols - Cols * (row - 1) - Cols
    BY <1>1
  <2>3. rows * Cols \in Nat
    BY <1>1, MultNat
  <2> QED BY <1>1, <1>2, <2>1, <2>2, <2>3
<1> HIDE DEF a
<1>5. a \in Int /\ (a + 1) - 1 = a
  BY <1>1, <1>2 DEF a
<1>6. row = (row - 1) + 1 /\ c = (c - 1) + 1
  BY <1>1 DEF Col
<1>7. Place(a + 1, query) = [row |-> row, col |-> c, len |-> Len(query)]
  BY <1>3, <1>5, <1>6 DEF Place
<1> QED BY <1>4, <1>7

(* f is the search, as a function of how many places it has looked at.     *)
Finds(f, N, query) ==
    /\ f \in [0..N -> Seq(Match)]
    /\ f[0] = <<>>
    /\ \A n \in 1..N :
          f[n] = IF query = <<>> THEN <<>>
                 ELSE IF IsMatch(Place(n, query), query)
                 THEN Append(f[n - 1], Place(n, query)) ELSE f[n - 1]
    /\ Occurrences(query) = f[N]

LEMMA OccurrencesFunction ==
    ASSUME BufferInv, NEW T, NEW query \in Seq(T)
    PROVE  \E f : Finds(f, Len(buffer) * Cols, query)
<1> DEFINE N == Len(buffer) * Cols
           X == Seq(Match)
           next(n, k) == IF query = <<>> THEN <<>>
                         ELSE IF IsMatch(Place(n, query), query)
                         THEN Append(k, Place(n, query)) ELSE k
           step == [n \in 1..N |-> [k \in X |-> next(n, k)]]
           Unfold(g) == [n \in 0..N |->
                           IF n = 0 \/ query = <<>> THEN <<>>
                           ELSE IF IsMatch(Place(n, query), query)
                           THEN Append(g[n - 1], Place(n, query)) ELSE g[n - 1]]
           f == CHOOSE g : g = Unfold(g)
<1>1. N \in Nat /\ <<>> \in X
  BY TextAssumption, MultNat DEF BufferInv
<1>2. \A n \in 1..N, k \in X : next(n, k) \in X
  <2>1. ASSUME NEW n \in 1..N, query # <<>> PROVE Place(n, query) \in Match
    <3>1. Len(query) \in Nat \ {0} /\ Len(buffer) \in Nat
      BY <2>1 DEF BufferInv
    <3> QED BY <3>1, PlaceFacts
  <2> QED BY <2>1
<1>3. step \in [1..N -> [X -> X]]
  <2> HIDE DEF next, N, X
  <2> QED BY <1>2
<1>4. PICK g : Solves(g, N, X, <<>>, step)
  <2> HIDE DEF N, step, X
  <2> QED BY <1>1, <1>3, Recursion
<1>5. ASSUME NEW n \in 1..N PROVE g[n] = next(n, g[n - 1])
  <2>1. g[n] = step[n][g[n - 1]] /\ g[n - 1] \in X
    <3>1. n - 1 \in 0..N
      BY <1>1
    <3> HIDE DEF step, N, X
    <3> QED BY <1>4, <3>1 DEF Solves
  <2> HIDE DEF next, X
  <2> QED BY <2>1
<1> DEFINE value(n, h) == IF n = 0 THEN <<>> ELSE next(n, h[n - 1])
<1>6. \A h : Unfold(h) = [n \in 0..N |-> value(n, h)]
  OBVIOUS
<1> HIDE DEF Unfold, X
<1>7. g = Unfold(g)
  <2>1. \A n \in 0..N : g[n] = value(n, g)
    <3> HIDE DEF next, N
    <3> QED BY <1>1, <1>4, <1>5 DEF Solves
  <2> HIDE DEF next, value, N
  <2> QED BY <1>4, <1>6, <2>1 DEF Solves
<1>8. f = Unfold(f)
  BY <1>7
<1>9. Occurrences(query) = f[N]
  BY DEF Occurrences, Unfold
<1> HIDE DEF f
<1>10. f = [n \in 0..N |-> value(n, f)]
  BY <1>6, <1>8
<1>11. f[0] = <<>> /\ \A n \in 1..N : f[n] = next(n, f[n - 1])
  <2>1. \A n \in 0..N : f[n] = value(n, f)
    <3> HIDE DEF value, N
    <3> QED BY <1>10
  <2> HIDE DEF next, N
  <2> QED BY <1>1, <2>1
<1>12. \A n \in 0..N : f[n] \in X
  <2>1. \A n \in 1..N : f[n - 1] \in X => f[n] \in X
    <3> HIDE DEF next, N
    <3> QED BY <1>2, <1>11
  <2> HIDE DEF N, next, value
  <2> QED BY <1>1, <1>11, <2>1, Values
<1>13. f \in [0..N -> X]
  <2> HIDE DEF value, N
  <2> QED BY <1>10, <1>12
<1> QED BY <1>9, <1>11, <1>13 DEF Finds, X

(* What a search finds: matches in the order of the scrollback, and every  *)
(* one that is there.                                                      *)
LEMMA OccurrencesFacts ==
    ASSUME BufferInv, NEW T, NEW query \in Seq(T)
    PROVE  /\ Occurrences(query) \in Seq(Match)
           /\ InOrder(Occurrences(query), Len(buffer))
           /\ query # <<>> =>
                \A row \in 1..Len(buffer), c \in Col :
                   IsMatch([row |-> row, col |-> c, len |-> Len(query)], query) =>
                     Contains(Occurrences(query),
                              [row |-> row, col |-> c, len |-> Len(query)])
<1> DEFINE N == Len(buffer) * Cols
           found == Occurrences(query)
           at(n) == Place(n, query)
<1>1. N \in Nat /\ Len(buffer) \in Nat
  BY TextAssumption, MultNat DEF BufferInv
<1>2. PICK f : Finds(f, N, query)
  BY OccurrencesFunction
<1>3. /\ f \in [0..N -> Seq(Match)]
      /\ f[0] = <<>>
      /\ found = f[N]
  BY <1>2 DEF Finds
<1>4. CASE query = <<>>
  <2>1. found = <<>>
    <3>1. N = 0 \/ N \in 1..N
      BY <1>1
    <3> HIDE DEF N
    <3> QED BY <1>2, <1>3, <1>4, <3>1 DEF Finds
  <2>2. <<>> \in Seq(Match) /\ Len(<<>>) = 0
    OBVIOUS
  <2>3. InOrder(<<>>, Len(buffer))
    BY <2>2 DEF InOrder
  <2> QED BY <1>4, <2>1, <2>2, <2>3
<1>5. CASE query # <<>>
  <2> DEFINE FromPlaces(n) == \A i \in 1..Len(f[n]) :
                                \E k \in 1..n : f[n][i] = at(k) /\ IsMatch(at(k), query)
             Sorted(n) == \A i, j \in 1..Len(f[n]) : i < j => Precedes(f[n][i], f[n][j])
             Whole(n) == \A k \in 1..n : IsMatch(at(k), query) =>
                           \E i \in 1..Len(f[n]) : f[n][i] = at(k)
             G == {n \in 0..N : FromPlaces(n) /\ Sorted(n) /\ Whole(n)}
  <2>0. \A n \in 1..N : f[n] = IF IsMatch(at(n), query) THEN Append(f[n - 1], at(n)) ELSE f[n - 1]
    BY <1>2, <1>5 DEF Finds
  <2>1. \A n \in 1..N : at(n) \in Match /\ at(n).row \in 1..Len(buffer) /\ at(n).len = Len(query)
    <3>1. Len(query) \in Nat \ {0}
      BY <1>5
    <3> QED BY <1>1, <3>1, PlaceFacts
  <2>2. 0 \in G
    <3>1. Len(f[0]) = 0 /\ 0 \in 0..N
      BY <1>1, <1>3
    <3> QED BY <3>1
  <2>3. ASSUME NEW n \in 1..N, n - 1 \in G PROVE n \in G
    <3> DEFINE g == f[n - 1]
    <3>0. n - 1 \in 0..N /\ n \in 0..N /\ n \in Nat
      BY <1>1
    <3>1. g \in Seq(Match) /\ Len(g) \in Nat
      BY <1>3, <3>0
    <3>2. FromPlaces(n - 1) /\ Sorted(n - 1) /\ Whole(n - 1)
      BY <2>3
    <3>3. CASE IsMatch(at(n), query)
      <4>1. f[n] = Append(g, at(n))
        BY <2>0, <3>3
      <4>2. /\ Len(f[n]) = Len(g) + 1
            /\ \A i \in 1..Len(g) : f[n][i] = g[i]
            /\ f[n][Len(g) + 1] = at(n)
        <5>1. at(n) \in Match
          BY <2>1
        <5> HIDE DEF g, at
        <5> QED BY <3>1, <4>1, <5>1
      <4>3. \A i \in 1..Len(g) : \E k \in 1..(n - 1) : g[i] = at(k) /\ IsMatch(at(k), query)
        BY <3>2
      <4>4. FromPlaces(n)
        <5>1. TAKE i \in 1..Len(f[n])
        <5>2. CASE i \in 1..Len(g)
          <6>1. PICK k \in 1..(n - 1) : g[i] = at(k) /\ IsMatch(at(k), query)
            BY <4>3, <5>2
          <6>2. k \in 1..n
            BY <3>0
          <6> QED BY <4>2, <5>2, <6>1, <6>2
        <5>3. CASE i = Len(g) + 1
          <6>1. n \in 1..n
            BY <3>0
          <6> QED BY <3>3, <4>2, <5>3, <6>1
        <5> QED BY <3>1, <4>2, <5>2, <5>3
      <4>5. Sorted(n)
        <5>1. TAKE i, j \in 1..Len(f[n])
        <5>2. SUFFICES ASSUME i < j PROVE Precedes(f[n][i], f[n][j])
          OBVIOUS
        <5>3. i \in 1..Len(g) /\ f[n][i] = g[i]
          BY <3>1, <4>2, <5>2
        <5>4. CASE j \in 1..Len(g)
          BY <3>2, <4>2, <5>2, <5>3, <5>4
        <5>5. CASE j = Len(g) + 1
          <6>1. PICK k \in 1..(n - 1) : g[i] = at(k)
            BY <4>3, <5>3
          <6>2. n \in Nat \ {0} /\ k \in Nat \ {0} /\ k < n
            BY <3>0
          <6>3. Precedes(at(k), at(n))
            BY <6>2, PlaceOrder
          <6> HIDE DEF at, g
          <6> QED BY <4>2, <5>3, <5>5, <6>1, <6>3
        <5> QED BY <3>1, <4>2, <5>4, <5>5
      <4>6. Whole(n)
        <5>1. TAKE k \in 1..n
        <5>2. CASE k = n
          <6>1. Len(g) + 1 \in 1..Len(f[n])
            BY <3>1, <4>2
          <6> QED BY <4>2, <5>2, <6>1
        <5>3. CASE k \in 1..(n - 1) /\ IsMatch(at(k), query)
          <6>1. PICK i \in 1..Len(g) : g[i] = at(k)
            BY <3>2, <5>3
          <6>2. i \in 1..Len(f[n]) /\ f[n][i] = at(k)
            BY <3>1, <4>2, <6>1
          <6> HIDE DEF at, g
          <6> QED BY <6>2
        <5> QED BY <3>0, <5>2, <5>3
      <4> HIDE DEF FromPlaces, Sorted, Whole
      <4> QED BY <3>0, <4>4, <4>5, <4>6
    <3>4. CASE ~IsMatch(at(n), query)
      <4>1. f[n] = g
        BY <2>0, <3>4
      <4>2. FromPlaces(n)
        <5>1. TAKE i \in 1..Len(f[n])
        <5>2. PICK k \in 1..(n - 1) : g[i] = at(k) /\ IsMatch(at(k), query)
          BY <3>2, <4>1
        <5>3. k \in 1..n
          BY <3>0
        <5> QED BY <4>1, <5>2, <5>3
      <4>3. Sorted(n)
        BY <3>2, <4>1
      <4>4. Whole(n)
        <5>1. TAKE k \in 1..n
        <5>2. CASE k = n
          BY <3>4, <5>2
        <5>3. CASE k \in 1..(n - 1)
          BY <3>2, <4>1, <5>3
        <5> QED BY <3>0, <5>2, <5>3
      <4> HIDE DEF FromPlaces, Sorted, Whole
      <4> QED BY <3>0, <4>2, <4>3, <4>4
    <3> QED BY <3>3, <3>4
  <2>4. N \in G
    <3>1. N \in 0..N
      BY <1>1
    <3> HIDE DEF G, N
    <3> QED BY <1>1, <2>2, <2>3, <3>1, UpTo
  <2>5. found \in Seq(Match)
    <3>1. N \in 0..N
      BY <1>1
    <3> HIDE DEF N, found
    <3> QED BY <1>3, <3>1
  <2>6. FromPlaces(N) /\ Sorted(N) /\ Whole(N)
    BY <2>4
  <2>7. /\ \A i \in 1..Len(found) :
             \E k \in 1..N : found[i] = at(k) /\ IsMatch(at(k), query)
        /\ \A i, j \in 1..Len(found) : i < j => Precedes(found[i], found[j])
        /\ \A k \in 1..N : IsMatch(at(k), query) => \E i \in 1..Len(found) : found[i] = at(k)
    <3> HIDE DEF found, N, at
    <3> QED BY <1>3, <2>6
  <2> HIDE DEF found, G
  <2>8. ASSUME NEW i \in 1..Len(found)
        PROVE  /\ found[i].row <= Len(buffer) /\ found[i].col + found[i].len - 1 <= Cols
               /\ found[i].len = Len(query)
    <3>1. PICK k \in 1..N : found[i] = at(k) /\ IsMatch(at(k), query)
      BY <2>7
    <3>2. at(k).row \in 1..Len(buffer) /\ at(k).len = Len(query)
      BY <2>1
    <3>3. at(k).col + at(k).len - 1 <= Cols
      BY <3>1 DEF IsMatch
    <3> HIDE DEF at
    <3> QED BY <1>1, <3>1, <3>2, <3>3
  <2>9. InOrder(found, Len(buffer))
    <3> HIDE DEF at, N
    <3> QED BY <2>7, <2>8 DEF InOrder
  <2>10. ASSUME NEW row \in 1..Len(buffer), NEW c \in Col,
                IsMatch([row |-> row, col |-> c, len |-> Len(query)], query)
         PROVE  Contains(found, [row |-> row, col |-> c, len |-> Len(query)])
    <3>1. PICK n \in 1..N : at(n) = [row |-> row, col |-> c, len |-> Len(query)]
      BY <1>1, PlaceOf
    <3> HIDE DEF at, N
    <3> QED BY <2>7, <2>10, <3>1 DEF Contains
  <2>11. /\ found \in Seq(Match) /\ InOrder(found, Len(buffer))
         /\ \A row \in 1..Len(buffer), c \in Col :
               IsMatch([row |-> row, col |-> c, len |-> Len(query)], query) =>
                 Contains(found, [row |-> row, col |-> c, len |-> Len(query)])
    BY <2>5, <2>9, <2>10
  <2> QED BY <2>11 DEF found
<1> QED BY <1>4, <1>5

-----------------------------------------------------------------------------
(* Texts. *)

(* The greatest and the least of some columns or rows.                     *)
LEMMA MaxFacts ==
    ASSUME NEW N \in Nat, NEW S \in SUBSET (0..N), S # {}
    PROVE  Max(S) \in S /\ \A x \in S : x <= Max(S)
<1> DEFINE T == {N - x : x \in S}
<1>1. PICK m \in T : \A n \in T : m <= n
  <2>1. T \in SUBSET Nat
    <3>1. \A x \in S : N - x \in Nat
      <4>1. \A x \in 0..N : N - x \in Nat
        OBVIOUS
      <4> QED BY <4>1
    <3> QED BY <3>1
  <2>2. T # {}
    OBVIOUS
  <2> HIDE DEF T
  <2> QED BY <2>1, <2>2, Least
<1>2. PICK x \in S : m = N - x
  BY <1>1
<1>3. \A y \in S : y <= x
  <2>1. TAKE y \in S
  <2>2. N - x <= N - y /\ x \in 0..N /\ y \in 0..N
    BY <1>1, <1>2
  <2> QED BY <2>2
<1> QED BY <1>3 DEF Max

LEMMA MinFacts ==
    ASSUME NEW S \in SUBSET Nat, S # {}
    PROVE  Min(S) \in S /\ \A x \in S : Min(S) <= x
  BY Least DEF Min

(* A row of the screen.                                                    *)
LEMMA LineTypes ==
    ASSUME NEW line \in Written
    PROVE  /\ line \in [Col -> Chars] /\ line \in Seq(Chars) /\ Len(line) = Cols
           /\ \A c \in Col : line[c] = "wide" => c < Cols /\ c + 1 \in Col /\ line[c + 1] = "tail"
<1>1. Cols \in Nat \ {0} /\ Col = 1..Cols
  BY TextAssumption DEF Col
<1>2. line \in [Col -> Chars]
  <2>1. CASE line \in Lines
    BY <1>1, <2>1, TextAssumption
  <2>2. CASE line = BlankLine
    <3>1. "blank" \in Chars
      BY TextAssumption
    <3> QED BY <2>2, <3>1 DEF BlankLine
  <2> QED BY <2>1, <2>2 DEF Written
<1>3. line \in Seq(Chars) /\ Len(line) = Cols
  BY <1>1, <1>2
<1>4. \A c \in Col : line[c] = "wide" => c < Cols /\ line[c + 1] = "tail"
  <2>1. CASE line \in Lines
    BY <1>1, <2>1, TextAssumption
  <2>2. CASE line = BlankLine
    BY <2>2 DEF BlankLine
  <2> QED BY <2>1, <2>2 DEF Written
<1> QED BY <1>1, <1>2, <1>3, <1>4

LEMMA ContentFacts ==
    ASSUME NEW line \in Written
    PROVE  /\ LastContent(line) \in 0..Cols
           /\ \A c \in Col : IsCellContent(line[c]) => c <= LastContent(line)
           /\ LastContent(line) > 0 => IsCellContent(line[LastContent(line)])
<1> DEFINE S == {c \in 1..Len(line) : IsCellContent(line[c])}
<1>1. Cols \in Nat \ {0} /\ Col = 1..Cols /\ Len(line) = Cols
  BY LineTypes, TextAssumption DEF Col
<1>2. LastContent(line) = IF S # {} THEN Max(S) ELSE 0
  BY DEF LastContent, SelectLastInSeq
<1>3. S # {} => Max(S) \in S /\ \A c \in S : c <= Max(S)
  <2>1. S \in SUBSET (0..Cols)
    BY <1>1
  <2> HIDE DEF S
  <2> QED BY <1>1, <2>1, MaxFacts
<1> QED BY <1>1, <1>2, <1>3

LEMMA ViewportTypes ==
    ASSUME BufferInv, NEW row \in Row
    PROVE  Viewport(row) \in Written /\ offset + row \in 1..Len(buffer)
<1>1. /\ Rows \in Nat \ {0} /\ buffer \in Seq(Written) /\ Len(buffer) \in Nat
      /\ offset \in Nat /\ offset <= Len(buffer) - Rows /\ row \in 1..Rows
  BY TextAssumption DEF BufferInv, MaxOffset, Row
<1>2. offset + row \in 1..Len(buffer)
  BY <1>1
<1> QED BY <1>1, <1>2 DEF Viewport

(* f gives the characters of the first n cells.                            *)
Shows(f, T, cells) ==
    /\ f \in [0..Len(cells) -> Seq(T)]
    /\ f[0] = <<>>
    /\ \A n \in 1..Len(cells) :
          f[n] = IF IsSpacer(cells[n]) THEN f[n - 1] ELSE Append(f[n - 1], Shown(cells[n]))
    /\ Glyphs(cells) = f[Len(cells)]

LEMMA GlyphsFunction ==
    ASSUME NEW cells \in Seq(Chars)
    PROVE  \E f : Shows(f, Chars, cells)
<1> DEFINE N == Len(cells)
           X == Seq(Chars)
           next(n, k) == IF IsSpacer(cells[n]) THEN k ELSE Append(k, Shown(cells[n]))
           step == [n \in 1..N |-> [k \in X |-> next(n, k)]]
           Unfold(g) == [n \in 0..N |->
                           IF n = 0 THEN <<>>
                           ELSE IF IsSpacer(cells[n]) THEN g[n - 1]
                           ELSE Append(g[n - 1], Shown(cells[n]))]
           f == CHOOSE g : g = Unfold(g)
<1>1. N \in Nat /\ <<>> \in X
  OBVIOUS
<1>2. \A n \in 1..N, k \in X : next(n, k) \in X
  <2>1. TAKE n \in 1..N, k \in X
  <2>2. cells[n] \in Chars /\ "space" \in Chars
    BY TextAssumption
  <2>3. Shown(cells[n]) \in Chars
    BY <2>2 DEF Shown
  <2>4. k \in Seq(Chars) /\ Append(k, Shown(cells[n])) \in Seq(Chars)
    BY <2>3
  <2> QED BY <2>4
<1>3. step \in [1..N -> [X -> X]]
  <2> HIDE DEF next, N, X
  <2> QED BY <1>2
<1>4. PICK g : Solves(g, N, X, <<>>, step)
  <2> HIDE DEF N, step, X
  <2> QED BY <1>1, <1>3, Recursion
<1>5. ASSUME NEW n \in 1..N PROVE g[n] = next(n, g[n - 1])
  <2>1. g[n] = step[n][g[n - 1]] /\ g[n - 1] \in X
    <3>1. n - 1 \in 0..N
      BY <1>1
    <3> HIDE DEF step, N, X
    <3> QED BY <1>4, <3>1 DEF Solves
  <2> HIDE DEF next, X
  <2> QED BY <2>1
<1> DEFINE value(n, h) == IF n = 0 THEN <<>> ELSE next(n, h[n - 1])
<1>6. \A h : Unfold(h) = [n \in 0..N |-> value(n, h)]
  OBVIOUS
<1> HIDE DEF Unfold, X
<1>7. g = Unfold(g)
  <2>1. \A n \in 0..N : g[n] = value(n, g)
    <3> HIDE DEF next, N
    <3> QED BY <1>1, <1>4, <1>5 DEF Solves
  <2> HIDE DEF next, value, N
  <2> QED BY <1>4, <1>6, <2>1 DEF Solves
<1>8. f = Unfold(f)
  BY <1>7
<1>9. Glyphs(cells) = f[N]
  BY DEF Glyphs, Unfold
<1> HIDE DEF f
<1>10. f = [n \in 0..N |-> value(n, f)]
  BY <1>6, <1>8
<1>11. f[0] = <<>> /\ \A n \in 1..N : f[n] = next(n, f[n - 1])
  <2>1. \A n \in 0..N : f[n] = value(n, f)
    <3> HIDE DEF value, N
    <3> QED BY <1>10
  <2>2. ASSUME NEW n \in 1..N PROVE f[n] = next(n, f[n - 1])
    <3>1. n \in 0..N /\ n # 0
      BY <1>1
    <3> HIDE DEF next, N
    <3> QED BY <2>1, <3>1
  <2>3. f[0] = <<>>
    <3>1. 0 \in 0..N
      BY <1>1
    <3> HIDE DEF next, N
    <3> QED BY <2>1, <3>1
  <2> HIDE DEF next, N
  <2> QED BY <2>2, <2>3
<1>12. \A n \in 0..N : f[n] \in X
  <2>1. \A n \in 1..N : f[n - 1] \in X => f[n] \in X
    <3> HIDE DEF next, N
    <3> QED BY <1>2, <1>11
  <2> HIDE DEF N, next, value
  <2> QED BY <1>1, <1>11, <2>1, Values
<1>13. f \in [0..N -> X]
  <2> HIDE DEF value, N
  <2> QED BY <1>10, <1>12
<1> QED BY <1>9, <1>11, <1>13 DEF Shows, X

(* f joins the first n pieces.                                             *)
Joins(f, T, pieces) ==
    /\ f \in [0..Len(pieces) -> Seq(T)]
    /\ f[0] = <<>>
    /\ \A n \in 1..Len(pieces) : f[n] = f[n - 1] \o pieces[n]
    /\ FlattenSeq(pieces) = f[Len(pieces)]

LEMMA FlattenFunction ==
    ASSUME NEW T, NEW pieces \in Seq(Seq(T))
    PROVE  \E f : Joins(f, T, pieces)
<1> DEFINE N == Len(pieces)
           X == Seq(T)
           step == [n \in 1..N |-> [k \in X |-> k \o pieces[n]]]
           Unfold(g) == [n \in 1..N |-> IF n = 1 THEN pieces[n] ELSE g[n - 1] \o pieces[n]]
           f == CHOOSE g : g = Unfold(g)
<1>1. N \in Nat /\ <<>> \in X /\ \A n \in 1..N : pieces[n] \in X
  OBVIOUS
<1>2. \A n \in 1..N, k \in X : k \o pieces[n] \in X
  BY <1>1
<1>3. step \in [1..N -> [X -> X]]
  <2> HIDE DEF N, X
  <2> QED BY <1>2
<1>4. PICK g : Solves(g, N, X, <<>>, step)
  <2> HIDE DEF N, step, X
  <2> QED BY <1>1, <1>3, Recursion
<1>5. g \in [0..N -> X] /\ g[0] = <<>>
  BY <1>4 DEF Solves
<1>6. ASSUME NEW n \in 1..N PROVE g[n] = g[n - 1] \o pieces[n]
  <2>1. g[n] = step[n][g[n - 1]] /\ g[n - 1] \in X
    <3>1. n - 1 \in 0..N
      BY <1>1
    <3> HIDE DEF step, N, X
    <3> QED BY <1>4, <1>5, <3>1 DEF Solves
  <2> HIDE DEF X
  <2> QED BY <2>1
<1>7. CASE N = 0
  <2>1. pieces = <<>> /\ FlattenSeq(pieces) = pieces
    BY <1>7 DEF FlattenSeq
  <2> HIDE DEF X
  <2> QED BY <1>5, <1>6, <1>7, <2>1 DEF Joins, X
<1>8. CASE N # 0
  <2> DEFINE h == [n \in 1..N |-> g[n]]
             value(n, k) == IF n = 1 THEN pieces[n] ELSE k[n - 1] \o pieces[n]
  <2>1. \A k : Unfold(k) = [n \in 1..N |-> value(n, k)]
    OBVIOUS
  <2>2. \A n \in 1..N : h[n] = value(n, h)
    <3>1. TAKE n \in 1..N
    <3>2. CASE n = 1
      <4>1. g[1] = <<>> \o pieces[1]
        <5>1. 1 \in 1..N /\ 1 - 1 = 0
          BY <1>1, <1>8
        <5>2. g[1] = g[1 - 1] \o pieces[1]
          BY <1>6, <5>1
        <5> QED BY <1>5, <5>1, <5>2
      <4>2. pieces[1] \in X
        BY <1>1, <3>2
      <4> QED BY <3>2, <4>1, <4>2
    <3>3. CASE n # 1
      <4>1. n - 1 \in 1..N
        BY <1>1, <3>3
      <4> QED BY <1>6, <3>3, <4>1
    <3> QED BY <3>2, <3>3
  <2> HIDE DEF Unfold
  <2>3. h = Unfold(h)
    <3> HIDE DEF value, N
    <3> QED BY <2>1, <2>2
  <2>4. f = Unfold(f)
    BY <2>3
  <2>5. FlattenSeq(pieces) = f[N]
    BY <1>8 DEF FlattenSeq, Unfold
  <2> HIDE DEF f, h
  <2>6. \A n \in 1..N : f[n] = value(n, f)
    <3> HIDE DEF value
    <3> QED BY <2>1, <2>4
  <2>7. \A n \in 0..N : n = 0 \/ f[n] = g[n]
    <3> DEFINE G == {n \in 0..N : n = 0 \/ f[n] = g[n]}
    <3>1. 0 \in G
      BY <1>1
    <3>2. \A n \in 1..N : n - 1 \in G => n \in G
      <4>1. TAKE n \in 1..N
      <4>2. HAVE n - 1 \in G
      <4>3. CASE n = 1
        <5>1. f[n] = value(n, f) /\ h[n] = value(n, h) /\ h[n] = g[n]
          <6> HIDE DEF value
          <6> QED BY <2>2, <2>6 DEF h
        <5> QED BY <1>1, <4>3, <5>1
      <4>4. CASE n # 1
        <5>1. f[n] = f[n - 1] \o pieces[n] /\ g[n] = g[n - 1] \o pieces[n]
          BY <1>6, <2>6, <4>4
        <5>2. n - 1 # 0 /\ n \in 0..N
          BY <1>1, <4>4
        <5>3. f[n - 1] = g[n - 1]
          BY <4>2, <5>2
        <5> HIDE DEF N
        <5> QED BY <5>1, <5>2, <5>3
      <4> QED BY <4>3, <4>4
    <3>3. 0..N \subseteq G
      <4> HIDE DEF G, N
      <4> QED BY <1>1, <3>1, <3>2, UpTo
    <3> QED BY <3>3
  <2>8. f[N] = g[N]
    BY <1>1, <1>8, <2>7
  <2> HIDE DEF X
  <2> QED BY <1>5, <1>6, <2>5, <2>8 DEF Joins, X
<1> QED BY <1>7, <1>8

(* The characters of some cells are those of the first of them, and more.  *)
LEMMA ShowsGrows ==
    ASSUME NEW cells \in Seq(Chars), NEW f, Shows(f, Chars, cells), NEW m \in 0..Len(cells)
    PROVE  \A n \in m..Len(cells) :
              /\ f[m] \in Seq(Chars) /\ f[n] \in Seq(Chars)
              /\ Len(f[m]) <= Len(f[n])
              /\ \A i \in 1..Len(f[m]) : f[n][i] = f[m][i]
<1> DEFINE N == Len(cells)
           Good(n) == Len(f[m]) <= Len(f[n]) /\ \A i \in 1..Len(f[m]) : f[n][i] = f[m][i]
           G == {n \in 0..N : n < m \/ Good(n)}
<1>1. N \in Nat /\ m \in 0..N /\ f \in [0..N -> Seq(Chars)]
  BY DEF Shows
<1>2. \A n \in 0..N : f[n] \in Seq(Chars) /\ Len(f[n]) \in Nat
  <2> HIDE DEF N
  <2> QED BY <1>1
<1>3. ASSUME NEW n \in 0..N, n = m PROVE n \in G
  <2>1. Good(n)
    BY <1>2, <1>3
  <2> QED BY <2>1
<1>4. 0 \in G
  <2>1. 0 \in 0..N
    BY <1>1
  <2>2. CASE m = 0
    <3> HIDE DEF G, N
    <3> QED BY <1>3, <2>1, <2>2
  <2>3. CASE m # 0
    <3>1. 0 < m
      BY <1>1, <2>3
    <3> HIDE DEF Good
    <3> QED BY <2>1, <3>1
  <2> QED BY <2>2, <2>3
<1>5. ASSUME NEW n \in 1..N, n - 1 \in G PROVE n \in G
  <2>0. n \in 0..N /\ n - 1 \in 0..N /\ n \in Nat
    BY <1>1
  <2>1. CASE n < m
    <3> HIDE DEF Good
    <3> QED BY <2>0, <2>1
  <2>2. CASE n = m
    <3> HIDE DEF G, N
    <3> QED BY <1>3, <2>0, <2>2
  <2>3. CASE n > m
    <3>1. Good(n - 1)
      <4>1. ~(n - 1 < m)
        BY <1>1, <2>0, <2>3
      <4> HIDE DEF Good
      <4> QED BY <1>5, <4>1
    <3>2. f[n] = IF IsSpacer(cells[n]) THEN f[n - 1] ELSE Append(f[n - 1], Shown(cells[n]))
      BY DEF Shows
    <3>3. CASE IsSpacer(cells[n])
      BY <2>0, <3>1, <3>2, <3>3
    <3>4. CASE ~IsSpacer(cells[n])
      <4> DEFINE g == f[n - 1]
                 x == Shown(cells[n])
      <4>1. g \in Seq(Chars) /\ Len(g) \in Nat /\ Len(f[m]) \in Nat
        BY <1>1, <1>2, <2>0
      <4>2. f[n] = Append(g, x)
        BY <3>2, <3>4
      <4>3. Len(f[n]) = Len(g) + 1 /\ \A i \in 1..Len(g) : f[n][i] = g[i]
        <5>1. x \in Chars
          BY TextAssumption DEF Shown
        <5> HIDE DEF g, x
        <5> QED BY <4>1, <4>2, <5>1
      <4>4. Good(n)
        BY <3>1, <4>1, <4>3
      <4> HIDE DEF Good
      <4> QED BY <2>0, <4>4
    <3> QED BY <3>3, <3>4
  <2> QED BY <1>1, <2>0, <2>1, <2>2, <2>3
<1>6. 0..N \subseteq G
  <2> HIDE DEF G, N
  <2> QED BY <1>1, <1>4, <1>5, UpTo
<1>7. \A n \in m..N : n \in 0..N /\ ~(n < m)
  BY <1>1
<1> QED BY <1>1, <1>2, <1>6, <1>7

LEMMA GlyphsOfFirst ==
    ASSUME NEW cells \in Seq(Chars), NEW f, Shows(f, Chars, cells), NEW m \in 0..Len(cells)
    PROVE  Glyphs(SubSeq(cells, 1, m)) = f[m]
<1> DEFINE first == SubSeq(cells, 1, m)
<1>1. /\ m \in Nat /\ Len(cells) \in Nat /\ m <= Len(cells)
      /\ first \in Seq(Chars) /\ Len(first) = m /\ \A i \in 1..m : first[i] = cells[i]
  OBVIOUS
<1>2. PICK g : Shows(g, Chars, first)
  <2> HIDE DEF first
  <2> QED BY <1>1, GlyphsFunction
<1>3. f[0] = g[0] /\ Glyphs(first) = g[m]
  <2> HIDE DEF first
  <2> QED BY <1>1, <1>2 DEF Shows
<1>4. ASSUME NEW n \in 1..m, f[n - 1] = g[n - 1] PROVE f[n] = g[n]
  <2>1. n \in 1..Len(first) /\ n \in 1..Len(cells) /\ first[n] = cells[n]
    <3> HIDE DEF first
    <3> QED BY <1>1
  <2> HIDE DEF first
  <2> QED BY <1>2, <1>4, <2>1 DEF Shows
<1> HIDE DEF first
<1>5. \A n \in 0..m : f[n] = g[n]
  <2> DEFINE H == {n \in 0..m : f[n] = g[n]}
  <2>1. 0 \in H
    BY <1>1, <1>3
  <2>2. \A n \in 1..m : n - 1 \in H => n \in H
    BY <1>4
  <2>3. 0..m \subseteq H
    <3> HIDE DEF H
    <3> QED BY <1>1, <2>1, <2>2, UpTo
  <2> QED BY <2>3
<1>6. m \in 0..m
  BY <1>1
<1>7. f[m] = g[m]
  BY <1>5, <1>6
<1> QED BY <1>3, <1>7 DEF first

(* The characters of cells without spacers, one by one.                    *)
LEMMA GlyphsPlain ==
    ASSUME NEW cells \in Seq(Chars), \A i \in 1..Len(cells) : ~IsSpacer(cells[i])
    PROVE  /\ Len(Glyphs(cells)) = Len(cells)
           /\ \A i \in 1..Len(cells) : Glyphs(cells)[i] = Shown(cells[i])
<1> DEFINE N == Len(cells)
<1>1. PICK f : Shows(f, Chars, cells)
  BY GlyphsFunction
<1> DEFINE Good(n) == Len(f[n]) = n /\ \A i \in 1..n : f[n][i] = Shown(cells[i])
           G == {n \in 0..N : Good(n)}
<1>2. N \in Nat /\ f \in [0..N -> Seq(Chars)] /\ f[0] = <<>> /\ Glyphs(cells) = f[N]
  BY <1>1 DEF Shows
<1>3. 0 \in G
  BY <1>2
<1>4. ASSUME NEW n \in 1..N, n - 1 \in G PROVE n \in G
  <2> DEFINE g == f[n - 1]
             x == Shown(cells[n])
  <2>1. n \in Nat /\ n - 1 \in 0..N /\ n \in 0..N
    BY <1>2
  <2>2. g \in Seq(Chars) /\ x \in Chars
    BY <1>2, <2>1, TextAssumption DEF Shown
  <2>3. f[n] = Append(g, x)
    BY <1>1 DEF Shows
  <2>4. Len(g) = n - 1 /\ \A i \in 1..(n - 1) : g[i] = Shown(cells[i])
    BY <1>4
  <2>5. Len(f[n]) = n /\ (\A i \in 1..(n - 1) : f[n][i] = g[i]) /\ f[n][n] = x
    <3> HIDE DEF g, x
    <3> QED BY <2>1, <2>2, <2>3, <2>4
  <2>6. Good(n)
    <3>1. \A i \in 1..n : i = n \/ i \in 1..(n - 1)
      BY <2>1
    <3> QED BY <2>4, <2>5, <3>1
  <2> HIDE DEF Good
  <2> QED BY <2>1, <2>6
<1>5. N \in G
  <2>1. N \in 0..N
    BY <1>2
  <2> HIDE DEF G, N
  <2> QED BY <1>2, <1>3, <1>4, <2>1, UpTo
<1> QED BY <1>2, <1>5

LEMMA GlyphsType ==
    ASSUME NEW cells \in Seq(Chars)
    PROVE  Glyphs(cells) \in Seq(Chars)
<1>1. PICK f : Shows(f, Chars, cells)
  BY GlyphsFunction
<1>2. Len(cells) \in 0..Len(cells) /\ f \in [0..Len(cells) -> Seq(Chars)]
  BY <1>1 DEF Shows
<1>3. f[Len(cells)] \in Seq(Chars)
  BY <1>2
<1> QED BY <1>1, <1>3 DEF Shows

(* Cutting the text of a row at the offset of a column, and cutting the    *)
(* row at that column, are the same: what WholeScreenIsCopied rests on.    *)
LEMMA TrimmedIsCut ==
    ASSUME NEW line \in Written
    PROVE  Trimmed(line) = Glyphs(SubSeq(line, 1, LastContent(line)))
<1> DEFINE last == LastContent(line)
<1>1. line \in Seq(Chars) /\ Len(line) = Cols /\ Cols \in Nat /\ last \in 0..Cols
  BY LineTypes, ContentFacts, TextAssumption
<1>2. PICK f : Shows(f, Chars, line)
  BY <1>1, GlyphsFunction
<1> HIDE DEF last
<1>3. Glyphs(SubSeq(line, 1, last)) = f[last]
  BY <1>1, <1>2, GlyphsOfFirst
<1>4. Glyphs(line) = f[Cols]
  BY <1>1, <1>2 DEF Shows
<1>5. /\ f[last] \in Seq(Chars) /\ f[Cols] \in Seq(Chars)
      /\ Len(f[last]) <= Len(f[Cols])
      /\ \A i \in 1..Len(f[last]) : f[Cols][i] = f[last][i]
  <2>1. Cols \in last..Len(line)
    BY <1>1
  <2> QED BY <1>1, <1>2, <2>1, ShowsGrows
<1>6. TextOffset(line, last + 1) = Len(f[last])
  <2>1. (last + 1) - 1 = last
    BY <1>1
  <2> QED BY <1>3, <2>1 DEF TextOffset
<1>7. SubSeq(f[Cols], 1, Len(f[last])) = f[last]
  BY <1>5
<1> QED BY <1>3, <1>4, <1>6, <1>7 DEF Trimmed, last

(* Pieces up to the last that is not empty, and nothing after it.          *)
LEMMA JoinsAfter ==
    ASSUME NEW T, NEW pieces \in Seq(Seq(T)), NEW f, Joins(f, T, pieces),
           NEW k \in 0..Len(pieces),
           \A n \in (k + 1)..Len(pieces) : pieces[n] = <<>>
    PROVE  FlattenSeq(pieces) = f[k]
<1> DEFINE N == Len(pieces)
           G == {n \in 0..N : n < k \/ f[n] = f[k]}
<1>1. N \in Nat /\ k \in 0..N /\ f \in [0..N -> Seq(T)] /\ FlattenSeq(pieces) = f[N]
  BY DEF Joins
<1>2. 0 \in G
  BY <1>1
<1>3. ASSUME NEW n \in 1..N, n - 1 \in G PROVE n \in G
  <2>1. CASE n > k
    <3>1. n \in (k + 1)..N /\ ~(n - 1 < k) /\ n \in 0..N /\ n - 1 \in 0..N
      BY <1>1, <2>1
    <3>2. f[n] = f[n - 1] \o pieces[n] /\ pieces[n] = <<>>
      BY <3>1 DEF Joins
    <3>3. f[n - 1] \in Seq(T)
      BY <1>1, <3>1
    <3>4. f[n] = f[n - 1]
      <4> HIDE DEF N
      <4> QED BY <3>2, <3>3
    <3> QED BY <1>3, <3>1, <3>4
  <2>2. CASE n <= k
    BY <1>1, <2>2
  <2> QED BY <1>1, <2>1, <2>2
<1>4. N \in G
  <2>1. N \in 0..N
    BY <1>1
  <2> HIDE DEF G, N
  <2> QED BY <1>1, <1>2, <1>3, <2>1, UpTo
<1>5. ~(N < k)
  BY <1>1
<1> QED BY <1>1, <1>4, <1>5

-----------------------------------------------------------------------------
(* Every step keeps the invariant. *)

LEMMA InitText == Init => TextInv
<1> SUFFICES ASSUME Init PROVE TextInv
  OBVIOUS
<1>1. /\ buffer \in Starts /\ offset = Len(buffer) - Rows
      /\ sel = NoSelection /\ search = NoSearch /\ fed = 0
  BY DEF Init
<1>2. Rows \in Nat \ {0} /\ Cols \in Nat \ {0} /\ MaxRows \in Nat /\ MaxFeeds \in Nat /\ MaxRows > Rows
  BY TextAssumption
<1>3. buffer \in Seq(Lines) /\ Len(buffer) \in Rows..MaxRows
  BY <1>1, TextAssumption
<1>4. BufferInv
  BY <1>1, <1>2, <1>3 DEF BufferInv, Written, MaxOffset
<1>5. SelectionInv
  <2>1. 1 \in Col /\ 1 \in (1 - fed)..(MaxRows + fed) /\ fed \in 0..MaxFeeds
    BY <1>1, <1>2 DEF Col
  <2> QED BY <1>1, <2>1 DEF SelectionInv, NoSelection
<1>6. SearchInv
  <2>1. search.matches = <<>> /\ search.selected = 0 /\ search.active = FALSE /\ Len(search.matches) = 0
    BY <1>1 DEF NoSearch
  <2>2. search \in [active : BOOLEAN, matches : Seq(Match), selected : Nat]
    BY <1>1 DEF NoSearch
  <2>3. InOrder(search.matches, Len(buffer))
    BY <2>1 DEF InOrder
  <2> QED BY <2>1, <2>2, <2>3 DEF SearchInv
<1> QED BY <1>4, <1>5, <1>6 DEF TextInv

(* Sequences and records that change in one place.                         *)
LEMMA AppendFacts ==
    ASSUME NEW T, NEW s \in Seq(T), NEW x \in T
    PROVE  Append(s, x) \in Seq(T) /\ Len(Append(s, x)) = Len(s) + 1
  OBVIOUS

LEMMA PutFacts ==
    ASSUME NEW T, NEW s \in Seq(T), NEW x \in T, NEW i
    PROVE  [s EXCEPT ![i] = x] \in Seq(T) /\ Len([s EXCEPT ![i] = x]) = Len(s)
<1> DEFINE e == [s EXCEPT ![i] = x]
<1>1. Len(s) \in Nat /\ s \in [1..Len(s) -> T]
  OBVIOUS
<1>2. e \in [1..Len(s) -> T]
  BY <1>1
<1> HIDE DEF e
<1>3. e \in Seq(T) /\ Len(e) = Len(s)
  BY <1>1, <1>2
<1> QED BY <1>3 DEF e

LEMMA EndPut ==
    ASSUME NEW R, NEW s \in [on : BOOLEAN, startRow : R, startCol : Col, endRow : R, endCol : Col],
           NEW r \in R, NEW c \in Col
    PROVE  [s EXCEPT !.endRow = r, !.endCol = c]
             \in [on : BOOLEAN, startRow : R, startCol : Col, endRow : R, endCol : Col]
  OBVIOUS

LEMMA RowsMoved ==
    ASSUME NEW R, NEW s \in [on : BOOLEAN, startRow : Int, startCol : Col, endRow : Int, endCol : Col],
           NEW delta, s.startRow + delta \in R, s.endRow + delta \in R
    PROVE  [s EXCEPT !.startRow = @ + delta, !.endRow = @ + delta]
             \in [on : BOOLEAN, startRow : R, startCol : Col, endRow : R, endCol : Col]
  OBVIOUS

(* What the steps that leave the text of the rows do to them.              *)
LEMMA BufferKept ==
    ASSUME BufferInv, UNCHANGED buffer, offset' \in 0..MaxOffset
    PROVE  BufferInv'
  BY DEF BufferInv, MaxOffset

LEMMA SearchKept ==
    ASSUME SearchInv, UNCHANGED search, Len(buffer) \in Nat, Len(buffer') \in Nat,
           Len(buffer) <= Len(buffer')
    PROVE  SearchInv'
<1>1. search.matches \in Seq(Match)
  BY DEF SearchInv
<1>2. \A i \in 1..Len(search.matches) : search.matches[i].row \in Nat
  <2>1. TAKE i \in 1..Len(search.matches)
  <2>2. search.matches[i] \in Match
    BY <1>1
  <2> QED BY <2>2 DEF Match
<1>3. InOrder(search.matches, Len(buffer))'
  BY <1>2 DEF SearchInv, InOrder
<1> QED BY <1>3 DEF SearchInv

(* Output that adds a line moves the viewport by a row at most.            *)
LEMMA FeedLineKeeps ==
    ASSUME BufferInv, NEW line \in Lines, FeedLine(line)
    PROVE  /\ BufferInv' /\ Len(buffer) <= Len(buffer') /\ Len(buffer') \in Nat
           /\ offset' - offset \in {-1, 0, 1}
<1> DEFINE kept == IF Len(buffer) < MaxRows THEN buffer ELSE Tail(buffer)
<1>1. /\ Rows \in Nat \ {0} /\ MaxRows \in Nat /\ MaxRows > Rows
      /\ buffer \in Seq(Written) /\ Len(buffer) \in Rows..MaxRows /\ line \in Written
      /\ offset \in 0..(Len(buffer) - Rows)
  BY TextAssumption DEF BufferInv, Written, MaxOffset
<1>2. /\ kept \in Seq(Written)
      /\ Len(kept) = IF Len(buffer) < MaxRows THEN Len(buffer) ELSE Len(buffer) - 1
  <2>1. buffer # <<>> /\ Len(buffer) \in Nat
    BY <1>1
  <2>2. Tail(buffer) \in Seq(Written) /\ Len(Tail(buffer)) = Len(buffer) - 1
    BY <1>1, <2>1
  <2> QED BY <1>1, <2>2
<1>3. buffer' = Append(kept, line)
  BY DEF FeedLine
<1> HIDE DEF kept
<1>4. buffer' \in Seq(Written) /\ Len(buffer') = Len(kept) + 1
  BY <1>1, <1>2, <1>3, AppendFacts
<1>5. Len(buffer') = IF Len(buffer) < MaxRows THEN Len(buffer) + 1 ELSE Len(buffer)
  BY <1>1, <1>2, <1>4
<1>6. offset' = IF offset = Len(buffer) - Rows THEN Len(buffer') - Rows
                ELSE IF Len(buffer) < MaxRows THEN offset ELSE Higher(0, offset - 1)
  BY DEF FeedLine, MaxOffset
<1>7. offset' \in 0..(Len(buffer') - Rows) /\ offset' - offset \in {-1, 0, 1}
  BY <1>1, <1>5, <1>6 DEF Higher
<1>8. Len(buffer') \in Rows..MaxRows
  BY <1>1, <1>5
<1>9. BufferInv'
  BY <1>4, <1>7, <1>8 DEF BufferInv, MaxOffset
<1>10. Len(buffer) <= Len(buffer') /\ Len(buffer') \in Nat
  BY <1>1, <1>5
<1> QED BY <1>7, <1>9, <1>10

LEMMA FeedEraseKeeps ==
    ASSUME BufferInv, NEW row \in Row, FeedErase(row)
    PROVE  BufferInv' /\ Len(buffer') = Len(buffer)
<1>1. /\ buffer \in Seq(Written) /\ Len(buffer) \in Rows..MaxRows /\ offset \in 0..(Len(buffer) - Rows)
      /\ BlankLine \in Written
  BY DEF BufferInv, Written, MaxOffset
<1>2. buffer' = [buffer EXCEPT ![MaxOffset + row] = BlankLine] /\ offset' = offset
  BY DEF FeedErase
<1>3. buffer' \in Seq(Written) /\ Len(buffer') = Len(buffer)
  BY <1>1, <1>2, PutFacts
<1> QED BY <1>1, <1>2, <1>3 DEF BufferInv, MaxOffset

LEMMA ShiftKeeps ==
    ASSUME SelectionInv, NEW delta \in {-1, 0, 1}, NEW total,
           sel' = ShiftSelection(sel, delta, total), fed < MaxFeeds, fed' = fed + 1
    PROVE  SelectionInv'
<1> DEFINE moved == [sel EXCEPT !.startRow = @ + delta, !.endRow = @ + delta]
<1>1. MaxFeeds \in Nat /\ MaxRows \in Nat /\ MaxRows > 0 /\ fed \in 0..MaxFeeds /\ fed' \in 0..MaxFeeds
      /\ fed' = fed + 1
  BY TextAssumption DEF SelectionInv
<1>2. /\ sel.on \in BOOLEAN /\ sel.startCol \in Col /\ sel.endCol \in Col
      /\ sel.startRow \in (1 - fed)..(MaxRows + fed) /\ sel.endRow \in (1 - fed)..(MaxRows + fed)
      /\ sel = [on |-> sel.on, startRow |-> sel.startRow, startCol |-> sel.startCol,
                endRow |-> sel.endRow, endCol |-> sel.endCol]
  BY DEF SelectionInv
<1>3. \A x \in (1 - fed)..(MaxRows + fed) :
          x \in (1 - fed')..(MaxRows + fed') /\ x + delta \in (1 - fed')..(MaxRows + fed')
  BY <1>1
<1>4. sel' = sel \/ sel' = NoSelection \/ sel' = moved
  BY DEF ShiftSelection
<1> DEFINE S == [on : BOOLEAN,
                startRow : (1 - fed')..(MaxRows + fed'), startCol : Col,
                endRow : (1 - fed')..(MaxRows + fed'), endCol : Col]
<1>5. CASE sel' = sel
  <2>1. sel \in S
    BY <1>2, <1>3
  <2> QED BY <1>1, <1>5, <2>1 DEF SelectionInv
<1>6. CASE sel' = NoSelection
  <2>1. 1 \in Col /\ 1 \in (1 - fed')..(MaxRows + fed')
    BY <1>1, TextAssumption DEF Col
  <2>2. NoSelection \in S
    BY <2>1 DEF NoSelection
  <2> QED BY <1>1, <1>6, <2>2 DEF SelectionInv
<1>7. CASE sel' = moved
  <2>1. sel \in [on : BOOLEAN, startRow : Int, startCol : Col, endRow : Int, endCol : Col]
    BY <1>1, <1>2
  <2>2. moved \in S
    BY <1>2, <1>3, <2>1, RowsMoved
  <2> HIDE DEF moved
  <2> QED BY <1>1, <1>7, <2>2 DEF SelectionInv
<1> QED BY <1>4, <1>5, <1>6, <1>7

LEMMA FeedKeeps == ASSUME TextInv, Feed PROVE TextInv'
<1>1. /\ BufferInv /\ SelectionInv /\ SearchInv /\ Len(buffer) \in Nat
  BY TextAssumption DEF TextInv, BufferInv
<1>2. CASE \E line \in Lines : FeedLine(line)
  <2>1. PICK line \in Lines : FeedLine(line)
    BY <1>2
  <2>2. /\ BufferInv' /\ Len(buffer) <= Len(buffer') /\ Len(buffer') \in Nat
        /\ offset' - offset \in {-1, 0, 1}
    BY <1>1, <2>1, FeedLineKeeps
  <2>3. SelectionInv'
    <3>1. fed < MaxFeeds /\ fed' = fed + 1 /\ sel' = ShiftSelection(sel, offset' - offset, Len(buffer'))
      BY <2>1 DEF Feed, FeedLine
    <3> QED BY <1>1, <2>2, <3>1, ShiftKeeps
  <2>4. SearchInv'
    BY <1>1, <2>1, <2>2, SearchKept DEF FeedLine
  <2> QED BY <2>2, <2>3, <2>4 DEF TextInv
<1>3. CASE \E row \in Row : FeedErase(row)
  <2>1. PICK row \in Row : FeedErase(row)
    BY <1>3
  <2>2. BufferInv' /\ Len(buffer') = Len(buffer)
    BY <1>1, <2>1, FeedEraseKeeps
  <2>3. SelectionInv'
    <3>1. fed < MaxFeeds /\ fed' = fed + 1 /\ sel' = ShiftSelection(sel, 0, Len(buffer))
      BY <2>1 DEF Feed, FeedErase
    <3> QED BY <1>1, <3>1, ShiftKeeps
  <2>4. SearchInv'
    BY <1>1, <2>1, <2>2, SearchKept DEF FeedErase
  <2> QED BY <2>2, <2>3, <2>4 DEF TextInv
<1> QED BY <1>2, <1>3 DEF Feed

(* A selection on a row of the viewport, or one end of it.                 *)
LEMMA SelectionPut ==
    ASSUME TextInv, NEW row \in Row, NEW a \in Col, NEW c \in Col, UNCHANGED fed,
           \/ sel' = [on |-> TRUE, startRow |-> offset + row, startCol |-> a,
                      endRow |-> offset + row, endCol |-> c]
           \/ sel' = [sel EXCEPT !.endRow = offset + row, !.endCol = c]
    PROVE  SelectionInv'
<1>1. offset + row \in (1 - fed)..(MaxRows + fed)
  <2>1. /\ offset \in 0..(Len(buffer) - Rows) /\ Len(buffer) \in Rows..MaxRows /\ row \in 1..Rows
        /\ fed \in Nat /\ Rows \in Nat /\ MaxRows \in Nat
    BY TextAssumption DEF TextInv, BufferInv, SelectionInv, MaxOffset, Row
  <2> QED BY <2>1
<1>2. /\ fed \in 0..MaxFeeds
      /\ sel \in [on : BOOLEAN,
                startRow : (1 - fed)..(MaxRows + fed), startCol : Col,
                endRow : (1 - fed)..(MaxRows + fed), endCol : Col]
  BY DEF TextInv, SelectionInv
<1>3. sel' \in [on : BOOLEAN,
                startRow : (1 - fed)..(MaxRows + fed), startCol : Col,
                endRow : (1 - fed)..(MaxRows + fed), endCol : Col]
  <2> DEFINE rows == (1 - fed)..(MaxRows + fed)
             put == offset + row
  <2>1. put \in rows /\ sel \in [on : BOOLEAN, startRow : rows, startCol : Col, endRow : rows, endCol : Col]
    BY <1>1, <1>2
  <2>2. \/ sel' = [on |-> TRUE, startRow |-> put, startCol |-> a, endRow |-> put, endCol |-> c]
        \/ sel' = [sel EXCEPT !.endRow = put, !.endCol = c]
    OBVIOUS
  <2> HIDE DEF rows, put
  <2>3. sel' \in [on : BOOLEAN, startRow : rows, startCol : Col, endRow : rows, endCol : Col]
    <3>1. CASE sel' = [on |-> TRUE, startRow |-> put, startCol |-> a, endRow |-> put, endCol |-> c]
      BY <2>1, <3>1
    <3>2. CASE sel' = [sel EXCEPT !.endRow = put, !.endCol = c]
      BY <2>1, <3>2, EndPut
    <3> QED BY <2>2, <3>1, <3>2
  <2> QED BY <2>3 DEF rows
<1> QED BY <1>2, <1>3 DEF SelectionInv

LEMMA ClampFacts ==
    ASSUME NEW limit \in Nat \ {0}, NEW x \in Int
    PROVE  ClampIndex(x, limit) \in 1..limit
  BY DEF ClampIndex, Higher, Lower

LEMMA SelectKeeps == ASSUME TextInv, Select PROVE TextInv'
<1>1. Rows \in Nat \ {0} /\ Cols \in Nat \ {0} /\ Row = 1..Rows /\ Col = 1..Cols
  BY TextAssumption DEF Row, Col
<1>2. UNCHANGED <<buffer, offset, search, fed>>
  BY DEF Select, startSelection, updateSelection, extendSelection, selectWordAt, selectLineAt,
         SelectCols, clearSelection
<1>3. BufferInv' /\ SearchInv'
  <2>1. BufferInv /\ SearchInv
    BY DEF TextInv
  <2> QED BY <1>2, <2>1 DEF BufferInv, SearchInv, MaxOffset
<1>4. SelectionInv'
  <2>1. ASSUME NEW row \in Row, NEW c \in Col,
               startSelection(row, c) \/ updateSelection(row, c) PROVE SelectionInv'
    BY <1>2, <2>1, SelectionPut DEF startSelection, updateSelection
  <2>2. ASSUME NEW row \in Row, NEW c \in Col, selectWordAt(row, c) PROVE SelectionInv'
    <3> DEFINE Same(d) == \A k \in Lower(c, d)..Higher(c, d) :
                             Kind(Viewport(row)[k]) = Kind(Viewport(row)[c])
               S == {d \in Col : Same(d)}
    <3>1. SelectCols(row, Min(S), Max(S))
      BY <2>2 DEF selectWordAt
    <3>2. S \in SUBSET Nat /\ S \in SUBSET (0..Cols)
      BY <1>1
    <3>3. S # {}
      <4>1. Lower(c, c) = c /\ Higher(c, c) = c
        BY DEF Lower, Higher
      <4>2. \A k \in c..c : k = c
        BY <1>1
      <4> QED BY <4>1, <4>2
    <3>4. S \subseteq Col
      OBVIOUS
    <3> HIDE DEF S
    <3>5. Min(S) \in Col /\ Max(S) \in Col
      BY <1>1, <3>2, <3>3, <3>4, MinFacts, MaxFacts
    <3> QED BY <1>2, <3>1, <3>5, SelectionPut DEF SelectCols
  <2>3. ASSUME NEW dRow \in Int, NEW dCol \in Int, extendSelection(dRow, dCol) PROVE SelectionInv'
    <3> DEFINE row == ClampIndex(sel.endRow - offset + dRow, Rows)
               c == ClampIndex(sel.endCol + dCol, Cols)
               cell == Viewport(row)[c]
               snapped == IF dCol = 0 \/ c = sel.endCol THEN c
                      ELSE IF dCol > 0 /\ cell = "wide" /\ c < Cols THEN c + 1
                      ELSE IF dCol < 0 /\ cell = "tail" /\ c > 1 THEN c - 1
                      ELSE c
    <3>1. sel.endRow \in Int /\ sel.endCol \in Int /\ offset \in Int
      BY <1>1, TextAssumption DEF TextInv, SelectionInv, BufferInv
    <3> DEFINE x == sel.endRow - offset + dRow
               y == sel.endCol + dCol
    <3>6. x \in Int /\ y \in Int
      BY <2>3, <3>1
    <3>2. row \in Row
      <4>1. row = ClampIndex(x, Rows)
        OBVIOUS
      <4> HIDE DEF row, x
      <4> QED BY <1>1, <3>6, <4>1, ClampFacts
    <3>3. c \in Col
      <4>1. c = ClampIndex(y, Cols)
        OBVIOUS
      <4> HIDE DEF c, y
      <4> QED BY <1>1, <3>6, <4>1, ClampFacts
    <3>4. sel' = [sel EXCEPT !.endRow = offset + row, !.endCol = snapped]
      BY <2>3 DEF extendSelection
    <3>5. snapped \in Col
      <4> HIDE DEF c, cell
      <4> QED BY <1>1, <3>3
    <3> HIDE DEF row, snapped
    <3> QED BY <1>2, <3>2, <3>3, <3>4, <3>5, SelectionPut
  <2>4. ASSUME NEW row \in Row, selectLineAt(row) PROVE SelectionInv'
    <3> DEFINE HasText(cell) == ~IsSpacer(cell) /\ cell # "blank"
               line == Viewport(row)
               S == {k \in 1..Len(line) : HasText(line[k])}
               last == SelectLastInSeq(line, HasText)
    <3>1. SelectCols(row, 1, Higher(1, last))
      BY <2>4 DEF selectLineAt
    <3>2. last = IF S # {} THEN Max(S) ELSE 0
      BY DEF SelectLastInSeq
    <3>3. Len(line) = Cols
      BY ViewportTypes, LineTypes DEF TextInv
    <3>4. last \in 0..Cols
      <4>1. S \in SUBSET (0..Cols) 
        BY <1>1, <3>3
      <4>2. S # {} => Max(S) \in S
        <5> HIDE DEF S
        <5> QED BY <1>1, <4>1, MaxFacts
      <4>3. CASE S = {}
        BY <1>1, <3>2, <4>3
      <4>4. CASE S # {}
        <5> HIDE DEF S, last
        <5>1. last = Max(S) /\ Max(S) \in 0..Cols
          BY <3>2, <4>1, <4>2, <4>4
        <5> QED BY <5>1
      <4> QED BY <4>3, <4>4
    <3> HIDE DEF last
    <3>5. 1 \in Col /\ Higher(1, last) \in Col
      BY <1>1, <3>4 DEF Higher
    <3> QED BY <1>2, <3>1, <3>5, SelectionPut DEF SelectCols
  <2>5. ASSUME clearSelection PROVE SelectionInv'
    <3>1. sel' = NoSelection /\ fed' = fed
      BY <2>5 DEF clearSelection
    <3>2. fed \in 0..MaxFeeds /\ MaxFeeds \in Nat /\ MaxRows \in Nat /\ MaxRows > 0
      BY TextAssumption DEF TextInv, SelectionInv
    <3>3. 1 \in (1 - fed)..(MaxRows + fed) /\ 1 \in Col
      BY <1>1, <3>2
    <3>4. NoSelection \in [on : BOOLEAN,
                startRow : (1 - fed)..(MaxRows + fed), startCol : Col,
                endRow : (1 - fed)..(MaxRows + fed), endCol : Col]
      BY <3>3 DEF NoSelection
    <3> QED BY <3>1, <3>2, <3>4 DEF SelectionInv
  <2>6. \A d \in {-1, 1} : d \in Int /\ 0 \in Int
    OBVIOUS
  <2> QED BY <2>1, <2>2, <2>3, <2>4, <2>5, <2>6 DEF Select
<1> QED BY <1>3, <1>4 DEF TextInv

LEMMA ScrollKeeps ==
    ASSUME TextInv, NEW delta \in {-1, 1}, scrollView(delta) PROVE TextInv'
<1>1. Len(buffer) \in Nat /\ Rows \in Nat /\ Len(buffer) >= Rows /\ offset \in Int
  BY TextAssumption DEF TextInv, BufferInv
<1>2. offset' \in 0..MaxOffset
  BY <1>1 DEF scrollView, Higher, Lower, MaxOffset
<1>3. BufferInv'
  BY <1>2, BufferKept DEF TextInv, scrollView
<1>4. SelectionInv' /\ SearchInv'
  BY DEF TextInv, scrollView, SelectionInv, SearchInv
<1> QED BY <1>3, <1>4 DEF TextInv

(* A part of a row.                                                        *)
LEMMA CutFacts ==
    ASSUME NEW line \in Written, NEW from \in Col, NEW to \in 0..Cols
    PROVE  /\ SubSeq(line, from, to) \in Seq(Chars)
           /\ Len(SubSeq(line, from, to)) = IF from <= to THEN to - from + 1 ELSE 0
           /\ \A i \in 1..(to - from + 1) : SubSeq(line, from, to)[i] = line[from + i - 1]
<1>1. /\ line \in Seq(Chars) /\ Len(line) = Cols /\ Cols \in Nat
      /\ from \in 1..Cols
  BY LineTypes, TextAssumption DEF Col
<1>2. CASE from <= to
  <2>1. /\ SubSeq(line, from, to) \in Seq(Chars)
        /\ Len(SubSeq(line, from, to)) = to - from + 1
        /\ \A i \in 1..(to - from + 1) : SubSeq(line, from, to)[i] = line[from + i - 1]
    BY <1>1, <1>2
  <2> QED BY <1>2, <2>1
<1>3. CASE ~(from <= to)
  <2>1. SubSeq(line, from, to) = <<>>
    BY <1>1, <1>3
  <2>2. <<>> \in Seq(Chars) /\ Len(<<>>) = 0
    OBVIOUS
  <2>3. \A i \in 1..(to - from + 1) : FALSE
    BY <1>1, <1>3
  <2> QED BY <1>3, <2>1, <2>2, <2>3
<1> QED BY <1>2, <1>3

(* What a copy takes of a row of the viewport.                             *)
LEMMA CopyBounds ==
    ASSUME TextInv, NEW row \in Row
    PROVE  /\ CopyFrom(Bounds(sel), row) \in Col
           /\ CopyTo(Bounds(sel), row) \in 0..Cols
           /\ Viewport(row) \in Written
           /\ Glyphs(SubSeq(Viewport(row), CopyFrom(Bounds(sel), row), CopyTo(Bounds(sel), row)))
                \in Seq(Chars)
<1>1. Viewport(row) \in Written /\ Cols \in Nat \ {0} /\ Col = 1..Cols
  BY ViewportTypes, TextAssumption DEF TextInv, Col
<1>2. Bounds(sel).startCol \in Col /\ Bounds(sel).endCol \in Col
  <2>1. sel.startCol \in Col /\ sel.endCol \in Col
    BY DEF TextInv, SelectionInv
  <2>2. sel = [on |-> sel.on, startRow |-> sel.startRow, startCol |-> sel.startCol,
               endRow |-> sel.endRow, endCol |-> sel.endCol]
    BY DEF TextInv, SelectionInv
  <2>3. Bounds(sel).startCol \in {sel.startCol, sel.endCol} /\ Bounds(sel).endCol \in {sel.startCol, sel.endCol}
    BY <2>2 DEF Bounds
  <2> QED BY <2>1, <2>3
<1>3. CopyFrom(Bounds(sel), row) \in Col
  BY <1>1, <1>2 DEF CopyFrom
<1>4. CopyTo(Bounds(sel), row) \in 0..Cols
  <2>1. LastContent(Viewport(row)) \in 0..Cols
    BY <1>1, ContentFacts
  <2> QED BY <1>1, <1>2, <2>1 DEF CopyTo, Lower
<1>5. SubSeq(Viewport(row), CopyFrom(Bounds(sel), row), CopyTo(Bounds(sel), row)) \in Seq(Chars)
  BY <1>1, <1>3, <1>4, CutFacts
<1> QED BY <1>1, <1>3, <1>4, <1>5, GlyphsType

LEMMA ConcatType ==
    ASSUME NEW T, NEW s \in Seq(T), NEW t \in Seq(T)
    PROVE  s \o t \in Seq(T) /\ Len(s \o t) = Len(s) + Len(t)
  OBVIOUS

(* The pieces of a copy.                                                   *)
CopiedPiece(row) ==
    Glyphs(SubSeq(Viewport(row), CopyFrom(Bounds(sel), row), CopyTo(Bounds(sel), row)))
      \o (IF offset + row < Bounds(sel).endRow THEN <<"newline">> ELSE <<>>)
CopiedPieces == [row \in Row |-> IF row \in Copied(Bounds(sel)) THEN CopiedPiece(row) ELSE <<>>]

LEMMA CopiedPiecesType ==
    ASSUME TextInv
    PROVE  CopiedPieces \in Seq(Seq(Chars)) /\ Len(CopiedPieces) = Rows
<1>1. Rows \in Nat /\ Row = 1..Rows /\ "newline" \in Chars
  BY TextAssumption DEF Row
<1>2. ASSUME NEW row \in Row PROVE CopiedPiece(row) \in Seq(Chars)
  <2> DEFINE g == Glyphs(SubSeq(Viewport(row), CopyFrom(Bounds(sel), row), CopyTo(Bounds(sel), row)))
             e == IF offset + row < Bounds(sel).endRow THEN <<"newline">> ELSE <<>>
  <2>1. g \in Seq(Chars)
    BY CopyBounds
  <2>2. e \in Seq(Chars)
    <3>1. <<"newline">> \in Seq(Chars) /\ <<>> \in Seq(Chars)
      BY <1>1
    <3> QED BY <3>1
  <2>3. CopiedPiece(row) = g \o e
    BY DEF CopiedPiece
  <2> HIDE DEF g, e
  <2> QED BY <2>1, <2>2, <2>3, ConcatType
<1> DEFINE X == Seq(Chars)
           P(row) == IF row \in Copied(Bounds(sel)) THEN CopiedPiece(row) ELSE <<>>
<1>3. \A row \in Row : P(row) \in X
  <2>1. <<>> \in X
    OBVIOUS
  <2> HIDE DEF X
  <2> QED BY <1>2, <2>1 DEF X
<1>4. CopiedPieces = [row \in Row |-> P(row)]
  BY DEF CopiedPieces
<1> HIDE DEF P
<1>5. CopiedPieces \in Seq(X) /\ Len(CopiedPieces) = Rows
  <2> HIDE DEF X
  <2> QED BY <1>1, <1>3, <1>4
<1> QED BY <1>5 DEF X

LEMMA SelectedText ==
    ASSUME TextInv
    PROVE  /\ getSelectedText \in Seq(Chars)
           /\ sel.on => getSelectedText = FlattenSeq(CopiedPieces)
<1>1. sel.on => getSelectedText = FlattenSeq(CopiedPieces)
  BY DEF getSelectedText, CopiedPieces, CopiedPiece
<1>2. FlattenSeq(CopiedPieces) \in Seq(Chars)
  <2>1. PICK f : Joins(f, Chars, CopiedPieces)
    BY CopiedPiecesType, FlattenFunction
  <2>2. Rows \in 0..Rows
    BY TextAssumption
  <2> QED BY <2>1, <2>2, CopiedPiecesType DEF Joins
<1>3. ~sel.on => getSelectedText = <<>>
  BY DEF getSelectedText
<1>4. <<>> \in Seq(Chars)
  OBVIOUS
<1> QED BY <1>1, <1>2, <1>3, <1>4

(* The first match that is wanted.                                         *)
LEMMA FirstFacts ==
    ASSUME NEW N \in Nat, NEW I \in SUBSET (1..N), NEW first,
           first = IF I # {} THEN Min(I) ELSE 0
    PROVE  first \in 0..N /\ (I # {} => first \in I /\ \A i \in I : first <= i)
<1>1. CASE I = {}
  BY <1>1
<1>2. CASE I # {}
  <2>1. I \in SUBSET Nat
    OBVIOUS
  <2>2. Min(I) \in I /\ \A i \in I : Min(I) <= i
    BY <1>2, <2>1, MinFacts
  <2>3. first = Min(I) /\ Min(I) \in 1..N
    BY <1>2, <2>2
  <2> QED BY <2>2, <2>3
<1> QED BY <1>1, <1>2

(* A search that is begun has the matches of its query, and one of them.   *)
SearchType == [active : BOOLEAN, matches : Seq(Match), selected : Nat]

LEMMA SearchBegins ==
    ASSUME BufferInv, NEW T, NEW query \in Seq(T), NEW s, s = rebuildSearchMatches(query)
    PROVE  /\ s \in SearchType /\ s.selected <= Len(s.matches)
           /\ (s.matches = <<>>) = (s.selected = 0)
           /\ s.selected > 0 => s.active
           /\ InOrder(s.matches, Len(buffer))
<1> DEFINE matches == Occurrences(query)
           Visible(m) == InViewport(m.row, offset)
           I == {i \in 1..Len(matches) : Visible(matches[i])}
           visible == SelectInSeq(matches, Visible)
           chosen == IF matches = <<>> THEN 0 ELSE Higher(1, visible)
<1>1. matches \in Seq(Match) /\ InOrder(matches, Len(buffer)) /\ Len(matches) \in Nat
  BY OccurrencesFacts
<1>2. visible = IF I # {} THEN Min(I) ELSE 0
  BY DEF SelectInSeq
<1>3. I \in SUBSET (1..Len(matches))
  OBVIOUS
<1>4. s = [active |-> TRUE, matches |-> matches, selected |-> chosen]
  BY DEF rebuildSearchMatches
<1> HIDE DEF I, visible, matches
<1>5. visible \in 0..Len(matches)
  BY <1>1, <1>2, <1>3, FirstFacts
<1>6. /\ chosen \in Nat /\ chosen <= Len(matches)
      /\ (matches = <<>>) = (chosen = 0)
  <2>1. CASE matches = <<>>
    BY <1>1, <2>1
  <2>2. CASE matches # <<>>
    <3>1. Len(matches) > 0
      BY <1>1, <2>2
    <3>2. Higher(1, visible) \in 1..Len(matches)
      BY <1>1, <1>5, <3>1 DEF Higher
    <3>3. chosen = Higher(1, visible)
      BY <2>2
    <3> QED BY <1>1, <2>2, <3>2, <3>3
  <2> QED BY <2>1, <2>2
<1> HIDE DEF chosen
<1>7. s \in SearchType
  BY <1>1, <1>4, <1>6 DEF SearchType
<1> QED BY <1>1, <1>4, <1>6, <1>7

(* The probe and the way back leave the viewport in the scrollback.        *)
LEMMA ScrollsInside ==
    ASSUME BufferInv, NEW s \in SearchType, s.selected <= Len(s.matches), ScrollsToMatch(s)
    PROVE  offset' \in 0..MaxOffset
<1>1. MaxOffset \in Nat /\ offset \in 0..MaxOffset /\ Rows \in Nat
  BY TextAssumption DEF BufferInv, MaxOffset
<1>2. CASE s.selected = 0 \/ InViewport(s.matches[s.selected].row, offset)
  BY <1>1, <1>2 DEF ScrollsToMatch
<1>3. CASE ~(s.selected = 0 \/ InViewport(s.matches[s.selected].row, offset))
  <2> DEFINE above == s.matches[s.selected].row - 1
             target == Lower(Higher(0, above - Rows \div 2), MaxOffset)
             end == ProbedOffset + (target - offset)
  <2>1. s.matches[s.selected] \in Match
    BY <1>3 DEF SearchType
  <2>2. above \in Int /\ Rows \div 2 \in Int
    BY <1>1, <2>1 DEF Match
  <2>3. offset' = Higher(0, Lower(end, MaxOffset))
    BY <1>3 DEF ScrollsToMatch
  <2>4. ProbedOffset \in Int
    BY <1>1 DEF ProbedOffset, Lower
  <2>5. target \in Int
    <3> HIDE DEF above
    <3> QED BY <1>1, <2>2 DEF Lower, Higher
  <2>6. end \in Int
    <3> HIDE DEF target
    <3> QED BY <1>1, <2>4, <2>5
  <2> HIDE DEF end
  <2> QED BY <1>1, <2>3, <2>6 DEF Lower, Higher
<1> QED BY <1>2, <1>3

LEMMA SearchesKeeps ==
    ASSUME TextInv, NEW query \in Seq(Chars), Searches(query) PROVE TextInv'
<1>0. BufferInv
  BY DEF TextInv
<1>1. search' = rebuildSearchMatches(query) /\ ScrollsToMatch(search') /\ UNCHANGED <<buffer, sel, fed>>
  BY DEF Searches
<1>2. /\ search' \in SearchType /\ search'.selected <= Len(search'.matches)
      /\ (search'.matches = <<>>) = (search'.selected = 0)
      /\ search'.selected > 0 => search'.active
      /\ InOrder(search'.matches, Len(buffer))
  BY <1>0, <1>1, SearchBegins
<1>3. offset' \in 0..MaxOffset
  BY <1>0, <1>1, <1>2, ScrollsInside
<1>4. BufferInv'
  BY <1>0, <1>1, <1>3, BufferKept
<1>5. SelectionInv'
  BY <1>1 DEF TextInv, SelectionInv
<1>6. SearchInv'
  BY <1>1, <1>2 DEF SearchInv, SearchType
<1> QED BY <1>4, <1>5, <1>6 DEF TextInv

LEMMA NavigateFacts ==
    ASSUME TextInv, NEW next \in BOOLEAN, navigateSearch(next)
    PROVE  /\ search' \in SearchType /\ search'.matches = search.matches
           /\ search'.active = search.active /\ search.active
           /\ search'.selected \in 1..Len(search.matches)
<1> DEFINE total == Len(search.matches)
           steps == IF next THEN 1 ELSE total - 1
           x == search.selected - 1 + steps
           chosen == IF search.selected = 0
                     THEN IF next THEN 1 ELSE total
                     ELSE (x % total) + 1
<1>1. /\ search \in SearchType /\ total \in Nat /\ total > 0 /\ search.active
      /\ search.selected \in Nat /\ search.selected <= total
  BY DEF TextInv, SearchInv, SearchType, navigateSearch
<1>2. search' = [search EXCEPT !.selected = chosen]
  BY DEF navigateSearch
<1> HIDE DEF total
<1>3. steps \in Nat
  BY <1>1
<1>4. chosen \in 1..total
  <2>1. CASE search.selected = 0
    BY <1>1, <2>1
  <2>2. CASE search.selected # 0
    <3>1. x \in Nat
      <4> HIDE DEF steps
      <4> QED BY <1>1, <1>3, <2>2
    <3> HIDE DEF x
    <3>2. x % total \in 0..(total - 1)
      BY <1>1, <3>1, Remainder
    <3>3. chosen = (x % total) + 1
      BY <2>2
    <3> QED BY <1>1, <3>2, <3>3
  <2> QED BY <2>1, <2>2
<1> HIDE DEF chosen
<1>5. chosen \in Nat
  BY <1>1, <1>4
<1>6. search' \in SearchType /\ search'.selected = chosen
      /\ search'.matches = search.matches /\ search'.active = search.active
  BY <1>1, <1>2, <1>5 DEF SearchType
<1> QED BY <1>1, <1>4, <1>6 DEF total

LEMMA NavigateKeeps ==
    ASSUME TextInv, NEW next \in BOOLEAN, navigateSearch(next) PROVE TextInv'
<1>0. BufferInv /\ SearchInv
  BY DEF TextInv
<1>1. ScrollsToMatch(search') /\ UNCHANGED <<buffer, sel, fed>>
  BY DEF navigateSearch
<1>2. /\ search' \in SearchType /\ search'.matches = search.matches
      /\ search'.active = search.active /\ search.active
      /\ search'.selected \in 1..Len(search.matches)
  BY NavigateFacts
<1>3. Len(search.matches) \in Nat /\ search.matches \in Seq(Match)
  BY <1>0 DEF SearchInv
<1>4. search'.selected <= Len(search'.matches) /\ search'.selected > 0 /\ search'.matches # <<>>
  BY <1>2, <1>3
<1>5. offset' \in 0..MaxOffset
  BY <1>0, <1>1, <1>2, <1>4, ScrollsInside
<1>6. BufferInv'
  BY <1>0, <1>1, <1>5, BufferKept
<1>7. SelectionInv'
  BY <1>1 DEF TextInv, SelectionInv
<1>8. SearchInv'
  <2>1. InOrder(search.matches, Len(buffer))
    BY <1>0 DEF SearchInv
  <2>2. InOrder(search'.matches, Len(buffer'))
    BY <1>1, <1>2, <2>1
  <2>3. (search'.matches = <<>>) = (search'.selected = 0)
    BY <1>4
  <2> QED BY <1>2, <1>4, <2>2, <2>3 DEF SearchInv, SearchType
<1> QED BY <1>6, <1>7, <1>8 DEF TextInv

LEMMA EndSearchKeeps == ASSUME TextInv, endSearch PROVE TextInv'
<1>1. search' = NoSearch /\ UNCHANGED <<buffer, offset, sel, fed>>
  BY DEF endSearch
<1>2. BufferInv' /\ SelectionInv'
  BY <1>1 DEF TextInv, BufferInv, SelectionInv, MaxOffset
<1>3. SearchInv'
  <2>1. /\ search'.matches = <<>> /\ search'.selected = 0 /\ search'.active = FALSE
        /\ Len(search'.matches) = 0
    BY <1>1 DEF NoSearch
  <2>2. search' \in [active : BOOLEAN, matches : Seq(Match), selected : Nat]
    BY <1>1 DEF NoSearch
  <2>3. InOrder(search'.matches, Len(buffer'))
    BY <2>1 DEF InOrder
  <2> QED BY <2>1, <2>2, <2>3 DEF SearchInv
<1> QED BY <1>2, <1>3 DEF TextInv

(* The strengthened invariant of the terminal's text.                      *)
THEOREM TextInvariant == Spec => []TextInv
<1>1. Init => TextInv
  BY InitText
<1>2. TextInv /\ [Next]_vars => TextInv'
  <2> SUFFICES ASSUME TextInv, [Next]_vars PROVE TextInv'
    OBVIOUS
  <2>1. CASE Feed
    BY <2>1, FeedKeeps
  <2>2. CASE Select
    BY <2>2, SelectKeeps
  <2>3. CASE startSearch
    <3>1. PICK query \in Queries : Searches(query)
      BY <2>3 DEF startSearch
    <3>2. query \in Seq(Chars)
      BY TextAssumption
    <3> QED BY <3>1, <3>2, SearchesKeeps
  <2>4. CASE searchSelection
    BY <2>4, SelectedText, SearchesKeeps DEF searchSelection
  <2>5. CASE \E next \in BOOLEAN : navigateSearch(next)
    BY <2>5, NavigateKeeps
  <2>6. CASE endSearch
    BY <2>6, EndSearchKeeps
  <2>7. CASE \E delta \in {-1, 1} : scrollView(delta)
    BY <2>7, ScrollKeeps
  <2>8. CASE UNCHANGED vars
    BY <2>8 DEF vars, TextInv, BufferInv, SelectionInv, SearchInv, MaxOffset
  <2> QED BY <2>1, <2>2, <2>3, <2>4, <2>5, <2>6, <2>7, <2>8 DEF Next, Search
<1> QED BY <1>1, <1>2, PTL DEF Spec

-----------------------------------------------------------------------------
(* The selection: one boundary for all who look for it. *)

LEMMA Typed == ASSUME TextInv PROVE TypeOK
<1>1. Rows \in Nat \ {0} /\ MaxRows \in Nat /\ MaxFeeds \in Nat /\ BufferInv /\ SelectionInv /\ SearchInv
  BY TextAssumption DEF TextInv
<1>2. /\ Len(buffer) \in Rows..MaxRows /\ \A r \in DOMAIN buffer : buffer[r] \in Lines \cup {BlankLine}
      /\ offset \in 0..MaxOffset
  BY <1>1 DEF BufferInv, Written
<1>3. sel \in [on : BOOLEAN, startRow : SelectionRows, startCol : Col,
               endRow : SelectionRows, endCol : Col]
  <2> DEFINE rows == (1 - fed)..(MaxRows + fed)
  <2>1. rows \subseteq SelectionRows
    BY <1>1 DEF SelectionInv, SelectionRows
  <2>2. sel \in [on : BOOLEAN, startRow : rows, startCol : Col, endRow : rows, endCol : Col]
    BY <1>1 DEF SelectionInv
  <2> HIDE DEF rows
  <2> QED BY <2>1, <2>2
<1>4. /\ search.active \in BOOLEAN
      /\ (search.matches = <<>>) = (search.selected = 0)
      /\ search.selected \in 0..Len(search.matches)
  <2>1. search.matches \in Seq(Match) /\ search.selected \in Nat /\ search.selected <= Len(search.matches)
    BY <1>1 DEF SearchInv
  <2> QED BY <1>1, <2>1 DEF SearchInv
<1>5. IsSorted(search.matches, MatchBefore)
  <2>1. \A i, j \in 1..Len(search.matches) : i < j => Precedes(search.matches[i], search.matches[j])
    BY <1>1 DEF SearchInv, InOrder
  <2>2. ASSUME NEW i \in 1..Len(search.matches), NEW j \in 1..Len(search.matches), i < j
        PROVE  MatchBefore(search.matches[i], search.matches[j])
    <3>1. search.matches[i] \in Match /\ search.matches[j] \in Match
      BY <1>1 DEF SearchInv
    <3>2. search.matches[i].col \in Int /\ search.matches[j].col \in Int
      BY <3>1, TextAssumption DEF Match, Col
    <3> QED BY <2>1, <2>2, <3>2 DEF Precedes, MatchBefore
  <2> QED BY <2>2 DEF IsSorted
<1> QED BY <1>2, <1>3, <1>4, <1>5 DEF TypeOK

LEMMA BoundsFacts ==
    ASSUME TextInv
    PROVE  /\ Bounds(sel).startRow \in Int /\ Bounds(sel).endRow \in Int
           /\ Bounds(sel).startCol \in Col /\ Bounds(sel).endCol \in Col
           /\ Bounds(sel).startRow <= Bounds(sel).endRow
           /\ Bounds(sel).startRow = Bounds(sel).endRow => Bounds(sel).startCol <= Bounds(sel).endCol
<1>1. /\ sel.startCol \in Col /\ sel.endCol \in Col /\ sel.startRow \in Int /\ sel.endRow \in Int
      /\ Col \subseteq Int
  <2>1. fed \in Int /\ MaxRows \in Int /\ Cols \in Int
    BY TextAssumption DEF TextInv, SelectionInv
  <2> QED BY <2>1 DEF TextInv, SelectionInv, Col
<1>2. sel = [on |-> sel.on, startRow |-> sel.startRow, startCol |-> sel.startCol,
             endRow |-> sel.endRow, endCol |-> sel.endCol]
  BY DEF TextInv, SelectionInv
<1>3. CASE IsSelectionBefore(sel.startRow, sel.startCol, sel.endRow, sel.endCol)
  <2>1. Bounds(sel) = sel
    BY <1>3 DEF Bounds
  <2> QED BY <1>1, <1>3, <2>1 DEF IsSelectionBefore
<1>4. CASE ~IsSelectionBefore(sel.startRow, sel.startCol, sel.endRow, sel.endCol)
  <2>1. Bounds(sel) = [on |-> sel.on, startRow |-> sel.endRow, startCol |-> sel.endCol,
                       endRow |-> sel.startRow, endCol |-> sel.startCol]
    BY <1>2, <1>4 DEF Bounds
  <2>2. /\ sel.endRow <= sel.startRow
        /\ sel.endRow = sel.startRow => sel.endCol <= sel.startCol
    <3>1. sel.startCol \in Int /\ sel.endCol \in Int
      BY <1>1
    <3> QED BY <1>1, <1>4, <3>1 DEF IsSelectionBefore
  <2> QED BY <1>1, <2>1, <2>2
<1> QED BY <1>3, <1>4

LEMMA Highlighted == ASSUME TextInv PROVE HighlightIsCopied
<1> DEFINE b == Bounds(sel)
           glyphs(row) == {c \in Col : ~IsSpacer(Viewport(row)[c])}
           copied(row) == IF sel.on /\ row \in Copied(b)
                          THEN CopyFrom(b, row)..CopyTo(b, row) ELSE {}
           painted(row) == PaintedSelected(row)
<1>1. SUFFICES ASSUME NEW row \in Row
               PROVE  /\ painted(row) \cap glyphs(row) = copied(row) \cap glyphs(row)
                      /\ {c \in glyphs(row) : isSelectionAt(row, c)} = copied(row) \cap glyphs(row)
                      /\ \A c \in painted(row) : Viewport(row)[c] = "wide" => c + 1 \in painted(row)
  BY DEF HighlightIsCopied
<1> DEFINE line == Viewport(row)
           last == LastContent(line)
           from == CopyFrom(b, row)
           to == CopyTo(b, row)
           here == offset + row
<1>2. /\ Cols \in Nat \ {0} /\ Col = 1..Cols /\ row \in Int /\ offset \in Int
      /\ Rows \in Nat \ {0} /\ row \in 1..Rows
  BY TextAssumption DEF Col, Row, TextInv, BufferInv, MaxOffset
<1>3. /\ line \in Written /\ from \in Col /\ to \in 0..Cols
  BY CopyBounds
<1>4. /\ last \in 0..Cols
      /\ \A c \in Col : line[c] = "wide" => c + 1 \in Col /\ line[c + 1] = "tail"
  BY <1>3, ContentFacts, LineTypes
<1>5. b.startRow \in Int /\ b.endRow \in Int /\ b.startCol \in Col /\ b.endCol \in Col
  BY BoundsFacts
<1>6. /\ from = IF here = b.startRow THEN b.startCol ELSE 1
      /\ to = IF here = b.endRow THEN Lower(last, b.endCol) ELSE last
  BY DEF CopyFrom, CopyTo
<1>7. row \in Copied(b) <=> b.startRow <= here /\ here <= b.endRow
  BY DEF Copied
<1> DEFINE lead == {c \in Col : /\ c >= (IF here = b.startRow THEN b.startCol ELSE 1)
                                /\ c <= last
                                /\ here = b.endRow => c <= b.endCol}
<1>8. painted(row) = IF ~sel.on \/ row \notin Copied(b) THEN {}
                     ELSE lead \cup {c \in Col : c - 1 \in lead /\ line[c - 1] = "wide"}
  BY DEF PaintedSelected
<1>9. ASSUME NEW c \in glyphs(row)
      PROVE  isSelectionAt(row, c) <=> /\ sel.on /\ b.startRow <= here /\ here <= b.endRow
                                       /\ c >= (IF here = b.startRow THEN b.startCol ELSE 1)
                                       /\ here = b.endRow => c <= b.endCol
                                       /\ c <= last
  <2>1. ClampIndex(row, Rows) = row /\ ClampIndex(c, Cols) = c
    <3>1. c \in 1..Cols
      BY <1>2
    <3> QED BY <1>2, <3>1 DEF ClampIndex, Lower, Higher
  <2> QED BY <2>1 DEF isSelectionAt, IsCellSelected
<1> HIDE DEF b, line, last, from, to, here
<1>10. lead = from..to
  <2>1. ASSUME NEW c \in Col PROVE c \in lead <=> c \in from..to
    <3>1. c \in Int /\ from \in Int /\ to \in Int
      BY <1>2, <1>3
    <3>2. c \in from..to <=> from <= c /\ c <= to
      BY <3>1
    <3>3. c <= to <=> c <= last /\ (here = b.endRow => c <= b.endCol)
      BY <1>2, <1>4, <1>5, <1>6 DEF Lower
    <3>4. from <= c <=> c >= (IF here = b.startRow THEN b.startCol ELSE 1)
      BY <1>2, <1>3, <1>5, <1>6
    <3> QED BY <3>2, <3>3, <3>4
  <2>2. \A c \in from..to : c \in Col
    BY <1>2, <1>3
  <2>3. \A c \in lead : c \in Col
    OBVIOUS
  <2> HIDE DEF lead
  <2> QED BY <2>1, <2>2, <2>3
<1>11. CASE ~sel.on \/ row \notin Copied(b)
  <2>1. painted(row) = {} /\ copied(row) = {}
    BY <1>8, <1>11 DEF b
  <2>2. \A c \in glyphs(row) : ~isSelectionAt(row, c)
    BY <1>7, <1>9, <1>11
  <2> HIDE DEF painted, copied, glyphs
  <2> QED BY <2>1, <2>2
<1>12. CASE sel.on /\ row \in Copied(b)
  <2>1. copied(row) = lead
    BY <1>10, <1>12 DEF b, from, to
  <2>2. painted(row) = lead \cup {c \in Col : c - 1 \in lead /\ line[c - 1] = "wide"}
    BY <1>8, <1>12
  <2>3. \A c \in glyphs(row) : isSelectionAt(row, c) <=> c \in lead
    <3> HIDE DEF lead
    <3>1. TAKE c \in glyphs(row)
    <3>2. c \in Col
      OBVIOUS
    <3> QED BY <1>7, <1>9, <1>12, <3>2 DEF lead
  <2>4. ASSUME NEW c \in Col, c - 1 \in lead, line[c - 1] = "wide" PROVE line[c] = "tail"
    <3>1. c - 1 \in Col /\ (c - 1) + 1 = c
      BY <1>2, <2>4
    <3> QED BY <1>4, <2>4, <3>1
  <2>5. painted(row) \cap glyphs(row) = lead \cap glyphs(row)
    <3>1. \A c \in glyphs(row) : line[c] # "tail"
      BY DEF IsSpacer, line
    <3> HIDE DEF lead, painted, glyphs
    <3> QED BY <2>2, <2>4, <3>1
  <2>6. ASSUME NEW c \in painted(row), line[c] = "wide" PROVE c + 1 \in painted(row)
    <3>1. c \in lead
      <4> HIDE DEF lead, painted
      <4> QED BY <2>2, <2>4, <2>6
    <3>2. c \in Col /\ c + 1 \in Col /\ (c + 1) - 1 = c
      BY <1>2, <1>4, <2>6, <3>1
    <3> HIDE DEF lead, painted
    <3> QED BY <2>2, <2>6, <3>1, <3>2
  <2>7. {c \in glyphs(row) : isSelectionAt(row, c)} = lead \cap glyphs(row)
    <3> HIDE DEF lead, glyphs
    <3> QED BY <2>3
  <2> HIDE DEF lead, painted, glyphs, copied
  <2> QED BY <2>1, <2>5, <2>6, <2>7 DEF line
<1> QED BY <1>11, <1>12

(* What is painted as selected, what a copy yields and what a click takes  *)
(* for the selection have one boundary (drawFrame(), getSelectedText() and *)
(* isSelectionAt()), and types.                                            *)
THEOREM SelectionSound == Spec => []SelectionIsSound
<1>1. TextInv => SelectionIsSound
  BY Typed, Highlighted DEF SelectionIsSound
<1> QED BY <1>1, TextInvariant, PTL

-----------------------------------------------------------------------------
(* Searching for what is on the screen. *)

LEMMA RowTextFacts ==
    ASSUME NEW line \in Written
    PROVE  /\ RowText(line) \in Seq(Chars) /\ Len(RowText(line)) = Cols
           /\ \A c \in Col : ~IsSpacer(line[c]) => RowText(line)[c] = Shown(line[c])
<1> DEFINE X(c) == IF IsSpacer(line[c]) THEN "space" ELSE Shown(line[c])
<1>1. Cols \in Nat /\ Col = 1..Cols /\ line \in [Col -> Chars] /\ "space" \in Chars
  BY LineTypes, TextAssumption DEF Col
<1>2. \A c \in Col : X(c) \in Chars
  <2>1. \A c \in Col : line[c] \in Chars
    BY <1>1
  <2> QED BY <1>1, <2>1 DEF Shown
<1>3. RowText(line) = [c \in Col |-> X(c)]
  BY DEF RowText
<1>4. \A c \in Col : ~IsSpacer(line[c]) => X(c) = Shown(line[c])
  OBVIOUS
<1> HIDE DEF X
<1>5. RowText(line) \in Seq(Chars) /\ Len(RowText(line)) = Cols
  BY <1>1, <1>2, <1>3
<1> QED BY <1>3, <1>4, <1>5

(* A text that stands in a row of the scrollback is found there.           *)
LEMMA Found ==
    ASSUME BufferInv, NEW text \in Seq(Chars), text # <<>>, NEW row \in 1..Len(buffer), NEW c \in Col,
           c + Len(text) - 1 <= Cols,
           \A i \in 1..Len(text) : text[i] = RowText(buffer[row])[c + i - 1]
    PROVE  Contains(Occurrences(text), [row |-> row, col |-> c, len |-> Len(text)])
<1> DEFINE m == [row |-> row, col |-> c, len |-> Len(text)]
           cut == SubSeq(RowText(buffer[row]), c, c + Len(text) - 1)
<1>1. buffer[row] \in Written /\ Cols \in Nat /\ c \in 1..Cols /\ Len(text) \in Nat
  BY TextAssumption DEF BufferInv, Col
<1>2. RowText(buffer[row]) \in Seq(Chars) /\ Len(RowText(buffer[row])) = Cols
  BY <1>1, RowTextFacts
<1>3. cut = text
  <2> DEFINE s == RowText(buffer[row])
             n == Len(text)
  <2>1. /\ s \in Seq(Chars) /\ Len(s) = Cols /\ n \in Nat /\ c \in 1..Cols /\ c + n - 1 <= Cols
        /\ \A i \in 1..n : text[i] = s[c + i - 1]
    BY <1>1, <1>2
  <2> HIDE DEF s
  <2>2. cut \in Seq(Chars) /\ Len(cut) = n /\ \A i \in 1..n : cut[i] = s[c + i - 1]
    <3>1. cut = SubSeq(s, c, c + n - 1)
      BY DEF s
    <3>2. n # 0
      OBVIOUS
    <3> HIDE DEF cut, n
    <3> QED BY <2>1, <3>1, <3>2
  <2> HIDE DEF cut
  <2> QED BY <2>1, <2>2
<1>4. m.row = row /\ m.col = c /\ m.len = Len(text)
  OBVIOUS
<1> HIDE DEF m, cut
<1>5. IsMatch(m, text)
  <2>1. SubSeq(RowText(buffer[m.row]), m.col, m.col + m.len - 1) = text
    BY <1>3, <1>4 DEF cut
  <2> QED BY <1>4, <2>1 DEF IsMatch
<1> QED BY <1>5, OccurrencesFacts DEF m

LEMMA LinkFound ==
    ASSUME BufferInv, NEW row \in Row, NEW c \in Col, getLinkAt(row, c) # <<>>
    PROVE  Contains(Occurrences(getLinkAt(row, c)),
                    [row |-> offset + row, len |-> Len(getLinkAt(row, c)),
                     col |-> LinkLeft(RowText(Viewport(row)), c)])
<1> DEFINE text == RowText(Viewport(row))
           l == LinkLeft(text, c)
           r == LinkRight(text, c)
           part == SubSeq(text, l, r)
           Stays(ch) == ch \notin {"dot", "paren"}
           I == {i \in 1..Len(part) : Stays(part[i])}
           k == SelectLastInSeq(part, Stays)
           link == getLinkAt(row, c)
<1>1. /\ Viewport(row) \in Written /\ offset + row \in 1..Len(buffer) /\ Cols \in Nat /\ c \in 1..Cols
      /\ Viewport(row) = buffer[offset + row]
  BY ViewportTypes, TextAssumption DEF Col, Viewport
<1>2. text \in Seq(Chars) /\ Len(text) = Cols
  BY <1>1, RowTextFacts
<1>3. ~IsUrlDelimiter(text[c]) /\ link = SubSeq(part, 1, k)
  BY DEF getLinkAt, TrimUrlToken
<1> HIDE DEF text
<1>4. l \in 1..c
  <2> DEFINE S == {x \in 1..c : \A y \in x..c : ~IsUrlDelimiter(text[y])}
  <2>1. c \in S
    <3>1. c \in 1..c /\ \A y \in c..c : y = c
      BY <1>1
    <3> QED BY <1>3, <3>1
  <2>2. S \in SUBSET Nat
    OBVIOUS
  <2>3. l = Min(S)
    BY DEF LinkLeft
  <2>4. S \subseteq 1..c
    OBVIOUS
  <2> HIDE DEF S, l
  <2> QED BY <2>1, <2>2, <2>3, <2>4, MinFacts
<1>5. r \in c..Cols
  <2> DEFINE S == {x \in c..Cols : \A y \in c..x : ~IsUrlDelimiter(text[y])}
  <2>1. c \in S
    <3>1. c \in c..Cols /\ \A y \in c..c : y = c
      BY <1>1
    <3> QED BY <1>3, <3>1
  <2>2. S \in SUBSET (0..Cols)
    BY <1>1
  <2>3. r = Max(S)
    BY DEF LinkRight
  <2>4. S \subseteq c..Cols
    OBVIOUS
  <2> HIDE DEF S, r
  <2> QED BY <1>1, <2>1, <2>2, <2>3, <2>4, MaxFacts
<1> HIDE DEF l, r
<1>6. /\ part \in Seq(Chars) /\ Len(part) = r - l + 1
      /\ \A i \in 1..(r - l + 1) : part[i] = text[l + i - 1]
  BY <1>1, <1>2, <1>4, <1>5
<1>7. k \in 0..Len(part)
  <2>1. k = IF I # {} THEN Max(I) ELSE 0
    BY DEF SelectLastInSeq
  <2>2. I \in SUBSET (0..Len(part)) /\ Len(part) \in Nat
    <3> HIDE DEF part
    <3> QED BY <1>6
  <2>3. CASE I = {}
    <3> HIDE DEF k, I, part
    <3> QED BY <2>1, <2>2, <2>3
  <2>4. CASE I # {}
    <3> HIDE DEF k, I, part
    <3>1. Max(I) \in I
      BY <2>2, <2>4, MaxFacts
    <3> QED BY <2>1, <2>2, <2>4, <3>1
  <2> QED BY <2>3, <2>4
<1> HIDE DEF k, part, link
<1>8. /\ link \in Seq(Chars) /\ Len(link) = k /\ \A i \in 1..k : link[i] = part[i]
  BY <1>3, <1>6, <1>7
<1>9. link # <<>>
  BY DEF link
<1>10. l \in Col /\ l + Len(link) - 1 <= Cols /\ k \in Nat
  BY <1>1, <1>4, <1>5, <1>6, <1>7, <1>8 DEF Col
<1>11. ASSUME NEW i \in 1..Len(link) PROVE link[i] = RowText(buffer[offset + row])[l + i - 1]
  <2>1. i \in 1..k /\ i \in 1..(r - l + 1)
    BY <1>4, <1>5, <1>6, <1>7, <1>8
  <2> QED BY <1>1, <1>6, <1>8, <2>1 DEF text
<1>12. Contains(Occurrences(link), [row |-> offset + row, col |-> l, len |-> Len(link)])
  BY <1>1, <1>8, <1>9, <1>10, <1>11, Found
<1> QED BY <1>12 DEF link, l, text

(* Nothing before the first piece that is not empty.                       *)
LEMMA JoinsBefore ==
    ASSUME NEW T, NEW pieces \in Seq(Seq(T)), NEW f, Joins(f, T, pieces),
           NEW k \in 0..Len(pieces),
           \A n \in 1..k : pieces[n] = <<>>
    PROVE  f[k] = <<>>
<1>1. f[0] = <<>> /\ k \in Nat /\ k <= Len(pieces) /\ Len(pieces) \in Nat
  BY DEF Joins
<1> DEFINE G == {n \in 0..k : f[n] = <<>>}
<1>2. 0 \in G
  BY <1>1
<1>3. ASSUME NEW n \in 1..k, n - 1 \in G PROVE n \in G
  <2>1. n \in 1..Len(pieces) /\ n \in 0..k
    BY <1>1
  <2>2. f[n] = f[n - 1] \o pieces[n] /\ pieces[n] = <<>> /\ f[n - 1] = <<>>
    BY <1>3, <2>1 DEF Joins
  <2>3. <<>> \o <<>> = <<>>
    OBVIOUS
  <2> QED BY <2>1, <2>2, <2>3
<1>4. k \in G
  <2>1. k \in 0..k
    BY <1>1
  <2> HIDE DEF G
  <2> QED BY <1>1, <1>2, <1>3, <2>1, UpTo
<1> QED BY <1>4

LEMMA EmptyConcat ==
    ASSUME NEW T, NEW s \in Seq(T)
    PROVE  s \o <<>> = s /\ <<>> \o s = s
  OBVIOUS

(* The copy of a selection in one row.                                     *)
LEMMA OneRow ==
    ASSUME TextInv, sel.on, NEW row \in Row, offset + row = Bounds(sel).startRow,
           Bounds(sel).startRow = Bounds(sel).endRow
    PROVE  getSelectedText
             = Glyphs(SubSeq(Viewport(row), CopyFrom(Bounds(sel), row), CopyTo(Bounds(sel), row)))
<1> DEFINE text == Glyphs(SubSeq(Viewport(row), CopyFrom(Bounds(sel), row), CopyTo(Bounds(sel), row)))
<1>1. /\ Rows \in Nat /\ row \in 1..Rows /\ offset \in Int /\ Row = 1..Rows
      /\ Bounds(sel).startRow \in Int
  BY TextAssumption, BoundsFacts DEF Row, TextInv, BufferInv
<1>2. CopiedPieces \in Seq(Seq(Chars)) /\ Len(CopiedPieces) = Rows
  BY CopiedPiecesType
<1>3. PICK f : Joins(f, Chars, CopiedPieces)
  BY <1>2, FlattenFunction
<1>4. \A k \in Row : k # row => CopiedPieces[k] = <<>>
  <2>1. TAKE k \in Row
  <2>2. HAVE k # row
  <2>3. k \notin Copied(Bounds(sel))
    BY <1>1, <2>2 DEF Copied
  <2> QED BY <2>3 DEF CopiedPieces
<1>5. text \in Seq(Chars)
  BY CopyBounds
<1>6. CopiedPieces[row] = text
  <2>1. row \in Copied(Bounds(sel)) /\ ~(offset + row < Bounds(sel).endRow)
    BY <1>1 DEF Copied
  <2>2. CopiedPieces[row] = CopiedPiece(row)
    BY <2>1 DEF CopiedPieces
  <2>3. CopiedPiece(row) = text \o <<>>
    BY <2>1 DEF CopiedPiece
  <2> HIDE DEF text
  <2> QED BY <1>5, <2>2, <2>3, EmptyConcat
<1> HIDE DEF text
<1>7. f[row - 1] = <<>>
  <2>1. row - 1 \in 0..Len(CopiedPieces) /\ \A n \in 1..(row - 1) : n \in Row /\ n # row
    BY <1>1, <1>2
  <2> QED BY <1>2, <1>3, <1>4, <2>1, JoinsBefore
<1>8. f[row] = text
  <2>1. f[row] = f[row - 1] \o CopiedPieces[row]
    BY <1>1, <1>2, <1>3 DEF Joins
  <2> QED BY <1>5, <1>6, <1>7, <2>1, EmptyConcat
<1>9. FlattenSeq(CopiedPieces) = f[row]
  <2>1. row \in 0..Len(CopiedPieces)
        /\ \A n \in (row + 1)..Len(CopiedPieces) : n \in Row /\ n # row
    BY <1>1, <1>2
  <2> QED BY <1>2, <1>3, <1>4, <2>1, JoinsAfter
<1> QED BY <1>8, <1>9, SelectedText DEF text

LEMMA SelectionFound ==
    ASSUME TextInv, sel.on, NEW row \in Row, offset + row = Bounds(sel).startRow,
           Bounds(sel).startRow = Bounds(sel).endRow, getSelectedText # <<>>,
           \A c \in Col : ~IsSpacer(Viewport(row)[c])
    PROVE  Contains(Occurrences(getSelectedText),
                    [row |-> Bounds(sel).startRow, col |-> Bounds(sel).startCol,
                     len |-> Len(getSelectedText)])
<1> DEFINE b == Bounds(sel)
           line == Viewport(row)
           from == CopyFrom(b, row)
           to == CopyTo(b, row)
           cells == SubSeq(line, from, to)
           text == getSelectedText
<1>1. text = Glyphs(cells)
  BY OneRow
<1>2. /\ line \in Written /\ from \in Col /\ to \in 0..Cols /\ Cols \in Nat /\ Col = 1..Cols
  BY CopyBounds, TextAssumption DEF Col
<1>3. offset + row \in 1..Len(buffer) /\ line = buffer[offset + row] /\ BufferInv
  BY ViewportTypes DEF Viewport, TextInv
<1>4. from = b.startCol
  BY DEF CopyFrom
<1> HIDE DEF from, to, line
<1>5. /\ cells \in Seq(Chars)
      /\ Len(cells) = IF from <= to THEN to - from + 1 ELSE 0
      /\ \A i \in 1..(to - from + 1) : cells[i] = line[from + i - 1]
  BY <1>2, CutFacts
<1> HIDE DEF cells
<1>6. \A i \in 1..Len(cells) : /\ from <= to /\ i \in 1..(to - from + 1)
                               /\ from + i - 1 \in Col /\ cells[i] = line[from + i - 1]
  BY <1>2, <1>5
<1>7. \A i \in 1..Len(cells) : ~IsSpacer(cells[i])
  BY <1>6 DEF line
<1>8. /\ Len(text) = Len(cells)
      /\ \A i \in 1..Len(cells) : text[i] = Shown(cells[i])
  BY <1>1, <1>5, <1>7, GlyphsPlain
<1>9. text \in Seq(Chars)
  BY SelectedText
<1> HIDE DEF text, b
<1>10. text # <<>>
  BY DEF text
<1>11. from + Len(text) - 1 <= Cols
  <2>1. Len(cells) # 0
    BY <1>8, <1>9, <1>10
  <2> QED BY <1>2, <1>5, <1>8, <2>1
<1>12. ASSUME NEW i \in 1..Len(text) PROVE text[i] = RowText(buffer[offset + row])[from + i - 1]
  <2>1. from + i - 1 \in Col /\ cells[i] = line[from + i - 1] /\ text[i] = Shown(cells[i])
        /\ ~IsSpacer(cells[i])
    BY <1>6, <1>7, <1>8
  <2> QED BY <1>2, <1>3, <2>1, RowTextFacts
<1>13. Contains(Occurrences(text), [row |-> offset + row, col |-> from, len |-> Len(text)])
  BY <1>2, <1>3, <1>9, <1>10, <1>11, <1>12, Found
<1> QED BY <1>4, <1>13 DEF text, b

(* Searching for the link under the pointer, or for a selection of one row *)
(* without wide glyphs, finds it where it stands (getLinkAt(),             *)
(* getSelectedText() and rebuildSearchMatchesLocked() read one text).      *)
THEOREM SearchFinds == Spec => []SearchFindsItself
<1>1. ASSUME TextInv PROVE SearchFindsItself
  <2>1. BufferInv
    BY <1>1 DEF TextInv
  <2>2. ASSUME NEW row \in Row, NEW c \in Col, getLinkAt(row, c) # <<>>
        PROVE  Contains(Occurrences(getLinkAt(row, c)),
                        [row |-> offset + row, len |-> Len(getLinkAt(row, c)),
                         col |-> LinkLeft(RowText(Viewport(row)), c)])
    BY <2>1, <2>2, LinkFound
  <2> DEFINE b == Bounds(sel)
             row == b.startRow - offset
  <2>3. ASSUME sel.on, b.startRow = b.endRow, row \in Row, getSelectedText # <<>>,
               \A c \in Col : ~IsSpacer(Viewport(row)[c])
        PROVE  Contains(Occurrences(getSelectedText),
                        [row |-> b.startRow, col |-> b.startCol, len |-> Len(getSelectedText)])
    <3>1. offset + row = Bounds(sel).startRow
      <4>1. offset \in Int /\ b.startRow \in Int
        BY <1>1, BoundsFacts DEF TextInv, BufferInv
      <4> QED BY <4>1
    <3> HIDE DEF row
    <3> QED BY <1>1, <2>3, <3>1, SelectionFound DEF b
  <2> QED BY <2>2, <2>3 DEF SearchFindsItself
<1> QED BY <1>1, TextInvariant, PTL

-----------------------------------------------------------------------------
(* A copy of the whole viewport. *)

(* t is s and then line ends.                                              *)
Follows(t, s) ==
    /\ Len(s) <= Len(t)
    /\ \A i \in 1..Len(s) : t[i] = s[i]
    /\ \A i \in (Len(s) + 1)..Len(t) : t[i] = "newline"

LineEnds == {<<>>, <<"newline">>}

LEMMA FollowsItself ==
    ASSUME NEW s \in Seq(Chars) PROVE Follows(s, s)
  BY DEF Follows

LEMMA FollowsMore ==
    ASSUME NEW s \in Seq(Chars), NEW t \in Seq(Chars), Follows(t, s), NEW e \in LineEnds
    PROVE  Follows(t \o e, s)
<1>1. Len(s) \in Nat /\ Len(t) \in Nat
  OBVIOUS
<1>2. CASE e = <<>>
  BY <1>2, EmptyConcat
<1>3. CASE e = <<"newline">>
  <2> DEFINE u == t \o e
  <2>1. /\ Len(u) = Len(t) + 1 /\ \A i \in 1..Len(t) : u[i] = t[i]
        /\ u[Len(t) + 1] = "newline"
    BY <1>3, TextAssumption
  <2> HIDE DEF u
  <2>2. \A i \in (Len(s) + 1)..Len(u) : u[i] = "newline"
    <3>1. TAKE i \in (Len(s) + 1)..Len(u)
    <3>2. i = Len(t) + 1 \/ (i \in 1..Len(t) /\ i \in (Len(s) + 1)..Len(t))
      BY <1>1, <2>1
    <3> QED BY <2>1, <3>2 DEF Follows
  <2>3. Len(s) <= Len(u) /\ \A i \in 1..Len(s) : i \in 1..Len(t)
    BY <1>1, <2>1 DEF Follows
  <2>4. Follows(u, s)
    BY <2>1, <2>2, <2>3 DEF Follows
  <2> QED BY <2>4 DEF u
<1> QED BY <1>2, <1>3 DEF LineEnds

LEMMA FollowsPrefix ==
    ASSUME NEW s \in Seq(Chars), NEW t \in Seq(Chars), Follows(t, s)
    PROVE  IsPrefix(s, t)
<1>1. Len(s) \in Nat /\ Len(t) \in Nat /\ Len(s) <= Len(t) /\ \A i \in 1..Len(s) : t[i] = s[i]
  BY DEF Follows
<1>2. SubSeq(s, 1, Len(s)) = SubSeq(t, 1, Len(s))
  BY <1>1
<1> QED BY <1>1, <1>2 DEF IsPrefix

LEMMA ConcatAssoc ==
    ASSUME NEW T, NEW s \in Seq(T), NEW t \in Seq(T), NEW u \in Seq(T)
    PROVE  (s \o t) \o u = s \o (t \o u)
<1> DEFINE l == (s \o t) \o u
           r == s \o (t \o u)
<1>1. /\ l \in Seq(T) /\ r \in Seq(T) /\ Len(s) \in Nat /\ Len(t) \in Nat /\ Len(u) \in Nat
      /\ Len(l) = Len(s) + Len(t) + Len(u) /\ Len(r) = Len(s) + Len(t) + Len(u)
  BY ConcatType
<1>2. ASSUME NEW i \in 1..(Len(s) + Len(t) + Len(u)) PROVE l[i] = r[i]
  OBVIOUS
<1> HIDE DEF l, r
<1>3. l = r
  BY <1>1, <1>2
<1> QED BY <1>3 DEF l, r

(* The pieces of the content of the screen.                                *)
LastRow == Max({0} \cup {row \in Row : LastContent(Viewport(row)) > 0})
ScreenPiece(row) ==
    Trimmed(Viewport(row)) \o (IF row < LastRow THEN <<"newline">> ELSE <<>>)
ScreenPieces == [row \in 1..LastRow |-> ScreenPiece(row)]

LEMMA LastRowFacts ==
    ASSUME TextInv
    PROVE  LastRow \in 0..Rows /\ \A row \in Row : row > LastRow => LastContent(Viewport(row)) = 0
<1> DEFINE S == {0} \cup {row \in Row : LastContent(Viewport(row)) > 0}
<1>1. Rows \in Nat /\ Row = 1..Rows
  BY TextAssumption DEF Row
<1>2. S \in SUBSET (0..Rows) /\ S # {}
  BY <1>1
<1>3. LastRow = Max(S)
  BY DEF LastRow
<1>4. \A row \in Row : LastContent(Viewport(row)) \in Nat
  BY ViewportTypes, ContentFacts, TextAssumption DEF TextInv
<1>5. \A row \in Row : LastContent(Viewport(row)) > 0 => row \in S
  OBVIOUS
<1> HIDE DEF S
<1>6. LastRow \in S /\ \A x \in S : x <= LastRow
  BY <1>1, <1>2, <1>3, MaxFacts
<1>7. LastRow \in 0..Rows
  BY <1>2, <1>6
<1>8. ASSUME NEW row \in Row, row > LastRow PROVE LastContent(Viewport(row)) = 0
  <2>1. row \notin S
    BY <1>1, <1>6, <1>7, <1>8
  <2> QED BY <1>4, <1>5, <2>1
<1> QED BY <1>7, <1>8

LEMMA TrimmedType ==
    ASSUME TextInv, NEW row \in Row
    PROVE  /\ Trimmed(Viewport(row)) \in Seq(Chars)
           /\ LastContent(Viewport(row)) = 0 => Trimmed(Viewport(row)) = <<>>
<1> DEFINE line == Viewport(row)
           last == LastContent(line)
<1>1. /\ line \in Written /\ last \in 0..Cols /\ Cols \in Nat /\ 1 \in Col
  BY ViewportTypes, ContentFacts, TextAssumption DEF TextInv, Col
<1>2. Trimmed(line) = Glyphs(SubSeq(line, 1, last))
  BY <1>1, TrimmedIsCut
<1> HIDE DEF line, last
<1>3. SubSeq(line, 1, last) \in Seq(Chars) /\ (last = 0 => Len(SubSeq(line, 1, last)) = 0)
  BY <1>1, CutFacts
<1>4. Trimmed(line) \in Seq(Chars)
  BY <1>2, <1>3, GlyphsType
<1>5. ASSUME last = 0 PROVE Trimmed(line) = <<>>
  <2> DEFINE none == SubSeq(line, 1, last)
  <2>1. none \in Seq(Chars) /\ Len(none) = 0
    BY <1>3, <1>5
  <2>2. \A i \in 1..Len(none) : FALSE
    BY <2>1
  <2> HIDE DEF none
  <2>3. Len(Glyphs(none)) = 0 /\ Glyphs(none) \in Seq(Chars)
    BY <2>1, <2>2, GlyphsPlain, GlyphsType
  <2>4. Glyphs(none) = <<>>
    BY <2>3
  <2> QED BY <1>2, <2>4 DEF none
<1> QED BY <1>4, <1>5 DEF line, last

LEMMA LineEndType == \A e \in LineEnds : e \in Seq(Chars)
<1>1. <<>> \in Seq(Chars) /\ <<"newline">> \in Seq(Chars)
  BY TextAssumption
<1> QED BY <1>1 DEF LineEnds

LEMMA ScreenPiecesType ==
    ASSUME TextInv
    PROVE  /\ ScreenPieces \in Seq(Seq(Chars)) /\ Len(ScreenPieces) = LastRow
           /\ getScreenContent = FlattenSeq(ScreenPieces)
<1>1. Rows \in Nat /\ Row = 1..Rows /\ LastRow \in 0..Rows
  BY TextAssumption, LastRowFacts DEF Row
<1>2. ASSUME NEW row \in 1..LastRow PROVE ScreenPiece(row) \in Seq(Chars)
  <2> DEFINE e == IF row < LastRow THEN <<"newline">> ELSE <<>>
  <2>1. e \in Seq(Chars)
    BY LineEndType DEF LineEnds
  <2>2. row \in Row
    BY <1>1
  <2>3. ScreenPiece(row) = Trimmed(Viewport(row)) \o e
    BY DEF ScreenPiece
  <2> HIDE DEF e
  <2> QED BY <2>1, <2>2, <2>3, TrimmedType, ConcatType
<1> DEFINE X == Seq(Chars)
<1>3. \A row \in 1..LastRow : ScreenPiece(row) \in X
  BY <1>2
<1> HIDE DEF X
<1>4. ScreenPieces \in Seq(X) /\ Len(ScreenPieces) = LastRow
  BY <1>1, <1>3 DEF ScreenPieces
<1>5. getScreenContent = FlattenSeq(ScreenPieces)
  BY DEF getScreenContent, ScreenPieces, ScreenPiece, LastRow
<1> QED BY <1>4, <1>5 DEF X

(* What a selection over the whole viewport takes of a row.                *)
CoversViewport ==
    /\ sel.on
    /\ IsSelectionBefore(Bounds(sel).startRow, Bounds(sel).startCol, offset + 1, 1)
    /\ IsSelectionBefore(offset + Rows, Cols, Bounds(sel).endRow, Bounds(sel).endCol)

LEMMA WholeRow ==
    ASSUME TextInv, CoversViewport, NEW row \in Row
    PROVE  \E e \in LineEnds :
              /\ CopiedPieces[row] = Trimmed(Viewport(row)) \o e
              /\ row < Rows => e = <<"newline">>
<1> DEFINE b == Bounds(sel)
           line == Viewport(row)
           last == LastContent(line)
           e == IF offset + row < b.endRow THEN <<"newline">> ELSE <<>>
<1>1. /\ Rows \in Nat /\ Cols \in Nat \ {0} /\ row \in 1..Rows /\ Col = 1..Cols /\ offset \in Int
  BY TextAssumption DEF Row, Col, TextInv, BufferInv
<1>2. /\ b.startRow \in Int /\ b.endRow \in Int /\ b.startCol \in 1..Cols /\ b.endCol \in 1..Cols
  BY <1>1, BoundsFacts
<1>3. /\ b.startRow < offset + 1 \/ (b.startRow = offset + 1 /\ b.startCol <= 1)
      /\ offset + Rows < b.endRow \/ (offset + Rows = b.endRow /\ Cols <= b.endCol)
  BY DEF CoversViewport, IsSelectionBefore
<1>4. last \in 0..Cols /\ line \in Written
  BY ViewportTypes, ContentFacts DEF TextInv
<1>5. CopyFrom(b, row) = IF offset + row = b.startRow THEN b.startCol ELSE 1
  BY DEF CopyFrom
<1>6. CopyTo(b, row) = IF offset + row = b.endRow THEN Lower(last, b.endCol) ELSE last
  BY DEF CopyTo
<1>7. row \in Copied(b) <=> b.startRow <= offset + row /\ offset + row <= b.endRow
  BY DEF Copied
<1>8. CopiedPiece(row) = Glyphs(SubSeq(line, CopyFrom(b, row), CopyTo(b, row))) \o e
  BY DEF CopiedPiece
<1> HIDE DEF b, last, line
<1>9. CopyFrom(b, row) = 1
  BY <1>1, <1>2, <1>3, <1>5
<1>10. CopyTo(b, row) = last
  BY <1>1, <1>2, <1>3, <1>4, <1>6 DEF Lower
<1>11. row \in Copied(b)
  BY <1>1, <1>2, <1>3, <1>7
<1>12. row < Rows => e = <<"newline">>
  BY <1>1, <1>2, <1>3
<1>13. e \in LineEnds
  BY DEF LineEnds
<1> HIDE DEF e
<1>14. CopiedPieces[row] = Glyphs(SubSeq(line, 1, last)) \o e
  BY <1>8, <1>9, <1>10, <1>11 DEF CopiedPieces, b
<1>15. Trimmed(line) = Glyphs(SubSeq(line, 1, last))
  BY <1>4, TrimmedIsCut DEF last
<1> QED BY <1>12, <1>13, <1>14, <1>15 DEF line

LEMMA WholeScreen ==
    ASSUME TextInv, CoversViewport
    PROVE  Follows(getSelectedText, getScreenContent)
<1> DEFINE content == getScreenContent
           last == LastRow
           end(row) == CHOOSE e \in LineEnds :
                          /\ CopiedPieces[row] = Trimmed(Viewport(row)) \o e
                          /\ row < Rows => e = <<"newline">>
<1>1. /\ Rows \in Nat /\ Row = 1..Rows /\ last \in 0..Rows
      /\ \A row \in Row : row > last => Trimmed(Viewport(row)) = <<>>
      /\ \A row \in Row : Trimmed(Viewport(row)) \in Seq(Chars)
  BY TextAssumption, LastRowFacts, TrimmedType DEF Row
<1>2. \A row \in Row : /\ end(row) \in LineEnds
                       /\ CopiedPieces[row] = Trimmed(Viewport(row)) \o end(row)
                       /\ row < Rows => end(row) = <<"newline">>
  BY WholeRow
<1>3. PICK f : Joins(f, Chars, CopiedPieces)
  BY CopiedPiecesType, FlattenFunction
<1>4. PICK g : Joins(g, Chars, ScreenPieces)
  BY ScreenPiecesType, FlattenFunction
<1>5. /\ f \in [0..Rows -> Seq(Chars)] /\ f[0] = <<>>
      /\ \A n \in Row : f[n] = f[n - 1] \o CopiedPieces[n]
      /\ getSelectedText = f[Rows]
  BY <1>1, <1>3, CopiedPiecesType, SelectedText DEF Joins, CoversViewport
<1>6. /\ g \in [0..last -> Seq(Chars)] /\ g[0] = <<>>
      /\ \A n \in 1..last : g[n] = g[n - 1] \o ScreenPieces[n]
      /\ content = g[last]
  BY <1>4, ScreenPiecesType DEF Joins
<1>7. \A n \in 1..last : ScreenPieces[n] = Trimmed(Viewport(n)) \o (IF n < last THEN <<"newline">> ELSE <<>>)
  BY DEF ScreenPieces, ScreenPiece
<1> HIDE DEF end, content, last
<1> DEFINE G == {n \in 0..last : n < last => f[n] = g[n]}
<1>8. 0 \in G
  BY <1>1, <1>5, <1>6
<1>9. ASSUME NEW n \in 1..last, n - 1 \in G PROVE n \in G
  <2>1. n \in 0..last /\ n - 1 < last /\ n \in Row
    BY <1>1
  <2>2. CASE n < last
    <3>1. n < Rows
      BY <1>1, <2>2
    <3>2. CopiedPieces[n] = ScreenPieces[n]
      BY <1>2, <1>7, <2>1, <2>2, <3>1
    <3>3. f[n - 1] = g[n - 1]
      BY <1>9, <2>1
    <3>4. f[n] = g[n]
      BY <1>5, <1>6, <2>1, <3>2, <3>3
    <3> QED BY <2>1, <3>4
  <2> QED BY <2>1, <2>2
<1>10. 0..last \subseteq G
  <2>1. last \in Nat
    BY <1>1
  <2> HIDE DEF G
  <2> QED BY <1>8, <1>9, <2>1, UpTo
<1>11. content \in Seq(Chars)
  <2>1. last \in 0..last
    BY <1>1
  <2> QED BY <1>6, <2>1
<1>12. Follows(f[last], content)
  <2>1. CASE last = 0
    <3>1. content = <<>> /\ f[last] = <<>>
      BY <1>5, <1>6, <2>1
    <3> QED BY <1>11, <3>1, FollowsItself
  <2>2. CASE last # 0
    <3>1. last \in 1..last /\ last \in Row /\ last - 1 \in 0..last /\ last - 1 < last /\ ~(last < last)
      BY <1>1, <2>2
    <3> DEFINE t == Trimmed(Viewport(last))
    <3>2. f[last - 1] = g[last - 1]
      BY <1>10, <3>1
    <3>3. g[last] = g[last - 1] \o (t \o <<>>)
      BY <1>6, <1>7, <3>1
    <3>4. f[last] = g[last - 1] \o (t \o end(last))
      BY <1>2, <1>5, <3>1, <3>2
    <3>5. t \in Seq(Chars) /\ g[last - 1] \in Seq(Chars) /\ end(last) \in LineEnds /\ end(last) \in Seq(Chars)
      BY <1>1, <1>2, <1>6, <3>1, LineEndType
    <3> HIDE DEF t
    <3>6. content = g[last - 1] \o t
      BY <1>6, <3>3, <3>5, EmptyConcat
    <3>7. f[last] = content \o end(last)
      <4> DEFINE before == g[last - 1]
                 e == end(last)
      <4>1. before \in Seq(Chars) /\ t \in Seq(Chars) /\ e \in Seq(Chars)
        BY <3>5
      <4>2. f[last] = before \o (t \o e) /\ content = before \o t
        BY <3>4, <3>6
      <4> HIDE DEF before, e
      <4>3. (before \o t) \o e = before \o (t \o e)
        BY <4>1, ConcatAssoc
      <4>4. f[last] = content \o e
        BY <4>2, <4>3
      <4> QED BY <4>4 DEF e
    <3> QED BY <1>11, <3>5, <3>7, FollowsItself, FollowsMore
  <2> QED BY <2>1, <2>2
<1> DEFINE H == {n \in 0..Rows : n < last \/ Follows(f[n], content)}
<1>13. 0 \in H
  <2>1. 0 < last \/ last = 0
    BY <1>1
  <2>2. 0 \in 0..Rows
    BY <1>1
  <2> QED BY <1>12, <2>1, <2>2
<1>14. ASSUME NEW n \in 1..Rows, n - 1 \in H PROVE n \in H
  <2>1. n \in 0..Rows /\ n - 1 \in 0..Rows /\ n \in Row
    BY <1>1
  <2>2. CASE n < last
    BY <2>1, <2>2
  <2>3. CASE n = last
    BY <1>12, <2>1, <2>3
  <2>4. CASE n > last
    <3>1. ~(n - 1 < last)
      BY <1>1, <2>4
    <3>2. Follows(f[n - 1], content)
      BY <1>14, <3>1
    <3>3. f[n] = f[n - 1] \o (<<>> \o end(n))
      BY <1>1, <1>2, <1>5, <2>1, <2>4
    <3>4. end(n) \in LineEnds /\ end(n) \in Seq(Chars) /\ f[n - 1] \in Seq(Chars)
      BY <1>2, <1>5, <2>1, LineEndType
    <3>5. f[n] = f[n - 1] \o end(n)
      BY <3>3, <3>4, EmptyConcat
    <3>6. Follows(f[n], content)
      BY <1>11, <3>2, <3>4, <3>5, FollowsMore
    <3> QED BY <2>1, <3>6
  <2> QED BY <1>1, <2>1, <2>2, <2>3, <2>4
<1>15. Rows \in H
  <2>1. Rows \in 0..Rows
    BY <1>1
  <2> HIDE DEF H
  <2> QED BY <1>1, <1>13, <1>14, <2>1, UpTo
<1>16. ~(Rows < last)
  BY <1>1
<1>17. Follows(f[Rows], content)
  BY <1>15, <1>16
<1> QED BY <1>5, <1>17 DEF content

(* A selection over the whole viewport copies what the screen's content    *)
(* is, line ends at its end apart (getSelectedText(), getScreenContent()). *)
THEOREM WholeScreenCopied == Spec => []WholeScreenIsCopied
<1>1. ASSUME TextInv PROVE WholeScreenIsCopied
  <2>1. SUFFICES ASSUME CoversViewport
                 PROVE  /\ IsPrefix(getScreenContent, getSelectedText)
                        /\ \A i \in (Len(getScreenContent) + 1)..Len(getSelectedText) :
                              getSelectedText[i] = "newline"
    BY DEF WholeScreenIsCopied, CoversViewport
  <2>2. Follows(getSelectedText, getScreenContent)
    BY <1>1, <2>1, WholeScreen
  <2>3. getSelectedText \in Seq(Chars)
    BY <1>1, SelectedText
  <2>4. getScreenContent \in Seq(Chars)
    <3>1. PICK g : Joins(g, Chars, ScreenPieces)
      BY <1>1, ScreenPiecesType, FlattenFunction
    <3>2. LastRow \in 0..LastRow
      BY <1>1, LastRowFacts, TextAssumption
    <3> QED BY <1>1, <3>1, <3>2, ScreenPiecesType DEF Joins
  <2>5. IsPrefix(getScreenContent, getSelectedText)
    BY <2>2, <2>3, <2>4, FollowsPrefix
  <2> QED BY <2>2, <2>5 DEF Follows
<1> QED BY <1>1, TextInvariant, PTL

-----------------------------------------------------------------------------
(* A search shows the match it selects. *)

(* The first match that covers the last cell of a match is that match: an  *)
(* earlier one in its row begins further left and is as long.              *)
LEMMA FirstIsSelected ==
    ASSUME NEW matches \in Seq(Match), NEW rows, InOrder(matches, rows),
           NEW k \in 1..Len(matches), NEW row, NEW c,
           row = matches[k].row, c = matches[k].col + matches[k].len - 1,
           NEW I,
           \A i : i \in I <=> /\ i \in 1..Len(matches)
                               /\ matches[i].row = row /\ matches[i].col <= c
                               /\ c < matches[i].col + matches[i].len
    PROVE  (IF I # {} THEN Min(I) ELSE 0) = k
<1>1. \A i \in 1..Len(matches) : /\ matches[i].row \in Nat \ {0} /\ matches[i].col \in Nat
                                 /\ matches[i].len \in Nat \ {0}
  <2>1. TAKE i \in 1..Len(matches)
  <2>2. matches[i] \in Match
    OBVIOUS
  <2>3. matches[i].col \in Col /\ matches[i].row \in Nat \ {0} /\ matches[i].len \in Nat \ {0}
    BY <2>2 DEF Match
  <2>4. Col \subseteq Nat
    BY TextAssumption DEF Col
  <2> QED BY <2>3, <2>4
<1>2. k \in I
  <2>1. matches[k].col <= c /\ c < matches[k].col + matches[k].len
    <3> DEFINE a == matches[k].col
               b == matches[k].len
    <3>1. a \in Nat /\ b \in Nat \ {0} /\ c = a + b - 1
      BY <1>1
    <3> HIDE DEF a, b
    <3>2. a <= c /\ c < a + b
      BY <3>1
    <3> QED BY <3>2 DEF a, b
  <2> QED BY <2>1
<1>3. ASSUME NEW i \in I PROVE k <= i
  <2>1. i \in 1..Len(matches) /\ matches[i].row = row /\ c < matches[i].col + matches[i].len
    OBVIOUS
  <2>2. SUFFICES ASSUME i < k PROVE FALSE
    BY <2>1
  <2>3. Precedes(matches[i], matches[k]) /\ matches[i].len = matches[k].len
    BY <2>1, <2>2 DEF InOrder
  <2>4. matches[i].col < matches[k].col
    BY <1>1, <2>1, <2>3 DEF Precedes
  <2>5. /\ matches[i].col \in Nat /\ matches[k].col \in Nat /\ matches[k].len \in Nat
    BY <1>1, <2>1
  <2>6. matches[k].col + matches[k].len - 1 < matches[i].col + matches[k].len
    BY <2>1, <2>3
  <2> DEFINE a == matches[i].col
             b == matches[k].col
             l == matches[k].len
  <2> HIDE DEF a, b, l
  <2>7. a < b /\ a \in Nat /\ b \in Nat /\ l \in Nat /\ b + l - 1 < a + l
    BY <2>4, <2>5, <2>6 DEF a, b, l
  <2> QED BY <2>7
<1>4. I \in SUBSET Nat /\ I \subseteq 1..Len(matches)
  OBVIOUS
<1>5. Min(I) \in I /\ \A i \in I : Min(I) <= i
  <2> HIDE DEF Precedes
  <2> QED BY <1>2, <1>4, MinFacts
<1>6. Min(I) = k
  <2>1. Min(I) <= k /\ k <= Min(I) /\ Min(I) \in 1..Len(matches)
    BY <1>2, <1>3, <1>4, <1>5
  <2> QED BY <2>1
<1> QED BY <1>2, <1>6

(* A match in the viewport has its last cell there, painted as the current *)
(* one under the selection.                                                *)
LEMMA CurrentPainted ==
    ASSUME SearchInv', offset' \in Nat, search'.selected > 0,
           InViewport(search'.matches[search'.selected].row, offset')
    PROVE  MatchOnScreen'
<1> DEFINE matches == search'.matches
           k == search'.selected
           m == matches[k]
           row == m.row - offset'
           c == m.col + m.len - 1
           Covering(r, d) == {i \in 1..Len(matches) : /\ matches[i].row = r /\ matches[i].col <= d
                                                      /\ d < matches[i].col + matches[i].len}
           First(r, d) == IF Covering(r, d) # {} THEN Min(Covering(r, d)) ELSE 0
<1>1. /\ matches \in Seq(Match) /\ k \in 1..Len(matches) /\ search'.active
      /\ InOrder(matches, Len(buffer'))
  BY DEF SearchInv
<1>2. m \in Match
  BY <1>1
<1>3. /\ m.row \in Nat /\ m.col \in 1..Cols /\ m.len \in Nat \ {0} /\ Cols \in Nat
      /\ m.col + m.len - 1 <= Cols
  BY <1>1, <1>2, TextAssumption DEF Match, Col, InOrder
<1>4. row \in Row /\ c \in Col /\ offset' + row = m.row
  <2>1. offset' < m.row /\ m.row <= offset' + Rows /\ Rows \in Nat
    BY TextAssumption DEF InViewport
  <2> HIDE DEF m
  <2> QED BY <1>3, <2>1 DEF Row, Col
<1>5. First(m.row, c) = k
  <2> DEFINE I == Covering(m.row, c)
             at == m.row
  <2>1. \A i : i \in I <=> /\ i \in 1..Len(matches)
                            /\ matches[i].row = at /\ matches[i].col <= c
                            /\ c < matches[i].col + matches[i].len
    OBVIOUS
  <2>2. at = matches[k].row /\ c = matches[k].col + matches[k].len - 1
    OBVIOUS
  <2>3. First(m.row, c) = IF I # {} THEN Min(I) ELSE 0
    OBVIOUS
  <2> DEFINE rows == Len(buffer')
  <2>5. matches \in Seq(Match) /\ k \in 1..Len(matches) /\ InOrder(matches, rows)
    BY <1>1
  <2> HIDE DEF I, at, c, m, matches, k, First, rows
  <2>6. (IF I # {} THEN Min(I) ELSE 0) = k
    BY <2>1, <2>2, <2>5, FirstIsSelected
  <2> QED BY <2>3, <2>6
<1>6. \A r \in Row, d \in Col : FirstMatch(offset + r, d)' = First(offset' + r, d)
  BY DEF FirstMatch, SelectInSeq
<1>7. m.col <= c /\ c < m.col + m.len /\ k # 0
  <2>1. k # 0
    BY <1>1
  <2> HIDE DEF m, k
  <2> QED BY <1>3, <2>1
<1> HIDE DEF First
<1>8. \A r \in Row, d \in Col :
          First(offset' + r, d) = k
            => PaintedAs(r, d)' = IF d \in PaintedSelected(r)' THEN "selection" ELSE "current"
  <2>1. TAKE r \in Row, d \in Col
  <2>2. HAVE First(offset' + r, d) = k
  <2>3. FirstMatch(offset + r, d)' = search'.selected /\ search'.selected # 0
    BY <1>6, <1>7, <2>2
  <2> QED BY <1>1, <2>3 DEF PaintedAs
<1>9. PICK r \in Row, d \in Col : r = row /\ d = c
  BY <1>4
<1> HIDE DEF row, c, m
<1>10. PaintedAs(r, d)' = IF d \in PaintedSelected(r)' THEN "selection" ELSE "current"
  BY <1>4, <1>5, <1>8, <1>9
<1>11. /\ m.row = offset' + r /\ m.col <= d /\ d < m.col + m.len
       /\ m = search'.matches[search'.selected]
  BY <1>4, <1>7, <1>9 DEF m
<1> QED BY <1>10, <1>11 DEF MatchOnScreen

LEMMA Reaches ==
    ASSUME NEW rows \in Nat, NEW most \in Nat, NEW h \in Nat, h >= 1, h + 1 <= rows,
           NEW row \in Nat, row > 1, row <= most + rows,
           NEW target \in Int, NEW top \in Nat, top <= most, top = target \/ top = target + 1,
           \/ target = (row - 1) - h
           \/ target = 0 /\ row - 1 <= h
           \/ target = most /\ target <= (row - 1) - h
    PROVE  top < row /\ row <= top + rows
  OBVIOUS

(* The probe adds a row at most to the way to the match, which the middle  *)
(* of the viewport has room for if it has two rows.                        *)
LEMMA MatchInViewport ==
    ASSUME Rows > 1, BufferInv, NEW s \in SearchType, s.selected \in 1..Len(s.matches),
           InOrder(s.matches, Len(buffer)), s.matches[s.selected].row > 1, ScrollsToMatch(s)
    PROVE  InViewport(s.matches[s.selected].row, offset')
<1> DEFINE row == s.matches[s.selected].row
           h == Rows \div 2
<1>1. /\ Rows \in Nat /\ MaxOffset \in Nat /\ offset \in 0..MaxOffset /\ MaxOffset = Len(buffer) - Rows
      /\ Len(buffer) \in Nat
  BY TextAssumption DEF BufferInv, MaxOffset
<1>2. row \in Nat /\ row > 1 /\ row <= Len(buffer)
  <2>1. s.matches \in Seq(Match)
    BY DEF SearchType
  <2>2. s.matches[s.selected] \in Match
    BY <2>1
  <2> QED BY <2>2 DEF Match, InOrder
<1>3. CASE InViewport(row, offset)
  BY <1>3 DEF ScrollsToMatch
<1>4. CASE ~InViewport(row, offset)
  <2> DEFINE target == Lower(Higher(0, (row - 1) - h), MaxOffset)
  <2>1. offset' = Higher(0, Lower(ProbedOffset + (target - offset), MaxOffset))
    <3>1. s.selected # 0
      BY DEF SearchType
    <3> QED BY <1>4, <3>1 DEF ScrollsToMatch
  <2>2. h \in Nat /\ h >= 1 /\ h + 1 <= Rows
    BY <1>1
  <2>3. ProbedOffset \in {offset, offset + 1}
    BY <1>1 DEF ProbedOffset, Lower
  <2> HIDE DEF row, h
  <2>4. /\ target \in 0..MaxOffset
        /\ target = (row - 1) - h \/ (target = 0 /\ row - 1 <= h)
           \/ (target = MaxOffset /\ target <= (row - 1) - h)
    BY <1>1, <1>2, <2>2 DEF Lower, Higher
  <2> HIDE DEF target
  <2>5. offset' \in Nat /\ offset' <= MaxOffset /\ (offset' = target \/ offset' = target + 1)
    BY <1>1, <2>1, <2>3, <2>4 DEF Lower, Higher
  <2>7. target \in Int
    BY <1>1, <2>4
  <2>6. offset' < row /\ row <= offset' + Rows
    <3> DEFINE top == offset'
               most == MaxOffset
    <3>1. most \in Nat /\ row <= most + Rows
      BY <1>1, <1>2
    <3>2. /\ top \in Nat /\ top <= most /\ (top = target \/ top = target + 1)
          /\ \/ target = (row - 1) - h
             \/ target = 0 /\ row - 1 <= h
             \/ target = most /\ target <= (row - 1) - h
      BY <2>4, <2>5
    <3> HIDE DEF top, most
    <3>3. top < row /\ row <= top + Rows
      BY <1>1, <1>2, <2>2, <2>7, <3>1, <3>2, Reaches
    <3> QED BY <3>3 DEF top
  <2> QED BY <2>6 DEF InViewport, row
<1> QED BY <1>3, <1>4

(* After a search, and after every step through its matches, a cell of the *)
(* selected match is on screen, in its colours or under the selection's,   *)
(* the oldest row apart (syncSearchSelectionToViewportLocked()).  On a     *)
(* screen of one row the step that the probe leaves behind takes the       *)
(* viewport past the match.                                                *)
THEOREM MatchShown == ASSUME Rows > 1 PROVE Spec => MatchIsShown
<1> DEFINE Moving == /\ search'.selected > 0 /\ sel' = sel /\ fed' = fed
                     /\ search'.matches[search'.selected].row > 1
                     /\ startSearch \/ searchSelection \/ \E next \in BOOLEAN : navigateSearch(next)
<1>1. ASSUME TextInv, TextInv', Moving PROVE MatchOnScreen'
  <2>1. /\ BufferInv /\ SearchInv /\ SearchInv' /\ offset' \in Nat
    BY <1>1, TextAssumption DEF TextInv, BufferInv
  <2>2. ScrollsToMatch(search') /\ buffer' = buffer
    BY <1>1 DEF startSearch, searchSelection, Searches, navigateSearch
  <2>3. /\ search' \in SearchType /\ search'.selected \in 1..Len(search'.matches)
        /\ InOrder(search'.matches, Len(buffer))
    BY <1>1, <2>1, <2>2 DEF SearchInv, SearchType
  <2>4. InViewport(search'.matches[search'.selected].row, offset')
    BY <1>1, <2>1, <2>2, <2>3, MatchInViewport
  <2> QED BY <1>1, <2>1, <2>4, CurrentPainted
<1>2. TextInv /\ TextInv' => (Moving => MatchOnScreen')
  BY <1>1
<1>3. TextInv /\ TextInv' /\ [Next]_vars
        => [(/\ search'.selected > 0 /\ sel' = sel /\ fed' = fed
             /\ search'.matches[search'.selected].row > 1
             /\ startSearch \/ searchSelection \/ \E next \in BOOLEAN : navigateSearch(next))
              => MatchOnScreen']_vars
  BY <1>2
<1> QED BY <1>3, TextInvariant, PTL DEF Spec, MatchIsShown
=============================================================================
