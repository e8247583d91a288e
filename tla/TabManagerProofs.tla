-------------------------- MODULE TabManagerProofs --------------------------
(***************************************************************************)
(* The page keeps its tabs, its sessions and what is saved of them         *)
(* consistent, for any number of tabs, sessions, closings, saves in flight *)
(* and kills.                                                              *)
(*                                                                         *)
(* The core is PageInv: the strip with its ids (Strip), the types, how far *)
(* the restore is and what it has left untouched in the store              *)
(* (RestoreInv), and ChangesAreSaved.  Three invariants rest on it:        *)
(* InFlight (a save that overlaps no other), Undisturbed (a restore before *)
(* any shortcut) and Accounted (the sessions of every version of the saved *)
(* tabs).  Each action has a lemma that says that it keeps PageInv.        *)
(*                                                                         *)
(* Filters and bursts of closings are recursive functions over a sequence; *)
(* facts about them are shown by induction, stated of sets (Least, UpTo).  *)
(***************************************************************************)
EXTENDS TabManager, WellFoundedInduction, SequenceTheorems, TLAPS

(* A set of naturals has a least element: the induction of this module,    *)
(* stated of sets.                                                         *)
LEMMA Least ==
    ASSUME NEW T \in SUBSET Nat, T # {}
    PROVE  \E m \in T : \A n \in T : m <= n
<1> DEFINE R == {p \in Nat \X Nat : p[1] < p[2]}
<1>1. IsWellFoundedOn(R, Nat)
  BY NatLessThanWellFounded DEF OpToRel
<1>2. \E m \in T : \A n \in T : <<n, m>> \notin R
  <2> HIDE DEF R
  <2> QED BY <1>1, WFMin
<1>3. \A m, n \in Nat : <<n, m>> \notin R => m <= n
  OBVIOUS
<1> HIDE DEF R
<1> QED BY <1>2, <1>3

(* Induction over the indices of a sequence, for the set of those at which *)
(* a fact holds.                                                           *)
LEMMA UpTo ==
    ASSUME NEW N \in Nat, NEW G, 0 \in G, \A n \in 1..N : n - 1 \in G => n \in G
    PROVE  0..N \subseteq G
<1> DEFINE B == {n \in 0..N : n \notin G}
<1>1. SUFFICES ASSUME B # {} PROVE FALSE
  OBVIOUS
<1>2. PICK m \in B : \A n \in B : m <= n
  <2>1. B \in SUBSET Nat
    OBVIOUS
  <2> HIDE DEF B
  <2> QED BY <1>1, <2>1, Least
<1>3. m \in 1..N /\ m - 1 \in 0..N /\ m - 1 \notin B
  BY <1>2
<1> QED BY <1>2, <1>3

(* f solves a recursion over 1..N whose step is a function.                *)
Solves(f, N, X, base, step) ==
    /\ f \in [0..N -> X]
    /\ f[0] = base
    /\ \A n \in 1..N : f[n] = step[n][f[n - 1]]

(* Such a recursion has a solution.                                        *)
LEMMA Recursion ==
    ASSUME NEW N \in Nat, NEW X, NEW base \in X, NEW step \in [1..N -> [X -> X]]
    PROVE  \E f : Solves(f, N, X, base, step)
<1> DEFINE G == {m \in 0..N : \E f : Solves(f, m, X, base, step)}
<1>1. 0 \in G
  <2>1. Solves([n \in 0..0 |-> base], 0, X, base, step)
    BY DEF Solves
  <2> QED BY <2>1
<1>2. ASSUME NEW m \in 1..N, m - 1 \in G PROVE m \in G
  <2>0. PICK f : Solves(f, m - 1, X, base, step)
    BY <1>2
  <2>1. /\ f \in [0..(m - 1) -> X]
        /\ f[0] = base
        /\ \A n \in 1..(m - 1) : f[n] = step[n][f[n - 1]]
    BY <2>0 DEF Solves
  <2> DEFINE h == [n \in 0..m |-> IF n < m THEN f[n] ELSE step[m][f[m - 1]]]
  <2>2. step[m][f[m - 1]] \in X
    <3>1. f[m - 1] \in X /\ step[m] \in [X -> X]
      BY <2>1
    <3> QED BY <3>1
  <2>3. h \in [0..m -> X]
    <3>1. \A n \in 0..m : n < m => f[n] \in X
      BY <2>1
    <3> QED BY <2>2, <3>1
  <2>4. ASSUME NEW n \in 1..m PROVE h[n] = step[n][h[n - 1]]
    <3>1. CASE n = m
      BY <3>1
    <3>2. CASE n \in 1..(m - 1)
      BY <2>1, <3>2
    <3> QED BY <3>1, <3>2
  <2>5. h[0] = base
    BY <2>1
  <2> HIDE DEF h
  <2>6. Solves(h, m, X, base, step)
    BY <2>3, <2>4, <2>5 DEF Solves
  <2> QED BY <2>6
<1>3. N \in G
  <2> HIDE DEF G
  <2>1. N \in 0..N
    OBVIOUS
  <2> QED BY <1>1, <1>2, <2>1, UpTo
<1> QED BY <1>3

(* What a recursion over 1..N keeps of its values.                         *)
LEMMA Values ==
    ASSUME NEW N \in Nat, NEW X, NEW f, f[0] \in X, \A n \in 1..N : f[n - 1] \in X => f[n] \in X
    PROVE  \A n \in 0..N : f[n] \in X
<1> DEFINE G == {n \in 0..N : f[n] \in X}
<1>1. 0 \in G
  OBVIOUS
<1>2. \A n \in 1..N : n - 1 \in G => n \in G
  OBVIOUS
<1>3. 0..N \subseteq G
  <2> HIDE DEF G
  <2> QED BY <1>1, <1>2, UpTo
<1> QED BY <1>3

(* f is the filter, as a function of how much of the strip it has seen.    *)
Filters(f, T, s, S) ==
    /\ f \in [0..Len(s) -> Seq(T)]
    /\ f[0] = <<>>
    /\ \A n \in 1..Len(s) :
          f[n] = IF s[n] \in S THEN Append(f[n - 1], s[n]) ELSE f[n - 1]
    /\ Kept(s, S) = f[Len(s)]

(* The recursion of the filter has a solution.                             *)
LEMMA KeptFunction ==
    ASSUME NEW T, NEW s \in Seq(T), NEW S
    PROVE  \E f : Filters(f, T, s, S)
<1> DEFINE N == Len(s)
           next(n, k) == IF s[n] \in S THEN Append(k, s[n]) ELSE k
           step == [n \in 1..N |-> [k \in Seq(T) |-> next(n, k)]]
           Unfold(g) == [n \in 0..N |-> IF n = 0 THEN <<>> ELSE next(n, g[n - 1])]
           f == CHOOSE g : g = Unfold(g)
<1>1. N \in Nat /\ <<>> \in Seq(T)
  OBVIOUS
<1>2. \A n \in 1..N, k \in Seq(T) : next(n, k) \in Seq(T)
  <2>1. \A n \in 1..N : s[n] \in T
    OBVIOUS
  <2> QED BY <2>1
<1>3. step \in [1..N -> [Seq(T) -> Seq(T)]]
  <2> HIDE DEF next
  <2> QED BY <1>2
<1>4. PICK g : Solves(g, N, Seq(T), <<>>, step)
  <2> HIDE DEF N, step
  <2> QED BY <1>1, <1>3, Recursion
<1>5. ASSUME NEW n \in 1..N PROVE g[n] = next(n, g[n - 1])
  <2>1. g[n] = step[n][g[n - 1]] /\ g[n - 1] \in Seq(T)
    <3>1. n - 1 \in 0..N
      BY <1>1
    <3> HIDE DEF step, N
    <3> QED BY <1>4, <3>1 DEF Solves
  <2> HIDE DEF next
  <2> QED BY <2>1
<1>6. g = Unfold(g)
  <2> HIDE DEF next, N
  <2> QED BY <1>1, <1>4, <1>5 DEF Solves
<1>7. f = Unfold(f)
  <2> HIDE DEF Unfold
  <2> QED BY <1>6
<1>8. Kept(s, S) = f[N]
  BY DEF Kept
<1> HIDE DEF f
<1>9. f[0] = <<>>
  <2>1. f[0] = Unfold(f)[0]
    <3> HIDE DEF Unfold
    <3> QED BY <1>7
  <2> QED BY <1>1, <2>1
<1>10. ASSUME NEW n \in 1..N PROVE f[n] = next(n, f[n - 1])
  <2>1. f[n] = Unfold(f)[n]
    <3> HIDE DEF Unfold
    <3> QED BY <1>7
  <2> HIDE DEF next
  <2> QED BY <2>1
<1>11. \A n \in 0..N : f[n] \in Seq(T)
  <2>1. \A n \in 1..N : f[n - 1] \in Seq(T) => f[n] \in Seq(T)
    <3> HIDE DEF next
    <3> QED BY <1>2, <1>10
  <2> HIDE DEF N
  <2> QED BY <1>1, <1>9, <2>1, Values
<1>12. f \in [0..N -> Seq(T)]
  <2> HIDE DEF next, N
  <2> QED BY <1>7, <1>11
<1> QED BY <1>8, <1>9, <1>10, <1>12 DEF Filters

(* What a filter keeps: the elements in S, each where it was among them,   *)
(* and the whole strip if all are in S.                                    *)
LEMMA KeptFacts ==
    ASSUME NEW T, NEW s \in Seq(T), NEW S
    PROVE  /\ Kept(s, S) \in Seq(T)
           /\ ToSet(Kept(s, S)) = ToSet(s) \intersect S
           /\ IsInjective(s) => IsInjective(Kept(s, S))
           /\ ToSet(s) \subseteq S => Kept(s, S) = s
<1>0. PICK f : Filters(f, T, s, S)
  BY KeptFunction
<1>1. /\ f \in [0..Len(s) -> Seq(T)]
      /\ f[0] = <<>>
      /\ \A n \in 1..Len(s) :
            f[n] = IF s[n] \in S THEN Append(f[n - 1], s[n]) ELSE f[n - 1]
      /\ Kept(s, S) = f[Len(s)]
  BY <1>0 DEF Filters
<1> DEFINE FromS(n) == \A i \in 1..Len(f[n]) : f[n][i] \in S /\ \E j \in 1..n : s[j] = f[n][i]
           Whole(n) == \A j \in 1..n : s[j] \in S => \E i \in 1..Len(f[n]) : f[n][i] = s[j]
           Once(n) == IsInjective(s) => \A i, j \in 1..Len(f[n]) : f[n][i] = f[n][j] => i = j
           Same(n) == (\A j \in 1..n : s[j] \in S) =>
                          Len(f[n]) = n /\ \A j \in 1..n : f[n][j] = s[j]
           G == {n \in 0..Len(s) : FromS(n) /\ Whole(n) /\ Once(n) /\ Same(n)}
<1>2. 0 \in G
  <2>1. f[0] = <<>> /\ Len(f[0]) = 0 /\ 0 \in 0..Len(s)
    BY <1>1
  <2> QED BY <2>1
<1>3. ASSUME NEW n \in 1..Len(s), n - 1 \in G PROVE n \in G
  <2> DEFINE g == f[n - 1]
  <2>1. g \in Seq(T) /\ Len(g) \in Nat /\ s[n] \in T
    BY <1>1
  <2>2. FromS(n - 1) /\ Whole(n - 1) /\ Once(n - 1) /\ Same(n - 1)
    BY <1>3
  <2>3. CASE s[n] \in S
    <3>1. f[n] = Append(g, s[n])
      BY <1>1, <2>3
    <3>2. /\ Len(f[n]) = Len(g) + 1
          /\ \A i \in 1..Len(g) : f[n][i] = g[i]
          /\ f[n][Len(g) + 1] = s[n]
      <4> HIDE DEF g
      <4> QED BY <2>1, <3>1
    <3>3. FromS(n)
      <4>1. TAKE i \in 1..Len(f[n])
      <4>2. CASE i \in 1..Len(g)
        <5>1. f[n][i] = g[i] /\ g[i] \in S
          BY <2>2, <3>2, <4>2
        <5>2. PICK j \in 1..(n - 1) : s[j] = g[i]
          BY <2>2, <4>2
        <5> QED BY <5>1, <5>2
      <4>3. CASE i = Len(g) + 1
        <5>1. n \in 1..n /\ f[n][i] = s[n]
          BY <3>2, <4>3
        <5> HIDE DEF g
        <5> QED BY <2>3, <5>1
      <4> QED BY <2>1, <3>2, <4>2, <4>3
    <3>4. Whole(n)
      <4>1. SUFFICES ASSUME NEW j \in 1..n, s[j] \in S
                     PROVE  \E i \in 1..Len(f[n]) : f[n][i] = s[j]
        OBVIOUS
      <4>2. CASE j = n
        BY <2>1, <3>2, <4>2
      <4>3. CASE j \in 1..(n - 1)
        <5>1. PICK i \in 1..Len(g) : g[i] = s[j]
          BY <2>2, <4>1, <4>3
        <5> QED BY <2>1, <3>2, <5>1
      <4> QED BY <4>2, <4>3
    <3>5. Once(n)
      <4>1. SUFFICES ASSUME IsInjective(s), NEW i \in 1..Len(f[n]), NEW j \in 1..Len(f[n]),
                            f[n][i] = f[n][j]
                     PROVE  i = j
        OBVIOUS
      <4>2. \A k \in 1..Len(g) : g[k] # s[n]
        <5>1. SUFFICES ASSUME NEW k \in 1..Len(g), g[k] = s[n] PROVE FALSE
          OBVIOUS
        <5>2. PICK l \in 1..(n - 1) : s[l] = g[k]
          BY <2>2
        <5>3. l \in DOMAIN s /\ n \in DOMAIN s /\ l # n
          OBVIOUS
        <5> QED BY <4>1, <5>1, <5>2, <5>3 DEF IsInjective
      <4>3. i \in 1..Len(g) \/ i = Len(g) + 1
        BY <2>1, <3>2
      <4>4. j \in 1..Len(g) \/ j = Len(g) + 1
        BY <2>1, <3>2
      <4> QED BY <2>2, <3>2, <4>1, <4>2, <4>3, <4>4
    <3>6. Same(n)
      <4>1. SUFFICES ASSUME \A j \in 1..n : s[j] \in S
                     PROVE  Len(f[n]) = n /\ \A j \in 1..n : f[n][j] = s[j]
        OBVIOUS
      <4>2. Len(g) = n - 1 /\ \A j \in 1..(n - 1) : g[j] = s[j]
        BY <2>2, <4>1
      <4> QED BY <3>2, <4>2
    <3> HIDE DEF FromS, Whole, Once, Same
    <3> QED BY <3>3, <3>4, <3>5, <3>6
  <2>4. CASE s[n] \notin S
    <3>1. f[n] = g
      BY <1>1, <2>4
    <3>2. FromS(n)
      <4>1. TAKE i \in 1..Len(f[n])
      <4> QED BY <2>2, <3>1
    <3>3. Whole(n)
      BY <2>2, <2>4, <3>1
    <3>4. Once(n) /\ Same(n)
      BY <2>2, <2>4, <3>1
    <3> HIDE DEF FromS, Whole, Once, Same
    <3> QED BY <3>2, <3>3, <3>4
  <2> QED BY <2>3, <2>4
<1>4. Len(s) \in G
  <2>1. Len(s) \in Nat /\ Len(s) \in 0..Len(s)
    OBVIOUS
  <2> HIDE DEF G
  <2> QED BY <1>2, <1>3, <2>1, UpTo
<1> DEFINE k == Kept(s, S)
<1>5. k \in Seq(T) /\ k = f[Len(s)]
  <2>1. Len(s) \in 0..Len(s)
    OBVIOUS
  <2> QED BY <1>1, <2>1
<1>6. FromS(Len(s)) /\ Whole(Len(s)) /\ Once(Len(s)) /\ Same(Len(s))
  BY <1>4
<1> HIDE DEF G
<1>7. ToSet(k) = ToSet(s) \intersect S
  <2> HIDE DEF k
  <2>1. ASSUME NEW i \in DOMAIN k PROVE k[i] \in S /\ \E j \in DOMAIN s : k[i] = s[j]
    BY <1>5, <1>6
  <2>2. ASSUME NEW j \in DOMAIN s, s[j] \in S PROVE \E i \in DOMAIN k : k[i] = s[j]
    <3>1. j \in 1..Len(s)
      OBVIOUS
    <3>2. \E i \in 1..Len(f[Len(s)]) : f[Len(s)][i] = s[j]
      BY <1>6, <2>2, <3>1
    <3> QED BY <1>5, <3>2
  <2> QED BY <2>1, <2>2 DEF ToSet
<1>8. IsInjective(s) => IsInjective(k)
  <2> HIDE DEF k
  <2>1. SUFFICES ASSUME IsInjective(s), NEW i \in DOMAIN k, NEW j \in DOMAIN k, k[i] = k[j]
                 PROVE  i = j
    BY DEF IsInjective
  <2>2. i \in 1..Len(k) /\ j \in 1..Len(k)
    BY <1>5
  <2>3. \A a, b \in 1..Len(k) : k[a] = k[b] => a = b
    BY <1>5, <1>6, <2>1
  <2> QED BY <2>1, <2>2, <2>3
<1>9. ToSet(s) \subseteq S => k = s
  <2>1. SUFFICES ASSUME ToSet(s) \subseteq S PROVE k = s
    OBVIOUS
  <2>2. \A j \in 1..Len(s) : s[j] \in S
    BY <2>1 DEF ToSet
  <2>3. Len(k) = Len(s) /\ \A j \in 1..Len(s) : k[j] = s[j]
    <3> HIDE DEF k
    <3> QED BY <1>5, <1>6, <2>2
  <2> HIDE DEF k
  <2> QED BY <1>5, <2>3, SeqEqual
<1> QED BY <1>5, <1>7, <1>8, <1>9

(* The last tab of a strip is in it.                                       *)
LEMMA LastIsIn ==
    ASSUME NEW T, NEW s \in Seq(T), s # <<>>
    PROVE  Last(s) \in ToSet(s)
<1>1. Len(s) \in DOMAIN s
  OBVIOUS
<1> QED BY <1>1 DEF Last, ToSet

(* Appending a tab that is not in the strip.                               *)
LEMMA AppendFacts ==
    ASSUME NEW T, NEW s \in Seq(T), NEW x \in T
    PROVE  /\ Append(s, x) \in Seq(T)
           /\ Append(s, x) # <<>>
           /\ ToSet(Append(s, x)) = ToSet(s) \union {x}
           /\ IsInjective(s) /\ x \notin ToSet(s) => IsInjective(Append(s, x))
<1> DEFINE t == Append(s, x)
<1>1. /\ t \in Seq(T) /\ Len(t) = Len(s) + 1 /\ Len(s) \in Nat
      /\ t[Len(s) + 1] = x
      /\ \A i \in 1..Len(s) : t[i] = s[i]
  OBVIOUS
<1>2. DOMAIN s = 1..Len(s) /\ DOMAIN t = 1..(Len(s) + 1)
  BY <1>1
<1> HIDE DEF t
<1>3. ToSet(t) = ToSet(s) \union {x}
  <2>1. ASSUME NEW i \in DOMAIN t PROVE t[i] = x \/ \E j \in DOMAIN s : t[i] = s[j]
    <3>1. i \in 1..Len(s) \/ i = Len(s) + 1
      BY <1>1, <1>2
    <3> QED BY <1>1, <1>2, <3>1
  <2>2. ASSUME NEW j \in DOMAIN s PROVE \E i \in DOMAIN t : t[i] = s[j]
    <3>1. j \in DOMAIN t /\ t[j] = s[j]
      BY <1>1, <1>2
    <3> QED BY <3>1
  <2>3. Len(s) + 1 \in DOMAIN t
    BY <1>1, <1>2
  <2> QED BY <1>1, <2>1, <2>2, <2>3 DEF ToSet
<1>4. ASSUME IsInjective(s), x \notin ToSet(s) PROVE IsInjective(t)
  <2>1. SUFFICES ASSUME NEW i \in DOMAIN t, NEW j \in DOMAIN t, t[i] = t[j] PROVE i = j
    BY DEF IsInjective
  <2>2. i \in DOMAIN s \/ i = Len(s) + 1
    BY <1>1, <1>2
  <2>3. j \in DOMAIN s \/ j = Len(s) + 1
    BY <1>1, <1>2
  <2>4. \A k \in DOMAIN s : s[k] # x
    BY <1>4 DEF ToSet
  <2>5. \A k \in DOMAIN s : t[k] = s[k]
    BY <1>1, <1>2
  <2> QED BY <1>1, <1>4, <2>1, <2>2, <2>3, <2>4, <2>5 DEF IsInjective
<1> QED BY <1>1, <1>3, <1>4 DEF t

(* A sequence without its element number from.                             *)
LEMMA RemoveFacts ==
    ASSUME NEW T, NEW s \in Seq(T), NEW from \in 1..Len(s)
    PROVE  LET r == RemoveAt(s, from)
           IN  /\ r \in Seq(T)
               /\ Len(r) = Len(s) - 1
               /\ \A i \in 1..(Len(s) - 1) : r[i] = s[IF i < from THEN i ELSE i + 1]
<1> DEFINE n == Len(s)
           r == RemoveAt(s, from)
           old(i) == IF i < from THEN i ELSE i + 1
<1>1. n \in Nat /\ \A i \in 1..n : s[i] \in T
  OBVIOUS
<1>2. r \in Seq(T) /\ Len(r) = n - 1 /\ \A i \in 1..(n - 1) : r[i] = s[old(i)]
  <2> DEFINE u == SubSeq(s, 1, from - 1)
             v == SubSeq(s, from + 1, n)
  <2>1. /\ u \in Seq(T) /\ Len(u) = from - 1
        /\ \A i \in 1..(from - 1) : u[i] = s[i]
    BY <1>1
  <2>2. /\ v \in Seq(T) /\ Len(v) = n - from
        /\ \A i \in 1..(n - from) : v[i] = s[from + i]
    BY <1>1
  <2>3. r = u \o v
    BY DEF RemoveAt
  <2> HIDE DEF u, v, r
  <2>4. /\ r \in Seq(T) /\ Len(r) = n - 1
        /\ \A i \in 1..(n - 1) : r[i] = IF i <= from - 1 THEN u[i] ELSE v[i - (from - 1)]
    <3>1. /\ r \in Seq(T) /\ Len(r) = Len(u) + Len(v)
          /\ \A i \in 1..(Len(u) + Len(v)) :
                r[i] = IF i <= Len(u) THEN u[i] ELSE v[i - Len(u)]
      BY <2>1, <2>2, <2>3, ConcatProperties
    <3> QED BY <1>1, <2>1, <2>2, <3>1
  <2>5. ASSUME NEW i \in 1..(n - 1) PROVE r[i] = s[old(i)]
    <3>1. CASE i < from
      <4>1. i \in 1..(from - 1) /\ i <= from - 1
        BY <1>1, <3>1
      <4>2. r[i] = u[i] /\ u[i] = s[i]
        BY <2>1, <2>4, <4>1
      <4> QED BY <3>1, <4>2
    <3>2. CASE i >= from
      <4>1. i - (from - 1) \in 1..(n - from) /\ from + (i - (from - 1)) = i + 1
        BY <1>1, <3>2
      <4>2. v[i - (from - 1)] = s[i + 1]
        BY <2>2, <4>1
      <4> QED BY <1>1, <2>4, <3>2, <4>2
    <3> QED BY <1>1, <3>1, <3>2
  <2> QED BY <2>4, <2>5
<1> QED BY <1>2

(* A tab dragged from one place of the strip to another.                   *)
LEMMA MoveFacts ==
    ASSUME NEW T, NEW s \in Seq(T), NEW from \in 1..Len(s), NEW to \in 1..Len(s)
    PROVE  LET t == InsertAt(RemoveAt(s, from), to, s[from])
           IN  /\ t \in Seq(T)
               /\ Len(t) = Len(s)
               /\ ToSet(t) = ToSet(s)
               /\ IsInjective(s) => IsInjective(t)
<1> DEFINE n == Len(s)
           r == RemoveAt(s, from)
           t == InsertAt(r, to, s[from])
           old(i) == IF i < from THEN i ELSE i + 1
           was(i) == IF i = to THEN from ELSE IF i < to THEN old(i) ELSE old(i - 1)
<1>1. n \in Nat /\ \A i \in 1..n : s[i] \in T
  OBVIOUS
<1>2. r \in Seq(T) /\ Len(r) = n - 1 /\ \A i \in 1..(n - 1) : r[i] = s[old(i)]
  BY RemoveFacts
<1>3. t \in Seq(T) /\ Len(t) = n /\ \A i \in 1..n : t[i] = s[was(i)]
  <2> HIDE DEF r
  <2> DEFINE u == SubSeq(r, 1, to - 1)
             v == SubSeq(r, to, Len(r))
             w == u \o <<s[from]>>
  <2>1. /\ u \in Seq(T) /\ Len(u) = to - 1
        /\ \A i \in 1..(to - 1) : u[i] = r[i]
    BY <1>1, <1>2
  <2>2. /\ v \in Seq(T) /\ Len(v) = n - to
        /\ \A i \in 1..(n - to) : v[i] = r[to + i - 1]
    BY <1>1, <1>2
  <2>3. t = w \o v
    BY DEF InsertAt
  <2> HIDE DEF u, v, t
  <2>4. /\ w \in Seq(T) /\ Len(w) = to
        /\ \A i \in 1..(to - 1) : w[i] = u[i]
        /\ w[to] = s[from]
    <3>1. w = Append(u, s[from])
      BY <1>1, <2>1, AppendIsConcat
    <3> HIDE DEF w
    <3> QED BY <1>1, <2>1, <3>1, AppendProperties
  <2> HIDE DEF w
  <2>5. /\ t \in Seq(T) /\ Len(t) = n
        /\ \A i \in 1..n : t[i] = IF i <= to THEN w[i] ELSE v[i - to]
    BY <1>1, <2>2, <2>3, <2>4, ConcatProperties
  <2>6. ASSUME NEW i \in 1..n PROVE t[i] = s[was(i)]
    <3>1. CASE i = to
      BY <1>1, <2>4, <2>5, <3>1
    <3>2. CASE i < to
      <4>1. i \in 1..(to - 1) /\ i \in 1..(n - 1)
        BY <1>1, <3>2
      <4>2. t[i] = r[i]
        BY <1>1, <2>1, <2>4, <2>5, <3>2, <4>1
      <4> QED BY <1>2, <3>2, <4>1, <4>2
    <3>3. CASE i > to
      <4>1. i - to \in 1..(n - to) /\ to + (i - to) - 1 = i - 1 /\ i - 1 \in 1..(n - 1)
        BY <1>1, <3>3
      <4>2. t[i] = v[i - to] /\ v[i - to] = r[to + (i - to) - 1]
        BY <1>1, <2>2, <2>5, <3>3, <4>1
      <4>3. t[i] = r[i - 1]
        BY <4>1, <4>2
      <4>4. was(i) = old(i - 1)
        BY <3>3
      <4> HIDE DEF was, old
      <4> QED BY <1>2, <4>1, <4>3, <4>4
    <3> QED BY <1>1, <3>1, <3>2, <3>3
  <2> QED BY <2>5, <2>6
<1>4. \A i \in 1..n : was(i) \in 1..n
  BY <1>1
<1>5. \A i, j \in 1..n : was(i) = was(j) => i = j
  BY <1>1
<1>6. \A j \in 1..n : \E i \in 1..n : was(i) = j
  <2> TAKE j \in 1..n
  <2> DEFINE k == IF j < from THEN j ELSE j - 1
             i == IF j = from THEN to ELSE IF k < to THEN k ELSE k + 1
  <2>1. i \in 1..n /\ was(i) = j
    BY <1>1
  <2> HIDE DEF i, was
  <2> QED BY <2>1
<1>7. DOMAIN s = 1..n /\ DOMAIN t = 1..n
  <2> HIDE DEF t
  <2> QED BY <1>1, <1>3
<1> HIDE DEF n, t, was
<1>8. ToSet(t) = ToSet(s)
  <2>1. \A i \in 1..n : \E j \in 1..n : t[i] = s[j]
    BY <1>3, <1>4
  <2>2. ASSUME NEW j \in 1..n PROVE \E i \in 1..n : t[i] = s[j]
    <3>1. PICK i \in 1..n : was(i) = j
      BY <1>6
    <3> QED BY <1>3, <3>1
  <2>3. ToSet(t) = {t[i] : i \in 1..n} /\ ToSet(s) = {s[i] : i \in 1..n}
    BY <1>7 DEF ToSet
  <2> QED BY <2>1, <2>2, <2>3
<1>9. IsInjective(s) => IsInjective(t)
  BY <1>3, <1>4, <1>5, <1>7 DEF IsInjective
<1> QED BY <1>3, <1>8, <1>9 DEF n, t

(* The place of x, or what was asked for.                                  *)
LEMMA PositionFacts ==
    ASSUME NEW s, NEW x, NEW otherwise
    PROVE  \/ PositionOr(s, x, otherwise) \in DOMAIN s /\ s[PositionOr(s, x, otherwise)] = x
           \/ PositionOr(s, x, otherwise) = otherwise /\ \A i \in DOMAIN s : s[i] # x
  BY DEF PositionOr

(* The tab that is active after a burst of closings is in the strip, which *)
(* the removals have not reached yet.                                      *)
LEMMA HeirIsOpen ==
    ASSUME tabs \in Seq(TabIds), ActiveIsOpen, NEW ids \in Seq(TabIds), closeTabs(ids)
    PROVE  activeId' \in ToSet(tabs) \/ (tabs = <<>> /\ activeId' = NoTab)
<1> DEFINE N == Len(ids)
           V == IF tabs = <<>> THEN {NoTab} ELSE ToSet(tabs)
           rest(t) == Kept(tabs, TabIds \ {t})
           next(a, t) == IF a = t /\ rest(t) # <<>> THEN Last(rest(t)) ELSE a
           step == [n \in 1..N |-> [a \in V |-> next(a, ids[n])]]
           Unfold(g) == [n \in 0..N |-> IF n = 0 THEN activeId ELSE next(g[n - 1], ids[n])]
           f == CHOOSE g : g = Unfold(g)
<1>1. N \in Nat /\ activeId \in V
  <2>1. tabs = <<>> => ToSet(tabs) = {}
    BY DEF ToSet
  <2> QED BY <2>1 DEF ActiveIsOpen
<1>2. \A a \in V, t \in TabIds : next(a, t) \in V
  <2> TAKE a \in V, t \in TabIds
  <2>1. CASE a = t /\ rest(t) # <<>>
    <3>1. rest(t) \in Seq(TabIds) /\ ToSet(rest(t)) \subseteq ToSet(tabs)
      BY KeptFacts
    <3>2. Last(rest(t)) \in ToSet(tabs)
      <4> HIDE DEF rest
      <4> QED BY <2>1, <3>1, LastIsIn
    <3>3. tabs # <<>>
      <4>1. tabs = <<>> => ToSet(tabs) = {}
        BY DEF ToSet
      <4> QED BY <3>2, <4>1
    <3> HIDE DEF rest
    <3> QED BY <2>1, <3>2, <3>3
  <2> HIDE DEF rest, V
  <2>2. CASE ~(a = t /\ rest(t) # <<>>)
    BY <2>2
  <2> QED BY <2>1, <2>2
<1>3. step \in [1..N -> [V -> V]]
  <2>1. \A n \in 1..N : ids[n] \in TabIds
    OBVIOUS
  <2> HIDE DEF next, V, N
  <2> QED BY <1>2, <2>1
<1>4. PICK g : Solves(g, N, V, activeId, step)
  <2> HIDE DEF N, step, V
  <2> QED BY <1>1, <1>3, Recursion
<1>5. ASSUME NEW n \in 1..N PROVE g[n] = next(g[n - 1], ids[n])
  <2>1. g[n] = step[n][g[n - 1]] /\ g[n - 1] \in V
    <3>1. n - 1 \in 0..N
      BY <1>1
    <3> HIDE DEF step, N, V
    <3> QED BY <1>4, <3>1 DEF Solves
  <2> HIDE DEF next, V
  <2> QED BY <2>1
<1>6. g = Unfold(g)
  <2> HIDE DEF next, N, V
  <2> QED BY <1>1, <1>4, <1>5 DEF Solves
<1>7. f = Unfold(f)
  <2> HIDE DEF Unfold
  <2> QED BY <1>6
<1>8. activeId' = f[N]
  BY DEF closeTabs
<1> HIDE DEF f
<1>9. f[0] = activeId
  <2>1. f[0] = Unfold(f)[0]
    <3> HIDE DEF Unfold
    <3> QED BY <1>7
  <2> HIDE DEF next, N
  <2> QED BY <1>1, <2>1
<1>10. ASSUME NEW n \in 1..N PROVE f[n] = next(f[n - 1], ids[n])
  <2>1. f[n] = Unfold(f)[n]
    <3> HIDE DEF Unfold
    <3> QED BY <1>7
  <2> HIDE DEF next
  <2> QED BY <2>1
<1>11. \A n \in 0..N : f[n] \in V
  <2>1. \A n \in 1..N : ids[n] \in TabIds
    OBVIOUS
  <2>2. \A n \in 1..N : f[n - 1] \in V => f[n] \in V
    <3> HIDE DEF next, V, N
    <3> QED BY <1>2, <1>10, <2>1
  <2> HIDE DEF N, V
  <2> QED BY <1>1, <1>9, <2>2, Values
<1>12. activeId' \in V
  <2> HIDE DEF V, N
  <2> QED BY <1>1, <1>8, <1>11
<1> QED BY <1>12

(* snapshot, of any strip.                                                 *)
Shot(ts, rs, ac, ss, ti) ==
    LET open == Kept(ts, rs)
    IN [active |-> PositionOr(open, ac, 1) - 1,
        tabs |-> [i \in DOMAIN open |-> [sess |-> ss[open[i]], title |-> ti[open[i]]]]]

(* What doSaveSession() saves of a strip.                                  *)
LEMMA ShotFacts ==
    ASSUME NEW ts \in Seq(TabIds), NEW rs, NEW ac, NEW ss \in [TabIds -> SessionOrNone],
           NEW ti \in [TabIds -> SessionOrNone]
    PROVE  LET open == Kept(ts, rs)
               shot == Shot(ts, rs, ac, ss, ti)
           IN  /\ SavedOK(shot)
               /\ Sessions(shot) = {ss[t] : t \in ToSet(ts) \intersect rs} \ {None}
               /\ Content(shot) =
                     [tabs |-> Len(open),
                      sessions |-> {ss[t] : t \in ToSet(ts) \intersect rs} \ {None},
                      shows |-> IF open = <<>> THEN None ELSE ss[open[PositionOr(open, ac, 1)]]]
<1> DEFINE open == Kept(ts, rs)
           shot == Shot(ts, rs, ac, ss, ti)
           p == PositionOr(open, ac, 1)
<1>1. /\ open \in Seq(TabIds) /\ ToSet(open) = ToSet(ts) \intersect rs
      /\ DOMAIN open = 1..Len(open) /\ Len(open) \in Nat
      /\ open = <<>> <=> Len(open) = 0
  <2>1. open \in Seq(TabIds) /\ ToSet(open) = ToSet(ts) \intersect rs
    BY KeptFacts
  <2> HIDE DEF open
  <2> QED BY <2>1
<1>2. /\ shot.active = p - 1
      /\ shot.tabs = [i \in DOMAIN open |-> [sess |-> ss[open[i]], title |-> ti[open[i]]]]
  BY DEF Shot
<1>3. IF open = <<>> THEN p = 1 ELSE p \in DOMAIN open
  <2>1. p \in DOMAIN open \/ p = 1
    <3> HIDE DEF open
    <3> QED BY PositionFacts
  <2> HIDE DEF open, p
  <2> QED BY <1>1, <2>1
<1> HIDE DEF open, shot, p
<1>4. \A i \in DOMAIN open : open[i] \in TabIds
  BY <1>1
<1>5. shot.tabs \in Seq(SavedTab) /\ Len(shot.tabs) = Len(open) /\ DOMAIN shot.tabs = DOMAIN open
  <2>1. \A i \in 1..Len(open) : [sess |-> ss[open[i]], title |-> ti[open[i]]] \in SavedTab
    BY <1>1, <1>4 DEF SavedTab
  <2>2. shot.tabs = [i \in 1..Len(open) |-> [sess |-> ss[open[i]], title |-> ti[open[i]]]]
    BY <1>1, <1>2
  <2> QED BY <1>1, <2>1, <2>2
<1>6. SavedOK(shot)
  <2>1. shot.tabs = <<>> <=> open = <<>>
    BY <1>1, <1>5
  <2>2. shot.active \in 0..(IF shot.tabs = <<>> THEN 0 ELSE Len(shot.tabs) - 1)
    BY <1>1, <1>2, <1>3, <1>5, <2>1
  <2>3. shot = [active |-> shot.active, tabs |-> shot.tabs]
    BY DEF Shot, shot
  <2>4. shot.active \in Nat
    BY <1>1, <1>5, <2>2
  <2>5. shot \in Stored
    BY <1>5, <2>3, <2>4 DEF Stored
  <2> QED BY <2>2, <2>5 DEF SavedOK
<1>7. \A i \in DOMAIN open : shot.tabs[i].sess = ss[open[i]]
  BY <1>2
<1>8. Sessions(shot) = {ss[t] : t \in ToSet(ts) \intersect rs} \ {None}
  <2>1. Sessions(shot) = {ss[open[i]] : i \in DOMAIN open} \ {None}
    BY <1>5, <1>7 DEF Sessions
  <2>2. {ss[open[i]] : i \in DOMAIN open} = {ss[t] : t \in ToSet(open)}
    BY DEF ToSet
  <2> QED BY <1>1, <2>1, <2>2
<1>9. IF shot.tabs = <<>> THEN open = <<>>
      ELSE open # <<>> /\ shot.tabs[shot.active + 1].sess = ss[open[p]]
  <2>1. shot.tabs = <<>> <=> open = <<>>
    BY <1>1, <1>5
  <2>2. open # <<>> => p \in DOMAIN open /\ shot.active + 1 = p
    BY <1>1, <1>2, <1>3
  <2> QED BY <1>7, <2>1, <2>2
<1> QED BY <1>5, <1>6, <1>8, <1>9 DEF Content, open, shot, p

-----------------------------------------------------------------------------
(* What was opened has a smaller id than the next tab.                     *)
Numbered ==
    /\ ToSet(tabs) \subseteq 1..(nextId - 1)
    /\ runtimes \subseteq 1..(nextId - 1)
    /\ closing \subseteq 1..(nextId - 1)

(* TypeOK in two parts: the strip, and what is about it.                   *)
StripTypes ==
    /\ tabs \in Seq(TabIds) /\ IsInjective(tabs)
    /\ nextId \in 1..(MaxTabs + 1)
    /\ activeId \in TabIds \union {NoTab}
    /\ runtimes \subseteq TabIds
    /\ sess \in [TabIds -> SessionOrNone] /\ title \in [TabIds -> SessionOrNone]
    /\ liveTitles \subseteq TabIds
    /\ running \subseteq TabIds /\ closing \subseteq TabIds
    /\ page \in {"shown", "gone"}

RestTypes ==
    /\ replayTabs \subseteq TabIds
    /\ replayLoading \in BOOLEAN
    /\ restoreTabsEnabled \in BOOLEAN
    /\ restoreChecked \in BOOLEAN
    /\ restore \in {"load", "open", "reveal", "titles", "done"}
    /\ SavedOK(loaded) /\ SavedOK(mem) /\ SavedOK(disk) /\ SavedOK(lastSnap)
    /\ ri \in 0..Len(loaded.tabs)
    /\ saveTimer \in BOOLEAN
    /\ saves \in Seq([snap : Stored, at : {"tokens", "put", "flush"}])
    /\ Len(saves) <= MaxSaves /\ \A i \in DOMAIN saves : SavedOK(saves[i].snap)
    /\ overlapped \in BOOLEAN /\ late \in BOOLEAN
    /\ unscheduled \in BOOLEAN /\ early \in BOOLEAN
    /\ ended \subseteq SessionIds
    /\ kills \in 0..MaxKills /\ kinds \subseteq AllKinds

Strip == StripTypes /\ Numbered /\ ActiveIsOpen /\ SessionsHaveTabs

(* Before the restore is over nothing is saved, and without one nothing is *)
(* ever saved.                                                             *)
NothingSaved == saves = <<>> /\ mem = disk /\ lastSnap = disk

RestoreInv ==
    /\ restore \in {"load", "open", "reveal"} <=> ~restoreChecked
    /\ ~restoreChecked \/ ~restoreTabsEnabled => NothingSaved
    /\ ~restoreTabsEnabled => restore \in {"load", "done"}
    /\ restore = "load" /\ ~early => nextId = 1
    /\ restore \in {"open", "reveal"} => loaded = disk
    /\ restore = "reveal" => ri = Len(loaded.tabs)

PageInv == Strip /\ RestTypes /\ RestoreInv /\ ChangesAreSaved

(* The two parts are the type invariant.                                   *)
LEMMA TypesSplit == TypeOK <=> StripTypes /\ RestTypes
  BY DEF TypeOK, StripTypes, RestTypes

(* A step that leaves the strip alone.                                     *)
LEMMA SameStrip ==
    ASSUME Strip, UNCHANGED <<tabVars, closing, page>>
    PROVE  Strip'
  BY DEF Strip, StripTypes, Numbered, ActiveIsOpen, SessionsHaveTabs, tabVars, ToSet

(* The snapshot is that of the strip, now and after a step.                *)
LEMMA SnapshotIsShot ==
    /\ snapshot = Shot(tabs, runtimes, activeId, sess, title)
    /\ snapshot' = Shot(tabs', runtimes', activeId', sess', title')
  BY DEF snapshot, Shot

(* A save that is started is that of the snapshot.                         *)
LEMMA SaveTypes ==
    ASSUME StripTypes, RestTypes, doSaveSession
    PROVE  /\ SavedOK(lastSnap')
           /\ saves' \in Seq([snap : Stored, at : {"tokens", "put", "flush"}])
           /\ Len(saves') <= MaxSaves
           /\ \A i \in DOMAIN saves' : SavedOK(saves'[i].snap)
           /\ overlapped' \in BOOLEAN /\ late' \in BOOLEAN
           /\ unscheduled' \in BOOLEAN /\ early' \in BOOLEAN
<1>1. SavedOK(snapshot)
  BY ShotFacts, SnapshotIsShot DEF StripTypes
<1>2. CASE restoreTabsEnabled /\ restoreChecked
  <2> DEFINE new == Save(snapshot)
             S == [snap : Stored, at : {"tokens", "put", "flush"}]
  <2>1. saves' = Append(saves, new) /\ lastSnap' = snapshot /\ Len(saves) < MaxSaves
    BY <1>2 DEF doSaveSession
  <2>2. new \in S /\ new.snap = snapshot
    <3>1. snapshot \in Stored
      BY <1>1 DEF SavedOK
    <3> HIDE DEF snapshot
    <3> QED BY <3>1 DEF Save
  <2>3. saves \in Seq(S) /\ \A i \in DOMAIN saves : SavedOK(saves[i].snap)
    BY DEF RestTypes
  <2> HIDE DEF new, S
  <2>4. /\ saves' \in Seq(S) /\ Len(saves') = Len(saves) + 1
        /\ \A i \in 1..Len(saves) : saves'[i] = saves[i]
        /\ saves'[Len(saves) + 1] = new
    BY <2>1, <2>2, <2>3, AppendProperties
  <2>5. MaxSaves \in Nat
    BY TabAssumption
  <2>6. Len(saves') <= MaxSaves
    BY <2>1, <2>3, <2>4, <2>5
  <2>7. \A i \in DOMAIN saves' : SavedOK(saves'[i].snap)
    <3>1. \A i \in DOMAIN saves' : i \in DOMAIN saves \/ i = Len(saves) + 1
      BY <2>3, <2>4
    <3>2. \A i \in DOMAIN saves : saves'[i] = saves[i]
      BY <2>3, <2>4
    <3> QED BY <1>1, <2>1, <2>2, <2>3, <2>4, <3>1, <3>2
  <2>8. overlapped' = (saves # <<>>) /\ late' = (page = "gone") /\ unscheduled' = FALSE /\ early' = FALSE
    BY <1>2 DEF doSaveSession
  <2>9. overlapped' \in BOOLEAN
    <3>1. CASE saves = <<>>
      BY <2>8, <3>1
    <3>2. CASE saves # <<>>
      BY <2>8, <3>2
    <3> QED BY <3>1, <3>2
  <2>10. late' \in BOOLEAN
    <3>1. CASE page = "gone"
      BY <2>8, <3>1
    <3>2. CASE page # "gone"
      BY <2>8, <3>2
    <3> QED BY <3>1, <3>2
  <2> QED BY <1>1, <2>1, <2>4, <2>6, <2>7, <2>8, <2>9, <2>10 DEF S
<1>3. CASE ~(restoreTabsEnabled /\ restoreChecked)
  BY <1>3 DEF doSaveSession, saveVars, noteVars, RestTypes
<1> QED BY <1>2, <1>3

(* openTab(): the strip is a strip with one tab more, which is active.     *)
LEMMA OpenTabStrip ==
    ASSUME Strip, NEW saved, saved.sess \in SessionOrNone, saved.title \in SessionOrNone,
           openTab(saved), closing' = closing, page' = page
    PROVE  Strip' /\ Len(tabs') = Len(tabs) + 1 /\ tabs'[Len(tabs')] = nextId /\ saveTimer' = TRUE
<1>1. nextId \in TabIds /\ nextId' = nextId + 1 /\ MaxTabs \in Nat
  BY TabAssumption DEF Strip, StripTypes, openTab, TabIds
<1>2. /\ tabs' \in Seq(TabIds) /\ IsInjective(tabs')
      /\ ToSet(tabs') = ToSet(tabs) \union {nextId}
      /\ tabs' # <<>>
  <2>1. tabs \in Seq(TabIds) /\ IsInjective(tabs) /\ tabs' = Append(tabs, nextId)
    BY DEF Strip, StripTypes, openTab
  <2>2. nextId \notin ToSet(tabs)
    BY <1>1 DEF Strip, Numbered, TabIds
  <2> QED BY <1>1, <2>1, <2>2, AppendFacts
<1>3. Len(tabs') = Len(tabs) + 1 /\ tabs'[Len(tabs')] = nextId
  <2>1. tabs \in Seq(TabIds) /\ tabs' = Append(tabs, nextId)
    BY DEF Strip, StripTypes, openTab
  <2> QED BY <1>1, <2>1
<1>4. StripTypes'
  BY <1>1, <1>2 DEF Strip, StripTypes, openTab, TabIds
<1>5. Numbered'
  <2>1. nextId \in Nat /\ nextId >= 1 /\ 1..nextId = 1..(nextId - 1) \union {nextId}
    BY <1>1 DEF TabIds
  <2>2. nextId' - 1 = nextId
    BY <1>1, <2>1
  <2>3. /\ ToSet(tabs) \union {nextId} \subseteq 1..nextId
        /\ runtimes \union {nextId} \subseteq 1..nextId /\ closing \subseteq 1..nextId
    BY <2>1 DEF Strip, Numbered
  <2> QED BY <1>2, <2>2, <2>3 DEF Numbered, openTab
<1>6. ActiveIsOpen'
  BY <1>2 DEF ActiveIsOpen, openTab
<1>7. SessionsHaveTabs'
  <2>1. nextId \notin closing
    BY <1>1 DEF Strip, Numbered, TabIds
  <2> QED BY <1>2, <2>1 DEF Strip, SessionsHaveTabs, openTab
<1> QED BY <1>3, <1>4, <1>5, <1>6, <1>7 DEF Strip, openTab

(* The initial state.                                                      *)
LEMMA InitPage == Init => PageInv
<1> SUFFICES ASSUME Init PROVE PageInv
  OBVIOUS
<1>1. /\ tabs = <<>> /\ ToSet(tabs) = {} /\ IsInjective(tabs) /\ tabs \in Seq(TabIds)
      /\ MaxTabs \in Nat \ {0} /\ MaxSaved \in Nat /\ MaxSaves \in Nat /\ MaxKills \in Nat
  BY TabAssumption DEF Init, ToSet, IsInjective
<1>2. Strip
  BY <1>1 DEF Init, Strip, StripTypes, Numbered, ActiveIsOpen, SessionsHaveTabs, TabIds, SessionOrNone
<1>3. SavedOK(disk)
  <2>0. PICK n \in 0..MaxSaved :
          \E f \in [1..n -> SessionIds] :
            disk \in [active : 0..(IF n = 0 THEN 0 ELSE n - 1),
                      tabs : {[i \in 1..n |-> [sess |-> f[i], title |-> f[i]]]}]
    BY DEF Init
  <2>1. PICK f \in [1..n -> SessionIds] :
            disk \in [active : 0..(IF n = 0 THEN 0 ELSE n - 1),
                      tabs : {[i \in 1..n |-> [sess |-> f[i], title |-> f[i]]]}]
    BY <2>0
  <2>2. n \in Nat
    BY <1>1
  <2>3. /\ disk.active \in 0..(IF n = 0 THEN 0 ELSE n - 1)
        /\ disk.tabs = [i \in 1..n |-> [sess |-> f[i], title |-> f[i]]]
        /\ disk = [active |-> disk.active, tabs |-> disk.tabs]
    BY <2>1
  <2>4. \A i \in 1..n : [sess |-> f[i], title |-> f[i]] \in SavedTab
    BY DEF SavedTab, SessionOrNone
  <2>5. disk.tabs \in Seq(SavedTab) /\ Len(disk.tabs) = n /\ (disk.tabs = <<>> <=> n = 0)
    <3>1. disk.tabs \in [1..n -> SavedTab]
      BY <2>3, <2>4
    <3> QED BY <2>2, <3>1
  <2>6. disk.active \in Nat
    BY <2>2, <2>3
  <2>7. disk \in Stored
    BY <2>3, <2>5, <2>6 DEF Stored
  <2> QED BY <2>3, <2>5, <2>7 DEF SavedOK
<1>4. SavedOK(NoSession)
  BY DEF SavedOK, Stored, NoSession, SavedTab
<1>5. RestTypes
  <2>1. NoSession.tabs = <<>>
    BY DEF NoSession
  <2>2. saves = <<>> /\ Len(saves) = 0 /\ DOMAIN saves = {}
    BY DEF Init
  <2>3. /\ replayTabs \subseteq TabIds /\ replayLoading \in BOOLEAN
        /\ restoreTabsEnabled \in BOOLEAN /\ restoreChecked \in BOOLEAN
        /\ restore \in {"load", "open", "reveal", "titles", "done"}
        /\ saveTimer \in BOOLEAN /\ ended \subseteq SessionIds
    BY DEF Init
  <2>6. kills \in 0..MaxKills
    BY <1>1 DEF Init
  <2>7. kinds \subseteq AllKinds
    <3>1. 1 \in 1..(MaxKills + 1) /\ kinds \in Kinds[1]
      BY <1>1 DEF Init
    <3> QED BY <3>1, TabAssumption
  <2>8. overlapped \in BOOLEAN /\ late \in BOOLEAN /\ unscheduled \in BOOLEAN /\ early \in BOOLEAN
    BY DEF Init
  <2>4. SavedOK(loaded) /\ SavedOK(mem) /\ SavedOK(disk) /\ SavedOK(lastSnap) /\ ri \in 0..Len(loaded.tabs)
    BY <1>3, <1>4, <2>1 DEF Init
  <2>5. saves \in Seq([snap : Stored, at : {"tokens", "put", "flush"}]) /\ Len(saves) <= MaxSaves
    BY <1>1, <2>2
  <2> QED BY <2>2, <2>3, <2>4, <2>5, <2>6, <2>7, <2>8 DEF RestTypes
<1>6. RestoreInv /\ ChangesAreSaved
  BY DEF Init, RestoreInv, NothingSaved, ChangesAreSaved
<1> QED BY <1>2, <1>5, <1>6 DEF PageInv

(* A new process.                                                          *)
LEMMA KillAndRestartKeeps == ASSUME PageInv, KillAndRestart PROVE PageInv'
<1>1. /\ tabs' = <<>> /\ ToSet(tabs') = {} /\ IsInjective(tabs') /\ tabs' \in Seq(TabIds)
      /\ MaxTabs \in Nat \ {0} /\ MaxSaves \in Nat /\ MaxKills \in Nat
  BY TabAssumption DEF KillAndRestart, FreshPage, ToSet, IsInjective
<1>2. Strip'
  BY <1>1 DEF KillAndRestart, FreshPage, Strip, StripTypes, Numbered, ActiveIsOpen,
              SessionsHaveTabs, TabIds, SessionOrNone
<1>3. SavedOK(NoSession) /\ NoSession.tabs = <<>>
  BY DEF SavedOK, Stored, NoSession, SavedTab
<1>4. RestTypes'
  <2>1. saves' = <<>> /\ Len(saves') = 0 /\ DOMAIN saves' = {}
    BY DEF KillAndRestart, FreshPage
  <2>2. kills' \in 0..MaxKills
    BY <1>1 DEF KillAndRestart, PageInv, RestTypes
  <2>6. kinds' \subseteq AllKinds
    <3>1. kills + 2 \in 1..(MaxKills + 1) /\ kinds' \in Kinds[kills + 2]
      BY <1>1 DEF KillAndRestart, PageInv, RestTypes
    <3> QED BY <3>1, TabAssumption
  <2>7. overlapped' \in BOOLEAN /\ late' \in BOOLEAN /\ unscheduled' \in BOOLEAN /\ early' \in BOOLEAN
    BY DEF KillAndRestart, FreshPage
  <2>3. /\ replayTabs' \subseteq TabIds /\ replayLoading' \in BOOLEAN
        /\ restoreTabsEnabled' \in BOOLEAN /\ restoreChecked' \in BOOLEAN
        /\ restore' \in {"load", "open", "reveal", "titles", "done"}
        /\ saveTimer' \in BOOLEAN /\ ended' \subseteq SessionIds
    BY DEF KillAndRestart, FreshPage, PageInv, RestTypes
  <2>4. /\ SavedOK(loaded') /\ SavedOK(mem') /\ SavedOK(disk') /\ SavedOK(lastSnap')
        /\ ri' \in 0..Len(loaded'.tabs)
    BY <1>3 DEF KillAndRestart, FreshPage, PageInv, RestTypes
  <2>5. saves' \in Seq([snap : Stored, at : {"tokens", "put", "flush"}]) /\ Len(saves') <= MaxSaves
    BY <1>1, <2>1
  <2> QED BY <2>1, <2>2, <2>3, <2>4, <2>5, <2>6, <2>7 DEF RestTypes
<1>5. RestoreInv' /\ ChangesAreSaved'
  BY DEF KillAndRestart, FreshPage, RestoreInv, NothingSaved, ChangesAreSaved
<1> QED BY <1>2, <1>4, <1>5 DEF PageInv

(* There is one way to save no tabs.                                       *)
LEMMA NoTabsSaved ==
    ASSUME NEW a, NEW b, SavedOK(a), SavedOK(b), a.tabs = <<>>, b.tabs = <<>>
    PROVE  a = b
<1>1. a \in Stored /\ b \in Stored /\ a.active = 0 /\ b.active = 0
  BY DEF SavedOK
<1>2. a = [active |-> a.active, tabs |-> a.tabs] /\ b = [active |-> b.active, tabs |-> b.tabs]
  BY <1>1 DEF Stored
<1> QED BY <1>1, <1>2

(* The first tab of the restore, or its end where there is nothing to      *)
(* restore: then there is nothing to save either.                          *)
LEMMA LoadSessionKeeps == ASSUME PageInv, LoadSession PROVE PageInv'
<1>1. CASE ~restoreTabsEnabled \/ disk.tabs = <<>>
  <2>1. /\ restoreChecked' = TRUE /\ restore' = "done"
        /\ UNCHANGED <<tabVars, closing, page, saveTimer, loaded, ri, replayVars,
                       restoreTabsEnabled, storeVars, saveVars, noteVars, ended, kills, kinds>>
    BY <1>1 DEF LoadSession, pageVars
  <2>2. Strip'
    BY <2>1, SameStrip DEF PageInv
  <2>3. RestTypes'
    BY <2>1 DEF PageInv, RestTypes, replayVars, storeVars, saveVars, noteVars, SavedOK
  <2>4. RestoreInv'
    BY <2>1 DEF PageInv, LoadSession, RestoreInv, NothingSaved, storeVars, saveVars, noteVars
  <2>5. ChangesAreSaved'
    <3>1. SUFFICES ASSUME restoreTabsEnabled, ~early
                   PROVE  snapshot' = lastSnap'
      BY <2>1 DEF ChangesAreSaved, noteVars
    <3>2. lastSnap' = disk /\ disk.tabs = <<>> /\ tabs' = tabs
      BY <1>1, <2>1, <3>1 DEF PageInv, LoadSession, RestoreInv, NothingSaved, saveVars, tabVars
    <3>3. ToSet(tabs) = {} /\ runtimes' = runtimes /\ runtimes = {}
      BY <2>1, <3>1 DEF PageInv, LoadSession, RestoreInv, Strip, Numbered, tabVars
    <3>4. Content(snapshot') = [tabs |-> Len(Kept(tabs', runtimes')), sessions |-> {}, shows |-> None]
          /\ Kept(tabs', runtimes') = <<>>
      <4>1. StripTypes'
        BY <2>2 DEF Strip
      <4>2. tabs' \in Seq(TabIds) /\ sess' \in [TabIds -> SessionOrNone] /\ title' \in [TabIds -> SessionOrNone]
        BY <4>1 DEF StripTypes
      <4>3. Kept(tabs', runtimes') \in Seq(TabIds) /\ ToSet(Kept(tabs', runtimes')) = {}
        BY <3>2, <3>3, <4>2, KeptFacts
      <4>4. Kept(tabs', runtimes') = <<>>
        <5> DEFINE k == Kept(tabs', runtimes')
        <5> HIDE DEF k
        <5>1. k \in Seq(TabIds) /\ ToSet(k) = {}
          BY <4>3 DEF k
        <5>2. DOMAIN k = {}
          BY <5>1 DEF ToSet
        <5>3. k = <<>>
          BY <5>1, <5>2
        <5> QED BY <5>3 DEF k
      <4>5. {sess'[t] : t \in ToSet(tabs') \intersect runtimes'} \ {None} = {}
        BY <3>2, <3>3
      <4> DEFINE open == Kept(tabs', runtimes')
                 shot == Shot(tabs', runtimes', activeId', sess', title')
      <4>6. Content(shot) = [tabs |-> Len(open),
                             sessions |-> {sess'[t] : t \in ToSet(tabs') \intersect runtimes'} \ {None},
                             shows |-> IF open = <<>> THEN None ELSE sess'[open[PositionOr(open, activeId', 1)]]]
        <5> HIDE DEF open, shot
        <5> QED BY <4>2, ShotFacts DEF open, shot
      <4>7. snapshot' = shot
        BY SnapshotIsShot
      <4> HIDE DEF shot, open
      <4>8. Content(snapshot') = Content(shot)
        BY <4>7
      <4> QED BY <4>4, <4>5, <4>6, <4>8 DEF open
    <3>5. SavedOK(snapshot') /\ snapshot'.tabs = <<>>
      <4> DEFINE shot == Shot(tabs', runtimes', activeId', sess', title')
      <4>1. StripTypes'
        BY <2>2 DEF Strip
      <4>2. SavedOK(shot)
        BY <4>1, ShotFacts DEF StripTypes
      <4>3. snapshot' = shot
        BY SnapshotIsShot
      <4> HIDE DEF shot
      <4>4. Content(shot).tabs = Len(shot.tabs)
        BY DEF Content
      <4>5. Content(shot).tabs = 0
        BY <3>4, <4>3
      <4>6. shot.tabs \in Seq(SavedTab)
        BY <4>2 DEF SavedOK, Stored
      <4>7. shot.tabs = <<>>
        <5> DEFINE saved == shot.tabs
        <5>1. saved \in Seq(SavedTab) /\ Len(saved) = 0
          BY <4>4, <4>5, <4>6
        <5> HIDE DEF saved
        <5>2. saved = <<>>
          BY <5>1
        <5> QED BY <5>2 DEF saved
      <4> QED BY <4>2, <4>3, <4>7
    <3>6. SavedOK(disk)
      BY DEF PageInv, RestTypes
    <3> QED BY <3>2, <3>5, <3>6, NoTabsSaved
  <2> QED BY <2>2, <2>3, <2>4, <2>5 DEF PageInv
<1>2. CASE restoreTabsEnabled /\ disk.tabs # <<>>
  <2>1. /\ openTab(disk.tabs[1]) /\ loaded' = disk /\ ri' = 1 /\ restore' = "open"
        /\ UNCHANGED <<restoreChecked, closing, page, replayVars, restoreTabsEnabled, storeVars,
                       saveVars, noteVars, ended, kills, kinds>>
    BY <1>2 DEF LoadSession, pageVars
  <2>2. disk.tabs \in Seq(SavedTab) /\ SavedOK(disk)
    BY DEF PageInv, RestTypes, SavedOK, Stored
  <2>3. disk.tabs[1] \in SavedTab /\ Len(disk.tabs) \in Nat /\ 1 <= Len(disk.tabs)
    BY <1>2, <2>2
  <2>4. Strip' /\ saveTimer' = TRUE
    BY <2>1, <2>3, OpenTabStrip DEF PageInv, SavedTab
  <2>5. RestTypes'
    BY <2>1, <2>2, <2>3, <2>4 DEF PageInv, RestTypes, replayVars, storeVars, saveVars, noteVars, SavedOK
  <2>6. RestoreInv'
    BY <1>2, <2>1 DEF PageInv, LoadSession, RestoreInv, NothingSaved, storeVars, saveVars, noteVars
  <2>7. ChangesAreSaved'
    BY <2>4 DEF ChangesAreSaved
  <2> QED BY <2>4, <2>5, <2>6, <2>7 DEF PageInv
<1>3. restoreTabsEnabled \in BOOLEAN
  BY DEF PageInv, RestTypes
<1> QED BY <1>1, <1>2, <1>3

(* Types, for a step that neither loads nor stores.                        *)
LEMMA SameRest ==
    ASSUME RestTypes, UNCHANGED <<restoreVars, storeVars, saveVars, kills, kinds>>,
           unscheduled' \in BOOLEAN, early' \in BOOLEAN, replayTabs' \subseteq TabIds, replayLoading' \in BOOLEAN, saveTimer' \in BOOLEAN,
           ended' \subseteq SessionIds
    PROVE  RestTypes'
  BY DEF RestTypes, restoreVars, storeVars, saveVars, noteVars

(* The restore, for a step that neither loads nor stores.                  *)
LEMMA SameRestore ==
    ASSUME RestoreInv, UNCHANGED <<restoreVars, storeVars, saveVars>>,
           restore # "load" \/ early' \/ (nextId' = nextId /\ early' = early)
    PROVE  RestoreInv'
  BY DEF RestoreInv, NothingSaved, restoreVars, storeVars, saveVars, noteVars

(* What is saved, or scheduled to be, stays so.                            *)
LEMMA SameContent ==
    ASSUME ChangesAreSaved,
           UNCHANGED <<tabs, runtimes, activeId, sess, title, page, restoreTabsEnabled,
                       restoreChecked, saveTimer, lastSnap, closing, noteVars>>
    PROVE  ChangesAreSaved'
<1>1. snapshot' = snapshot
  BY DEF snapshot
<1>2. Content(snapshot') = Content(snapshot) /\ Content(lastSnap') = Content(lastSnap)
  BY <1>1
<1> QED BY <1>1, <1>2 DEF ChangesAreSaved, noteVars

(* A change of the order or of the titles that is noted as not scheduled.  *)
LEMMA SameButNoted ==
    ASSUME ChangesAreSaved, Content(snapshot') = Content(snapshot), unscheduled',
           UNCHANGED <<page, restoreTabsEnabled, restoreChecked, saveTimer, lastSnap, closing, early>>
    PROVE  ChangesAreSaved'
<1>1. snapshot = lastSnap => Content(snapshot) = Content(lastSnap)
  OBVIOUS
<1>2. Content(lastSnap') = Content(lastSnap)
  OBVIOUS
<1> QED BY <1>1, <1>2 DEF ChangesAreSaved

(* The titles are no part of the content.                                  *)
LEMMA TitlesApart ==
    ASSUME StripTypes, UNCHANGED <<tabs, runtimes, activeId, sess>>, title' \in [TabIds -> SessionOrNone]
    PROVE  Content(snapshot') = Content(snapshot)
<1> DEFINE open == Kept(tabs, runtimes)
           content == [tabs |-> Len(open),
                       sessions |-> {sess[t] : t \in ToSet(tabs) \intersect runtimes} \ {None},
                       shows |-> IF open = <<>> THEN None ELSE sess[open[PositionOr(open, activeId, 1)]]]
           was == Shot(tabs, runtimes, activeId, sess, title)
           is == Shot(tabs, runtimes, activeId, sess, title')
<1>1. /\ tabs \in Seq(TabIds) /\ sess \in [TabIds -> SessionOrNone]
      /\ title \in [TabIds -> SessionOrNone]
  BY DEF StripTypes
<1>2. Content(was) = content
  BY <1>1, ShotFacts
<1>3. Content(is) = content
  BY <1>1, ShotFacts
<1>4. snapshot = was /\ snapshot' = is
  BY SnapshotIsShot
<1> HIDE DEF was, is, content
<1> QED BY <1>2, <1>3, <1>4

(* A shortcut notes itself.                                                *)
LEMMA ShortcutNotes ==
    ASSUME Shortcut, RestTypes
    PROVE  early' \in BOOLEAN /\ page = "shown" /\ (restoreChecked \/ early')
<1>1. CASE early \/ ~restoreChecked
  BY <1>1 DEF Shortcut
<1>2. CASE ~(early \/ ~restoreChecked)
  BY <1>2 DEF Shortcut
<1> QED BY <1>1, <1>2

(* The next tab of the restore.                                            *)
LEMMA RestoreNextKeeps == ASSUME PageInv, RestoreNext PROVE PageInv'
<1>1. /\ openTab(loaded.tabs[ri + 1]) /\ ri' = ri + 1 /\ ri < Len(loaded.tabs) /\ restore = "open"
      /\ UNCHANGED <<closing, page, replayVars, restoreTabsEnabled, restoreChecked, restore, loaded,
                     storeVars, saveVars, noteVars, ended, kills, kinds>>
  BY DEF RestoreNext, pageVars
<1>2. loaded.tabs \in Seq(SavedTab) /\ SavedOK(loaded) /\ ri \in 0..Len(loaded.tabs)
  BY DEF PageInv, RestTypes, SavedOK, Stored
<1>3. loaded.tabs[ri + 1] \in SavedTab /\ ri + 1 \in 0..Len(loaded.tabs)
  BY <1>1, <1>2
<1>4. Strip' /\ saveTimer' = TRUE
  BY <1>1, <1>3, OpenTabStrip DEF PageInv, SavedTab
<1>5. RestTypes'
  BY <1>1, <1>3, <1>4 DEF PageInv, RestTypes, replayVars, storeVars, saveVars, noteVars
<1>6. RestoreInv'
  BY <1>1 DEF PageInv, RestoreInv, NothingSaved, storeVars, saveVars, noteVars
<1>7. ChangesAreSaved'
  BY <1>4 DEF ChangesAreSaved
<1> QED BY <1>4, <1>5, <1>6, <1>7 DEF PageInv

(* The saved tab becomes active.                                           *)
LEMMA RestoreFinalizeKeeps == ASSUME PageInv, RestoreFinalize PROVE PageInv'
<1>1. /\ restore = "open" /\ ri = Len(loaded.tabs) /\ restore' = "reveal"
      /\ UNCHANGED <<tabs, nextId, runtimes, sess, title, liveTitles, running, closing, page,
                     replayTabs, restoreTabsEnabled, restoreChecked, loaded, ri, saveTimer,
                     storeVars, saveVars, noteVars, ended, kills, kinds>>
  BY DEF RestoreFinalize, pageVars
<1>2. activeId' = activeId \/ activeId' \in ToSet(tabs)
  <2>1. CASE loaded.active < Len(tabs)
    <3>1. tabs \in Seq(TabIds) /\ loaded.active \in Nat
      BY DEF PageInv, Strip, StripTypes, RestTypes, SavedOK, Stored
    <3>2. loaded.active + 1 \in DOMAIN tabs
      BY <2>1, <3>1
    <3>3. tabs[loaded.active + 1] \in ToSet(tabs)
      BY <3>2 DEF ToSet
    <3> QED BY <2>1, <3>3 DEF RestoreFinalize
  <2>2. CASE ~(loaded.active < Len(tabs))
    BY <2>2 DEF RestoreFinalize
  <2> QED BY <2>1, <2>2
<1>3. Strip'
  <2>1. ToSet(tabs) \subseteq TabIds
    BY DEF PageInv, Strip, StripTypes, ToSet
  <2> QED BY <1>1, <1>2, <2>1 DEF PageInv, Strip, StripTypes, Numbered, ActiveIsOpen, SessionsHaveTabs, ToSet
<1>4. replayLoading' \in BOOLEAN
  <2>1. CASE loaded.active < Len(tabs)
    <3>1. replayLoading' = (tabs[loaded.active + 1] \in replayTabs)
      BY <2>1 DEF RestoreFinalize
    <3>2. CASE tabs[loaded.active + 1] \in replayTabs
      BY <3>1, <3>2
    <3>3. CASE tabs[loaded.active + 1] \notin replayTabs
      BY <3>1, <3>3
    <3> QED BY <3>2, <3>3
  <2>2. CASE ~(loaded.active < Len(tabs))
    BY <2>2 DEF RestoreFinalize, PageInv, RestTypes
  <2> QED BY <2>1, <2>2
<1>5. RestTypes'
  BY <1>1, <1>4 DEF PageInv, RestTypes, storeVars, saveVars, noteVars
<1>6. RestoreInv'
  BY <1>1 DEF PageInv, RestoreInv, NothingSaved, storeVars, saveVars, noteVars
<1>7. ChangesAreSaved'
  BY <1>1 DEF PageInv, RestoreInv, ChangesAreSaved
<1> QED BY <1>3, <1>5, <1>6, <1>7 DEF PageInv

(* The page is revealed.                                                   *)
LEMMA RestoreRevealKeeps == ASSUME PageInv, RestoreReveal PROVE PageInv'
<1>1. /\ restore = "reveal" /\ restore' = "titles" /\ restoreChecked' = TRUE /\ saveTimer' = TRUE
      /\ UNCHANGED <<tabVars, closing, page, replayVars, restoreTabsEnabled, loaded, ri,
                     storeVars, saveVars, noteVars, ended, kills, kinds>>
  BY DEF RestoreReveal, pageVars
<1>2. Strip'
  BY <1>1, SameStrip DEF PageInv
<1>3. RestTypes'
  BY <1>1 DEF PageInv, RestTypes, replayVars, storeVars, saveVars, noteVars
<1>4. RestoreInv'
  BY <1>1 DEF PageInv, RestoreInv, NothingSaved, storeVars, saveVars, noteVars
<1>5. ChangesAreSaved'
  BY <1>1 DEF ChangesAreSaved
<1> QED BY <1>2, <1>3, <1>4, <1>5 DEF PageInv

(* What the titles change is noted.                                        *)
LEMMA ReapplyTitlesKeeps == ASSUME PageInv, ReapplyTitles PROVE PageInv'
<1>1. /\ restore = "titles" /\ restore' = "done" /\ loaded' = NoSession /\ ri' = 0
      /\ UNCHANGED <<tabs, nextId, activeId, runtimes, sess, liveTitles, running, closing, page,
                     replayVars, restoreTabsEnabled, restoreChecked, saveTimer, storeVars, saveVars, early,
                     ended, kills, kinds>>
      /\ unscheduled' = (unscheduled \/ title' # title)
  BY DEF ReapplyTitles, pageVars
<1>2. SavedOK(NoSession) /\ NoSession.tabs = <<>>
  BY DEF SavedOK, Stored, NoSession, SavedTab
<1>3. title' \in [TabIds -> SessionOrNone]
  <2>1. \A i \in DOMAIN loaded.tabs : loaded.tabs[i].title \in SessionOrNone
    <3>1. loaded.tabs \in Seq(SavedTab)
      BY DEF PageInv, RestTypes, SavedOK, Stored
    <3>2. \A i \in DOMAIN loaded.tabs : loaded.tabs[i] \in SavedTab
      BY <3>1
    <3> QED BY <3>2 DEF SavedTab
  <2>2. title \in [TabIds -> SessionOrNone]
    BY DEF PageInv, Strip, StripTypes
  <2> QED BY <2>1, <2>2 DEF ReapplyTitles
<1>4. Strip'
  BY <1>1, <1>3 DEF PageInv, Strip, StripTypes, Numbered, ActiveIsOpen, SessionsHaveTabs, ToSet
<1>5. RestTypes'
  <2>1. unscheduled' \in BOOLEAN
    <3>1. CASE unscheduled \/ title' # title
      BY <1>1, <3>1
    <3>2. CASE ~(unscheduled \/ title' # title)
      BY <1>1, <3>2
    <3> QED BY <3>1, <3>2
  <2> QED BY <1>1, <1>2, <2>1 DEF PageInv, RestTypes, replayVars, storeVars, saveVars
<1>6. RestoreInv'
  BY <1>1 DEF PageInv, RestoreInv, NothingSaved, storeVars, saveVars
<1>7. ChangesAreSaved'
  <2>1. CASE title' = title
    <3>1. unscheduled' = unscheduled
      BY <1>1, <2>1 DEF PageInv, RestTypes
    <3> QED BY <1>1, <2>1, <3>1, SameContent DEF PageInv, saveVars, noteVars
  <2>2. CASE title' # title
    <3>1. Content(snapshot') = Content(snapshot)
      BY <1>1, <1>3, TitlesApart DEF PageInv, Strip
    <3> QED BY <1>1, <2>2, <3>1, SameButNoted DEF PageInv, saveVars
  <2> QED BY <2>1, <2>2
<1> QED BY <1>4, <1>5, <1>6, <1>7 DEF PageInv

(* A tab is opened by the user.                                            *)
LEMMA OpenTabKeeps == ASSUME PageInv, OpenTab PROVE PageInv'
<1>0. early' \in BOOLEAN /\ (restoreChecked \/ early')
  BY ShortcutNotes DEF OpenTab, PageInv
<1>1. /\ openTab([sess |-> None, title |-> None])
      /\ UNCHANGED <<closing, page, replayVars, restoreVars, storeVars, saveVars, unscheduled, ended, kills, kinds>>
  BY DEF OpenTab, pageVars
<1>2. Strip' /\ saveTimer' = TRUE
  <2>1. None \in SessionOrNone
    BY DEF SessionOrNone
  <2> QED BY <1>1, <2>1, OpenTabStrip DEF PageInv
<1>3. RestTypes'
  BY <1>0, <1>1, <1>2, SameRest DEF PageInv, RestTypes, replayVars
<1>4. RestoreInv'
  <2>1. restore # "load" \/ early'
    BY <1>0 DEF PageInv, RestoreInv
  <2> QED BY <1>1, <2>1, SameRestore DEF PageInv
<1>5. ChangesAreSaved'
  BY <1>2 DEF ChangesAreSaved
<1> QED BY <1>2, <1>3, <1>4, <1>5 DEF PageInv

(* Another tab of the strip becomes active.                                *)
LEMMA SwitchTabKeeps == ASSUME PageInv, NEW t \in TabIds, SwitchTab(t) PROVE PageInv'
<1>0. early' \in BOOLEAN /\ (restoreChecked \/ early')
  BY ShortcutNotes DEF SwitchTab, PageInv
<1>1. /\ t \in ToSet(tabs) /\ activeId' = t /\ replayLoading' = (t \in replayTabs) /\ saveTimer' = TRUE
      /\ UNCHANGED <<tabs, nextId, runtimes, sess, title, liveTitles, running, closing, page,
                     replayTabs, restoreVars, storeVars, saveVars, unscheduled, ended, kills, kinds>>
  BY DEF SwitchTab, pageVars
<1>2. Strip'
  BY <1>1 DEF PageInv, Strip, StripTypes, Numbered, ActiveIsOpen, SessionsHaveTabs, ToSet
<1>3. RestTypes'
  <2>1. replayLoading' \in BOOLEAN
    <3>1. CASE t \in replayTabs
      BY <1>1, <3>1
    <3>2. CASE t \notin replayTabs
      BY <1>1, <3>2
    <3> QED BY <3>1, <3>2
  <2> QED BY <1>0, <1>1, <2>1, SameRest DEF PageInv, RestTypes
<1>4. RestoreInv'
  <2>1. restore # "load" \/ early'
    BY <1>0 DEF PageInv, RestoreInv
  <2> QED BY <1>1, <2>1, SameRestore DEF PageInv
<1>5. ChangesAreSaved'
  BY <1>1 DEF ChangesAreSaved
<1> QED BY <1>2, <1>3, <1>4, <1>5 DEF PageInv

(* A tab is dragged: the same tabs, sessions and active tab.               *)
LEMMA ReorderTabsKeeps ==
    ASSUME PageInv, NEW from \in 1..Len(tabs), NEW to \in 1..Len(tabs), ReorderTabs(from, to)
    PROVE  PageInv'
<1>1. /\ tabs' = InsertAt(RemoveAt(tabs, from), to, tabs[from]) /\ page = "shown"
      /\ UNCHANGED <<nextId, activeId, runtimes, sess, title, liveTitles, running, closing, page,
                     replayVars, restoreVars, saveTimer, storeVars, saveVars, early, ended, kills, kinds>>
      /\ unscheduled'
  BY DEF ReorderTabs, OnStrip, pageVars
<1>2. tabs \in Seq(TabIds) /\ IsInjective(tabs)
  BY DEF PageInv, Strip, StripTypes
<1>3. /\ tabs' \in Seq(TabIds) /\ IsInjective(tabs') /\ Len(tabs') = Len(tabs)
      /\ ToSet(tabs') = ToSet(tabs)
  BY <1>1, <1>2, MoveFacts
<1>4. tabs' = <<>> <=> tabs = <<>>
  BY <1>2, <1>3
<1>5. Strip'
  BY <1>1, <1>3, <1>4 DEF PageInv, Strip, StripTypes, Numbered, ActiveIsOpen, SessionsHaveTabs
<1>6. RestTypes'
  <2>1. unscheduled' \in BOOLEAN
    BY DEF ReorderTabs
  <2> QED BY <1>1, <2>1, SameRest DEF PageInv, RestTypes, replayVars
<1>7. RestoreInv'
  BY <1>1, SameRestore DEF PageInv
<1>8. ChangesAreSaved'
  <2> DEFINE live == {sess[t] : t \in ToSet(tabs) \intersect runtimes} \ {None}
             content == [tabs |-> Len(tabs), sessions |-> live,
                         shows |-> IF tabs = <<>> THEN None ELSE sess[activeId]]
             was == Shot(tabs, runtimes, activeId, sess, title)
             is == Shot(tabs', runtimes, activeId, sess, title)
  <2>1. sess \in [TabIds -> SessionOrNone] /\ title \in [TabIds -> SessionOrNone]
    BY DEF PageInv, Strip, StripTypes
  <2>2. runtimes = ToSet(tabs) /\ (tabs = <<>> \/ activeId \in ToSet(tabs))
    BY <1>1 DEF PageInv, Strip, SessionsHaveTabs, ActiveIsOpen
  <2>3. Kept(tabs, runtimes) = tabs /\ Kept(tabs', runtimes) = tabs'
    BY <1>2, <1>3, <2>2, KeptFacts
  <2>4. \A ts \in Seq(TabIds) :
           activeId \in ToSet(ts) => ts[PositionOr(ts, activeId, 1)] = activeId
    BY PositionFacts DEF ToSet
  <2>5. Content(was) = content
    <3>1. Content(was) =
             [tabs |-> Len(tabs), sessions |-> live,
              shows |-> IF tabs = <<>> THEN None ELSE sess[tabs[PositionOr(tabs, activeId, 1)]]]
      <4> DEFINE open == Kept(tabs, runtimes)
      <4>1. Content(was) =
               [tabs |-> Len(open), sessions |-> live,
                shows |-> IF open = <<>> THEN None ELSE sess[open[PositionOr(open, activeId, 1)]]]
        BY <1>2, <2>1, ShotFacts
      <4>2. open = tabs
        BY <2>3
      <4> HIDE DEF open, was, live
      <4> QED BY <4>1, <4>2
    <3>2. tabs = <<>> \/ tabs[PositionOr(tabs, activeId, 1)] = activeId
      BY <1>2, <2>2, <2>4
    <3> HIDE DEF was, live
    <3> QED BY <3>1, <3>2
  <2>6. Content(is) = content
    <3>1. Content(is) =
             [tabs |-> Len(tabs'), sessions |-> {sess[t] : t \in ToSet(tabs') \intersect runtimes} \ {None},
              shows |-> IF tabs' = <<>> THEN None ELSE sess[tabs'[PositionOr(tabs', activeId, 1)]]]
      <4> DEFINE open == Kept(tabs', runtimes)
                 alive == {sess[t] : t \in ToSet(tabs') \intersect runtimes} \ {None}
      <4>1. Content(is) =
               [tabs |-> Len(open), sessions |-> alive,
                shows |-> IF open = <<>> THEN None ELSE sess[open[PositionOr(open, activeId, 1)]]]
        BY <1>3, <2>1, ShotFacts
      <4>2. open = tabs'
        BY <2>3
      <4> HIDE DEF open, is, alive
      <4> QED BY <4>1, <4>2 DEF alive
    <3>2. tabs' = <<>> \/ tabs'[PositionOr(tabs', activeId, 1)] = activeId
      BY <1>3, <1>4, <2>2, <2>4
    <3>3. {sess[t] : t \in ToSet(tabs') \intersect runtimes} \ {None} = live
      BY <1>3
    <3> HIDE DEF is, live
    <3> QED BY <1>3, <1>4, <3>1, <3>2, <3>3
  <2>7. snapshot = was /\ snapshot' = is
    BY <1>1, SnapshotIsShot
  <2> HIDE DEF was, is, content
  <2>8. Content(snapshot') = Content(snapshot)
    BY <2>5, <2>6, <2>7
  <2> QED BY <1>1, <2>8, SameButNoted DEF PageInv, restoreVars, saveVars
<1> QED BY <1>5, <1>6, <1>7, <1>8 DEF PageInv

(* A tab is renamed.                                                       *)
LEMMA RenameKeeps ==
    ASSUME PageInv, NEW t \in TabIds, NEW text \in Texts, applyRename(t, text)
    PROVE  PageInv'
<1>1. /\ title' = [title EXCEPT ![t] = text] /\ unscheduled' = TRUE
      /\ UNCHANGED <<tabs, nextId, activeId, runtimes, sess, liveTitles, running, closing, page,
                     replayVars, restoreVars, saveTimer, storeVars, saveVars, early, ended, kills, kinds>>
  BY DEF applyRename, pageVars
<1>2. title' \in [TabIds -> SessionOrNone]
  <2>1. text \in SessionOrNone
    BY TabAssumption DEF SessionOrNone
  <2> QED BY <1>1, <2>1 DEF PageInv, Strip, StripTypes
<1>3. Strip'
  BY <1>1, <1>2 DEF PageInv, Strip, StripTypes, Numbered, ActiveIsOpen, SessionsHaveTabs, ToSet
<1>4. RestTypes'
  BY <1>1, SameRest DEF PageInv, RestTypes, replayVars
<1>5. RestoreInv'
  BY <1>1, SameRestore DEF PageInv
<1>6. ChangesAreSaved'
  <2>1. Content(snapshot') = Content(snapshot)
    BY <1>1, <1>2, TitlesApart DEF PageInv, Strip
  <2> QED BY <1>1, <2>1, SameButNoted DEF PageInv, restoreVars, saveVars
<1> QED BY <1>3, <1>4, <1>5, <1>6 DEF PageInv

(* A burst of closings: the strip stays, its heir becomes active.          *)
LEMMA CloseTabsKeeps ==
    ASSUME PageInv, NEW ids \in Seq(TabIds), ToSet(ids) \subseteq runtimes, closeTabs(ids),
           early' \in BOOLEAN, restoreChecked \/ early'
    PROVE  PageInv'
<1>1. /\ running' = running \ ToSet(ids) /\ closing' = closing \union ToSet(ids)
      /\ replayTabs' = replayTabs \ ToSet(ids) /\ replayLoading' = (activeId' \in replayTabs')
      /\ ended' = ended \union ({sess[t] : t \in ToSet(ids)} \ {None})
      /\ saveTimer' = TRUE
      /\ UNCHANGED <<tabs, nextId, runtimes, sess, title, liveTitles, restoreVars, page,
                     storeVars, saveVars, unscheduled, kills, kinds>>
  BY DEF closeTabs, pageVars
<1>2. activeId' \in ToSet(tabs) \/ (tabs = <<>> /\ activeId' = NoTab)
  BY HeirIsOpen DEF PageInv, Strip, StripTypes
<1>3. ToSet(tabs) \subseteq TabIds
  BY DEF PageInv, Strip, StripTypes, ToSet
<1>4. StripTypes'
  BY <1>1, <1>2, <1>3 DEF PageInv, Strip, StripTypes
<1>5. Numbered' /\ ActiveIsOpen' /\ SessionsHaveTabs'
  BY <1>1, <1>2 DEF PageInv, Strip, Numbered, ActiveIsOpen, SessionsHaveTabs
<1>6. RestTypes'
  <2>1. replayLoading' \in BOOLEAN
    <3>1. CASE activeId' \in replayTabs'
      BY <1>1, <3>1
    <3>2. CASE activeId' \notin replayTabs'
      BY <1>1, <3>2
    <3> QED BY <3>1, <3>2
  <2>2. {sess[t] : t \in ToSet(ids)} \ {None} \subseteq SessionIds
    <3>1. ToSet(ids) \subseteq TabIds
      BY DEF ToSet
    <3> QED BY <3>1 DEF PageInv, Strip, StripTypes, SessionOrNone
  <2> QED BY <1>1, <2>1, <2>2, SameRest DEF PageInv, RestTypes
<1>7. RestoreInv'
  <2>1. restore # "load" \/ early'
    BY DEF PageInv, RestoreInv
  <2> QED BY <1>1, <2>1, SameRestore DEF PageInv
<1>8. ChangesAreSaved'
  BY <1>1 DEF ChangesAreSaved
<1> QED BY <1>4, <1>5, <1>6, <1>7, <1>8 DEF PageInv, Strip

(* One tab is closed.                                                      *)
LEMMA CloseTabKeeps == ASSUME PageInv, NEW t \in TabIds, CloseTab(t) PROVE PageInv'
<1>1. <<t>> \in Seq(TabIds) /\ ToSet(<<t>>) = {t}
  BY DEF ToSet
<1>2. early' \in BOOLEAN /\ (restoreChecked \/ early')
  BY ShortcutNotes DEF CloseTab, PageInv
<1> QED BY <1>1, <1>2, CloseTabsKeeps DEF CloseTab

(* All tabs but one are closed.                                            *)
LEMMA CloseOtherTabsKeeps == ASSUME PageInv, NEW t \in TabIds, CloseOtherTabs(t) PROVE PageInv'
<1> DEFINE ids == Kept(tabs, runtimes \ {t})
<1>1. ids \in Seq(TabIds) /\ ToSet(ids) \subseteq runtimes
  BY KeptFacts DEF PageInv, Strip, StripTypes
<1>2. closeTabs(ids) /\ early' \in BOOLEAN /\ restoreChecked
  BY DEF CloseOtherTabs, OnStrip, PageInv, RestTypes
<1> HIDE DEF ids
<1> QED BY <1>1, <1>2, CloseTabsKeeps

(* A closed tab is removed.                                                *)
LEMMA RemoveTabKeeps == ASSUME PageInv, NEW t \in TabIds, RemoveTab(t) PROVE PageInv'
<1>1. /\ t \in closing /\ closing' = closing \ {t} /\ runtimes' = runtimes \ {t}
      /\ tabs' = Kept(tabs, TabIds \ {t})
      /\ activeId' = IF activeId # t THEN activeId ELSE IF tabs' = <<>> THEN NoTab ELSE Last(tabs')
      /\ sess' = [sess EXCEPT ![t] = None] /\ title' = [title EXCEPT ![t] = None]
      /\ saveTimer' = TRUE
      /\ UNCHANGED <<nextId, liveTitles, running, replayVars, page, restoreVars, storeVars, saveVars, noteVars,
                     ended, kills, kinds>>
  BY DEF RemoveTab, pageVars
<1>2. tabs \in Seq(TabIds) /\ IsInjective(tabs) /\ ToSet(tabs) \subseteq TabIds
  BY DEF PageInv, Strip, StripTypes, ToSet
<1>3. tabs' \in Seq(TabIds) /\ IsInjective(tabs') /\ ToSet(tabs') = ToSet(tabs) \ {t}
  BY <1>1, <1>2, KeptFacts
<1>4. ToSet(tabs') \subseteq TabIds /\ (tabs' = <<>> => ToSet(tabs') = {})
      /\ (tabs' # <<>> => Last(tabs') \in ToSet(tabs'))
  <2>1. tabs' # <<>> => Last(tabs') \in ToSet(tabs')
    BY <1>3, LastIsIn
  <2> QED BY <1>2, <1>3, <2>1 DEF ToSet
<1>5. ActiveIsOpen'
  <2>1. CASE activeId # t
    <3>1. activeId \in ToSet(tabs) \/ (tabs = <<>> /\ activeId = NoTab)
      BY DEF PageInv, Strip, ActiveIsOpen
    <3>2. tabs = <<>> => tabs' = <<>>
      <4>1. tabs = <<>> => ToSet(tabs') = {}
        BY <1>3 DEF ToSet
      <4>2. tabs' # <<>> => ToSet(tabs') # {}
        BY <1>4
      <4> QED BY <4>1, <4>2
    <3> QED BY <1>1, <1>3, <2>1, <3>1, <3>2 DEF ActiveIsOpen
  <2>2. CASE activeId = t
    BY <1>1, <1>4, <2>2 DEF ActiveIsOpen
  <2> QED BY <2>1, <2>2
<1>6. StripTypes'
  <2>1. activeId' \in TabIds \union {NoTab}
    BY <1>1, <1>4 DEF PageInv, Strip, StripTypes
  <2>2. None \in SessionOrNone
    BY DEF SessionOrNone
  <2> QED BY <1>1, <1>3, <2>1, <2>2 DEF PageInv, Strip, StripTypes
<1>7. Numbered' /\ SessionsHaveTabs'
  BY <1>1, <1>3 DEF PageInv, Strip, Numbered, SessionsHaveTabs
<1>8. RestTypes'
  BY <1>1, SameRest DEF PageInv, RestTypes, noteVars, replayVars
<1>9. RestoreInv'
  BY <1>1, SameRestore DEF PageInv, noteVars
<1>10. ChangesAreSaved'
  BY <1>1 DEF ChangesAreSaved
<1> QED BY <1>5, <1>6, <1>7, <1>8, <1>9, <1>10 DEF PageInv, Strip

(* A status.                                                               *)
LEMMA SessionStatusKeeps == ASSUME PageInv, NEW t \in TabIds, SessionStatus(t) PROVE PageInv'
<1>1. /\ saveTimer' = TRUE
      /\ UNCHANGED <<tabVars, closing, page, replayVars, restoreVars, storeVars, saveVars, noteVars, ended, kills, kinds>>
  BY DEF SessionStatus, pageVars
<1>2. Strip'
  BY <1>1, SameStrip DEF PageInv
<1>3. RestTypes'
  BY <1>1, SameRest DEF PageInv, RestTypes, noteVars, replayVars
<1>4. RestoreInv'
  BY <1>1, SameRestore DEF PageInv, noteVars, tabVars
<1> QED BY <1>1, <1>2, <1>3, <1>4 DEF PageInv, ChangesAreSaved

(* The server names a session.                                             *)
LEMMA SessionNamedKeeps ==
    ASSUME PageInv, NEW t \in TabIds, NEW s \in SessionIds, SessionNamed(t, s)
    PROVE  PageInv'
<1>1. /\ sess' = [sess EXCEPT ![t] = s]
      /\ ended' = ended \union ({sess[t]} \ {None}) \union (IF t \in running THEN {} ELSE {s})
      /\ saveTimer' = TRUE
      /\ UNCHANGED <<tabs, nextId, activeId, runtimes, title, liveTitles, running, closing, page,
                     replayVars, restoreVars, storeVars, saveVars, noteVars, kills, kinds>>
  BY DEF SessionNamed, pageVars
<1>2. Strip'
  BY <1>1 DEF PageInv, Strip, StripTypes, Numbered, ActiveIsOpen, SessionsHaveTabs, SessionOrNone, ToSet
<1>3. RestTypes'
  <2>1. ended' \subseteq SessionIds
    BY <1>1 DEF PageInv, RestTypes, Strip, StripTypes, SessionOrNone
  <2> QED BY <1>1, <2>1, SameRest DEF PageInv, RestTypes, noteVars, replayVars
<1>4. RestoreInv'
  BY <1>1, SameRestore DEF PageInv, noteVars
<1> QED BY <1>1, <1>2, <1>3, <1>4 DEF PageInv, ChangesAreSaved

(* A program sets the title.                                               *)
LEMMA SessionTitleKeeps == ASSUME PageInv, NEW t \in TabIds, SessionTitle(t) PROVE PageInv'
<1>1. /\ title' = [title EXCEPT ![t] = sess[t]] /\ liveTitles' = liveTitles \union {t}
      /\ saveTimer' = TRUE
      /\ UNCHANGED <<tabs, nextId, activeId, runtimes, sess, running, closing, page, replayVars,
                     restoreVars, storeVars, saveVars, noteVars, ended, kills, kinds>>
  BY DEF SessionTitle, pageVars
<1>2. Strip'
  BY <1>1 DEF PageInv, Strip, StripTypes, Numbered, ActiveIsOpen, SessionsHaveTabs, ToSet
<1>3. RestTypes'
  BY <1>1, SameRest DEF PageInv, RestTypes, noteVars, replayVars
<1>4. RestoreInv'
  BY <1>1, SameRestore DEF PageInv, noteVars
<1> QED BY <1>1, <1>2, <1>3, <1>4 DEF PageInv, ChangesAreSaved

(* A replay begins or ends.                                                *)
LEMMA SessionReplayKeeps == ASSUME PageInv, NEW t \in TabIds, SessionReplay(t) PROVE PageInv'
<1>1. /\ replayTabs' = IF t \in replayTabs THEN replayTabs \ {t} ELSE replayTabs \union {t}
      /\ replayLoading' = IF activeId = t THEN t \in replayTabs' ELSE replayLoading
      /\ UNCHANGED <<tabVars, closing, page, restoreVars, saveTimer, storeVars, saveVars, noteVars, ended, kills, kinds>>
  BY DEF SessionReplay, pageVars
<1>2. Strip'
  BY <1>1, SameStrip DEF PageInv
<1>3. replayLoading' \in BOOLEAN /\ replayTabs' \subseteq TabIds
  <2>1. CASE activeId = t /\ t \in replayTabs'
    BY <1>1, <2>1 DEF PageInv, RestTypes
  <2>2. CASE activeId = t /\ t \notin replayTabs'
    BY <1>1, <2>2 DEF PageInv, RestTypes
  <2>3. CASE activeId # t
    BY <1>1, <2>3 DEF PageInv, RestTypes
  <2> QED BY <2>1, <2>2, <2>3
<1>4. RestTypes'
  BY <1>1, <1>3, SameRest DEF PageInv, RestTypes, noteVars
<1>5. RestoreInv'
  BY <1>1, SameRestore DEF PageInv, noteVars, tabVars
<1>6. ChangesAreSaved'
  BY <1>1, SameContent DEF PageInv, tabVars, restoreVars, saveVars, noteVars
<1> QED BY <1>2, <1>4, <1>5, <1>6 DEF PageInv

(* A session of the strip is saved.                                        *)
LEMMA SavedNow ==
    ASSUME doSaveSession, restoreTabsEnabled, restoreChecked
    PROVE  lastSnap' = snapshot
  BY DEF doSaveSession

(* A save leaves the restore as it is: there is none before it is over.    *)
LEMMA SavingRestore ==
    ASSUME RestoreInv, RestTypes, doSaveSession, UNCHANGED <<restoreVars, storeVars, nextId>>
    PROVE  RestoreInv'
<1>1. CASE restoreTabsEnabled /\ restoreChecked
  BY <1>1 DEF RestoreInv, restoreVars
<1>2. CASE ~(restoreTabsEnabled /\ restoreChecked)
  <2>1. UNCHANGED <<saveVars, noteVars>>
    BY <1>2 DEF doSaveSession
  <2> QED BY <2>1, SameRestore DEF noteVars
<1> QED BY <1>1, <1>2

(* The debounced save, and that of onPageHide().                           *)
LEMMA SavesKeep ==
    ASSUME PageInv, doSaveSession, saveTimer' = FALSE,
           UNCHANGED <<tabVars, closing, replayVars, restoreVars, storeVars, ended, pageVars>>
    PROVE  PageInv'
<1>1. Strip'
  BY SameStrip DEF PageInv, pageVars
<1>2. RestTypes'
  <2>1. /\ SavedOK(lastSnap')
        /\ saves' \in Seq([snap : Stored, at : {"tokens", "put", "flush"}])
        /\ Len(saves') <= MaxSaves
        /\ \A i \in DOMAIN saves' : SavedOK(saves'[i].snap)
        /\ overlapped' \in BOOLEAN /\ late' \in BOOLEAN
        /\ unscheduled' \in BOOLEAN /\ early' \in BOOLEAN
    BY SaveTypes DEF PageInv, Strip
  <2> QED BY <2>1 DEF PageInv, RestTypes, replayVars, restoreVars, storeVars, pageVars
<1>3. RestoreInv'
  BY SavingRestore DEF PageInv, tabVars
<1>4. ChangesAreSaved'
  <2>1. SUFFICES ASSUME restoreTabsEnabled, restoreChecked
                 PROVE  snapshot' = lastSnap'
    BY DEF ChangesAreSaved, restoreVars
  <2>2. lastSnap' = snapshot
    BY <2>1, SavedNow
  <2>3. snapshot' = snapshot
    BY DEF snapshot, tabVars
  <2> QED BY <2>2, <2>3
<1> QED BY <1>1, <1>2, <1>3, <1>4 DEF PageInv

(* The debounce has run out.                                               *)
LEMMA SaveTimerFiresKeeps == ASSUME PageInv, SaveTimerFires PROVE PageInv'
  BY SavesKeep DEF SaveTimerFires

(* The page is hidden.                                                     *)
LEMMA OnPageHideKeeps == ASSUME PageInv, OnPageHide PROVE PageInv'
  BY SavesKeep DEF OnPageHide

(* The page disappears.                                                    *)
LEMMA AboutToDisappearKeeps == ASSUME PageInv, AboutToDisappear PROVE PageInv'
<1>1. /\ page' = "gone" /\ doSaveSession /\ saveTimer' = (runtimes # {})
      /\ running' = {} /\ runtimes' = {}
      /\ replayTabs' = replayTabs \ runtimes
      /\ replayLoading' = (replayLoading /\ activeId \notin runtimes \intersect replayTabs)
      /\ UNCHANGED <<tabs, nextId, activeId, sess, title, liveTitles, closing, restoreVars,
                     storeVars, ended, kills, kinds>>
  BY DEF AboutToDisappear
<1>2. Strip'
  BY <1>1 DEF PageInv, Strip, StripTypes, Numbered, ActiveIsOpen, SessionsHaveTabs, ToSet
<1>3. RestTypes'
  <2>1. /\ SavedOK(lastSnap')
        /\ saves' \in Seq([snap : Stored, at : {"tokens", "put", "flush"}])
        /\ Len(saves') <= MaxSaves
        /\ \A i \in DOMAIN saves' : SavedOK(saves'[i].snap)
        /\ overlapped' \in BOOLEAN /\ late' \in BOOLEAN
        /\ unscheduled' \in BOOLEAN /\ early' \in BOOLEAN
    BY <1>1, SaveTypes DEF PageInv, Strip
  <2>2. saveTimer' \in BOOLEAN
    <3>1. CASE runtimes = {}
      BY <1>1, <3>1
    <3>2. CASE runtimes # {}
      BY <1>1, <3>2
    <3> QED BY <3>1, <3>2
  <2>3. replayLoading' \in BOOLEAN
    <3>1. CASE activeId \in runtimes \intersect replayTabs
      BY <1>1, <3>1
    <3>2. CASE activeId \notin runtimes \intersect replayTabs
      BY <1>1, <3>2 DEF PageInv, RestTypes
    <3> QED BY <3>1, <3>2
  <2> QED BY <1>1, <2>1, <2>2, <2>3 DEF PageInv, RestTypes, restoreVars, storeVars
<1>4. RestoreInv'
  BY <1>1, SavingRestore DEF PageInv
<1>5. ChangesAreSaved'
  BY <1>1 DEF ChangesAreSaved
<1> QED BY <1>2, <1>3, <1>4, <1>5 DEF PageInv

(* An await of saveSession() is over.                                      *)
LEMMA StoreStepKeeps == ASSUME PageInv, NEW i \in 1..Len(saves), StoreStep(i) PROVE PageInv'
<1> DEFINE S == [snap : Stored, at : {"tokens", "put", "flush"}]
           at == saves[i].at
           next == [tokens |-> "put", put |-> "flush"]
<1>1. /\ saves' = IF at = "flush" THEN RemoveAt(saves, i) ELSE [saves EXCEPT ![i].at = next[at]]
      /\ mem' = IF at = "put" THEN saves[i].snap ELSE mem
      /\ disk' = IF at = "flush" THEN mem ELSE disk
      /\ UNCHANGED <<tabVars, closing, replayVars, restoreVars, saveTimer, lastSnap, overlapped, late,
                     noteVars, ended, page, kills, kinds>>
  BY DEF StoreStep, pageVars
<1>2. /\ saves \in Seq(S) /\ Len(saves) \in Nat /\ Len(saves) <= MaxSaves /\ MaxSaves \in Nat
      /\ \A j \in DOMAIN saves : SavedOK(saves[j].snap)
      /\ DOMAIN saves = 1..Len(saves) /\ saves # <<>>
  BY TabAssumption DEF PageInv, RestTypes
<1>3. Strip'
  BY <1>1, SameStrip DEF PageInv
<1>4. SavedOK(mem') /\ SavedOK(disk') /\ SavedOK(lastSnap')
  BY <1>1, <1>2 DEF PageInv, RestTypes
<1>5. saves' \in Seq(S) /\ Len(saves') <= MaxSaves /\ \A j \in DOMAIN saves' : SavedOK(saves'[j].snap)
  <2>1. CASE at = "flush"
    <3>1. saves' = RemoveAt(saves, i)
      BY <1>1, <2>1
    <3> HIDE DEF S
    <3>2. /\ saves' \in Seq(S) /\ Len(saves') = Len(saves) - 1
          /\ \A j \in 1..(Len(saves) - 1) : saves'[j] = saves[IF j < i THEN j ELSE j + 1]
      BY <1>2, <3>1, RemoveFacts
    <3>3. ASSUME NEW j \in DOMAIN saves' PROVE SavedOK(saves'[j].snap)
      <4>1. j \in 1..(Len(saves) - 1) /\ (IF j < i THEN j ELSE j + 1) \in DOMAIN saves
        BY <1>2, <3>2
      <4>2. saves'[j] = saves[IF j < i THEN j ELSE j + 1]
        BY <3>2, <4>1
      <4> HIDE DEF at
      <4> QED BY <1>2, <4>1, <4>2
    <3> QED BY <1>2, <3>2, <3>3
  <2>2. CASE at # "flush"
    <3>1. saves[i] \in S /\ at \in {"tokens", "put"} /\ next[at] \in {"put", "flush"}
      <4>1. saves[i] \in S
        <5> HIDE DEF S
        <5> QED BY <1>2
      <4>2. at \in {"tokens", "put"}
        BY <2>2, <4>1
      <4>3. CASE at = "tokens"
        BY <4>1, <4>2, <4>3
      <4>4. CASE at = "put"
        BY <4>1, <4>2, <4>4
      <4> QED BY <4>2, <4>3, <4>4
    <3>2. saves' = [saves EXCEPT ![i].at = next[at]]
      BY <1>1, <2>2
    <3>3. [saves[i] EXCEPT !.at = next[at]] \in S /\ [saves[i] EXCEPT !.at = next[at]].snap = saves[i].snap
      BY <3>1
    <3>4. saves' = [saves EXCEPT ![i] = [saves[i] EXCEPT !.at = next[at]]]
      BY <3>2
    <3> DEFINE new == [saves[i] EXCEPT !.at = next[at]]
    <3> HIDE DEF new, S, at, next
    <3>5. /\ saves' \in Seq(S) /\ Len(saves') = Len(saves)
          /\ \A j \in DOMAIN saves' : saves'[j] = IF j = i THEN new ELSE saves[j]
      BY <1>2, <3>3, <3>4 DEF new
    <3>6. DOMAIN saves' = DOMAIN saves
      BY <1>2, <3>5
    <3> QED BY <1>2, <3>3, <3>5, <3>6 DEF new
  <2> QED BY <2>1, <2>2
<1>6. RestTypes'
  BY <1>1, <1>4, <1>5 DEF PageInv, RestTypes, replayVars, restoreVars, noteVars
<1>7. RestoreInv'
  BY <1>1, <1>2 DEF PageInv, RestoreInv, NothingSaved, restoreVars, tabVars, noteVars
<1>8. ChangesAreSaved'
  BY <1>1, SameContent DEF PageInv, tabVars, restoreVars
<1> QED BY <1>3, <1>6, <1>7, <1>8 DEF PageInv

(* PageInv is inductive.                                                   *)
LEMMA NextPage == PageInv /\ [Next]_vars => PageInv'
<1> SUFFICES ASSUME PageInv, [Next]_vars PROVE PageInv'
  OBVIOUS
<1>1. CASE LoadSession
  BY <1>1, LoadSessionKeeps
<1>2. CASE RestoreNext
  BY <1>2, RestoreNextKeeps
<1>3. CASE RestoreFinalize
  BY <1>3, RestoreFinalizeKeeps
<1>4. CASE RestoreReveal
  BY <1>4, RestoreRevealKeeps
<1>5. CASE ReapplyTitles
  BY <1>5, ReapplyTitlesKeeps
<1>6. CASE OpenTab
  BY <1>6, OpenTabKeeps
<1>7. CASE OnPageHide
  BY <1>7, OnPageHideKeeps
<1>8. CASE AboutToDisappear
  BY <1>8, AboutToDisappearKeeps
<1>9. CASE KillAndRestart
  BY <1>9, KillAndRestartKeeps
<1>10. CASE SaveTimerFires
  BY <1>10, SaveTimerFiresKeeps
<1>11. ASSUME NEW i \in 1..Len(saves), StoreStep(i) PROVE PageInv'
  BY <1>11, StoreStepKeeps
<1>12. ASSUME NEW t \in TabIds,
              \/ SwitchTab(t) \/ CloseTab(t) \/ CloseOtherTabs(t) \/ RemoveTab(t)
              \/ SessionStatus(t) \/ SessionTitle(t) \/ SessionReplay(t)
              \/ \E s \in SessionIds : SessionNamed(t, s)
              \/ \E text \in Texts : applyRename(t, text)
       PROVE  PageInv'
  BY <1>12, RenameKeeps, SwitchTabKeeps, CloseTabKeeps, CloseOtherTabsKeeps, RemoveTabKeeps, SessionStatusKeeps,
     SessionTitleKeeps, SessionReplayKeeps, SessionNamedKeeps
<1>13. ASSUME NEW from \in 1..Len(tabs), NEW to \in 1..Len(tabs), ReorderTabs(from, to) PROVE PageInv'
  BY <1>13, ReorderTabsKeeps
<1>14. CASE UNCHANGED vars
  <2>1. UNCHANGED <<tabVars, closing, replayVars, restoreVars, saveTimer, storeVars, saveVars, noteVars, ended, page, kills, kinds>>
    BY <1>14 DEF vars, pageVars
  <2>2. Strip'
    BY <2>1, SameStrip DEF PageInv
  <2>3. RestTypes'
    BY <2>1, SameRest DEF PageInv, RestTypes, noteVars, replayVars
  <2>4. RestoreInv' /\ ChangesAreSaved'
    BY <2>1, SameRestore, SameContent DEF PageInv, tabVars, restoreVars, saveVars, noteVars
  <2> QED BY <2>2, <2>3, <2>4 DEF PageInv
<1> QED BY <1>1, <1>2, <1>3, <1>4, <1>5, <1>6, <1>7, <1>8, <1>9, <1>10, <1>11, <1>12, <1>13, <1>14 DEF Next

(* PageInv holds always.                                                   *)
THEOREM PageInvariant == Safety => []PageInv
<1>1. Init => PageInv
  BY InitPage
<1>2. PageInv /\ [Next]_vars => PageInv'
  BY NextPage
<1> QED BY <1>1, <1>2, PTL DEF Safety

(* TabsAreConsistent: whatever is closed in bursts, dragged, restored or   *)
(* reported, the active tab is in the strip and no session runs without    *)
(* its tab; and the types, with the tabs all different.                    *)
THEOREM TabsConsistent == Safety => []TabsAreConsistent
<1>1. PageInv => TabsAreConsistent
  BY TypesSplit DEF PageInv, Strip, TabsAreConsistent
<1> QED BY <1>1, PageInvariant, PTL

(* LiveTitleWins: no restored title replaces one the program has set.      *)
THEOREM LiveTitlesWin == Safety => LiveTitleWins
<1> DEFINE Wins == restore = "titles" /\ restore' = "done" => \A t \in liveTitles : title'[t] = title[t]
<1>1. PageInv /\ [Next]_vars => [Wins]_vars
  <2> SUFFICES ASSUME PageInv, [Next]_vars, restore = "titles", restore' = "done"
               PROVE  \A t \in liveTitles : title'[t] = title[t]
    OBVIOUS
  <2>1. CASE ReapplyTitles
    <3>1. liveTitles \subseteq TabIds
      BY DEF PageInv, Strip, StripTypes
    <3> QED BY <2>1, <3>1 DEF ReapplyTitles
  <2>2. ASSUME LoadSession \/ RestoreNext \/ RestoreFinalize \/ RestoreReveal \/ KillAndRestart PROVE FALSE
    BY <2>2 DEF LoadSession, RestoreNext, RestoreFinalize, RestoreReveal, KillAndRestart, FreshPage
  <2>3. ASSUME OpenTab \/ OnPageHide \/ AboutToDisappear \/ SaveTimerFires
               \/ \E i \in 1..Len(saves) : StoreStep(i)
        PROVE  UNCHANGED restore
    BY <2>3 DEF OpenTab, OnPageHide, AboutToDisappear, SaveTimerFires, StoreStep, restoreVars
  <2>4. ASSUME NEW t \in TabIds,
               \/ SwitchTab(t) \/ CloseTab(t) \/ CloseOtherTabs(t) \/ RemoveTab(t)
               \/ SessionStatus(t) \/ SessionTitle(t) \/ SessionReplay(t)
               \/ \E s \in SessionIds : SessionNamed(t, s)
               \/ \E text \in Texts : applyRename(t, text)
        PROVE  UNCHANGED restore
    BY <2>4 DEF SwitchTab, CloseTab, CloseOtherTabs, closeTabs, RemoveTab, SessionStatus, SessionTitle,
                SessionReplay, SessionNamed, applyRename, restoreVars
  <2>5. ASSUME NEW from \in 1..Len(tabs), NEW to \in 1..Len(tabs), ReorderTabs(from, to)
        PROVE  UNCHANGED restore
    BY <2>5 DEF ReorderTabs, restoreVars
  <2>6. CASE UNCHANGED vars
    BY <2>6 DEF vars, restoreVars
  <2> QED BY <2>1, <2>2, <2>3, <2>4, <2>5, <2>6 DEF Next
<1> QED BY <1>1, PageInvariant, PTL DEF Safety, LiveTitleWins

-----------------------------------------------------------------------------
(* A save that overlaps no other writes what was passed last.              *)
InFlight ==
    /\ saves = <<>> => disk = mem
    /\ ~overlapped =>
          /\ saves = <<>> => mem = lastSnap
          /\ Len(saves) <= 1
          /\ \A i \in DOMAIN saves :
                /\ saves[i].snap = lastSnap
                /\ saves[i].at = "flush" => mem = lastSnap

(* Which steps reach the store: saves that are started, their awaits, and  *)
(* a new process.                                                          *)
LEMMA StoreSteps ==
    ASSUME [Next]_vars
    PROVE  \/ UNCHANGED <<storeVars, saveVars>>
           \/ doSaveSession /\ UNCHANGED storeVars
           \/ \E i \in 1..Len(saves) : StoreStep(i)
           \/ KillAndRestart
<1>1. ASSUME LoadSession \/ RestoreNext \/ RestoreFinalize \/ RestoreReveal \/ ReapplyTitles \/ OpenTab
      PROVE  UNCHANGED <<storeVars, saveVars>>
  BY <1>1 DEF LoadSession, RestoreNext, RestoreFinalize, RestoreReveal, ReapplyTitles, OpenTab
<1>2. ASSUME OnPageHide \/ AboutToDisappear \/ SaveTimerFires
      PROVE  doSaveSession /\ UNCHANGED storeVars
  BY <1>2 DEF OnPageHide, AboutToDisappear, SaveTimerFires
<1>3. ASSUME NEW t \in TabIds,
             \/ SwitchTab(t) \/ CloseTab(t) \/ CloseOtherTabs(t) \/ RemoveTab(t)
             \/ SessionStatus(t) \/ SessionTitle(t) \/ SessionReplay(t)
             \/ \E s \in SessionIds : SessionNamed(t, s)
             \/ \E text \in Texts : applyRename(t, text)
      PROVE  UNCHANGED <<storeVars, saveVars>>
  BY <1>3 DEF SwitchTab, CloseTab, CloseOtherTabs, closeTabs, RemoveTab, SessionStatus, SessionTitle,
              SessionReplay, SessionNamed, applyRename
<1>4. ASSUME NEW from \in 1..Len(tabs), NEW to \in 1..Len(tabs), ReorderTabs(from, to)
      PROVE  UNCHANGED <<storeVars, saveVars>>
  BY <1>4 DEF ReorderTabs
<1>5. CASE UNCHANGED vars
  BY <1>5 DEF vars
<1> QED BY <1>1, <1>2, <1>3, <1>4, <1>5 DEF Next

(* A save that is started alone.                                           *)
LEMMA SaveInFlight ==
    ASSUME PageInv, doSaveSession, UNCHANGED storeVars, restoreTabsEnabled, restoreChecked
    PROVE  InFlight'
<1> DEFINE new == Save(snapshot)
<1>1. /\ saves' = Append(saves, new) /\ lastSnap' = snapshot
      /\ overlapped' = (saves # <<>>)
  BY DEF doSaveSession
<1>2. new.snap = snapshot /\ new.at # "flush"
  <2> DEFINE shot == snapshot
  <2> HIDE DEF shot
  <2>1. Save(shot).snap = shot /\ Save(shot).at # "flush"
    BY DEF Save
  <2> QED BY <2>1 DEF shot
<1>3. saves \in Seq([snap : Stored, at : {"tokens", "put", "flush"}])
  BY DEF PageInv, RestTypes
<1> HIDE DEF new
<1>4. saves' # <<>>
  BY <1>1, <1>3
<1>5. ASSUME ~overlapped'
      PROVE  Len(saves') <= 1 /\ DOMAIN saves' = {1} /\ saves'[1] = new
  <2>1. saves = <<>>
    BY <1>1, <1>5
  <2>2. saves' = <<new>>
    BY <1>1, <2>1
  <2> QED BY <2>2
<1> QED BY <1>1, <1>2, <1>4, <1>5 DEF InFlight

(* An await that is over, of a save that is alone.                         *)
LEMMA StepInFlight ==
    ASSUME PageInv, InFlight, ~overlapped, NEW i \in 1..Len(saves), StoreStep(i)
    PROVE  InFlight'
<1> DEFINE S == [snap : Stored, at : {"tokens", "put", "flush"}]
<1>0. saves \in Seq(S) /\ Len(saves) \in Nat /\ Len(saves) <= 1 /\ DOMAIN saves = 1..Len(saves)
  BY DEF PageInv, RestTypes, InFlight
<1>1. i = 1 /\ Len(saves) = 1 /\ DOMAIN saves = {1} /\ saves # <<>>
  BY <1>0
<1>2. saves[1] \in S /\ saves[1].snap = lastSnap /\ (saves[1].at = "flush" => mem = lastSnap)
  <2> HIDE DEF S
  <2> QED BY <1>0, <1>1 DEF InFlight
<1>3. CASE saves[1].at = "flush"
  <2>1. saves' = RemoveAt(saves, 1) /\ mem' = mem /\ disk' = mem /\ lastSnap' = lastSnap
    BY <1>1, <1>3 DEF StoreStep
  <2>2. saves' \in Seq(S) /\ Len(saves') = 0
    <3> HIDE DEF S
    <3> QED BY <1>0, <1>1, <2>1, RemoveFacts
  <2>3. saves' = <<>> /\ DOMAIN saves' = {}
    BY <2>2
  <2> QED BY <1>2, <1>3, <2>1, <2>2, <2>3 DEF InFlight
<1>4. CASE saves[1].at = "put"
  <2>1. /\ saves' = [saves EXCEPT ![1].at = "flush"]
        /\ mem' = saves[1].snap /\ lastSnap' = lastSnap
    BY <1>1, <1>4 DEF StoreStep
  <2>2. DOMAIN saves' = {1} /\ saves'[1].snap = saves[1].snap /\ Len(saves') = 1 /\ saves' # <<>>
    BY <1>0, <1>1, <1>2, <2>1
  <2> QED BY <1>2, <2>1, <2>2 DEF InFlight
<1>5. CASE saves[1].at = "tokens"
  <2>1. /\ saves' = [saves EXCEPT ![1].at = "put"]
        /\ mem' = mem /\ lastSnap' = lastSnap
    BY <1>1, <1>5 DEF StoreStep
  <2>2. /\ DOMAIN saves' = {1} /\ saves'[1].snap = saves[1].snap /\ saves'[1].at = "put"
        /\ Len(saves') = 1 /\ saves' # <<>>
    BY <1>0, <1>1, <1>2, <2>1
  <2> QED BY <1>2, <2>1, <2>2 DEF InFlight
<1> QED BY <1>2, <1>3, <1>4, <1>5

(* An await that is over, of one of several saves.                         *)
LEMMA StepOverlapping ==
    ASSUME PageInv, overlapped, NEW i \in 1..Len(saves), StoreStep(i)
    PROVE  InFlight'
<1> DEFINE S == [snap : Stored, at : {"tokens", "put", "flush"}]
           next == [tokens |-> "put", put |-> "flush"]
<1>1. saves \in Seq(S) /\ Len(saves) \in Nat /\ Len(saves) # 0 /\ overlapped'
  BY DEF PageInv, RestTypes, StoreStep
<1>2. CASE saves[i].at = "flush"
  <2>1. mem' = mem /\ disk' = mem
    BY <1>2 DEF StoreStep
  <2> QED BY <1>1, <2>1 DEF InFlight
<1>3. CASE saves[i].at # "flush"
  <2> DEFINE step == next[saves[i].at]
  <2>1. saves' = [saves EXCEPT ![i].at = step]
    BY <1>3 DEF StoreStep
  <2> HIDE DEF step, S
  <2>2. DOMAIN saves' = DOMAIN saves
    BY <2>1
  <2>3. i \in DOMAIN saves'
    BY <1>1, <2>2
  <2>4. saves' # <<>>
    BY <2>3
  <2> QED BY <1>1, <2>4 DEF InFlight
<1> QED BY <1>2, <1>3

(* InFlight is inductive, given PageInv.                                   *)
LEMMA NextSave == PageInv /\ InFlight /\ [Next]_vars => InFlight'
<1> SUFFICES ASSUME PageInv, InFlight, [Next]_vars PROVE InFlight'
  OBVIOUS
<1>1. CASE UNCHANGED <<storeVars, saveVars>>
  BY <1>1 DEF InFlight, storeVars, saveVars
<1>2. CASE doSaveSession /\ UNCHANGED storeVars
  <2>1. CASE restoreTabsEnabled /\ restoreChecked
    BY <1>2, <2>1, SaveInFlight
  <2>2. CASE ~(restoreTabsEnabled /\ restoreChecked)
    BY <1>2, <2>2 DEF doSaveSession, InFlight, storeVars, saveVars
  <2> QED BY <2>1, <2>2
<1>3. ASSUME NEW i \in 1..Len(saves), StoreStep(i) PROVE InFlight'
  BY <1>3, StepInFlight, StepOverlapping
<1>4. CASE KillAndRestart
  BY <1>4 DEF KillAndRestart, FreshPage, InFlight
<1> QED BY <1>1, <1>2, <1>3, <1>4, StoreSteps

(* The invariant of a page and its saves.                                  *)
LEMMA SavesInvariant == Safety => [](PageInv /\ InFlight)
<1>1. Init => PageInv /\ InFlight
  <2>1. Init => saves = <<>> /\ Len(saves) = 0 /\ DOMAIN saves = {}
    BY DEF Init
  <2> QED BY <2>1, InitPage DEF Init, InFlight
<1>2. PageInv /\ InFlight /\ [Next]_vars => (PageInv /\ InFlight)'
  BY NextPage, NextSave
<1> QED BY <1>1, <1>2, PTL DEF Safety

(* SavesAreCurrent: what is to be saved is scheduled; what is on the disk  *)
(* when no save is in flight was written last, and is the newest if that   *)
(* save overlapped no other.                                               *)
THEOREM NewestIsSaved == Safety => []SavesAreCurrent
<1>1. PageInv /\ InFlight => SavesAreCurrent
  BY DEF PageInv, InFlight, SavesAreCurrent, NewestSaveWins
<1> QED BY <1>1, SavesInvariant, PTL

-----------------------------------------------------------------------------
(* Undisturbed by shortcuts, the restore opens the saved tabs in order.    *)
Undisturbed ==
    ~early =>
        /\ ~restoreChecked => closing = {}
        /\ restore \in {"open", "reveal"} =>
              /\ Len(tabs) = ri
              /\ \A i \in 1..ri : loaded.tabs[i].sess \in {sess[tabs[i]], None} \union ended
        /\ restore = "reveal" /\ tabs # <<>> => activeId = tabs[loaded.active + 1]

(* A tab has the session it had, or had none, or one that has ended.       *)
SessionsMove ==
    /\ ended \subseteq ended'
    /\ \A t \in TabIds : sess[t] \in {sess'[t], None} \union ended'

(* A sequence without elements.                                            *)
LEMMA EmptyFacts == ASSUME NEW T, NEW s \in Seq(T), ToSet(s) = {} PROVE s = <<>> /\ Len(s) = 0
<1>1. DOMAIN s = {}
  BY DEF ToSet
<1> QED BY <1>1

(* Which steps matter to a restore: but for shortcuts, nothing but the     *)
(* restore itself moves the tabs before it is over.                        *)
LEMMA RestoreSteps ==
    ASSUME PageInv, Undisturbed, [Next]_vars
    PROVE  \/ LoadSession \/ RestoreNext \/ RestoreFinalize \/ RestoreReveal
           \/ restore' \in {"titles", "done"} /\ restoreChecked' = restoreChecked /\ restoreChecked
           \/ early' /\ restoreChecked' = restoreChecked
           \/ KillAndRestart
           \/ UNCHANGED <<tabs, activeId, closing, restoreVars, early>> /\ SessionsMove
<1>1. restoreChecked => restore \in {"titles", "done"}
  BY DEF PageInv, RestoreInv, RestTypes
<1>2. ASSUME NEW t \in closing PROVE restoreChecked \/ early
  BY DEF Undisturbed, PageInv, RestTypes
<1>3. ASSUME ReapplyTitles PROVE restore' = "done" /\ restoreChecked' = restoreChecked /\ restoreChecked
  BY <1>3 DEF ReapplyTitles, PageInv, RestoreInv, RestTypes
<1>4. UNCHANGED <<sess, ended>> => SessionsMove
  BY DEF SessionsMove
<1>5. ASSUME restoreChecked, UNCHANGED restoreVars
      PROVE  restore' \in {"titles", "done"} /\ restoreChecked' = restoreChecked
  BY <1>1, <1>5 DEF restoreVars
<1>6. ASSUME OnPageHide \/ AboutToDisappear \/ SaveTimerFires
      PROVE  \/ restoreChecked /\ UNCHANGED restoreVars
             \/ UNCHANGED <<tabs, activeId, closing, restoreVars, early>> /\ SessionsMove
  <2>1. UNCHANGED <<tabs, activeId, closing, restoreVars, sess, ended>> /\ doSaveSession
    BY <1>6 DEF OnPageHide, AboutToDisappear, SaveTimerFires, tabVars
  <2>2. CASE restoreChecked
    BY <2>1, <2>2
  <2>3. CASE ~restoreChecked
    BY <1>4, <2>1, <2>3 DEF doSaveSession, noteVars
  <2> QED BY <2>2, <2>3
<1>7. ASSUME NEW i \in 1..Len(saves), StoreStep(i)
      PROVE  UNCHANGED <<tabs, activeId, closing, restoreVars, early>> /\ SessionsMove
  BY <1>4, <1>7 DEF StoreStep, tabVars, noteVars
<1>8. ASSUME Shortcut, UNCHANGED restoreVars
      PROVE  restoreChecked \/ (early' /\ restoreChecked' = restoreChecked)
  BY <1>8, ShortcutNotes DEF PageInv, restoreVars
<1>9. ASSUME OpenTab
      PROVE  Shortcut /\ UNCHANGED restoreVars
  BY <1>9 DEF OpenTab
<1>10. ASSUME NEW t \in TabIds, SwitchTab(t) \/ CloseTab(t)
       PROVE  Shortcut /\ UNCHANGED restoreVars
  BY <1>10 DEF SwitchTab, CloseTab, closeTabs
<1>11. ASSUME NEW t \in TabIds,
              CloseOtherTabs(t) \/ \E text \in Texts : applyRename(t, text)
       PROVE  restoreChecked /\ UNCHANGED restoreVars
  BY <1>11 DEF CloseOtherTabs, closeTabs, applyRename, OnStrip
<1>12. ASSUME NEW t \in TabIds, RemoveTab(t)
       PROVE  \/ restoreChecked /\ UNCHANGED restoreVars
              \/ early' /\ restoreChecked' = restoreChecked
  BY <1>2, <1>12 DEF RemoveTab, restoreVars, noteVars
<1>13. ASSUME NEW t \in TabIds, SessionStatus(t) \/ SessionTitle(t) \/ SessionReplay(t)
       PROVE  UNCHANGED <<tabs, activeId, closing, restoreVars, early>> /\ SessionsMove
  BY <1>4, <1>13 DEF SessionStatus, SessionTitle, SessionReplay, tabVars, noteVars
<1>14. ASSUME NEW t \in TabIds, NEW s \in SessionIds, SessionNamed(t, s)
       PROVE  UNCHANGED <<tabs, activeId, closing, restoreVars, early>> /\ SessionsMove
  <2>1. /\ sess' = [sess EXCEPT ![t] = s] /\ ended \subseteq ended'
        /\ sess[t] \in ended' \union {None}
        /\ UNCHANGED <<tabs, activeId, closing, restoreVars, early>>
    BY <1>14 DEF SessionNamed, noteVars
  <2>2. sess \in [TabIds -> SessionOrNone]
    BY DEF PageInv, Strip, StripTypes
  <2> QED BY <2>1, <2>2 DEF SessionsMove
<1>15. ASSUME NEW from \in 1..Len(tabs), NEW to \in 1..Len(tabs), ReorderTabs(from, to)
       PROVE  restoreChecked /\ UNCHANGED restoreVars
  BY <1>15 DEF ReorderTabs, OnStrip
<1>16. ASSUME UNCHANGED vars
       PROVE  UNCHANGED <<tabs, activeId, closing, restoreVars, early>> /\ SessionsMove
  BY <1>4, <1>16 DEF vars, tabVars, noteVars
<1> QED BY <1>3, <1>5, <1>6, <1>7, <1>8, <1>9, <1>10, <1>11, <1>12, <1>13, <1>14, <1>15, <1>16 DEF Next

(* A restored tab is in its place.                                         *)
LEMMA RestoredTab ==
    ASSUME Strip, Undisturbed, ~early, NEW saved \in SavedTab, openTab(saved),
           ended' = ended, closing' = closing, page' = page,
           ri \in Nat, Len(tabs) = ri, loaded'.tabs[ri + 1] = saved,
           \A i \in 1..ri : loaded'.tabs[i].sess \in {sess[tabs[i]], None} \union ended
    PROVE  /\ Len(tabs') = ri + 1
           /\ \A i \in 1..(ri + 1) : loaded'.tabs[i].sess \in {sess'[tabs'[i]], None} \union ended'
<1>1. /\ tabs \in Seq(TabIds) /\ tabs' = Append(tabs, nextId) /\ sess' = [sess EXCEPT ![nextId] = saved.sess]
      /\ sess \in [TabIds -> SessionOrNone] /\ nextId \in TabIds /\ ToSet(tabs) \subseteq 1..(nextId - 1)
  BY TabAssumption DEF Strip, StripTypes, Numbered, openTab, TabIds
<1>2. /\ Len(tabs') = ri + 1 /\ tabs'[ri + 1] = nextId
      /\ \A i \in 1..ri : tabs'[i] = tabs[i] /\ tabs[i] \in ToSet(tabs) /\ tabs[i] \in TabIds
  BY <1>1 DEF ToSet
<1>3. nextId \notin ToSet(tabs)
  BY <1>1 DEF TabIds
<1>4. ASSUME NEW i \in 1..ri PROVE loaded'.tabs[i].sess \in {sess'[tabs'[i]], None} \union ended'
  <2>1. tabs'[i] = tabs[i] /\ tabs[i] # nextId /\ tabs[i] \in TabIds
    BY <1>2, <1>3
  <2>2. sess'[tabs[i]] = sess[tabs[i]]
    BY <1>1, <2>1
  <2> QED BY <2>1, <2>2
<1>5. loaded'.tabs[ri + 1].sess = sess'[tabs'[ri + 1]]
  BY <1>1, <1>2
<1>6. \A i \in 1..(ri + 1) : i \in 1..ri \/ i = ri + 1
  OBVIOUS
<1> QED BY <1>2, <1>4, <1>5, <1>6

(* Undisturbed is inductive, given PageInv.                                *)
LEMMA NextUndisturbed == PageInv /\ Undisturbed /\ [Next]_vars => Undisturbed'
<1> SUFFICES ASSUME PageInv, Undisturbed, [Next]_vars PROVE Undisturbed'
  OBVIOUS
<1>1. /\ tabs \in Seq(TabIds) /\ Len(tabs) \in Nat /\ ri \in 0..Len(loaded.tabs)
      /\ loaded.tabs \in Seq(SavedTab) /\ Len(loaded.tabs) \in Nat
      /\ loaded.active \in 0..(IF loaded.tabs = <<>> THEN 0 ELSE Len(loaded.tabs) - 1)
      /\ SavedOK(disk) /\ disk.tabs \in Seq(SavedTab) /\ Strip
  BY DEF PageInv, Strip, StripTypes, RestTypes, SavedOK, Stored
<1>2. CASE LoadSession
  <2>1. CASE ~restoreTabsEnabled \/ disk.tabs = <<>>
    BY <1>2, <2>1 DEF LoadSession, Undisturbed
  <2>2. CASE ~(~restoreTabsEnabled \/ disk.tabs = <<>>) /\ ~early
    <3>1. /\ openTab(disk.tabs[1]) /\ loaded' = disk /\ ri' = 1 /\ restore' = "open" /\ restore = "load"
          /\ closing' = closing /\ restoreChecked' = restoreChecked /\ page' = page /\ ended' = ended
      BY <1>2, <2>2 DEF LoadSession, pageVars
    <3>2. disk.tabs[1] \in SavedTab
      BY <1>1, <2>2
    <3>3. Len(tabs') = Len(tabs) + 1 /\ tabs'[Len(tabs')] = nextId
      BY <1>1, <3>1, <3>2, OpenTabStrip DEF SavedTab
    <3>4. Len(tabs) = 0
      <4>1. ToSet(tabs) = {}
        BY <2>2, <3>1 DEF PageInv, RestoreInv, Strip, Numbered
      <4> QED BY <1>1, <4>1, EmptyFacts
    <3>5. sess'[nextId] = disk.tabs[1].sess
      <4>1. nextId \in TabIds /\ sess \in [TabIds -> SessionOrNone]
        BY TabAssumption, <1>1, <3>1 DEF Strip, StripTypes, openTab, TabIds
      <4> QED BY <3>1, <4>1 DEF openTab
    <3>6. \A i \in 1..ri' : loaded'.tabs[i].sess \in {sess'[tabs'[i]], None} \union ended'
      BY <3>1, <3>3, <3>4, <3>5
    <3>7. Len(tabs') = ri' /\ (~restoreChecked' => closing' = {})
      BY <2>2, <3>1, <3>3, <3>4 DEF Undisturbed
    <3> QED BY <3>1, <3>6, <3>7 DEF Undisturbed
  <2>3. CASE early
    BY <1>2, <2>3 DEF LoadSession, Undisturbed, noteVars
  <2> QED BY <2>1, <2>2, <2>3
<1>3. CASE RestoreNext
  <2>1. /\ openTab(loaded.tabs[ri + 1]) /\ ri' = ri + 1 /\ ri < Len(loaded.tabs)
        /\ restore = "open" /\ restore' = "open" /\ loaded' = loaded /\ early' = early
        /\ closing' = closing /\ restoreChecked' = restoreChecked /\ page' = page /\ ended' = ended
    BY <1>3 DEF RestoreNext, pageVars, noteVars
  <2>2. loaded.tabs[ri + 1] \in SavedTab
    BY <1>1, <2>1
  <2>3. ASSUME ~early
        PROVE  /\ Len(tabs') = ri + 1
               /\ \A i \in 1..(ri + 1) : loaded'.tabs[i].sess \in {sess'[tabs'[i]], None} \union ended'
    <3>1. ri \in Nat /\ Len(tabs) = ri /\ loaded'.tabs[ri + 1] = loaded.tabs[ri + 1]
      BY <1>1, <2>1, <2>3 DEF Undisturbed
    <3>2. \A i \in 1..ri : loaded'.tabs[i].sess \in {sess[tabs[i]], None} \union ended
      BY <2>1, <2>3 DEF Undisturbed
    <3> QED BY <1>1, <2>1, <2>2, <2>3, <3>1, <3>2, RestoredTab
  <2> QED BY <2>1, <2>3 DEF Undisturbed
<1>4. CASE RestoreFinalize
  <2>1. /\ restore = "open" /\ restore' = "reveal" /\ ri = Len(loaded.tabs)
        /\ (loaded.active < Len(tabs) => activeId' = tabs[loaded.active + 1])
        /\ tabs' = tabs /\ ri' = ri /\ loaded' = loaded /\ sess' = sess /\ ended' = ended
        /\ closing' = closing /\ restoreChecked' = restoreChecked /\ early' = early
    BY <1>4 DEF RestoreFinalize, noteVars
  <2>2. ~early => Len(tabs) = ri
    BY <2>1 DEF Undisturbed
  <2>3. ~early /\ tabs # <<>> => loaded.active < Len(tabs)
    BY <1>1, <2>1, <2>2
  <2> QED BY <2>1, <2>2, <2>3 DEF Undisturbed
<1>5. CASE RestoreReveal
  BY <1>5 DEF RestoreReveal, Undisturbed
<1>6. CASE restore' \in {"titles", "done"} /\ restoreChecked' = restoreChecked /\ restoreChecked
  BY <1>6 DEF Undisturbed
<1>7. CASE KillAndRestart
  BY <1>7 DEF KillAndRestart, FreshPage, Undisturbed
<1>8. CASE UNCHANGED <<tabs, activeId, closing, restoreVars, early>> /\ SessionsMove
  <2>1. ASSUME ~early, restore \in {"open", "reveal"}, NEW i \in 1..ri
        PROVE  loaded.tabs[i].sess \in {sess'[tabs[i]], None} \union ended'
    <3>1. loaded.tabs[i].sess \in {sess[tabs[i]], None} \union ended /\ Len(tabs) = ri
      BY <2>1 DEF Undisturbed
    <3>2. tabs[i] \in TabIds
      BY <1>1, <3>1
    <3> QED BY <1>8, <3>1, <3>2 DEF SessionsMove
  <2> QED BY <1>8, <2>1 DEF Undisturbed, restoreVars
<1>9. CASE early' /\ restoreChecked' = restoreChecked
  BY <1>9 DEF Undisturbed
<1> QED BY <1>2, <1>3, <1>4, <1>5, <1>6, <1>7, <1>8, <1>9, RestoreSteps

-----------------------------------------------------------------------------
(* Whatever was saved is open, closed or replaced.                         *)
Live == {sess[t] : t \in runtimes}
Known == Live \union ended \union {None}

(* The sessions of what is stored and of what is on its way to be.         *)
Held == Sessions(disk) \union Sessions(mem) \union UNION {Sessions(saves[i].snap) : i \in DOMAIN saves}

(* No session that is saved is forgotten by the page that has it.          *)
Accounted ==
    /\ \A t \in closing : sess[t] \in ended \union {None}
    /\ late => page = "gone"
    /\ ~late => Held \subseteq Sessions(lastSnap) \union ended
    /\ page = "shown" /\ restoreTabsEnabled /\ restoreChecked => Sessions(lastSnap) \subseteq Known
    /\ page = "shown" /\ restore \in {"open", "reveal"} =>
          \A i \in 1..ri : loaded.tabs[i].sess \in Known

(* No session is dropped by a step: it stays with a tab or it has ended.   *)
NothingLost ==
    /\ ended \subseteq ended'
    /\ page' = "shown" => page = "shown" /\ Live \subseteq Known'
    /\ \A t \in closing' : sess'[t] \in ended' \union {None}

(* What is known stays known.                                              *)
LEMMA KnownStays == ASSUME NothingLost, page' = "shown" PROVE page = "shown" /\ Known \subseteq Known'
  BY DEF NothingLost, Known

(* What is held changes with the store and the saves only.                 *)
LEMMA SameHeld == ASSUME UNCHANGED <<disk, mem, saves>> PROVE Held' = Held
<1>1. disk' = disk /\ mem' = mem /\ saves' = saves
  OBVIOUS
<1> QED BY <1>1 DEF Held, Sessions

(* Such a step outside the restore and the store keeps the account.        *)
LEMMA AccountStays ==
    ASSUME Accounted, NothingLost, UNCHANGED <<restoreVars, storeVars, saveVars>>,
           page' = page
    PROVE  Accounted'
<1>1. /\ restoreTabsEnabled' = restoreTabsEnabled /\ restoreChecked' = restoreChecked
      /\ restore' = restore /\ loaded' = loaded /\ ri' = ri /\ lastSnap' = lastSnap /\ late' = late
      /\ disk' = disk /\ mem' = mem /\ saves' = saves
  BY DEF restoreVars, storeVars, saveVars
<1>2. page' = "shown" => page = "shown" /\ Known \subseteq Known'
  BY KnownStays
<1>3. \A t \in closing' : sess'[t] \in ended' \union {None}
  BY DEF NothingLost
<1>4. ~late' => Held' \subseteq Sessions(lastSnap') \union ended'
  <2>1. Held' = Held
    BY <1>1, SameHeld
  <2>2. Sessions(lastSnap') = Sessions(lastSnap) /\ ended \subseteq ended'
    BY <1>1 DEF NothingLost
  <2> QED BY <1>1, <2>1, <2>2 DEF Accounted
<1>5. page' = "shown" /\ restoreTabsEnabled' /\ restoreChecked' => Sessions(lastSnap') \subseteq Known'
  BY <1>1, <1>2 DEF Accounted
<1>6. page' = "shown" /\ restore' \in {"open", "reveal"} => \A i \in 1..ri' : loaded'.tabs[i].sess \in Known'
  BY <1>1, <1>2 DEF Accounted
<1>7. late' => page' = "gone"
  BY <1>1 DEF Accounted
<1> QED BY <1>3, <1>4, <1>5, <1>6, <1>7 DEF Accounted

(* Steps that touch neither sessions nor runtimes lose nothing.            *)
LEMMA SameSessions ==
    ASSUME Accounted, UNCHANGED <<sess, runtimes, closing, ended, page>>
    PROVE  NothingLost /\ Known' = Known
  BY DEF Accounted, NothingLost, Known, Live

(* A tab that is opened is known, and loses nothing.                       *)
LEMMA OpenTabKnown ==
    ASSUME Accounted, Strip, NEW saved, openTab(saved), UNCHANGED <<closing, ended, page>>
    PROVE  NothingLost /\ saved.sess \in Known'
<1>1. nextId \in TabIds /\ nextId \notin runtimes /\ nextId \notin closing
  BY TabAssumption DEF Strip, StripTypes, Numbered, openTab, TabIds
<1>2. /\ sess \in [TabIds -> SessionOrNone] /\ sess' = [sess EXCEPT ![nextId] = saved.sess]
      /\ runtimes' = runtimes \union {nextId} /\ runtimes \subseteq TabIds /\ closing \subseteq TabIds
  BY DEF Strip, StripTypes, openTab
<1>3. sess'[nextId] = saved.sess /\ \A t \in runtimes \union closing : sess'[t] = sess[t]
  BY <1>1, <1>2
<1>4. saved.sess \in Live' /\ Live \subseteq Live'
  BY <1>2, <1>3 DEF Live
<1> QED BY <1>3, <1>4 DEF Accounted, NothingLost, Known

(* A burst of closings ends the sessions of its tabs.                      *)
LEMMA CloseTabsLose ==
    ASSUME Accounted, NEW ids, closeTabs(ids)
    PROVE  NothingLost
<1>1. /\ closing' = closing \union ToSet(ids) /\ sess' = sess /\ runtimes' = runtimes /\ page' = page
      /\ ended' = ended \union ({sess[t] : t \in ToSet(ids)} \ {None})
  BY DEF closeTabs, pageVars
<1>2. Live' = Live
  BY <1>1 DEF Live
<1> QED BY <1>1, <1>2 DEF Accounted, NothingLost, Known

(* The removal forgets a session that was ended.                           *)
LEMMA RemoveTabLoses ==
    ASSUME Accounted, Strip, NEW t \in TabIds, RemoveTab(t)
    PROVE  NothingLost
<1>1. /\ t \in closing /\ closing' = closing \ {t} /\ runtimes' = runtimes \ {t}
      /\ sess' = [sess EXCEPT ![t] = None] /\ ended' = ended /\ page' = page
      /\ sess \in [TabIds -> SessionOrNone] /\ runtimes \subseteq TabIds /\ closing \subseteq TabIds
  BY DEF RemoveTab, pageVars, Strip, StripTypes
<1>2. sess[t] \in ended \union {None}
  BY <1>1 DEF Accounted
<1>3. \A u \in TabIds \ {t} : sess'[u] = sess[u]
  BY <1>1
<1>4. Live \subseteq Live' \union {sess[t]}
  BY <1>1, <1>3 DEF Live
<1> QED BY <1>1, <1>2, <1>3, <1>4 DEF Accounted, NothingLost, Known

(* A session that is replaced has ended; so has one that a stopped tab is  *)
(* given.                                                                  *)
LEMMA SessionNamedLoses ==
    ASSUME Accounted, Strip, NEW t \in TabIds, NEW s \in SessionIds, SessionNamed(t, s)
    PROVE  NothingLost
<1>1. /\ closing' = closing /\ runtimes' = runtimes /\ page' = page
      /\ sess' = [sess EXCEPT ![t] = s]
      /\ ended' = ended \union ({sess[t]} \ {None}) \union (IF t \in running THEN {} ELSE {s})
      /\ sess \in [TabIds -> SessionOrNone] /\ runtimes \subseteq TabIds /\ closing \subseteq TabIds
      /\ running \subseteq runtimes \ closing
  BY DEF SessionNamed, pageVars, Strip, StripTypes, SessionsHaveTabs
<1>2. sess'[t] = s /\ \A u \in TabIds \ {t} : sess'[u] = sess[u]
  BY <1>1
<1>3. ended \subseteq ended' /\ sess[t] \in ended' \union {None}
  BY <1>1
<1>4. Live \subseteq Live' \union {sess[t]}
  BY <1>1, <1>2 DEF Live
<1>5. \A u \in closing' : sess'[u] \in ended' \union {None}
  <2>1. t \in closing => s \in ended'
    BY <1>1
  <2> QED BY <1>1, <1>2, <1>3, <2>1 DEF Accounted
<1> QED BY <1>1, <1>3, <1>4, <1>5 DEF NothingLost, Known

(* The restore opens what was saved.                                       *)
LEMMA RestoreAccount ==
    ASSUME Accounted, PageInv,
           LoadSession \/ RestoreNext \/ RestoreFinalize \/ RestoreReveal \/ ReapplyTitles
    PROVE  Accounted'
<1>0. /\ Strip /\ RestoreInv /\ disk.tabs \in Seq(SavedTab) /\ loaded.tabs \in Seq(SavedTab)
      /\ ri \in Nat
  BY DEF PageInv, RestTypes, SavedOK, Stored
<1>a. /\ UNCHANGED <<closing, ended, page, restoreTabsEnabled>>
      /\ disk' = disk /\ mem' = mem /\ saves' = saves /\ lastSnap' = lastSnap /\ late' = late
  BY DEF LoadSession, RestoreNext, RestoreFinalize, RestoreReveal, ReapplyTitles, storeVars, saveVars, pageVars
<1>b. Held' = Held
  BY <1>a, SameHeld
<1>1. /\ UNCHANGED <<closing, ended, page, restoreTabsEnabled, disk, lastSnap>>
      /\ late' => page' = "gone"
      /\ ~late' => Held' \subseteq Sessions(lastSnap') \union ended'
  BY <1>a, <1>b DEF Accounted
<1>2. ~restoreChecked => lastSnap = disk
  BY <1>0 DEF RestoreInv, NothingSaved
<1>3. CASE LoadSession
  <2>1. restore = "load" /\ ~restoreChecked
    BY <1>0, <1>3 DEF LoadSession, RestoreInv
  <2>2. CASE ~restoreTabsEnabled \/ disk.tabs = <<>>
    <3>1. /\ restore' = "done" /\ UNCHANGED <<sess, runtimes>>
      BY <1>3, <2>2 DEF LoadSession, tabVars
    <3>2. restoreTabsEnabled => Sessions(lastSnap) = {}
      <4>1. disk.tabs = <<>> => Sessions(disk) = {}
        BY DEF Sessions
      <4> QED BY <1>2, <2>1, <2>2, <4>1
    <3> QED BY <1>1, <3>1, <3>2 DEF Accounted
  <2>3. CASE ~(~restoreTabsEnabled \/ disk.tabs = <<>>)
    <3>1. openTab(disk.tabs[1]) /\ loaded' = disk /\ ri' = 1 /\ restoreChecked' = restoreChecked
      BY <1>3, <2>3 DEF LoadSession
    <3>2. NothingLost /\ disk.tabs[1].sess \in Known'
      BY <1>0, <1>1, <3>1, OpenTabKnown
    <3>3. \A i \in 1..ri' : loaded'.tabs[i].sess \in Known'
      BY <3>1, <3>2
    <3> QED BY <1>1, <2>1, <3>1, <3>2, <3>3 DEF Accounted, NothingLost
  <2> QED BY <2>2, <2>3
<1>4. CASE RestoreNext
  <2>1. /\ restore = "open" /\ openTab(loaded.tabs[ri + 1]) /\ ri' = ri + 1
        /\ loaded' = loaded /\ restoreChecked' = restoreChecked /\ restore' = restore
    BY <1>4 DEF RestoreNext
  <2>2. NothingLost /\ loaded.tabs[ri + 1].sess \in Known'
    BY <1>0, <1>1, <2>1, OpenTabKnown
  <2>3. ~restoreChecked
    BY <1>0, <2>1 DEF RestoreInv
  <2>4. page' = "shown" => \A i \in 1..ri' : loaded'.tabs[i].sess \in Known'
    <3>1. \A i \in 1..ri' : i \in 1..ri \/ i = ri + 1
      BY <1>0, <2>1
    <3>2. page' = "shown" => \A i \in 1..ri : loaded.tabs[i].sess \in Known'
      BY <2>1, <2>2, KnownStays DEF Accounted
    <3> QED BY <2>1, <2>2, <3>1, <3>2
  <2> QED BY <1>1, <2>1, <2>2, <2>3, <2>4 DEF Accounted, NothingLost
<1>5. CASE RestoreFinalize \/ RestoreReveal \/ ReapplyTitles
  <2>1. UNCHANGED <<sess, runtimes>>
    BY <1>5 DEF RestoreFinalize, RestoreReveal, ReapplyTitles, tabVars
  <2>2. Known' = Known
    BY <1>1, <2>1, SameSessions
  <2>3. CASE RestoreFinalize
    <3>1. /\ restore = "open" /\ restore' = "reveal" /\ loaded' = loaded /\ ri' = ri
          /\ restoreChecked' = restoreChecked
      BY <2>3 DEF RestoreFinalize
    <3> QED BY <1>1, <2>1, <2>2, <3>1 DEF Accounted
  <2>4. CASE RestoreReveal
    <3>1. restore = "reveal" /\ restore' = "titles"
      BY <2>4 DEF RestoreReveal
    <3>2. loaded = disk /\ ri = Len(loaded.tabs) /\ lastSnap = disk
      BY <1>0, <1>2, <3>1 DEF RestoreInv
    <3>3. page = "shown" => Sessions(lastSnap) \subseteq Known
      <4>1. page = "shown" => \A i \in DOMAIN disk.tabs : disk.tabs[i].sess \in Known
        BY <1>0, <3>1, <3>2 DEF Accounted
      <4> QED BY <3>2, <4>1 DEF Sessions
    <3> QED BY <1>1, <2>1, <2>2, <3>1, <3>3 DEF Accounted
  <2>5. CASE ReapplyTitles
    <3>1. restore' = "done" /\ restoreChecked' = restoreChecked
      BY <2>5 DEF ReapplyTitles
    <3> QED BY <1>1, <2>1, <2>2, <3>1 DEF Accounted
  <2> QED BY <1>5, <2>3, <2>4, <2>5
<1> QED BY <1>3, <1>4, <1>5

(* What a snapshot says of the sessions.                                   *)
LEMMA ShotSessions ==
    ASSUME NEW ts \in Seq(TabIds), NEW rs, NEW ac, NEW ss \in [TabIds -> SessionOrNone],
           NEW ti \in [TabIds -> SessionOrNone]
    PROVE  Sessions(Shot(ts, rs, ac, ss, ti)) = {ss[t] : t \in ToSet(ts) \intersect rs} \ {None}
<1> DEFINE open == Kept(ts, rs)
           shot == Shot(ts, rs, ac, ss, ti)
<1>1. /\ SavedOK(shot)
      /\ Sessions(shot) = {ss[t] : t \in ToSet(ts) \intersect rs} \ {None}
      /\ Content(shot) =
            [tabs |-> Len(open),
             sessions |-> {ss[t] : t \in ToSet(ts) \intersect rs} \ {None},
             shows |-> IF open = <<>> THEN None ELSE ss[open[PositionOr(open, ac, 1)]]]
  BY ShotFacts
<1> HIDE DEF open
<1> QED BY <1>1

(* What is held after a save was held before, or is in the snapshot.       *)
LEMMA SaveHeld ==
    ASSUME RestTypes, NEW snap, saves' = Append(saves, Save(snap)), UNCHANGED <<disk, mem>>
    PROVE  Held' \subseteq Held \union Sessions(snap)
<1> DEFINE S == [snap : Stored, at : {"tokens", "put", "flush"}]
           new == Save(snap)
<1>1. new.snap = snap
  BY DEF Save
<1>2. saves \in Seq(S) /\ disk' = disk /\ mem' = mem /\ saves' = Append(saves, new)
  BY DEF RestTypes
<1> HIDE DEF new, S
<1>3. \A i \in DOMAIN saves' : (i \in DOMAIN saves /\ saves'[i] = saves[i]) \/ saves'[i] = new
  BY <1>2
<1>4. \A i \in DOMAIN saves' :
         \/ i \in DOMAIN saves /\ Sessions(saves'[i].snap) = Sessions(saves[i].snap)
         \/ Sessions(saves'[i].snap) = Sessions(snap)
  BY <1>1, <1>3
<1>5. Sessions(disk') = Sessions(disk) /\ Sessions(mem') = Sessions(mem)
  BY <1>2
<1> HIDE DEF new, S
<1> QED BY <1>4, <1>5 DEF Held

(* A save of a shown page passes every session that is open; one of a page *)
(* that is gone is late.                                                   *)
LEMMA SaveAccount ==
    ASSUME Accounted, PageInv, doSaveSession,
           UNCHANGED <<sess, closing, ended, restoreVars, storeVars>>,
           (page = "shown" /\ page' = "gone") \/ UNCHANGED <<runtimes, page>>
    PROVE  Accounted'
<1>0. /\ disk' = disk /\ mem' = mem
      /\ restoreTabsEnabled' = restoreTabsEnabled /\ restoreChecked' = restoreChecked
      /\ restore' = restore /\ loaded' = loaded /\ ri' = ri
  BY DEF storeVars, restoreVars
<1>1. page' = "shown" => Known' = Known /\ page = "shown"
  BY DEF Known, Live
<1>2. CASE restoreTabsEnabled /\ restoreChecked /\ page = "shown"
  <2>1. lastSnap' = snapshot /\ late' = FALSE /\ saves' = Append(saves, Save(snapshot))
    BY <1>2 DEF doSaveSession
  <2>2. Sessions(snapshot) = Live \ {None}
    <3>1. /\ tabs \in Seq(TabIds) /\ sess \in [TabIds -> SessionOrNone]
          /\ title \in [TabIds -> SessionOrNone]
      BY DEF PageInv, Strip, StripTypes
    <3>3. ToSet(tabs) = runtimes
      BY <1>2 DEF PageInv, Strip, SessionsHaveTabs
    <3>2. Sessions(snapshot) = {sess[t] : t \in ToSet(tabs) \intersect runtimes} \ {None}
      <4> DEFINE shot == Shot(tabs, runtimes, activeId, sess, title)
      <4>1. Sessions(shot) = {sess[t] : t \in ToSet(tabs) \intersect runtimes} \ {None}
        BY <3>1, ShotSessions
      <4>2. snapshot = shot
        BY SnapshotIsShot
      <4> HIDE DEF shot
      <4> QED BY <4>1, <4>2
    <3> QED BY <3>3, <3>2 DEF Live
  <2>3. Held \subseteq Known /\ None \notin Held
    <3>1. Held \subseteq Known
      BY <1>2 DEF Accounted, Known
    <3> QED BY <3>1 DEF Held, Sessions
  <2>4. Sessions(lastSnap') = Live \ {None}
    BY <2>1, <2>2
  <2>5. Held' \subseteq Held \union Sessions(snapshot)
    <3> DEFINE shot == snapshot
    <3>1. saves' = Append(saves, Save(shot)) /\ RestTypes
      BY <2>1 DEF PageInv
    <3> HIDE DEF shot
    <3>2. Held' \subseteq Held \union Sessions(shot)
      BY <1>0, <3>1, SaveHeld
    <3> QED BY <3>2 DEF shot
  <2>6. Held' \subseteq Sessions(lastSnap') \union ended'
    BY <2>2, <2>3, <2>4, <2>5 DEF Known
  <2> QED BY <1>0, <1>1, <2>1, <2>4, <2>6 DEF Accounted, Known
<1>3. CASE restoreTabsEnabled /\ restoreChecked /\ page # "shown"
  <2>1. page = "gone" /\ page' = "gone"
    BY <1>3 DEF PageInv, Strip, StripTypes
  <2>2. late'
    BY <1>3, <2>1 DEF doSaveSession
  <2> QED BY <2>1, <2>2 DEF Accounted
<1>4. CASE ~(restoreTabsEnabled /\ restoreChecked)
  <2>1. lastSnap' = lastSnap /\ saves' = saves /\ late' = late
    BY <1>4 DEF doSaveSession, saveVars
  <2>2. Held' = Held
    BY <1>0, <2>1, SameHeld
  <2>3. late => page' = "gone"
    BY <1>1, <2>1 DEF Accounted, PageInv, Strip, StripTypes
  <2>4. Sessions(lastSnap') = Sessions(lastSnap) /\ ended' = ended
    BY <2>1
  <2> QED BY <1>0, <1>1, <1>4, <2>1, <2>2, <2>3, <2>4 DEF Accounted
<1> QED BY <1>2, <1>3, <1>4

(* An await that is over holds nothing more; what a save that no other     *)
(* overlaps flushes is what was passed last.                               *)
LEMMA StoreAccount ==
    ASSUME Accounted, NEW i \in 1..Len(saves), StoreStep(i), PageInv
    PROVE  Accounted' /\ (InFlight /\ ~overlapped /\ ~late => Sessions(disk) \subseteq Sessions(disk') \union ended')
<1> DEFINE S == [snap : Stored, at : {"tokens", "put", "flush"}]
<1>1. /\ UNCHANGED <<sess, runtimes, closing, ended, page, restoreTabsEnabled, restoreChecked, restore,
                     loaded, ri, lastSnap, late>>
      /\ disk' = IF saves[i].at = "flush" THEN mem ELSE disk
      /\ mem' = IF saves[i].at = "put" THEN saves[i].snap ELSE mem
  BY DEF StoreStep, tabVars, restoreVars, pageVars
<1>2. i \in DOMAIN saves /\ saves \in Seq(S)
  BY DEF PageInv, RestTypes
<1>3. \A k \in DOMAIN saves' : \E n \in DOMAIN saves : saves'[k].snap = saves[n].snap
  <2>1. CASE saves[i].at = "flush"
    <3>1. saves' = RemoveAt(saves, i)
      BY <2>1 DEF StoreStep
    <3> HIDE DEF S
    <3>2. /\ saves' \in Seq(S) /\ Len(saves') = Len(saves) - 1
          /\ \A j \in 1..(Len(saves) - 1) : saves'[j] = saves[IF j < i THEN j ELSE j + 1]
      BY <1>2, <3>1, RemoveFacts
    <3>3. \A k \in DOMAIN saves' : \E n \in DOMAIN saves : saves'[k] = saves[n]
      BY <1>2, <3>2
    <3> QED BY <3>3
  <2>2. CASE saves[i].at # "flush"
    <3> DEFINE step == [tokens |-> "put", put |-> "flush"][saves[i].at]
    <3>1. saves' = [saves EXCEPT ![i].at = step]
      BY <2>2 DEF StoreStep
    <3> HIDE DEF step
    <3>2. DOMAIN saves' = DOMAIN saves
      BY <3>1
    <3>3. \A k \in DOMAIN saves : saves[k] \in S
      <4> HIDE DEF S
      <4> QED BY <1>2
    <3>4. \A k \in DOMAIN saves' : saves'[k].snap = saves[k].snap
      BY <3>1, <3>2, <3>3
    <3> QED BY <3>2, <3>4
  <2> QED BY <2>1, <2>2
<1>4. Held' \subseteq Held
  <2>1. Sessions(disk') \subseteq Held
    BY <1>1 DEF Held
  <2>2. Sessions(mem') \subseteq Held
    BY <1>1, <1>2 DEF Held
  <2>3. \A k \in DOMAIN saves' : Sessions(saves'[k].snap) \subseteq Held
    BY <1>3 DEF Held
  <2> QED BY <2>1, <2>2, <2>3 DEF Held
<1>5. Known' = Known
  BY <1>1, SameSessions
<1>6. Accounted'
  BY <1>1, <1>4, <1>5 DEF Accounted
<1>7. ASSUME InFlight, ~overlapped, ~late
      PROVE  Sessions(disk) \subseteq Sessions(disk') \union ended'
  <2>1. disk' = lastSnap \/ disk' = disk
    BY <1>1, <1>2, <1>7 DEF InFlight
  <2>2. Sessions(disk) \subseteq Sessions(lastSnap) \union ended
    BY <1>7 DEF Accounted, Held
  <2> QED BY <1>1, <2>1, <2>2
<1> QED BY <1>6, <1>7

(* Accounted is inductive, given PageInv.                                  *)
LEMMA NextAccount == PageInv /\ Accounted /\ [Next]_vars => Accounted'
<1> SUFFICES ASSUME PageInv, Accounted, [Next]_vars PROVE Accounted'
  OBVIOUS
<1>0. Strip
  BY DEF PageInv
<1>1. CASE LoadSession \/ RestoreNext \/ RestoreFinalize \/ RestoreReveal \/ ReapplyTitles
  BY <1>1, RestoreAccount
<1>2. CASE OpenTab
  BY <1>0, <1>2, OpenTabKnown, AccountStays DEF OpenTab, pageVars
<1>3. CASE OnPageHide
  BY <1>3, SaveAccount DEF OnPageHide, tabVars, pageVars
<1>4. CASE AboutToDisappear
  BY <1>4, SaveAccount DEF AboutToDisappear
<1>5. CASE SaveTimerFires
  BY <1>5, SaveAccount DEF SaveTimerFires, tabVars, pageVars
<1>6. CASE KillAndRestart
  <2>1. /\ closing' = {} /\ late' = FALSE /\ restoreChecked' = FALSE /\ restore' = "load"
        /\ saves' = <<>> /\ mem' = disk /\ lastSnap' = disk /\ disk' = disk
    BY <1>6 DEF KillAndRestart, FreshPage
  <2>2. Held' = Sessions(disk)
    BY <2>1 DEF Held
  <2> QED BY <2>1, <2>2 DEF Accounted
<1>7. ASSUME NEW i \in 1..Len(saves), StoreStep(i) PROVE Accounted'
  BY <1>7, StoreAccount
<1>8. ASSUME NEW t \in TabIds, SwitchTab(t) \/ \E text \in Texts : applyRename(t, text) PROVE Accounted'
  BY <1>8, SameSessions, AccountStays DEF SwitchTab, applyRename, pageVars
<1>9. ASSUME NEW t \in TabIds, CloseTab(t) PROVE Accounted'
  BY <1>9, CloseTabsLose, AccountStays DEF CloseTab, closeTabs, pageVars
<1>10. ASSUME NEW t \in TabIds, CloseOtherTabs(t) PROVE Accounted'
  <2>1. closeTabs(Kept(tabs, runtimes \ {t}))
    BY <1>10 DEF CloseOtherTabs
  <2>2. UNCHANGED <<restoreVars, storeVars, saveVars, page>>
    BY <2>1 DEF closeTabs, pageVars
  <2> QED BY <2>1, <2>2, CloseTabsLose, AccountStays
<1>11. ASSUME NEW t \in TabIds, RemoveTab(t) PROVE Accounted'
  BY <1>0, <1>11, RemoveTabLoses, AccountStays DEF RemoveTab, pageVars
<1>12. ASSUME NEW t \in TabIds, SessionStatus(t) \/ SessionTitle(t) \/ SessionReplay(t) PROVE Accounted'
  BY <1>12, SameSessions, AccountStays DEF SessionStatus, SessionTitle, SessionReplay, tabVars, pageVars
<1>13. ASSUME NEW t \in TabIds, NEW s \in SessionIds, SessionNamed(t, s) PROVE Accounted'
  BY <1>0, <1>13, SessionNamedLoses, AccountStays DEF SessionNamed, pageVars
<1>14. ASSUME NEW from \in 1..Len(tabs), NEW to \in 1..Len(tabs), ReorderTabs(from, to) PROVE Accounted'
  BY <1>14, SameSessions, AccountStays DEF ReorderTabs, pageVars
<1>15. CASE UNCHANGED vars
  BY <1>15, SameSessions, AccountStays DEF vars, tabVars, pageVars
<1> QED BY <1>1, <1>2, <1>3, <1>4, <1>5, <1>6, <1>7, <1>8, <1>9, <1>10, <1>11, <1>12, <1>13, <1>14, <1>15
        DEF Next

(* What is known of a page at its start and later.                         *)
LEMMA AccountInvariant == Safety => [](PageInv /\ InFlight /\ Accounted)
<1>1. Init => Accounted
  <2> SUFFICES ASSUME Init PROVE Accounted
    OBVIOUS
  <2>1. /\ closing = {} /\ late = FALSE /\ restoreChecked = FALSE /\ restore = "load"
        /\ saves = <<>> /\ mem = disk /\ lastSnap = disk
    BY DEF Init
  <2>2. Held = Sessions(disk)
    BY <2>1 DEF Held
  <2> QED BY <2>1, <2>2 DEF Accounted
<1>2. PageInv /\ Accounted /\ [Next]_vars => Accounted'
  BY NextAccount
<1> QED BY <1>1, <1>2, SavesInvariant, PTL DEF Safety

(* NoTabForgotten: through kills, half-restored pages, shortcuts and       *)
(* teardowns, a session leaves the disk only after it ended, or by a save  *)
(* that overlapped another or began when the page was gone.                *)
THEOREM NoTabIsForgotten == Safety => NoTabForgotten
<1> DEFINE Remembered == \A s \in Sessions(disk) \ Sessions(disk') : s \in ended' \/ overlapped \/ late
<1>1. PageInv /\ InFlight /\ Accounted /\ [Next]_vars => [Remembered]_vars
  <2> SUFFICES ASSUME PageInv, InFlight, Accounted, [Next]_vars PROVE Remembered
    OBVIOUS
  <2>1. ASSUME NEW i \in 1..Len(saves), StoreStep(i) PROVE Remembered
    BY <2>1, StoreAccount
  <2>2. ASSUME disk' = disk PROVE Remembered
    BY <2>2
  <2> HIDE DEF Remembered
  <2>3. CASE KillAndRestart
    BY <2>2, <2>3 DEF KillAndRestart
  <2> QED BY <2>1, <2>2, <2>3, StoreSteps DEF storeVars
<1> QED BY <1>1, AccountInvariant, PTL DEF Safety, NoTabForgotten

(* RestoreIsComplete: the restore brings back what was saved, whatever the *)
(* user does meanwhile; unless shortcuts move the tabs, each in its place. *)
THEOREM RestoreCompletes == Safety => RestoreIsComplete
<1> DEFINE Back == \A s \in Sessions(disk) : s \in ended' \/ \E t \in ToSet(tabs') : sess'[t] = s
           Placed ==
             /\ Len(tabs') = Len(disk.tabs)
             /\ \A i \in DOMAIN tabs' : disk.tabs[i].sess \in {sess'[tabs'[i]], None} \union ended'
             /\ tabs' # <<>> => activeId' = tabs'[disk.active + 1]
           Complete ==
             page = "shown" /\ ~restoreChecked /\ restoreChecked' /\ restoreTabsEnabled =>
                Back /\ (~early => Placed)
<1>1. Init => Undisturbed
  BY DEF Init, Undisturbed
<1>2. PageInv /\ Undisturbed /\ [Next]_vars => Undisturbed'
  BY NextUndisturbed
<1>3. PageInv /\ Accounted /\ Undisturbed /\ [Next]_vars => [Complete]_vars
  <2> SUFFICES ASSUME PageInv, Accounted, Undisturbed, [Next]_vars,
                      page = "shown", ~restoreChecked, restoreChecked', restoreTabsEnabled
               PROVE  Back /\ (~early => Placed)
    OBVIOUS
  <2>0. tabs \in Seq(TabIds) /\ Len(tabs) \in Nat /\ DOMAIN tabs = 1..Len(tabs)
    BY DEF PageInv, Strip, StripTypes
  <2>1. CASE LoadSession
    <3>1. disk.tabs = <<>> /\ tabs' = tabs /\ restore = "load"
      BY <2>1 DEF LoadSession, tabVars
    <3>2. ~early => tabs = <<>>
      <4>1. ~early => ToSet(tabs) = {}
        BY <3>1 DEF PageInv, RestoreInv, Strip, Numbered
      <4> QED BY <2>0, <4>1, EmptyFacts
    <3>3. Sessions(disk) = {}
      BY <3>1 DEF Sessions
    <3> QED BY <3>1, <3>2, <3>3
  <2>2. CASE RestoreReveal
    <3>1. /\ restore = "reveal" /\ tabs' = tabs /\ activeId' = activeId /\ sess' = sess /\ ended' = ended
      BY <2>2 DEF RestoreReveal, tabVars
    <3>2. loaded = disk /\ ri = Len(loaded.tabs) /\ DOMAIN disk.tabs = 1..ri
      BY <3>1 DEF PageInv, RestoreInv, RestTypes, SavedOK, Stored
    <3>3. Back
      <4>1. \A i \in DOMAIN disk.tabs : disk.tabs[i].sess \in Known
        BY <3>1, <3>2 DEF Accounted
      <4>2. runtimes = ToSet(tabs)
        BY DEF PageInv, Strip, SessionsHaveTabs
      <4> QED BY <3>1, <4>1, <4>2 DEF Known, Live, Sessions
    <3>4. ~early => Placed
      BY <2>0, <3>1, <3>2 DEF Undisturbed
    <3> QED BY <3>3, <3>4
  <2>3. CASE RestoreNext \/ RestoreFinalize
    BY <2>3 DEF RestoreNext, RestoreFinalize
  <2>4. CASE KillAndRestart
    BY <2>4 DEF KillAndRestart, FreshPage
  <2>5. CASE UNCHANGED restoreVars
    BY <2>5 DEF restoreVars
  <2> HIDE DEF Back, Placed
  <2> QED BY <2>1, <2>2, <2>3, <2>4, <2>5, RestoreSteps
<1> QED BY <1>1, <1>2, <1>3, AccountInvariant, PTL DEF Safety, RestoreIsComplete
=============================================================================
