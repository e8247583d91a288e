------------------------- MODULE GridRendererProofs -------------------------
(***************************************************************************)
(* The renderer paints only pixels and layouts that it holds, no layout of *)
(* an earlier font outlives a change of the font, a frame that no setting  *)
(* interferes with shows every cell in its place, and a click on a pixel   *)
(* hits the cell that is painted there, for any screens, fonts, sizes and  *)
(* limits, however settings and frames interleave.                         *)
(*                                                                         *)
(* Three things are computed cell by cell and shown by induction, stated   *)
(* of sets of indices (Least, UpTo, Recursion): the cache after a frame    *)
(* has asked for its layouts, where the cells of a row begin, and the runs *)
(* of one background that a row is painted with. ShowInv is the inductive  *)
(* invariant of a frame: what the rows and cells passed so far have on     *)
(* the canvas, as long as no setting has come between its steps.           *)
(***************************************************************************)
EXTENDS GridRenderer, FiniteSetTheorems, WellFoundedInduction, SequenceTheorems, TLAPS

(* A set of naturals has a least element: the induction of this module,    *)
(* stated of sets.                                                         *)
LEMMA Least ==
    ASSUME NEW T \in SUBSET Nat, T # {}
    PROVE  \E m \in T : \A n \in T : m <= n
<1> DEFINE R == {p \in Nat \X Nat : p[1] < p[2]}
<1>1. IsWellFoundedOn(R, Nat)
  BY NatLessThanWellFounded DEF OpToRel
<1>2. \E m \in T : \A n \in T : <<n, m>> \notin R
  <2> HIDE DEF R
  <2> QED BY <1>1, WFMin
<1>3. \A m, n \in Nat : <<n, m>> \notin R => m <= n
  OBVIOUS
<1> HIDE DEF R
<1> QED BY <1>2, <1>3

(* Induction over the indices of a sequence, for the set of those at which *)
(* a fact holds.                                                           *)
LEMMA UpTo ==
    ASSUME NEW N \in Nat, NEW G, 0 \in G, \A n \in 1..N : n - 1 \in G => n \in G
    PROVE  0..N \subseteq G
<1> DEFINE B == {n \in 0..N : n \notin G}
<1>1. SUFFICES ASSUME B # {} PROVE FALSE
  OBVIOUS
<1>2. PICK m \in B : \A n \in B : m <= n
  <2>1. B \in SUBSET Nat
    OBVIOUS
  <2> HIDE DEF B
  <2> QED BY <1>1, <2>1, Least
<1>3. m \in 1..N /\ m - 1 \in 0..N /\ m - 1 \notin B
  BY <1>2
<1> QED BY <1>2, <1>3

(* f solves a recursion over 1..N whose step is a function.                *)
Solves(f, N, X, base, step) ==
    /\ f \in [0..N -> X]
    /\ f[0] = base
    /\ \A n \in 1..N : f[n] = step[n][f[n - 1]]

(* Such a recursion has a solution.                                        *)
LEMMA Recursion ==
    ASSUME NEW N \in Nat, NEW X, NEW base \in X, NEW step \in [1..N -> [X -> X]]
    PROVE  \E f : Solves(f, N, X, base, step)
<1> DEFINE G == {m \in 0..N : \E f : Solves(f, m, X, base, step)}
<1>1. 0 \in G
  <2>1. Solves([n \in 0..0 |-> base], 0, X, base, step)
    BY DEF Solves
  <2> QED BY <2>1
<1>2. ASSUME NEW m \in 1..N, m - 1 \in G PROVE m \in G
  <2>0. PICK f : Solves(f, m - 1, X, base, step)
    BY <1>2
  <2>1. /\ f \in [0..(m - 1) -> X]
        /\ f[0] = base
        /\ \A n \in 1..(m - 1) : f[n] = step[n][f[n - 1]]
    BY <2>0 DEF Solves
  <2> DEFINE h == [n \in 0..m |-> IF n < m THEN f[n] ELSE step[m][f[m - 1]]]
  <2>2. step[m][f[m - 1]] \in X
    <3>1. f[m - 1] \in X /\ step[m] \in [X -> X]
      BY <2>1
    <3> QED BY <3>1
  <2>3. h \in [0..m -> X]
    <3>1. \A n \in 0..m : n < m => f[n] \in X
      BY <2>1
    <3> QED BY <2>2, <3>1
  <2>4. ASSUME NEW n \in 1..m PROVE h[n] = step[n][h[n - 1]]
    <3>1. CASE n = m
      BY <3>1
    <3>2. CASE n \in 1..(m - 1)
      BY <2>1, <3>2
    <3> QED BY <3>1, <3>2
  <2>5. h[0] = base
    BY <2>1
  <2> HIDE DEF h
  <2>6. Solves(h, m, X, base, step)
    BY <2>3, <2>4, <2>5 DEF Solves
  <2> QED BY <2>6
<1>3. N \in G
  <2> HIDE DEF G
  <2>1. N \in 0..N
    OBVIOUS
  <2> QED BY <1>1, <1>2, <2>1, UpTo
<1> QED BY <1>3

(* What a recursion over 1..N keeps of its values.                         *)
LEMMA Values ==
    ASSUME NEW N \in Nat, NEW X, NEW f, f[0] \in X, \A n \in 1..N : f[n - 1] \in X => f[n] \in X
    PROVE  \A n \in 0..N : f[n] \in X
<1> DEFINE G == {n \in 0..N : f[n] \in X}
<1>1. 0 \in G
  OBVIOUS
<1>2. \A n \in 1..N : n - 1 \in G => n \in G
  OBVIOUS
<1>3. 0..N \subseteq G
  <2> HIDE DEF G
  <2> QED BY <1>1, <1>2, UpTo
<1> QED BY <1>3

Steps == {"size", "dims", "family", "clear", "style", "measure"}

(* A change of the size is followed by new dimensions, one of the family   *)
(* by a clearing of the cache.                                             *)
Ordered(s) ==
    \A i \in DOMAIN s :
        /\ s[i] = "size" => i < Len(s) /\ s[i + 1] = "dims"
        /\ s[i] = "family" => i < Len(s) /\ s[i + 1] = "clear"

(* The settings, and what they are set to.                                 *)
SettingsInv ==
    /\ todo \in Seq(Steps) /\ Ordered(todo)
    /\ hostFamily \in Families /\ family \in Families /\ size \in Sizes
    /\ config.family \in Families /\ config.size \in Sizes
    /\ prop \in BOOLEAN /\ cellWidth \in Nat \ {0}
    /\ row \in 1..Rows /\ col \in 1..Cols

(* The buffer of a frame and the place of the frame go together.           *)
FrameInv ==
    /\ vs \in {"idle", "begin", "render", "end"} \union Painting
    /\ buffer = IF vs = "idle" THEN "none" ELSE IF vs = "begin" THEN "held" ELSE "mapped"
    /\ dequeued = IF vs = "idle" THEN 0 ELSE 1
    /\ vs # "idle" => window

(* The cache is within its limit, keeps what is about to be painted, and,  *)
(* but for the moment before it is cleared, is of the font that is set.    *)
Within(c) == IsFiniteSet(c) /\ Cardinality(c) <= MaxGlyphs
CacheInv ==
    /\ Within(cache)
    /\ vs = "paint" => layout \in cache
    /\ fonts => \/ todo # <<>> /\ Head(todo) \in {"dims", "clear"}
                \/ \A l \in cache : l.font = Font

RenderInv == SettingsInv /\ FrameInv /\ CacheInv

-----------------------------------------------------------------------------
(* One layout more: it is in the cache that is returned, and the limit is  *)
(* kept, since half of a full cache goes.                                  *)
LEMMA GetKeeps ==
    ASSUME NEW c, Within(c), NEW new, NEW g \in getGlyphLayout(c, new)
    PROVE  Within(g.cache) /\ g.layout \in g.cache /\ g.cache \subseteq c \union {new}
<1>0. MaxGlyphs \in Nat \ {0, 1} /\ IsFiniteSet(c) /\ Cardinality(c) \in Nat /\ Cardinality(c) <= MaxGlyphs
  BY RendererAssumption, FS_CardinalityType DEF Within
<1>1. CASE Hits(c, new) # {}
  <2>1. PICK l \in Hits(c, new) : g = [cache |-> c, layout |-> l]
    BY <1>1 DEF getGlyphLayout
  <2> QED BY <2>1 DEF Hits
<1>2. CASE Hits(c, new) = {} /\ Cardinality(c) >= MaxGlyphs
  <2>1. PICK gone \in kSubset(Cardinality(c) \div 2, c) :
               g = [cache |-> (c \ gone) \union {new}, layout |-> new]
    BY <1>2 DEF getGlyphLayout
  <2>2. gone \subseteq c /\ Cardinality(gone) = Cardinality(c) \div 2
    BY <2>1 DEF kSubset
  <2>3. Cardinality(c) \div 2 >= 1
    BY <1>0, <1>2
  <2>4. gone # {}
    BY <2>2, <2>3, FS_EmptySet
  <2>5. PICK x \in gone : TRUE
    BY <2>4
  <2>6. IsFiniteSet(c \ {x}) /\ Cardinality(c \ {x}) = Cardinality(c) - 1
    BY <1>0, <2>2, <2>5, FS_RemoveElement
  <2>7. c \ gone \in SUBSET (c \ {x})
    BY <2>5
  <2>8. IsFiniteSet(c \ gone) /\ Cardinality(c \ gone) <= Cardinality(c) - 1
    BY <2>6, <2>7, FS_Subset
  <2>9. Cardinality(c \ gone) \in Nat
    BY <2>8, FS_CardinalityType
  <2>10. /\ IsFiniteSet((c \ gone) \union {new})
         /\ Cardinality((c \ gone) \union {new}) =
               IF new \in c \ gone THEN Cardinality(c \ gone) ELSE Cardinality(c \ gone) + 1
    BY <2>8, FS_AddElement
  <2>11. Cardinality((c \ gone) \union {new}) <= MaxGlyphs
    BY <1>0, <2>8, <2>9, <2>10
  <2> QED BY <2>1, <2>10, <2>11 DEF Within
<1>3. CASE Hits(c, new) = {} /\ ~(Cardinality(c) >= MaxGlyphs)
  <2>1. g = [cache |-> c \union {new}, layout |-> new]
    BY <1>3 DEF getGlyphLayout
  <2>2. /\ IsFiniteSet(c \union {new})
        /\ Cardinality(c \union {new}) = IF new \in c THEN Cardinality(c) ELSE Cardinality(c) + 1
    BY <1>0, FS_AddElement
  <2>3. Cardinality(c \union {new}) <= MaxGlyphs
    BY <1>0, <1>3, <2>2
  <2> QED BY <2>1, <2>2, <2>3 DEF Within
<1> QED BY <1>1, <1>2, <1>3

(* Several of them: the limit is kept, and what is new was asked for.      *)
LEMMA AfterLayoutsKeep ==
    ASSUME NEW c, Within(c), NEW T, NEW asked \in Seq(T), NEW d \in AfterLayouts(c, asked)
    PROVE  Within(d) /\ d \subseteq c \union (T \ {NoLayout})
<1> DEFINE N == Len(asked)
           W == T \ {NoLayout}
           K == {k \in SUBSET (c \union W) : Within(k)}
           X == SUBSET K
           got(k, l) == {g.cache : g \in getGlyphLayout(k, l)}
           next(cs, l) == IF l = NoLayout THEN cs ELSE UNION {got(k, l) : k \in cs}
           step == [n \in 1..N |-> [cs \in X |-> next(cs, asked[n])]]
           Unfold(f) == [n \in 0..N |-> IF n = 0 THEN {c}
                           ELSE IF asked[n] = NoLayout THEN f[n - 1]
                           ELSE UNION {{g.cache : g \in getGlyphLayout(k, asked[n])} : k \in f[n - 1]}]
           after == CHOOSE f : f = Unfold(f)
<1>1. N \in Nat /\ \A n \in 1..N : asked[n] \in T
  OBVIOUS
<1>2. {c} \in X
  OBVIOUS
<1>3. ASSUME NEW l \in T, NEW cs \in X PROVE next(cs, l) \in X
  <2>1. CASE l = NoLayout
    BY <2>1
  <2>2. CASE l # NoLayout
    <3>1. SUFFICES ASSUME NEW k \in cs, NEW g \in getGlyphLayout(k, l) PROVE g.cache \in K
      BY <2>2
    <3>2. k \in K /\ l \in W
      BY <2>2
    <3>3. Within(k) /\ k \subseteq c \union W
      BY <3>2
    <3>4. Within(g.cache) /\ g.cache \subseteq k \union {l}
      BY <3>3, GetKeeps
    <3> HIDE DEF W
    <3> QED BY <3>2, <3>3, <3>4
  <2> QED BY <2>1, <2>2
<1>4. step \in [1..N -> [X -> X]]
  <2> HIDE DEF next, X, N
  <2> QED BY <1>1, <1>3
<1>5. PICK f : Solves(f, N, X, {c}, step)
  <2> HIDE DEF step, X, N
  <2> QED BY <1>1, <1>2, <1>4, Recursion
<1>6. \A n \in 1..N : f[n - 1] \in X /\ f[n] = next(f[n - 1], asked[n])
  <2> TAKE n \in 1..N
  <2>1. f[n - 1] \in X /\ f[n] = step[n][f[n - 1]]
    <3>1. n - 1 \in 0..N
      BY <1>1
    <3> HIDE DEF step, X, N
    <3> QED BY <1>5, <3>1 DEF Solves
  <2> HIDE DEF next, X, N
  <2> QED BY <2>1
<1>7. f = Unfold(f)
  <2>1. f \in [0..N -> X] /\ f[0] = {c}
    BY <1>5 DEF Solves
  <2> DEFINE value(n) == IF n = 0 THEN {c} ELSE next(f[n - 1], asked[n])
  <2>2. \A n \in 0..N : f[n] = value(n)
    <3> HIDE DEF next, X, N
    <3> QED BY <1>1, <1>6, <2>1
  <2>3. Unfold(f) = [n \in 0..N |-> value(n)]
    OBVIOUS
  <2> HIDE DEF value, X, N, Unfold
  <2> QED BY <2>1, <2>2, <2>3
<1>8. after = Unfold(after)
  <2> HIDE DEF Unfold
  <2> QED BY <1>7
<1>9. AfterLayouts(c, asked) = after[N]
  BY DEF AfterLayouts
<1> HIDE DEF after
<1>10. after[0] = {c} /\ \A n \in 1..N : after[n] = next(after[n - 1], asked[n])
  <2>1. \A n \in 0..N : after[n] = Unfold(after)[n]
    <3> HIDE DEF Unfold
    <3> QED BY <1>8
  <2>2. after[0] = {c}
    <3>1. Unfold(after)[0] = {c}
      BY <1>1
    <3> HIDE DEF Unfold
    <3> QED BY <1>1, <2>1, <3>1
  <2>3. ASSUME NEW n \in 1..N PROVE after[n] = next(after[n - 1], asked[n])
    <3>1. Unfold(after)[n] = next(after[n - 1], asked[n])
      BY <1>1
    <3> HIDE DEF Unfold, next
    <3> QED BY <1>1, <2>1, <3>1
  <2> QED BY <2>2, <2>3
<1>11. \A n \in 0..N : after[n] \in X
  <2>1. after[0] \in X
    BY <1>2, <1>10
  <2>2. \A n \in 1..N : after[n - 1] \in X => after[n] \in X
    <3> HIDE DEF next, X, N
    <3> QED BY <1>1, <1>3, <1>10
  <2> HIDE DEF X, N
  <2> QED BY <1>1, <2>1, <2>2, Values
<1>12. d \in K
  <2>1. N \in 0..N
    BY <1>1
  <2> HIDE DEF K, N
  <2> QED BY <1>9, <1>11, <2>1
<1> QED BY <1>12

(* Whatever else is in the cache, what a frame asks for is of its font.    *)
LEMMA GridLayoutsFresh ==
    ASSUME NEW c, Within(c), NEW cells, NEW d \in AfterLayouts(c, gridLayouts(cells))
    PROVE  Within(d) /\ \A l \in d : l \in c \/ l.font = Font
<1> DEFINE n == Rows * Cols
           T == {gridLayouts(cells)[i] : i \in 1..n}
<1>1. n \in Nat
  BY RendererAssumption
<1>2. gridLayouts(cells) \in Seq(T)
  <2> DEFINE e(i) == gridLayouts(cells)[i]
  <2>1. gridLayouts(cells) = [i \in 1..n |-> e(i)]
    BY DEF gridLayouts
  <2> HIDE DEF n, e
  <2>2. [i \in 1..n |-> e(i)] \in Seq({e(i) : i \in 1..n})
    BY <1>1
  <2> QED BY <2>1, <2>2 DEF e
<1>3. \A l \in T : l = NoLayout \/ l.font = Font
  <2>1. ASSUME NEW i \in 1..n
        PROVE  gridLayouts(cells)[i] = NoLayout \/ gridLayouts(cells)[i].font = Font
    BY DEF gridLayouts, Layout
  <2> QED BY <2>1
<1> HIDE DEF T
<1>4. Within(d) /\ d \subseteq c \union (T \ {NoLayout})
  BY <1>2, AfterLayoutsKeep
<1> QED BY <1>3, <1>4

(* So is what the probes leave.                                            *)
LEMMA ProbesFresh ==
    ASSUME NEW c, Within(c), NEW d \in AfterLayouts(c, Probes)
    PROVE  Within(d) /\ \A l \in d : l \in c \/ l.font = Font
<1> DEFINE T == {Layout("M", "ink", 1), Layout("i", "ink", 1)}
<1>1. Probes \in Seq(T)
  BY DEF Probes
<1>2. \A l \in T : l.font = Font
  BY DEF Layout
<1> HIDE DEF T
<1>3. Within(d) /\ d \subseteq c \union (T \ {NoLayout})
  BY <1>1, AfterLayoutsKeep
<1> QED BY <1>2, <1>3

(* The widths of a font are positive.                                      *)
LEMMA WidthTypes ==
    ASSUME NEW f \in Families, NEW s \in Sizes
    PROVE  BaseWidth(s) \in Nat \ {0} /\ MeasuredWidth(f, s) \in Nat \ {0} /\ isMonospace(f) \in BOOLEAN
<1> DEFINE a == Advance[f]["i"]
           b == Advance[f]["M"]
<1>1. /\ a \in Nat \ {0} /\ b \in Nat \ {0} /\ s \in Nat \ {0}
  <2>1. Advance \in [Families -> [Texts \ {Blank} -> Nat \ {0}]] /\ Sizes \subseteq Nat \ {0}
    BY RendererAssumption
  <2>2. "i" \in Texts \ {Blank} /\ "M" \in Texts \ {Blank}
    BY DEF Texts, Blank
  <2>3. Advance[f] \in [Texts \ {Blank} -> Nat \ {0}]
    BY <2>1
  <2> QED BY <2>1, <2>2, <2>3
<1>2. isMonospace(f) \in BOOLEAN
  BY DEF isMonospace
<1>3. \A x, y \in Nat \ {0} : x * y \in Nat \ {0}
  OBVIOUS
<1> DEFINE u == a * s
           v == b * s
<1>4. u \in Nat \ {0} /\ v \in Nat \ {0}
  <2> HIDE DEF a, b
  <2> QED BY <1>1, <1>3
<1>5. MeasuredWidth(f, s) = IF isMonospace(f) THEN v ELSE (u + v + 1) \div 2
  BY DEF MeasuredWidth
<1> HIDE DEF u, v
<1>6. MeasuredWidth(f, s) \in Nat \ {0}
  BY <1>4, <1>5
<1>7. BaseWidth(s) \in Nat \ {0}
  BY <1>1 DEF BaseWidth
<1> QED BY <1>2, <1>6, <1>7

(* The initial state.                                                      *)
LEMMA InitRender == Init => RenderInv
<1> SUFFICES ASSUME Init PROVE RenderInv
  OBVIOUS
<1>1. SettingsInv
  <2>1. todo = <<>> /\ DOMAIN todo = {}
    BY DEF Init
  <2>2. BaseWidth(1) \in Nat \ {0}
    BY DEF BaseWidth
  <2>3. /\ DefaultFamily \in Families /\ 1 \in Sizes /\ 1 \in 1..Rows /\ 1 \in 1..Cols
    BY RendererAssumption
  <2>4. Ordered(todo) /\ todo \in Seq(Steps)
    BY <2>1 DEF Ordered
  <2>5. NoConfig.family = DefaultFamily /\ NoConfig.size = 1
    BY DEF NoConfig
  <2> QED BY <2>2, <2>3, <2>4, <2>5 DEF Init, SettingsInv
<1>2. FrameInv
  BY DEF Init, FrameInv
<1>3. CacheInv
  <2>1. Within({})
    BY RendererAssumption, FS_EmptySet DEF Within
  <2> QED BY <2>1 DEF Init, CacheInv
<1> QED BY <1>1, <1>2, <1>3 DEF RenderInv

(* A step of a frame leaves the settings alone.                            *)
LEMMA FrameSettings ==
    ASSUME SettingsInv, UNCHANGED <<hostVars, window, fontVars, metricVars, uiVars>>,
           row' \in 1..Rows, col' \in 1..Cols
    PROVE  SettingsInv'
  BY DEF SettingsInv, hostVars, fontVars, metricVars, uiVars, Ordered

(* A frame that adds to the cache adds layouts of its font.                *)
LEMMA FrameCache ==
    ASSUME CacheInv, UNCHANGED <<fontVars, uiVars>>, Within(cache'),
           \A l \in cache' : l \in cache \/ l.font = Font,
           vs' = "paint" => layout' \in cache'
    PROVE  CacheInv'
  BY DEF CacheInv, fontVars, uiVars, Font

(* Where a frame goes after a cell.                                        *)
LEMMA NextCellTypes ==
    ASSUME SettingsInv, NextCell
    PROVE  row' \in 1..Rows /\ col' \in 1..Cols /\ vs' \in {"pass2", "end"}
  BY RendererAssumption DEF SettingsInv, NextCell

(* The steps of a frame.                                                   *)
LEMMA DrawFrameKeeps == ASSUME RenderInv, DrawFrame PROVE RenderInv'
<1>0. SettingsInv /\ FrameInv /\ CacheInv
  BY DEF RenderInv
<1>1. UNCHANGED <<hostVars, window, fontVars, metricVars, uiVars>>
  BY DEF DrawFrame, RequestBuffer, MapBuffer, StartGrid, PaintRow, VisitCell, GetLayout, PaintLayout, EndFrame
<1>2. row' \in 1..Rows /\ col' \in 1..Cols
  <2>1. ASSUME NextCell PROVE row' \in 1..Rows /\ col' \in 1..Cols
    BY <1>0, <2>1, NextCellTypes
  <2>5. CASE RequestBuffer
    <3>1. 1 \in 1..Rows /\ 1 \in 1..Cols
      BY RendererAssumption
    <3> QED BY <2>5, <3>1 DEF RequestBuffer
  <2>2. CASE MapBuffer \/ StartGrid \/ GetLayout \/ EndFrame
    BY <1>0, <2>2 DEF SettingsInv, MapBuffer, StartGrid, GetLayout, EndFrame, frameVars
  <2>3. CASE PaintRow
    BY <1>0, <2>3, RendererAssumption DEF SettingsInv, PaintRow
  <2>4. CASE VisitCell \/ PaintLayout
    BY <2>1, <2>4 DEF VisitCell, PaintLayout
  <2> QED BY <2>2, <2>3, <2>4, <2>5 DEF DrawFrame
<1>3. SettingsInv'
  BY <1>0, <1>1, <1>2, FrameSettings
<1>4. FrameInv'
  <2>1. CASE RequestBuffer
    BY <1>0, <2>1 DEF FrameInv, RequestBuffer, Painting
  <2>2. CASE MapBuffer
    BY <1>0, <2>2 DEF FrameInv, MapBuffer, Painting
  <2>3. CASE StartGrid
    BY <1>0, <2>3 DEF FrameInv, StartGrid, Painting, bufferVars
  <2>4. CASE PaintRow
    BY <1>0, <2>4 DEF FrameInv, PaintRow, Painting, bufferVars
  <2>5. CASE VisitCell
    BY <1>0, <2>5, NextCellTypes DEF FrameInv, VisitCell, Painting, bufferVars
  <2>6. CASE GetLayout
    BY <1>0, <2>6 DEF FrameInv, GetLayout, Painting, bufferVars
  <2>7. CASE PaintLayout
    BY <1>0, <2>7, NextCellTypes DEF FrameInv, PaintLayout, Painting, bufferVars
  <2>8. CASE EndFrame
    BY <1>0, <2>8 DEF FrameInv, EndFrame, Painting
  <2> QED BY <2>1, <2>2, <2>3, <2>4, <2>5, <2>6, <2>7, <2>8 DEF DrawFrame
<1>5. CacheInv'
  <2>0. Within(cache)
    BY <1>0 DEF CacheInv
  <2>1. CASE RequestBuffer \/ MapBuffer \/ PaintRow \/ EndFrame
    <3>1. cache' = cache /\ vs' # "paint"
      BY <1>0, <2>1 DEF FrameInv, Painting, RequestBuffer, MapBuffer, PaintRow, EndFrame
    <3> QED BY <1>0, <1>1, <2>0, <3>1, FrameCache
  <2>2. CASE VisitCell \/ PaintLayout
    <3>1. cache' = cache /\ vs' # "paint"
      BY <1>0, <2>2, NextCellTypes DEF VisitCell, PaintLayout
    <3> QED BY <1>0, <1>1, <2>0, <3>1, FrameCache
  <2>3. CASE StartGrid
    <3>1. vs' # "paint"
      BY <2>3 DEF StartGrid
    <3>2. CASE prop
      <4>1. cache' \in AfterLayouts(cache, gridLayouts(grid))
        BY <2>3, <3>2 DEF StartGrid
      <4>2. Within(cache') /\ \A l \in cache' : l \in cache \/ l.font = Font
        BY <2>0, <4>1, GridLayoutsFresh
      <4> QED BY <1>0, <1>1, <3>1, <4>2, FrameCache
    <3>3. CASE ~prop
      <4>1. cache' = cache
        BY <2>3, <3>3 DEF StartGrid
      <4> QED BY <1>0, <1>1, <2>0, <3>1, <4>1, FrameCache
    <3> QED BY <3>2, <3>3
  <2>4. CASE GetLayout
    <3> DEFINE new == Layout(grid[row][col].text, visual(grid[row][col], Here(row, col)).fg,
                             grid[row][col].span)
    <3>1. PICK g \in getGlyphLayout(cache, new) : cache' = g.cache /\ layout' = g.layout
      BY <2>4 DEF GetLayout
    <3>2. new.font = Font
      BY DEF Layout
    <3> HIDE DEF new
    <3>3. Within(cache') /\ layout' \in cache' /\ cache' \subseteq cache \union {new}
      BY <2>0, <3>1, GetKeeps
    <3>4. \A l \in cache' : l \in cache \/ l.font = Font
      BY <3>2, <3>3
    <3> QED BY <1>0, <1>1, <3>3, <3>4, FrameCache
  <2> QED BY <2>1, <2>2, <2>3, <2>4 DEF DrawFrame
<1> QED BY <1>3, <1>4, <1>5 DEF RenderInv

(* What is left of the settings once a step is done, and once new          *)
(* dimensions ask for a clearing and a measurement.                        *)
LEMMA TodoTail ==
    ASSUME todo \in Seq(Steps), Ordered(todo), todo # <<>>
    PROVE  /\ Tail(todo) \in Seq(Steps) /\ Ordered(Tail(todo))
           /\ <<"clear", "measure">> \o Tail(todo) \in Seq(Steps)
           /\ Ordered(<<"clear", "measure">> \o Tail(todo))
           /\ Head(<<"clear", "measure">> \o Tail(todo)) = "clear"
           /\ <<"clear", "measure">> \o Tail(todo) # <<>>
           /\ Head(todo) = "size" => Tail(todo) # <<>> /\ Head(Tail(todo)) = "dims"
           /\ Head(todo) = "family" => Tail(todo) # <<>> /\ Head(Tail(todo)) = "clear"
<1> DEFINE n == Len(todo)
           t == Tail(todo)
           two == <<"clear", "measure">>
           u == two \o t
<1>1. n \in Nat \ {0} /\ DOMAIN todo = 1..n /\ Head(todo) = todo[1]
  OBVIOUS
<1>2. t \in Seq(Steps) /\ Len(t) = n - 1 /\ \A i \in 1..(n - 1) : t[i] = todo[i + 1]
  BY <1>1
<1>3. two \in Seq(Steps) /\ Len(two) = 2 /\ two[1] = "clear" /\ two[2] = "measure"
  BY DEF Steps
<1> HIDE DEF t, two
<1>4. DOMAIN t = 1..(n - 1) /\ (n > 1 => t # <<>> /\ Head(t) = t[1])
  BY <1>1, <1>2
<1>5. /\ u \in Seq(Steps) /\ Len(u) = n + 1
      /\ \A i \in 1..(n + 1) : u[i] = IF i <= 2 THEN two[i] ELSE t[i - 2]
  <2>1. /\ u \in Seq(Steps) /\ Len(u) = Len(two) + Len(t)
        /\ \A i \in 1..(Len(two) + Len(t)) :
             u[i] = IF i <= Len(two) THEN two[i] ELSE t[i - Len(two)]
    BY <1>2, <1>3, ConcatProperties
  <2> HIDE DEF u
  <2>2. Len(two) = 2 /\ Len(t) = n - 1 /\ 2 + (n - 1) = n + 1
    BY <1>1, <1>2, <1>3
  <2> QED BY <2>1, <2>2
<1> HIDE DEF u
<1>6. u # <<>> /\ Head(u) = u[1] /\ u[1] = "clear" /\ u[2] = "measure" /\ DOMAIN u = 1..(n + 1)
  BY <1>1, <1>3, <1>5
<1>7. \A i \in 1..n : /\ todo[i] = "size" => i < n /\ todo[i + 1] = "dims"
                      /\ todo[i] = "family" => i < n /\ todo[i + 1] = "clear"
  BY <1>1 DEF Ordered
<1>8. Ordered(t)
  <2> SUFFICES ASSUME NEW i \in 1..(n - 1)
               PROVE  /\ t[i] = "size" => i < Len(t) /\ t[i + 1] = "dims"
                      /\ t[i] = "family" => i < Len(t) /\ t[i + 1] = "clear"
    BY <1>4 DEF Ordered
  <2>1. i + 1 \in 1..n /\ t[i] = todo[i + 1] /\ (i + 1 < n => t[i + 1] = todo[i + 2])
    BY <1>1, <1>2
  <2> QED BY <1>1, <1>2, <1>7, <2>1
<1>9. Ordered(u)
  <2> SUFFICES ASSUME NEW i \in 1..(n + 1)
               PROVE  /\ u[i] = "size" => i < Len(u) /\ u[i + 1] = "dims"
                      /\ u[i] = "family" => i < Len(u) /\ u[i + 1] = "clear"
    BY <1>6 DEF Ordered
  <2>1. CASE i \in {1, 2}
    BY <1>6, <2>1
  <2>2. CASE i > 2
    <3>1. i - 2 \in 1..(n - 1) /\ u[i] = t[i - 2] /\ (i < n + 1 => u[i + 1] = t[i - 1])
      BY <1>1, <1>5, <2>2
    <3>2. /\ t[i - 2] = "size" => i - 2 < n - 1 /\ t[i - 2 + 1] = "dims"
          /\ t[i - 2] = "family" => i - 2 < n - 1 /\ t[i - 2 + 1] = "clear"
      BY <1>2, <1>4, <1>8, <3>1 DEF Ordered
    <3>3. i - 2 + 1 = i - 1
      OBVIOUS
    <3> QED BY <1>1, <1>5, <3>1, <3>2, <3>3
  <2> QED BY <2>1, <2>2
<1>10. /\ todo[1] = "size" => t # <<>> /\ Head(t) = "dims"
       /\ todo[1] = "family" => t # <<>> /\ Head(t) = "clear"
  BY <1>1, <1>2, <1>4, <1>7
<1> QED BY <1>1, <1>2, <1>5, <1>6, <1>8, <1>9, <1>10 DEF t, two, u

(* Steps that leave frame, window and cursor alone.                        *)
LEMMA SameFrame ==
    ASSUME FrameInv, UNCHANGED <<window, bufferVars, vs>>
    PROVE  FrameInv'
  BY DEF FrameInv, bufferVars

(* SetConfig() and SetDensity() start.                                     *)
LEMMA SettingStarts ==
    ASSUME RenderInv, todo = <<>>, hostFamily' \in Families,
           config'.family \in Families, config'.size \in Sizes,
           \/ todo' = <<"size", "dims", "family", "clear", "dims", "clear", "dims", "style">>
           \/ todo' = <<"size", "dims">>
           \/ todo' = <<>>,
           UNCHANGED <<window, fontVars, metricVars, cache, bufferVars, vs, frameVars>>
    PROVE  RenderInv'
<1>0. SettingsInv /\ FrameInv /\ CacheInv
  BY DEF RenderInv
<1>1. todo' \in Seq(Steps) /\ Ordered(todo')
  <2> DEFINE long == <<"size", "dims", "family", "clear", "dims", "clear", "dims", "style">>
  <2>1. CASE todo' = long
    <3>1. /\ long \in Seq(Steps) /\ Len(long) = 8 /\ DOMAIN long = 1..8
          /\ long[1] = "size" /\ long[2] = "dims" /\ long[3] = "family" /\ long[4] = "clear"
          /\ long[5] = "dims" /\ long[6] = "clear" /\ long[7] = "dims" /\ long[8] = "style"
      BY DEF Steps
    <3>2. ASSUME NEW i \in 1..8
          PROVE  /\ long[i] = "size" => i < 8 /\ long[i + 1] = "dims"
                 /\ long[i] = "family" => i < 8 /\ long[i + 1] = "clear"
      <4> HIDE DEF long
      <4>1. i = 1 \/ i = 2 \/ i = 3 \/ i = 4 \/ i = 5 \/ i = 6 \/ i = 7 \/ i = 8
        OBVIOUS
      <4> QED BY <3>1, <4>1
    <3> HIDE DEF long
    <3>3. Ordered(long)
      BY <3>1, <3>2 DEF Ordered
    <3> QED BY <2>1, <3>1, <3>3
  <2>2. CASE todo' = <<"size", "dims">>
    <3> DEFINE short == <<"size", "dims">>
    <3>1. short \in Seq(Steps) /\ Len(short) = 2 /\ DOMAIN short = {1, 2} /\ short[1] = "size" /\ short[2] = "dims"
      BY DEF Steps
    <3> HIDE DEF short
    <3>2. Ordered(short)
      BY <3>1 DEF Ordered
    <3> QED BY <2>2, <3>1, <3>2 DEF short
  <2>3. CASE todo' = <<>>
    BY <2>3 DEF Ordered
  <2> QED BY <2>1, <2>2, <2>3
<1>2. SettingsInv'
  BY <1>0, <1>1 DEF SettingsInv, fontVars, metricVars, frameVars
<1>3. FrameInv'
  BY <1>0, SameFrame
<1>4. CacheInv'
  <2>1. cache' = cache /\ Font' = Font /\ vs' = vs /\ layout' = layout /\ fonts' = fonts
    BY DEF fontVars, frameVars, Font
  <2>2. fonts => \A l \in cache : l.font = Font
    BY <1>0 DEF CacheInv
  <2> QED BY <1>0, <2>1, <2>2 DEF CacheInv
<1> QED BY <1>2, <1>3, <1>4 DEF RenderInv

(* The arguments stay, or are gone with the call.                          *)
LEMMA ContinueTypes ==
    ASSUME SettingsInv, NEW steps, Continue(steps)
    PROVE  todo' = steps /\ config'.family \in Families /\ config'.size \in Sizes
  BY RendererAssumption DEF SettingsInv, Continue, NoConfig

(* The setters.                                                            *)
LEMMA SettingsKeep == ASSUME RenderInv, Settings PROVE RenderInv'
<1>0. SettingsInv /\ FrameInv /\ CacheInv /\ todo \in Seq(Steps) /\ Ordered(todo)
  BY DEF RenderInv, SettingsInv
<1>1. ASSUME NEW s \in Sizes, SetDensity(s) PROVE RenderInv'
  <2>1. config' = [NoConfig EXCEPT !.size = s] /\ hostFamily' = hostFamily /\ todo' = <<"size", "dims">>
    BY <1>1 DEF SetDensity, hostVars
  <2>2. config'.family \in Families /\ config'.size \in Sizes
    BY <2>1, RendererAssumption DEF NoConfig
  <2> QED BY <1>0, <1>1, <2>1, <2>2, SettingStarts DEF SetDensity, SettingsInv
<1>2. ASSUME NEW s \in Sizes, NEW f \in Families, NEW l \in BOOLEAN, SetConfig(s, f, l) PROVE RenderInv'
  <2>1. todo = <<>> /\ hostFamily' = f
        /\ UNCHANGED <<window, fontVars, metricVars, cache, bufferVars, vs, frameVars>>
    BY <1>2 DEF SetConfig
  <2>2. CASE window
    <3>1. /\ config' = [family |-> f, size |-> s, line |-> l]
          /\ todo' = <<"size", "dims", "family", "clear", "dims", "clear", "dims", "style">>
      BY <1>2, <2>2 DEF SetConfig
    <3>2. config'.family \in Families /\ config'.size \in Sizes
      BY <3>1
    <3> QED BY <2>1, <3>1, <3>2, SettingStarts
  <2>3. CASE ~window
    <3>1. config' = config /\ todo' = <<>>
      BY <1>2, <2>1, <2>3 DEF SetConfig, uiVars
    <3>2. config'.family \in Families /\ config'.size \in Sizes
      BY <1>0, <3>1 DEF SettingsInv
    <3> QED BY <2>1, <3>1, <3>2, SettingStarts
  <2> QED BY <2>2, <2>3
<1>3. CASE WriteSetting
  <2>1. PICK step \in {"size", "family", "style"} :
          /\ NextSetter(step)
          /\ size' = IF step = "size" THEN config.size ELSE size
          /\ family' = IF step = "family" THEN config.family ELSE family
          /\ line' = IF step = "style" THEN config.line ELSE line
    BY <1>3 DEF WriteSetting
  <2>2. todo # <<>> /\ Head(todo) = step
    BY <2>1 DEF NextSetter
  <2>3. /\ Continue(Tail(todo))
        /\ UNCHANGED <<hostVars, window, fonts, metricVars, cache, bufferVars, vs, frameVars>>
    BY <1>3 DEF WriteSetting
  <2>4. /\ todo' = Tail(todo) /\ config'.family \in Families /\ config'.size \in Sizes
        /\ todo' \in Seq(Steps) /\ Ordered(todo')
    BY <1>0, <2>2, <2>3, ContinueTypes, TodoTail
  <2>5. size' \in Sizes /\ family' \in Families
    BY <1>0, <2>1 DEF SettingsInv
  <2>6. SettingsInv'
    BY <1>0, <2>3, <2>4, <2>5 DEF SettingsInv, hostVars, metricVars, frameVars
  <2>7. FrameInv'
    BY <1>0, <2>3, SameFrame
  <2>8. CacheInv'
    <3>1. cache' = cache /\ vs' = vs /\ layout' = layout /\ fonts' = fonts
      BY <2>3 DEF frameVars
    <3>2. CASE step = "style"
      <4>1. Font' = Font
        BY <2>1, <3>2 DEF Font
      <4>2. fonts => \A l \in cache : l.font = Font
        BY <1>0, <2>2, <3>2 DEF CacheInv
      <4> QED BY <1>0, <3>1, <4>1, <4>2 DEF CacheInv
    <3>3. CASE step \in {"size", "family"}
      <4>1. todo' # <<>> /\ Head(todo') \in {"dims", "clear"}
        BY <1>0, <2>2, <2>4, <3>3, TodoTail
      <4> QED BY <1>0, <3>1, <4>1 DEF CacheInv
    <3> QED BY <3>2, <3>3
  <2> QED BY <2>6, <2>7, <2>8 DEF RenderInv
<1>4. CASE UpdateDimensions
  <2>1. /\ todo # <<>> /\ Head(todo) = "dims"
        /\ cellWidth' = BaseWidth(size)
        /\ Continue((IF fonts THEN <<"clear", "measure">> ELSE <<>>) \o Tail(todo))
        /\ UNCHANGED <<hostVars, window, fontVars, prop, cache, bufferVars, vs, frameVars>>
    BY <1>4 DEF UpdateDimensions, NextSetter
  <2>2. /\ todo' = (IF fonts THEN <<"clear", "measure">> ELSE <<>>) \o Tail(todo)
        /\ config'.family \in Families /\ config'.size \in Sizes
    <3> DEFINE steps == (IF fonts THEN <<"clear", "measure">> ELSE <<>>) \o Tail(todo)
    <3>1. Continue(steps)
      BY <2>1
    <3> HIDE DEF steps
    <3>2. todo' = steps /\ config'.family \in Families /\ config'.size \in Sizes
      BY <1>0, <3>1, ContinueTypes
    <3> QED BY <3>2 DEF steps
  <2>3. IF fonts THEN todo' = <<"clear", "measure">> \o Tail(todo) ELSE todo' = Tail(todo)
    <3>1. CASE fonts
      BY <2>2, <3>1
    <3>2. CASE ~fonts
      <4>1. Tail(todo) \in Seq(Steps)
        BY <1>0, <2>1
      <4>2. <<>> \o Tail(todo) = Tail(todo)
        BY <4>1
      <4> QED BY <2>2, <3>2, <4>2
    <3> QED BY <3>1, <3>2
  <2>4. /\ todo' \in Seq(Steps) /\ Ordered(todo')
        /\ fonts => todo' # <<>> /\ Head(todo') = "clear"
    BY <1>0, <2>1, <2>3, TodoTail
  <2>5. cellWidth' \in Nat \ {0}
    BY <1>0, <2>1, RendererAssumption DEF BaseWidth, SettingsInv
  <2>6. SettingsInv'
    BY <1>0, <2>1, <2>2, <2>4, <2>5 DEF SettingsInv, hostVars, fontVars, frameVars
  <2>7. FrameInv'
    BY <1>0, <2>1, SameFrame
  <2>8. CacheInv'
    BY <1>0, <2>1, <2>4 DEF CacheInv, fontVars, frameVars
  <2> QED BY <2>6, <2>7, <2>8 DEF RenderInv
<1>5. CASE clearGlyphCache
  <2>1. /\ todo # <<>> /\ vs # "paint" /\ cache' = {} /\ Continue(Tail(todo))
        /\ UNCHANGED <<hostVars, window, fontVars, metricVars, bufferVars, vs, frameVars>>
    BY <1>5 DEF clearGlyphCache, NextSetter, cacheFree, Painting
  <2>2. /\ config'.family \in Families /\ config'.size \in Sizes
        /\ todo' \in Seq(Steps) /\ Ordered(todo')
    BY <1>0, <2>1, ContinueTypes, TodoTail
  <2>3. SettingsInv'
    BY <1>0, <2>1, <2>2 DEF SettingsInv, hostVars, fontVars, metricVars, frameVars
  <2>4. FrameInv'
    BY <1>0, <2>1, SameFrame
  <2>5. Within(cache')
    BY <2>1, RendererAssumption, FS_EmptySet DEF Within
  <2>6. CacheInv'
    BY <2>1, <2>5 DEF CacheInv
  <2> QED BY <2>3, <2>4, <2>6 DEF RenderInv
<1>6. CASE MeasureFont
  <2>1. /\ todo # <<>> /\ Head(todo) = "measure" /\ vs # "paint"
        /\ cache' \in AfterLayouts(cache, Probes)
        /\ prop' = ~isMonospace(family) /\ cellWidth' = MeasuredWidth(family, size)
        /\ Continue(Tail(todo))
        /\ UNCHANGED <<hostVars, window, fontVars, bufferVars, vs, frameVars>>
    BY <1>6 DEF MeasureFont, NextSetter, cacheFree, Painting
  <2>2. /\ config'.family \in Families /\ config'.size \in Sizes
        /\ todo' \in Seq(Steps) /\ Ordered(todo')
    BY <1>0, <2>1, ContinueTypes, TodoTail
  <2>3. prop' \in BOOLEAN /\ cellWidth' \in Nat \ {0}
    BY <1>0, <2>1, WidthTypes DEF SettingsInv
  <2>4. SettingsInv'
    BY <1>0, <2>1, <2>2, <2>3 DEF SettingsInv, hostVars, fontVars, frameVars
  <2>5. FrameInv'
    BY <1>0, <2>1, SameFrame
  <2>6. Within(cache') /\ \A l \in cache' : l \in cache \/ l.font = Font
    BY <1>0, <2>1, ProbesFresh DEF CacheInv
  <2>7. fonts => \A l \in cache' : l.font = Font
    BY <1>0, <2>1, <2>6 DEF CacheInv
  <2>8. CacheInv'
    BY <2>1, <2>6, <2>7 DEF CacheInv, fontVars, Font
  <2> QED BY <2>4, <2>5, <2>8 DEF RenderInv
<1> QED BY <1>1, <1>2, <1>3, <1>4, <1>5, <1>6 DEF Settings

(* The cache after a measurement under the mutex: the two probes.          *)
LEMMA MeasuredCache ==
    ASSUME NEW f \in Families, NEW s \in Sizes, Measured(f, s)
    PROVE  /\ Within(cache') /\ \A l \in cache' : l.font = [family |-> f, size |-> s]
           /\ prop' \in BOOLEAN /\ cellWidth' \in Nat \ {0}
<1> DEFINE m == Layout("M", "ink", 1)
           i == Layout("i", "ink", 1)
           set(l) == [l EXCEPT !.font = [family |-> f, size |-> s]]
<1>1. cache' = {set(l) : l \in ToSet(Probes)} /\ ToSet(Probes) = {m, i}
  <2> HIDE DEF m, i
  <2>1. Probes = <<m, i>>
    BY DEF Probes, m, i
  <2>2. ToSet(Probes) = {m, i}
    BY <2>1 DEF ToSet
  <2> QED BY <2>2 DEF Measured
<1>2. cache' = {set(m)} \union {set(i)}
  <2> HIDE DEF set, m, i
  <2> QED BY <1>1
<1>3. set(m).font = [family |-> f, size |-> s] /\ set(i).font = [family |-> f, size |-> s]
  BY DEF Layout
<1>4. Within(cache')
  <2> HIDE DEF set, m, i
  <2>1. IsFiniteSet({set(m)}) /\ Cardinality({set(m)}) = 1
    BY FS_Singleton
  <2>2. /\ IsFiniteSet(cache')
        /\ Cardinality(cache') = IF set(i) \in {set(m)} THEN 1 ELSE 2
    BY <1>2, <2>1, FS_AddElement
  <2> QED BY <2>2, RendererAssumption DEF Within
<1>5. prop' \in BOOLEAN /\ cellWidth' \in Nat \ {0}
  BY WidthTypes DEF Measured
<1> HIDE DEF set, m, i
<1> QED BY <1>2, <1>3, <1>4, <1>5

(* Surfaces and fonts come and go between frames and settings.             *)
LEMMA SurfacesKeep == ASSUME RenderInv, Surfaces PROVE RenderInv'
<1>0. /\ SettingsInv /\ FrameInv /\ CacheInv
      /\ DefaultFamily \in Families /\ 1 \in Sizes /\ BaseWidth(1) \in Nat \ {0}
      /\ hostFamily \in Families /\ family \in Families /\ size \in Sizes
      /\ Within({})
  BY RendererAssumption, FS_EmptySet DEF RenderInv, SettingsInv, BaseWidth, Within
<1>1. surfaceFree /\ todo = <<>> /\ vs = "idle"
  BY DEF Surfaces, OnSurfaceCreated, OnSurfaceDestroyed, SetResourceManager, surfaceFree
<1>2. UNCHANGED <<uiVars, vs, row, col, hostFamily>>
  BY DEF Surfaces, OnSurfaceCreated, OnSurfaceDestroyed, SetResourceManager, frameVars, hostVars
<1>3. dequeued = 0 /\ buffer = "none"
  BY <1>0, <1>1 DEF FrameInv
<1>4. FrameInv'
  <2>1. dequeued' = 0 /\ buffer' = "none"
    BY <1>3 DEF Surfaces, OnSurfaceCreated, OnSurfaceDestroyed, SetResourceManager, bufferVars
  <2> QED BY <1>1, <1>2, <2>1 DEF FrameInv
<1>5. /\ family' \in Families /\ size' \in Sizes /\ prop' \in BOOLEAN /\ cellWidth' \in Nat \ {0}
      /\ Within(cache') /\ (fonts' => \A l \in cache' : l.font = Font')
  <2>1. CASE OnSurfaceCreated
    <3>1. family' = hostFamily /\ size' = 1 /\ fonts' = resources
      BY <2>1 DEF OnSurfaceCreated
    <3>2. CASE resources
      <4>1. Measured(hostFamily, 1)
        BY <2>1, <3>2 DEF OnSurfaceCreated
      <4> QED BY <1>0, <3>1, <4>1, MeasuredCache DEF Font
    <3>3. CASE ~resources
      <4>1. prop' = FALSE /\ cellWidth' = BaseWidth(1) /\ cache' = {}
        BY <2>1, <3>3 DEF OnSurfaceCreated
      <4> QED BY <1>0, <3>1, <4>1
    <3> QED BY <3>2, <3>3
  <2>2. CASE OnSurfaceDestroyed
    BY <1>0, <2>2 DEF OnSurfaceDestroyed
  <2>3. CASE SetResourceManager
    <3>1. family' = family /\ size' = size /\ fonts' = window
      BY <2>3 DEF SetResourceManager
    <3>2. CASE window
      <4>1. Measured(family, size)
        BY <2>3, <3>2 DEF SetResourceManager
      <4> QED BY <1>0, <3>1, <4>1, MeasuredCache DEF Font
    <3>3. CASE ~window
      <4>1. UNCHANGED <<metricVars, cache>>
        BY <2>3, <3>3 DEF SetResourceManager
      <4> QED BY <1>0, <3>1, <3>3, <4>1 DEF SettingsInv, CacheInv, metricVars
    <3> QED BY <3>2, <3>3
  <2> QED BY <2>1, <2>2, <2>3 DEF Surfaces
<1>6. SettingsInv'
  BY <1>0, <1>2, <1>5 DEF SettingsInv, uiVars
<1>7. CacheInv'
  BY <1>1, <1>2, <1>5 DEF CacheInv
<1> QED BY <1>4, <1>6, <1>7 DEF RenderInv

(* RenderInv is inductive.                                                 *)
LEMMA NextRender == RenderInv /\ [Next]_vars => RenderInv'
<1> SUFFICES ASSUME RenderInv, [Next]_vars PROVE RenderInv'
  OBVIOUS
<1>1. CASE DrawFrame
  BY <1>1, DrawFrameKeeps
<1>2. CASE Settings
  BY <1>2, SettingsKeep
<1>3. CASE Surfaces
  BY <1>3, SurfacesKeep
<1>4. CASE UNCHANGED vars
  <2>1. UNCHANGED <<hostVars, window, fontVars, metricVars, uiVars, cache, bufferVars, vs, frameVars>>
    BY <1>4 DEF vars
  <2>2. SettingsInv' /\ FrameInv'
    BY <2>1, FrameSettings, SameFrame DEF RenderInv, SettingsInv, frameVars
  <2>3. CacheInv'
    BY <2>1, FrameCache DEF RenderInv, CacheInv, frameVars
  <2> QED BY <2>2, <2>3 DEF RenderInv
<1> QED BY <1>1, <1>2, <1>3, <1>4 DEF Next

(* RenderInv holds always.                                                 *)
THEOREM RenderInvariant == Safety => []RenderInv
<1>1. Init => RenderInv
  BY InitRender
<1>2. RenderInv /\ [Next]_vars => RenderInv'
  BY NextRender
<1> QED BY <1>1, <1>2, PTL DEF Safety

(* PaintsLiveMemory: a frame paints only a mapped buffer, which is given   *)
(* back, and only layouts that are in the cache, which keeps its limit.    *)
THEOREM PaintsLive == Safety => []PaintsLiveMemory
<1>1. RenderInv => PaintsLiveMemory
  BY DEF RenderInv, SettingsInv, FrameInv, CacheInv, Within, Painting, PaintsLiveMemory,
         BuffersAccounted, PaintsLiveGlyphs
<1> QED BY <1>1, RenderInvariant, PTL

(* GlyphsAreFresh: once a change of the font is done, no layout of an      *)
(* earlier font is left, whatever frames it raced with.                    *)
THEOREM GlyphsFresh == Safety => []GlyphsAreFresh
<1>1. RenderInv => GlyphsAreFresh
  BY DEF RenderInv, CacheInv, GlyphsAreFresh
<1> QED BY <1>1, RenderInvariant, PTL

-----------------------------------------------------------------------------
(* Where the cells of a row are.                                           *)

(* A product of naturals, for the provers.                                 *)
LEMMA MultNat == ASSUME NEW x \in Nat, NEW y \in Nat PROVE x * y \in Nat
  OBVIOUS

(* The quotients of a range of places of one column, or of two.            *)
LEMMA QuotientRange ==
    ASSUME NEW w \in Nat \ {0}, NEW c \in Nat, NEW k \in Nat, NEW x \in Int,
           c * w <= x, x < c * w + w * k
    PROVE  x \div w >= c /\ x \div w < c + k
<1> DEFINE q == x \div w
           m == x % w
<1>1. x \in Nat
  BY MultNat
<1>2. q \in Nat /\ m \in 0..(w - 1) /\ x = w * q + m
  BY <1>1
<1> HIDE DEF q, m
<1>3. c * w \in Nat /\ w * q \in Nat /\ w * k \in Nat
  BY <1>2, MultNat
<1>4. ~(c - q >= 1)
  <2>1. SUFFICES ASSUME c - q >= 1 PROVE FALSE
    OBVIOUS
  <2>2. w * (c - q) >= w
    BY <1>2, <2>1
  <2>3. w * (c - q) = c * w - w * q
    BY <1>2
  <2> QED BY <1>2, <1>3, <2>2, <2>3
<1>5. ~(q - c - k >= 0)
  <2>1. SUFFICES ASSUME q - c - k >= 0 PROVE FALSE
    OBVIOUS
  <2>2. w * (q - c - k) >= 0
    BY <1>2, <2>1
  <2>3. w * (q - c - k) = w * q - c * w - w * k
    BY <1>2
  <2> QED BY <1>2, <1>3, <2>2, <2>3
<1> QED BY <1>2, <1>4, <1>5 DEF q

(* The metrics that are set: widths are whole, and only a cell's columns   *)
(* count.                                                                  *)
LEMMA NaturalTypes ==
    ASSUME SettingsInv, NEW cell \in Cell
    PROVE  naturalWidth(cell) \in Nat
<1>1. /\ Advance \in [Families -> [Texts \ {Blank} -> Nat \ {0}]] /\ Sizes \subseteq Nat \ {0}
      /\ Spacing \in Nat
  BY RendererAssumption
<1>2. cell.span \in 0..2 /\ cell.text \in Texts /\ cellWidth \in Nat /\ size \in Nat /\ family \in Families
  BY <1>1 DEF SettingsInv, Cell
<1>3. CASE cell.span = 0
  BY <1>3 DEF naturalWidth
<1>4. CASE cell.span # 0 /\ cell.text = Blank
  BY <1>2, <1>4, MultNat DEF naturalWidth
<1>5. CASE cell.span # 0 /\ cell.text # Blank
  <2> DEFINE a == Advance[family][cell.text]
  <2>1. a \in Nat
    <3>1. Advance[family] \in [Texts \ {Blank} -> Nat \ {0}]
      BY <1>1, <1>2
    <3> QED BY <1>2, <1>5, <3>1
  <2> DEFINE b == a * size
  <2>2. b \in Nat
    <3> HIDE DEF a
    <3> QED BY <1>2, <2>1, MultNat
  <2>3. naturalWidth(cell) = b + (IF cell.span = 1 THEN Spacing ELSE 0)
    BY <1>5 DEF naturalWidth
  <2> HIDE DEF b
  <2> QED BY <1>1, <2>2, <2>3
<1> QED BY <1>3, <1>4, <1>5

(* x is where the cells of a row begin, each after the one before it.      *)
Begins(x, width) ==
    /\ x \in [1..(Cols + 1) -> Nat]
    /\ \A c \in 1..Cols : x[c + 1] = x[c] + width[c]

(* Where cells begin is in their order.                                    *)
LEMMA BeginsInOrder ==
    ASSUME NEW width \in [1..Cols -> Nat], NEW x, Begins(x, width)
    PROVE  \A c, d \in 1..(Cols + 1) : c <= d => x[c] <= x[d]
<1>1. Cols \in Nat
  BY RendererAssumption
<1>2. SUFFICES ASSUME NEW c \in 1..(Cols + 1), NEW d \in 1..(Cols + 1), c <= d PROVE x[c] <= x[d]
  OBVIOUS
<1> DEFINE N == Cols + 1 - c
           G == {n \in 0..N : x[c] <= x[c + n]}
<1>3. N \in Nat
  BY <1>1
<1>4. 0 \in G
  BY <1>1, <1>3 DEF Begins
<1>5. ASSUME NEW n \in 1..N, n - 1 \in G PROVE n \in G
  <2>1. c + n - 1 \in 1..Cols /\ c + (n - 1) = c + n - 1 /\ c + n - 1 + 1 = c + n
    BY <1>1
  <2>2. x[c + n] = x[c + n - 1] + width[c + n - 1] /\ x[c] <= x[c + n - 1]
    BY <1>5, <2>1 DEF Begins
  <2>3. x[c + n - 1] \in Nat /\ x[c] \in Nat /\ width[c + n - 1] \in Nat
    BY <1>1, <2>1 DEF Begins
  <2> QED BY <2>2, <2>3
<1>6. d - c \in G
  <2>1. d - c \in 0..N
    BY <1>1, <1>2
  <2>2. 0..N \subseteq G
    <3> HIDE DEF N, G
    <3> QED BY <1>3, <1>4, <1>5, UpTo
  <2> HIDE DEF G, N
  <2> QED BY <2>1, <2>2
<1>7. c + (d - c) = d
  BY <1>1
<1> QED BY <1>6, <1>7

(* computeRowMetrics() finds them.                                         *)
LEMMA RowMetrics ==
    ASSUME SettingsInv, NEW cells \in Grids, NEW r \in 1..Rows
    PROVE  Begins(computeRowMetrics(cells)[r], [c \in 1..Cols |-> naturalWidth(cells[r][c])])
<1> DEFINE w == [c \in 1..Cols |-> naturalWidth(cells[r][c])]
           step == [n \in 1..Cols |-> [k \in Nat |-> k + w[n]]]
           D == 1..(Cols + 1)
           value(x, c) == IF c = 1 THEN 0 ELSE x[c - 1] + naturalWidth(cells[r][c - 1])
           Unfold(x) == [c \in D |-> IF c = 1 THEN 0 ELSE x[c - 1] + naturalWidth(cells[r][c - 1])]
           x == CHOOSE x : x = Unfold(x)
<1>1. Cols \in Nat /\ cells \in [1..Rows -> [1..Cols -> Cell]]
  BY RendererAssumption
<1>2. w \in [1..Cols -> Nat]
  <2>1. \A c \in 1..Cols : cells[r][c] \in Cell
    BY <1>1
  <2> QED BY <2>1, NaturalTypes
<1>3. \A h : Unfold(h) = [c \in D |-> value(h, c)]
  OBVIOUS
<1>4. \A c \in 2..(Cols + 1) : naturalWidth(cells[r][c - 1]) = w[c - 1] /\ c - 1 \in 1..Cols
  BY <1>1
<1>5. step \in [1..Cols -> [Nat -> Nat]]
  <2> HIDE DEF w
  <2> QED BY <1>2
<1>6. PICK g : Solves(g, Cols, Nat, 0, step)
  <2> HIDE DEF step
  <2> QED BY <1>1, <1>5, Recursion
<1>7. g \in [0..Cols -> Nat] /\ g[0] = 0 /\ \A n \in 1..Cols : g[n] = g[n - 1] + w[n]
  <2>1. g \in [0..Cols -> Nat] /\ g[0] = 0 /\ \A n \in 1..Cols : g[n] = step[n][g[n - 1]]
    <3> HIDE DEF step
    <3> QED BY <1>6 DEF Solves
  <2>2. \A n \in 1..Cols : g[n - 1] \in Nat
    BY <1>1, <2>1
  <2> HIDE DEF w
  <2> QED BY <2>1, <2>2
<1> DEFINE h == [c \in D |-> g[c - 1]]
<1>8. h = Unfold(h)
  <2>1. ASSUME NEW c \in D PROVE h[c] = value(h, c)
    <3>1. CASE c = 1
      BY <1>1, <1>7, <3>1
    <3>2. CASE c # 1
      <4>1. c \in 2..(Cols + 1) /\ c - 1 \in D /\ c - 1 \in 1..Cols /\ c - 1 - 1 = c - 2
        BY <1>1, <3>2
      <4>2. h[c] = g[c - 1] /\ h[c - 1] = g[c - 2]
        BY <4>1
      <4>3. g[c - 1] = g[c - 2] + w[c - 1]
        <5> HIDE DEF w
        <5> QED BY <1>7, <4>1
      <4>4. naturalWidth(cells[r][c - 1]) = w[c - 1]
        BY <1>4, <4>1
      <4> HIDE DEF h, w
      <4> QED BY <3>2, <4>2, <4>3, <4>4
    <3> QED BY <3>1, <3>2
  <2>2. h = [c \in D |-> h[c]]
    OBVIOUS
  <2> HIDE DEF h, Unfold, value, D
  <2> QED BY <1>3, <2>1, <2>2
<1>9. x = Unfold(x)
  <2> HIDE DEF Unfold, h
  <2> QED BY <1>8
<1>10. computeRowMetrics(cells)[r] = x
  BY DEF computeRowMetrics
<1> HIDE DEF x, Unfold
<1>11. x = [c \in D |-> value(x, c)]
  BY <1>3, <1>9
<1>12. \A c \in D : x[c] = value(x, c)
  <2> HIDE DEF value, D
  <2> QED BY <1>11
<1>13. x[1] = 0 /\ \A n \in 1..Cols : x[n + 1] = x[n] + w[n]
  <2>1. x[1] = 0
    BY <1>1, <1>12
  <2>2. ASSUME NEW n \in 1..Cols PROVE x[n + 1] = x[n] + w[n]
    <3>1. n + 1 \in D /\ n + 1 # 1 /\ n + 1 - 1 = n /\ n + 1 \in 2..(Cols + 1)
      BY <1>1
    <3>2. x[n + 1] = x[n] + naturalWidth(cells[r][n])
      BY <1>12, <3>1
    <3> QED BY <3>2
  <2> QED BY <2>1, <2>2
<1>14. \A c \in D : x[c] \in Nat
  <2> DEFINE y == [n \in 0..Cols |-> x[n + 1]]
  <2>1. y[0] = 0 /\ \A n \in 1..Cols : y[n] = y[n - 1] + w[n]
    <3>1. y[0] = 0
      BY <1>1, <1>13
    <3>2. ASSUME NEW n \in 1..Cols PROVE y[n] = y[n - 1] + w[n]
      <4>1. n - 1 \in 0..Cols /\ n \in 0..Cols /\ n - 1 + 1 = n
        BY <1>1
      <4>2. y[n] = x[n + 1] /\ y[n - 1] = x[n]
        BY <4>1
      <4> HIDE DEF y, w
      <4> QED BY <1>13, <4>2
    <3> QED BY <3>1, <3>2
  <2> HIDE DEF y, w
  <2>2. \A n \in 1..Cols : y[n - 1] \in Nat => y[n] \in Nat
    BY <1>2, <2>1
  <2>3. \A n \in 0..Cols : y[n] \in Nat
    <3>1. y[0] \in Nat
      BY <2>1
    <3> QED BY <1>1, <2>2, <3>1, Values
  <2>4. ASSUME NEW c \in D PROVE x[c] \in Nat
    <3>1. c - 1 \in 0..Cols /\ c - 1 + 1 = c
      BY <1>1
    <3>2. y[c - 1] = x[c]
      BY <3>1 DEF y
    <3> QED BY <2>3, <3>1, <3>2
  <2> QED BY <2>4
<1>15. x \in [D -> Nat]
  <2> HIDE DEF value, D
  <2> QED BY <1>11, <1>14
<1> HIDE DEF w, D
<1>16. Begins(x, w)
  BY <1>13, <1>15 DEF Begins, D
<1> QED BY <1>10, <1>16 DEF w

-----------------------------------------------------------------------------
(* The search for the column of a point.                                   *)

(* What a search of the columns from lo to hi does next, p = <<lo, hi>>.   *)
Searched(s, off, x, p) ==
    LET mid == (p[1] + p[2]) \div 2
    IN IF p[1] > p[2] THEN Shorter(p[1], Cols)
       ELSE IF x < off[mid] THEN s[<<p[1], mid - 1>>]
       ELSE IF x >= off[mid + 1] THEN s[<<mid + 1, p[2]>>]
       ELSE mid
Spans == (1..(Cols + 1)) \X (0..Cols)
Middle(p) == (p[1] + p[2]) \div 2

(* The columns that are left are fewer, and inside the row.                *)
LEMMA SpanFacts ==
    ASSUME NEW p \in Spans, p[1] <= p[2]
    PROVE  /\ p[1] \in 1..Cols /\ p[2] \in 1..Cols
           /\ Middle(p) \in p[1]..p[2]
           /\ <<p[1], Middle(p) - 1>> \in Spans /\ <<Middle(p) + 1, p[2]>> \in Spans
<1>1. Cols \in Nat /\ p[1] \in 1..(Cols + 1) /\ p[2] \in 0..Cols
  BY RendererAssumption DEF Spans
<1>2. p[1] \in 1..Cols /\ p[2] \in 1..Cols
  BY <1>1
<1>3. Middle(p) \in p[1]..p[2]
  BY <1>2 DEF Middle
<1> DEFINE m == Middle(p)
<1> HIDE DEF m
<1>4. m \in p[1]..p[2]
  BY <1>3 DEF m
<1>5. m - 1 \in 0..Cols /\ m + 1 \in 1..(Cols + 1)
  BY <1>1, <1>2, <1>4
<1> QED BY <1>1, <1>2, <1>3, <1>5 DEF Spans, m

(* A column between the bounds puts them in order.                         *)
LEMMA SpanOrder ==
    ASSUME NEW p \in Spans, NEW c \in 1..Cols, p[1] <= c, c <= p[2]
    PROVE  p[1] \in Nat /\ p[2] \in Nat /\ p[1] <= p[2] /\ ~(p[2] - p[1] < 0)
<1>1. Cols \in Nat /\ p[1] \in 1..(Cols + 1) /\ p[2] \in 0..Cols
  BY RendererAssumption DEF Spans
<1> QED BY <1>1

(* The search is a function: as many columns as there are to be searched,  *)
(* so many times it may be called.                                         *)
LEMMA SearchExists ==
    ASSUME NEW off, NEW x
    PROVE  \E s : s = [p \in Spans |-> Searched(s, off, x, p)]
<1> DEFINE Good(s, n) == \A p \in Spans : p[2] - p[1] < n => s[p] = Searched(s, off, x, p)
           G == {n \in 0..Cols : \E s : s = [p \in Spans |-> s[p]] /\ Good(s, n)}
<1>1. Cols \in Nat /\ \A p \in Spans : p[1] \in 1..(Cols + 1) /\ p[2] \in 0..Cols
  BY RendererAssumption DEF Spans
<1>2. 0 \in G
  <2> DEFINE s == [p \in Spans |-> Shorter(p[1], Cols)]
  <2>1. Good(s, 0)
    <3> SUFFICES ASSUME NEW p \in Spans, p[2] - p[1] < 0 PROVE s[p] = Searched(s, off, x, p)
      OBVIOUS
    <3>1. p[1] > p[2]
      BY <1>1
    <3> QED BY <3>1 DEF Searched
  <2>2. s = [p \in Spans |-> s[p]]
    OBVIOUS
  <2> HIDE DEF s, Good
  <2> QED BY <1>1, <2>1, <2>2
<1>3. ASSUME NEW n \in 1..Cols, n - 1 \in G PROVE n \in G
  <2>1. PICK s : Good(s, n - 1)
    BY <1>3
  <2> DEFINE h == [p \in Spans |-> IF p[2] - p[1] < n - 1 THEN s[p] ELSE Searched(s, off, x, p)]
  <2>2. \A p \in Spans : p[2] - p[1] < n - 1 => h[p] = s[p]
    OBVIOUS
  <2>3. \A p \in Spans : h[p] = Searched(s, off, x, p)
    BY <2>1
  <2>4. h = [p \in Spans |-> h[p]]
    OBVIOUS
  <2> HIDE DEF h
  <2>5. ASSUME NEW p \in Spans, p[2] - p[1] < n PROVE h[p] = Searched(h, off, x, p)
    <3>1. CASE p[1] > p[2]
      BY <2>3, <3>1 DEF Searched
    <3>2. CASE p[1] <= p[2]
      <4> DEFINE m == Middle(p)
                 l == <<p[1], m - 1>>
                 r == <<m + 1, p[2]>>
      <4>1. p[1] \in Nat /\ p[2] \in Nat /\ m \in p[1]..p[2] /\ l \in Spans /\ r \in Spans
        BY <1>1, <3>2, SpanFacts
      <4>2. l[2] - l[1] < n - 1 /\ r[2] - r[1] < n - 1
        <5>1. l[1] = p[1] /\ l[2] = m - 1 /\ r[1] = m + 1 /\ r[2] = p[2]
          OBVIOUS
        <5> HIDE DEF m, l, r
        <5> QED BY <2>5, <4>1, <5>1
      <4>3. h[l] = s[l] /\ h[r] = s[r]
        <5> HIDE DEF l, r
        <5> QED BY <2>2, <4>1, <4>2
      <4>4. Searched(h, off, x, p) = Searched(s, off, x, p)
        BY <4>3 DEF Searched, Middle
      <4> QED BY <2>3, <4>4
    <3>3. p[1] > p[2] \/ p[1] <= p[2]
      BY <1>1
    <3> QED BY <3>1, <3>2, <3>3
  <2>6. Good(h, n)
    BY <2>5
  <2> HIDE DEF Good
  <2> QED BY <2>4, <2>6
<1>4. Cols \in G
  <2>1. Cols \in 0..Cols
    BY <1>1
  <2> HIDE DEF G
  <2> QED BY <1>1, <1>2, <1>3, <2>1, UpTo
<1>5. PICK s : s = [p \in Spans |-> s[p]] /\ Good(s, Cols)
  BY <1>4
<1>6. \A p \in Spans : s[p] = Searched(s, off, x, p)
  BY <1>1, <1>5
<1> QED BY <1>5, <1>6

(* It finds the column that holds the point.                               *)
LEMMA SearchHits ==
    ASSUME NEW off \in [1..(Cols + 1) -> Nat], NEW x \in Int,
           \A c, d \in 1..(Cols + 1) : c <= d => off[c] <= off[d],
           NEW s, s = [p \in Spans |-> Searched(s, off, x, p)],
           NEW c \in 1..Cols, off[c] <= x, x < off[c + 1]
    PROVE  s[<<1, Cols>>] = c
<1> DEFINE Good(n) == \A p \in Spans : p[1] <= c /\ c <= p[2] /\ p[2] - p[1] < n => s[p] = c
           G == {n \in 0..Cols : Good(n)}
<1>1. Cols \in Nat \ {0} /\ \A p \in Spans : p[1] \in 1..(Cols + 1) /\ p[2] \in 0..Cols
  BY RendererAssumption DEF Spans
<1>b. ASSUME NEW p \in Spans, p[1] <= c, c <= p[2]
      PROVE  p[1] \in Nat /\ p[2] \in Nat /\ p[1] <= p[2] /\ ~(p[2] - p[1] < 0)
  BY SpanOrder, <1>b
<1>2. 0 \in G
  <2>1. Good(0)
    BY <1>b
  <2>2. 0 \in 0..Cols
    BY <1>1
  <2> HIDE DEF Good
  <2> QED BY <2>1, <2>2
<1>3. ASSUME NEW n \in 1..Cols, n - 1 \in G PROVE n \in G
  <2> SUFFICES ASSUME NEW p \in Spans, p[1] <= c, c <= p[2], p[2] - p[1] < n PROVE s[p] = c
    OBVIOUS
  <2> DEFINE m == Middle(p)
             l == <<p[1], m - 1>>
             r == <<m + 1, p[2]>>
  <2>1. p[1] \in Nat /\ p[2] \in Nat /\ p[1] <= p[2]
    BY <1>b
  <2>2. m \in p[1]..p[2] /\ p[1] \in 1..Cols /\ p[2] \in 1..Cols /\ l \in Spans /\ r \in Spans
    BY <2>1, SpanFacts
  <2>3. s[p] = IF x < off[m] THEN s[l] ELSE IF x >= off[m + 1] THEN s[r] ELSE m
    <3>1. s[p] = Searched(s, off, x, p)
      OBVIOUS
    <3>2. ~(p[1] > p[2])
      BY <2>1
    <3>3. Searched(s, off, x, p) = IF x < off[m] THEN s[l] ELSE IF x >= off[m + 1] THEN s[r] ELSE m
      BY <3>2 DEF Searched, Middle
    <3> QED BY <3>1, <3>3
  <2>4. l[1] = p[1] /\ l[2] = m - 1 /\ r[1] = m + 1 /\ r[2] = p[2]
    OBVIOUS
  <2> HIDE DEF m, l, r
  <2>5. /\ m \in 1..Cols /\ m + 1 \in 1..(Cols + 1) /\ c + 1 \in 1..(Cols + 1)
        /\ c \in 1..(Cols + 1) /\ m \in 1..(Cols + 1)
    <3>1. \A a, b \in 1..Cols : m \in a..b => m \in 1..Cols
      BY <1>1
    <3>2. m \in 1..Cols
      BY <2>2, <3>1
    <3> QED BY <1>1, <3>2
  <2>6. /\ off[m] \in Nat /\ off[m + 1] \in Nat /\ off[c] \in Nat /\ off[c + 1] \in Nat
        /\ m <= c => off[m] <= off[c]
        /\ c < m => off[c + 1] <= off[m]
        /\ c <= m => off[c + 1] <= off[m + 1]
        /\ m < c => off[m + 1] <= off[c]
    BY <2>5
  <2>7. /\ x < off[m] => c < m
        /\ x >= off[m + 1] => m < c
        /\ ~(x < off[m]) /\ ~(x >= off[m + 1]) => m = c
    BY <2>5, <2>6
  <2>8. CASE x < off[m]
    <3>1. l[1] <= c /\ c <= l[2] /\ l[2] - l[1] < n - 1
      BY <2>1, <2>2, <2>4, <2>7, <2>8
    <3> QED BY <1>3, <2>2, <2>3, <2>8, <3>1
  <2>9. CASE ~(x < off[m]) /\ x >= off[m + 1]
    <3>1. r[1] <= c /\ c <= r[2] /\ r[2] - r[1] < n - 1
      BY <2>1, <2>2, <2>4, <2>7, <2>9
    <3> QED BY <1>3, <2>2, <2>3, <2>9, <3>1
  <2>10. CASE ~(x < off[m]) /\ ~(x >= off[m + 1])
    BY <2>3, <2>7, <2>10
  <2> QED BY <2>8, <2>9, <2>10
<1>4. Cols \in G
  <2>1. Cols \in 0..Cols
    BY <1>1
  <2> HIDE DEF G
  <2> QED BY <1>1, <1>2, <1>3, <2>1, UpTo
<1> DEFINE w == <<1, Cols>>
<1>5. w \in Spans /\ w[1] = 1 /\ w[2] = Cols
  BY <1>1 DEF Spans
<1> HIDE DEF w
<1>6. s[w] = c
  <2>1. w[1] <= c /\ c <= w[2] /\ w[2] - w[1] < Cols
    BY <1>1, <1>5
  <2> QED BY <1>4, <1>5, <2>1
<1> QED BY <1>6 DEF w

(* mapXToCol() is such a search.                                           *)
LEMMA MapIsSearch ==
    ASSUME NEW r, NEW x, prop, offsets # <<>>
    PROVE  \E s : /\ s = [p \in Spans |-> Searched(s, offsets[r], x, p)]
                  /\ mapXToCol(r, x) = s[<<1, Cols>>]
<1> DEFINE off == offsets[r]
           Unfold(f) ==
             [p \in (1..(Cols + 1)) \X (0..Cols) |->
               LET mid == (p[1] + p[2]) \div 2
               IN IF p[1] > p[2] THEN Shorter(p[1], Cols)
                  ELSE IF x < off[mid] THEN f[<<p[1], mid - 1>>]
                  ELSE IF x >= off[mid + 1] THEN f[<<mid + 1, p[2]>>]
                  ELSE mid]
           s == CHOOSE f : f = Unfold(f)
<1>1. \A f : Unfold(f) = [p \in Spans |-> Searched(f, off, x, p)]
  BY DEF Searched, Spans
<1>2. mapXToCol(r, x) = s[<<1, Cols>>]
  BY DEF mapXToCol
<1> HIDE DEF Unfold, off
<1>3. \E f : f = Unfold(f)
  <2>1. PICK f : f = [p \in Spans |-> Searched(f, off, x, p)]
    BY SearchExists
  <2>2. f = Unfold(f)
    BY <1>1, <2>1
  <2> QED BY <2>2
<1>4. s = Unfold(s)
  BY <1>3
<1> HIDE DEF s
<1> QED BY <1>1, <1>2, <1>4 DEF off

-----------------------------------------------------------------------------
(* What is on the screen.                                                  *)

(* The offsets of a proportional font are those of the frame.              *)
MetricsInv == prop => offsets = computeRowMetrics(grid)

(* Places are whole, and cells follow each other.                          *)
Placed(r) ==
    /\ \A c \in 1..(Cols + 1) : cellX(r, c) \in Nat
    /\ \A c \in 1..Cols : cellEnd(r, c) \in Nat
    /\ \A c, d \in 1..(Cols + 1) : c <= d => cellX(r, c) <= cellX(r, d)
    /\ \A c \in 1..Cols, d \in 1..(Cols + 1) :
         Shows(r, c) /\ c < d /\ (d = Cols + 1 \/ Shows(r, d)) => cellEnd(r, c) <= cellX(r, d)

(* The offsets of a row, while they are of the grid, are in order.         *)
LEMMA OffsetsOfRow ==
    ASSUME SettingsInv, grid \in Grids, prop, offsets = computeRowMetrics(grid), NEW r \in 1..Rows
    PROVE  /\ offsets # <<>>
           /\ offsets[r] \in [1..(Cols + 1) -> Nat]
           /\ \A c, d \in 1..(Cols + 1) : c <= d => offsets[r][c] <= offsets[r][d]
<1> DEFINE w == [c \in 1..Cols |-> naturalWidth(grid[r][c])]
<1>1. Begins(offsets[r], w)
  BY RowMetrics
<1>2. w \in [1..Cols -> Nat]
  <2>1. grid \in [1..Rows -> [1..Cols -> Cell]]
    BY RendererAssumption
  <2>2. \A c \in 1..Cols : grid[r][c] \in Cell
    BY <2>1
  <2> QED BY <2>2, NaturalTypes
<1> HIDE DEF w
<1>3. offsets # <<>>
  <2>1. DOMAIN offsets = 1..Rows
    BY DEF computeRowMetrics
  <2>2. 1 \in 1..Rows
    BY RendererAssumption
  <2>3. DOMAIN <<>> = {}
    OBVIOUS
  <2> QED BY <2>1, <2>2, <2>3
<1>4. \A c, d \in 1..(Cols + 1) : c <= d => offsets[r][c] <= offsets[r][d]
  BY <1>1, <1>2, BeginsInOrder
<1> QED BY <1>1, <1>3, <1>4 DEF Begins

(* A fixed grid: a cell is as wide as its columns.                         *)
LEMMA GridArithmetic ==
    ASSUME NEW w \in Nat \ {0}, NEW c \in Nat \ {0}, NEW d \in Nat \ {0}, NEW k \in Nat
    PROVE  /\ (c - 1) * w \in Nat /\ w * k \in Nat
           /\ c <= d => (c - 1) * w <= (d - 1) * w
           /\ c + k <= d => (c - 1) * w + w * k <= (d - 1) * w
<1>1. \A m \in Nat : m * w \in Nat
  BY MultNat
<1>2. c - 1 \in Nat /\ d - 1 \in Nat
  OBVIOUS
<1>3. (c - 1) * w \in Nat /\ (d - 1) * w \in Nat /\ w * k \in Nat
  BY <1>1, <1>2, MultNat
<1>4. ASSUME c <= d PROVE (c - 1) * w <= (d - 1) * w
  <2>1. (d - c) * w \in Nat
    BY <1>1, <1>4
  <2>2. (d - 1) * w = (c - 1) * w + (d - c) * w
    OBVIOUS
  <2> QED BY <1>3, <2>1, <2>2
<1>5. ASSUME c + k <= d PROVE (c - 1) * w + w * k <= (d - 1) * w
  <2>1. (d - c - k) * w \in Nat
    BY <1>1, <1>5
  <2>2. (d - 1) * w = (c - 1) * w + w * k + (d - c - k) * w
    OBVIOUS
  <2> QED BY <1>3, <2>1, <2>2
<1> QED BY <1>3, <1>4, <1>5

(* The cells of a row that are shown do not overlap.                       *)
LEMMA RowPlaced ==
    ASSUME SettingsInv, grid \in Grids, MetricsInv, NEW r \in 1..Rows
    PROVE  Placed(r)
<1>1. /\ Cols \in Nat \ {0} /\ grid \in [1..Rows -> [1..Cols -> Cell]]
      /\ \A c \in 1..Cols : grid[r][c].span = 2 => c < Cols /\ grid[r][c + 1].span = 0
  BY RendererAssumption
<1>2. \A c \in 1..Cols : grid[r][c].span \in 0..2
  <2>1. \A c \in 1..Cols : grid[r][c] \in Cell
    BY <1>1
  <2> QED BY <2>1 DEF Cell
<1>3. CASE prop
  <2>1. /\ offsets # <<>> /\ offsets[r] \in [1..(Cols + 1) -> Nat]
        /\ \A c, d \in 1..(Cols + 1) : c <= d => offsets[r][c] <= offsets[r][d]
    BY <1>3, OffsetsOfRow DEF MetricsInv
  <2>2. \A c \in 1..(Cols + 1) : cellX(r, c) = offsets[r][c]
    BY <1>3, <2>1 DEF cellX
  <2>3. \A c \in 1..Cols : cellEnd(r, c) = offsets[r][c + 1] /\ c + 1 \in 1..(Cols + 1)
    BY <1>1, <1>3, <2>1 DEF cellEnd
  <2>4. \A c \in 1..Cols, d \in 1..(Cols + 1) : c < d => offsets[r][c + 1] <= offsets[r][d]
    <3> TAKE c \in 1..Cols, d \in 1..(Cols + 1)
    <3>1. c + 1 \in 1..(Cols + 1) /\ (c < d => c + 1 <= d)
      BY <1>1
    <3> QED BY <2>1, <3>1
  <2> QED BY <2>1, <2>2, <2>3, <2>4 DEF Placed
<1>4. CASE ~prop
  <2> DEFINE w == cellWidth
  <2>1. w \in Nat \ {0}
    BY DEF SettingsInv
  <2>2. \A c \in 1..(Cols + 1) : cellX(r, c) = (c - 1) * w
    BY <1>4 DEF cellX
  <2>3. \A c \in 1..Cols : cellEnd(r, c) = (c - 1) * w + w * grid[r][c].span
    BY <1>1, <1>4, <2>2 DEF cellEnd
  <2> HIDE DEF w
  <2>4. ASSUME NEW c \in 1..(Cols + 1) PROVE cellX(r, c) \in Nat
    <3>1. c \in Nat \ {0} /\ 0 \in Nat
      BY <1>1
    <3>2. (c - 1) * w \in Nat
      BY <2>1, <3>1, GridArithmetic
    <3> QED BY <2>2, <3>2
  <2>5. ASSUME NEW c \in 1..(Cols + 1), NEW d \in 1..(Cols + 1), c <= d PROVE cellX(r, c) <= cellX(r, d)
    <3>1. c \in Nat \ {0} /\ d \in Nat \ {0} /\ 0 \in Nat
      BY <1>1
    <3>2. (c - 1) * w <= (d - 1) * w
      BY <2>1, <2>5, <3>1, GridArithmetic
    <3> QED BY <2>2, <3>2
  <2>6. ASSUME NEW c \in 1..Cols PROVE cellEnd(r, c) \in Nat
    <3> DEFINE k == grid[r][c].span
    <3>1. c \in Nat \ {0} /\ k \in Nat
      BY <1>1, <1>2
    <3>2. cellEnd(r, c) = (c - 1) * w + w * k
      BY <2>3
    <3> HIDE DEF k
    <3>3. (c - 1) * w \in Nat /\ w * k \in Nat
      BY <2>1, <3>1, GridArithmetic
    <3> QED BY <3>2, <3>3
  <2>7. ASSUME NEW c \in 1..Cols, NEW d \in 1..(Cols + 1), Shows(r, c), c < d, d = Cols + 1 \/ Shows(r, d)
        PROVE  cellEnd(r, c) <= cellX(r, d)
    <3> DEFINE k == grid[r][c].span
    <3>1. k \in {1, 2} /\ c \in Nat \ {0} /\ d \in Nat \ {0} /\ k \in Nat
      BY <1>1, <1>2, <2>7 DEF Shows
    <3>2. k = 2 => d # c + 1
      <4>1. SUFFICES ASSUME k = 2, d = c + 1 PROVE FALSE
        OBVIOUS
      <4>2. c < Cols /\ grid[r][d].span = 0
        BY <1>1, <4>1
      <4> QED BY <1>1, <2>7, <4>1, <4>2 DEF Shows
    <3>3. cellEnd(r, c) = (c - 1) * w + w * k /\ cellX(r, d) = (d - 1) * w
      BY <2>2, <2>3
    <3> HIDE DEF k
    <3>4. c + k <= d
      BY <2>7, <3>1, <3>2
    <3>5. (c - 1) * w + w * k <= (d - 1) * w
      BY <2>1, <3>1, <3>4, GridArithmetic
    <3> QED BY <3>3, <3>5
  <2> QED BY <2>4, <2>5, <2>6, <2>7 DEF Placed
<1> QED BY <1>3, <1>4

(* A point of a cell is mapped to a column of the cell.                    *)
LEMMA PointHits ==
    ASSUME SettingsInv, grid \in Grids, MetricsInv, NEW r \in 1..Rows, NEW c \in 1..Cols, Shows(r, c),
           NEW x \in cellX(r, c)..(cellEnd(r, c) - 1)
    PROVE  mapXToCol(r, x) \in c..(c + grid[r][c].span - 1)
<1> DEFINE k == grid[r][c].span
<1>1. Cols \in Nat \ {0} /\ grid \in [1..Rows -> [1..Cols -> Cell]]
  BY RendererAssumption
<1>2. k \in {1, 2}
  <2>1. grid[r][c] \in Cell
    BY <1>1
  <2> QED BY <2>1 DEF Cell, Shows
<1>3. cellX(r, c) \in Nat /\ cellEnd(r, c) \in Nat
  <2>1. c \in 1..(Cols + 1)
    BY <1>1
  <2> QED BY <2>1, RowPlaced DEF Placed
<1>4. x \in Int /\ cellX(r, c) <= x /\ x < cellEnd(r, c)
  BY <1>3
<1>5. CASE prop
  <2>1. /\ offsets # <<>> /\ offsets[r] \in [1..(Cols + 1) -> Nat]
        /\ \A a, b \in 1..(Cols + 1) : a <= b => offsets[r][a] <= offsets[r][b]
    BY <1>5, OffsetsOfRow DEF MetricsInv
  <2>2. cellX(r, c) = offsets[r][c] /\ cellEnd(r, c) = offsets[r][c + 1]
    BY <1>5, <2>1 DEF cellX, cellEnd
  <2>3. PICK s : /\ s = [p \in Spans |-> Searched(s, offsets[r], x, p)]
                 /\ mapXToCol(r, x) = s[<<1, Cols>>]
    BY <1>5, <2>1, MapIsSearch
  <2> DEFINE off == offsets[r]
  <2>4. off[c] <= x /\ x < off[c + 1] /\ off \in [1..(Cols + 1) -> Nat]
        /\ \A a, b \in 1..(Cols + 1) : a <= b => off[a] <= off[b]
    BY <1>4, <2>1, <2>2
  <2>5. s = [p \in Spans |-> Searched(s, off, x, p)]
    BY <2>3
  <2> HIDE DEF off
  <2>6. s[<<1, Cols>>] = c
    BY <1>4, <2>4, <2>5, SearchHits
  <2> HIDE DEF k
  <2>7. c \in c..(c + k - 1)
    BY <1>1, <1>2
  <2> QED BY <2>3, <2>6, <2>7 DEF k
<1>6. CASE ~prop
  <2> DEFINE w == cellWidth
             a == c - 1
  <2>1. w \in Nat \ {0} /\ a \in Nat /\ k \in Nat
    BY <1>1, <1>2 DEF SettingsInv
  <2>2. mapXToCol(r, x) = x \div w + 1
    BY <1>6 DEF mapXToCol
  <2>3. a * w <= x /\ x < a * w + w * k
    BY <1>4, <1>6 DEF cellX, cellEnd
  <2>4. c = a + 1
    BY <1>1
  <2> HIDE DEF w, a, k
  <2>5. x \div w >= a /\ x \div w < a + k
    BY <1>4, <2>1, <2>3, QuotientRange
  <2>6. x \div w \in Int
    BY <1>4, <2>1
  <2> DEFINE q == x \div w
  <2>7. mapXToCol(r, x) = q + 1 /\ q \in Int /\ q >= a /\ q < a + k
    BY <2>2, <2>5, <2>6
  <2> HIDE DEF q
  <2>8. q + 1 \in c..(c + k - 1)
    BY <1>2, <2>1, <2>4, <2>7
  <2> QED BY <2>7, <2>8 DEF k
<1> QED BY <1>5, <1>6

-----------------------------------------------------------------------------
(* What is on top of a list of what was painted.                           *)

Fills == [what : {"fill"}, row : 1..Rows, from : Nat, to : Nat, colour : Colours]
Glyphs == [what : {"glyph"}, row : 1..Rows, col : 1..Cols, colour : Colours,
           font : [family : Families, size : Sizes]]
CursorLines == [what : {"cursor"}, row : 1..Rows, col : 1..Cols]
Marks == Fills \union Glyphs \union CursorLines

IsFill(mark, r) == mark.what = "fill" /\ mark.row = r
Over(p, r, x) == {i \in DOMAIN p : IsFill(p[i], r) /\ p[i].from <= x /\ x < p[i].to}

(* The background of a cell from one place to another is bg: no fill is    *)
(* over it, or one of that colour.                                         *)
Coloured(p, r, from, to, bg) ==
    \A x \in from..(to - 1) : x < WindowWidth =>
        IF bg = "default" THEN Over(p, r, x) = {}
        ELSE \E i \in DOMAIN p : Over(p, r, x) = {i} /\ p[i].colour = bg

(* No fill of p overlaps it.                                               *)
Apart(p, r, from, to) ==
    \A j \in DOMAIN p : IsFill(p[j], r) => p[j].to <= from \/ to <= p[j].from

(* A mark of it that no later fill overlaps.                               *)
Marked(p, mark, r, from, to) ==
    \E i \in DOMAIN p :
      /\ p[i] = mark
      /\ \A j \in (i + 1)..Len(p) : IsFill(p[j], r) => p[j].to <= from \/ to <= p[j].from

(* A fill is one of Fills.                                                 *)
LEMMA FillTypes ==
    ASSUME NEW mark \in Marks, mark.what = "fill"
    PROVE  mark \in Fills
  BY DEF Marks, Glyphs, CursorLines

(* The marks of a canvas that was painted on.                              *)
LEMMA ConcatMarks ==
    ASSUME NEW p \in Seq(Marks), NEW q \in Seq(Marks)
    PROVE  /\ p \o q \in Seq(Marks)
           /\ Len(p) \in Nat /\ Len(q) \in Nat /\ DOMAIN p = 1..Len(p) /\ DOMAIN q = 1..Len(q)
           /\ DOMAIN (p \o q) = 1..(Len(p) + Len(q)) /\ Len(p \o q) = Len(p) + Len(q)
           /\ \A i \in 1..Len(p) : (p \o q)[i] = p[i]
           /\ \A i \in 1..Len(q) : (p \o q)[Len(p) + i] = q[i]
  OBVIOUS

(* What is painted in two steps or in one is the same.                     *)
LEMMA MarksAssociative ==
    ASSUME NEW p \in Seq(Marks), NEW q \in Seq(Marks), NEW s \in Seq(Marks)
    PROVE  (p \o q) \o s = p \o (q \o s)
  OBVIOUS

(* What is painted apart from a cell leaves it as it is.                   *)
LEMMA LaterApart ==
    ASSUME NEW p \in Seq(Marks), NEW q \in Seq(Marks), NEW r, NEW from \in Nat, NEW to \in Nat, NEW bg,
           Apart(q, r, from, to)
    PROVE  /\ Coloured(p, r, from, to, bg) => Coloured(p \o q, r, from, to, bg)
           /\ \A mark : Marked(p, mark, r, from, to) => Marked(p \o q, mark, r, from, to)
<1> DEFINE pq == p \o q
           n == Len(p)
           m == Len(q)
<1>1. /\ pq \in Seq(Marks) /\ n \in Nat /\ m \in Nat /\ DOMAIN p = 1..n /\ DOMAIN q = 1..m
      /\ DOMAIN pq = 1..(n + m) /\ Len(pq) = n + m
      /\ \A i \in 1..n : pq[i] = p[i]
      /\ \A i \in 1..m : pq[n + i] = q[i]
  BY ConcatMarks
<1> HIDE DEF pq, n, m
<1>2. ASSUME NEW i \in (n + 1)..(n + m), IsFill(pq[i], r) PROVE pq[i].to <= from \/ to <= pq[i].from
  <2>1. i - n \in 1..m /\ n + (i - n) = i
    BY <1>1
  <2>2. pq[i] = q[i - n]
    BY <1>1, <2>1
  <2> QED BY <1>1, <1>2, <2>1, <2>2 DEF Apart
<1>3. ASSUME NEW x \in from..(to - 1) PROVE Over(pq, r, x) = Over(p, r, x)
  <2>1. \A i \in 1..n : i \in 1..(n + m)
    BY <1>1
  <2>2. ASSUME NEW i \in 1..(n + m), IsFill(pq[i], r), pq[i].from <= x, x < pq[i].to PROVE i \in 1..n
    <3>1. SUFFICES ASSUME i > n PROVE FALSE
      BY <1>1
    <3>2. pq[i].to <= from \/ to <= pq[i].from
      BY <1>1, <1>2, <2>2, <3>1
    <3>3. pq[i].to \in Nat /\ pq[i].from \in Nat
      <4>1. pq[i] \in Marks
        BY <1>1
      <4> QED BY <2>2, <4>1, FillTypes DEF IsFill, Fills
    <3> QED BY <2>2, <3>2, <3>3
  <2> QED BY <1>1, <2>1, <2>2 DEF Over
<1>4. Coloured(p, r, from, to, bg) => Coloured(pq, r, from, to, bg)
  <2>1. SUFFICES ASSUME Coloured(p, r, from, to, bg), NEW x \in from..(to - 1), x < WindowWidth
                 PROVE  IF bg = "default" THEN Over(pq, r, x) = {}
                        ELSE \E i \in DOMAIN pq : Over(pq, r, x) = {i} /\ pq[i].colour = bg
    BY DEF Coloured
  <2>2. Over(pq, r, x) = Over(p, r, x)
    BY <1>3
  <2>3. IF bg = "default" THEN Over(p, r, x) = {}
        ELSE \E i \in DOMAIN p : Over(p, r, x) = {i} /\ p[i].colour = bg
    BY <2>1 DEF Coloured
  <2>4. \A i \in DOMAIN p : i \in DOMAIN pq /\ pq[i] = p[i]
    BY <1>1
  <2> QED BY <2>2, <2>3, <2>4
<1>5. ASSUME NEW mark, Marked(p, mark, r, from, to) PROVE Marked(pq, mark, r, from, to)
  <2>1. PICK i \in DOMAIN p :
          /\ p[i] = mark
          /\ \A j \in (i + 1)..n : IsFill(p[j], r) => p[j].to <= from \/ to <= p[j].from
    BY <1>5 DEF Marked, n
  <2>2. i \in DOMAIN pq /\ pq[i] = mark
    BY <1>1, <2>1
  <2>3. ASSUME NEW j \in (i + 1)..(n + m), IsFill(pq[j], r) PROVE pq[j].to <= from \/ to <= pq[j].from
    <3>1. CASE j > n
      <4>1. i \in Nat /\ j \in (n + 1)..(n + m)
        BY <1>1, <2>1, <3>1
      <4> QED BY <1>2, <2>3, <4>1
    <3>2. CASE j <= n
      <4>1. j \in (i + 1)..n /\ pq[j] = p[j]
        BY <1>1, <2>1, <3>2
      <4> QED BY <2>1, <2>3, <4>1
    <3> QED BY <1>1, <2>1, <3>1, <3>2
  <2> QED BY <1>1, <2>2, <2>3 DEF Marked
<1> QED BY <1>4, <1>5 DEF pq

(* What was painted apart from a cell before does not matter.              *)
LEMMA EarlierApart ==
    ASSUME NEW p \in Seq(Marks), NEW q \in Seq(Marks), NEW r, NEW from \in Nat, NEW to \in Nat, NEW bg
    PROVE  /\ Apart(p, r, from, to) /\ Coloured(q, r, from, to, bg) => Coloured(p \o q, r, from, to, bg)
           /\ \A mark : Marked(q, mark, r, from, to) => Marked(p \o q, mark, r, from, to)
<1> DEFINE pq == p \o q
           n == Len(p)
           m == Len(q)
<1>1. /\ pq \in Seq(Marks) /\ n \in Nat /\ m \in Nat /\ DOMAIN p = 1..n /\ DOMAIN q = 1..m
      /\ DOMAIN pq = 1..(n + m) /\ Len(pq) = n + m
      /\ \A i \in 1..n : pq[i] = p[i]
      /\ \A i \in 1..m : pq[n + i] = q[i]
  BY ConcatMarks
<1> HIDE DEF pq, n, m
<1>2. \A i \in 1..m : n + i \in 1..(n + m)
  BY <1>1
<1>3. ASSUME Apart(p, r, from, to), NEW x \in from..(to - 1)
      PROVE  Over(pq, r, x) = {n + i : i \in Over(q, r, x)}
  <2>1. ASSUME NEW i \in Over(pq, r, x) PROVE i - n \in Over(q, r, x) /\ i = n + (i - n)
    <3>1. i \in 1..(n + m) /\ IsFill(pq[i], r) /\ pq[i].from <= x /\ x < pq[i].to
      BY <1>1, <2>1 DEF Over
    <3>2. i > n
      <4>1. SUFFICES ASSUME i <= n PROVE FALSE
        BY <1>1, <3>1
      <4>2. i \in 1..n /\ pq[i] = p[i]
        BY <1>1, <3>1, <4>1
      <4>3. pq[i].to <= from \/ to <= pq[i].from
        BY <1>1, <1>3, <3>1, <4>2 DEF Apart
      <4>4. pq[i].to \in Nat /\ pq[i].from \in Nat
        <5>1. pq[i] \in Marks
          BY <1>1, <3>1
        <5> QED BY <3>1, <5>1, FillTypes DEF IsFill, Fills
      <4> QED BY <1>3, <3>1, <4>3, <4>4
    <3>3. i - n \in 1..m /\ n + (i - n) = i
      BY <1>1, <3>1, <3>2
    <3>4. pq[i] = q[i - n]
      BY <1>1, <3>3
    <3> QED BY <1>1, <3>1, <3>3, <3>4 DEF Over
  <2>2. ASSUME NEW i \in Over(q, r, x) PROVE n + i \in Over(pq, r, x)
    <3>1. i \in 1..m /\ IsFill(q[i], r) /\ q[i].from <= x /\ x < q[i].to
      BY <1>1, <2>2 DEF Over
    <3>2. n + i \in 1..(n + m) /\ pq[n + i] = q[i]
      BY <1>1, <1>2, <3>1
    <3> QED BY <1>1, <3>1, <3>2 DEF Over
  <2> QED BY <2>1, <2>2
<1>4. Apart(p, r, from, to) /\ Coloured(q, r, from, to, bg) => Coloured(pq, r, from, to, bg)
  <2>1. SUFFICES ASSUME Apart(p, r, from, to), Coloured(q, r, from, to, bg),
                        NEW x \in from..(to - 1), x < WindowWidth
                 PROVE  IF bg = "default" THEN Over(pq, r, x) = {}
                        ELSE \E i \in DOMAIN pq : Over(pq, r, x) = {i} /\ pq[i].colour = bg
    BY DEF Coloured
  <2>2. Over(pq, r, x) = {n + i : i \in Over(q, r, x)}
    BY <1>3, <2>1
  <2>3. IF bg = "default" THEN Over(q, r, x) = {}
        ELSE \E i \in DOMAIN q : Over(q, r, x) = {i} /\ q[i].colour = bg
    BY <2>1 DEF Coloured
  <2>4. CASE bg = "default"
    BY <2>2, <2>3, <2>4
  <2>5. CASE bg # "default"
    <3>1. PICK i \in 1..m : Over(q, r, x) = {i} /\ q[i].colour = bg
      BY <1>1, <2>3, <2>5
    <3>2. Over(pq, r, x) = {n + i}
      BY <2>2, <3>1
    <3>3. n + i \in DOMAIN pq /\ pq[n + i].colour = bg
      BY <1>1, <1>2, <3>1
    <3> QED BY <2>5, <3>2, <3>3
  <2> QED BY <2>4, <2>5
<1>5. ASSUME NEW mark, Marked(q, mark, r, from, to) PROVE Marked(pq, mark, r, from, to)
  <2>1. PICK i \in DOMAIN q :
          /\ q[i] = mark
          /\ \A j \in (i + 1)..m : IsFill(q[j], r) => q[j].to <= from \/ to <= q[j].from
    BY <1>5 DEF Marked, m
  <2>2. n + i \in DOMAIN pq /\ pq[n + i] = mark
    BY <1>1, <1>2, <2>1
  <2>3. ASSUME NEW j \in (n + i + 1)..(n + m), IsFill(pq[j], r) PROVE pq[j].to <= from \/ to <= pq[j].from
    <3>1. j - n \in (i + 1)..m /\ j - n \in 1..m /\ n + (j - n) = j
      BY <1>1, <2>1
    <3>2. pq[j] = q[j - n]
      BY <1>1, <3>1
    <3>3. IsFill(q[j - n], r)
      BY <2>3, <3>2
    <3>4. q[j - n].to <= from \/ to <= q[j - n].from
      BY <2>1, <3>1, <3>3
    <3> QED BY <3>2, <3>4
  <2> QED BY <1>1, <2>2, <2>3 DEF Marked
<1> QED BY <1>4, <1>5 DEF pq

(* Nothing, or one mark.                                                   *)
LEMMA NothingPainted ==
    ASSUME NEW r, NEW from, NEW to
    PROVE  /\ <<>> \in Seq(Marks) /\ Apart(<<>>, r, from, to)
           /\ Coloured(<<>>, r, from, to, "default")
  BY DEF Apart, Coloured, Over

(* A mark alone that is no fill covers no background.                      *)
LEMMA OneMark ==
    ASSUME NEW mark \in Marks, mark.what # "fill", NEW r, NEW from, NEW to
    PROVE  /\ <<mark>> \in Seq(Marks) /\ Apart(<<mark>>, r, from, to)
           /\ Marked(<<mark>>, mark, r, from, to)
<1> DEFINE p == <<mark>>
<1>1. p \in Seq(Marks) /\ DOMAIN p = {1} /\ Len(p) = 1 /\ p[1] = mark
  OBVIOUS
<1> HIDE DEF p
<1>2. Apart(p, r, from, to)
  BY <1>1 DEF Apart, IsFill
<1>3. Marked(p, mark, r, from, to)
  BY <1>1 DEF Marked
<1> QED BY <1>1, <1>2, <1>3 DEF p

(* p fills at most a range, and all of it unless the colour is the default *)
(* one.                                                                    *)
FillsRange(p, r, at, end, colour) ==
    /\ p \in Seq(Marks)
    /\ \A i \in DOMAIN p : p[i].row = r /\ p[i].from = at /\ p[i].to = end
    /\ \A x \in Int : at <= x /\ x < end /\ colour \in Colours \ {"default"} =>
          Over(p, r, x) = {1} /\ 1 \in DOMAIN p /\ p[1].colour = colour
    /\ colour = "default" => p = <<>>

(* Fill() covers its pixels once, in its colour, unless that is default.   *)
LEMMA FillFacts ==
    ASSUME NEW r \in 1..Rows, NEW at \in Nat, NEW end \in Nat, NEW colour \in Colours \union {"none"}
    PROVE  FillsRange(Fill(r, at, end, colour), r, at, end, colour)
<1> DEFINE p == Fill(r, at, end, colour)
<1> SUFFICES
      /\ p \in Seq(Marks)
      /\ \A i \in DOMAIN p : p[i].row = r /\ p[i].from = at /\ p[i].to = end
      /\ \A x \in Int : at <= x /\ x < end /\ colour \in Colours \ {"default"} =>
            Over(p, r, x) = {1} /\ 1 \in DOMAIN p /\ p[1].colour = colour
      /\ colour = "default" => p = <<>>
  BY DEF FillsRange
<1>0. p = Fill(r, at, end, colour)
  OBVIOUS
<1> HIDE DEF p
<1> DEFINE f == [what |-> "fill", row |-> r, from |-> at, to |-> end, colour |-> colour]
<1>1. CASE ~(at < end /\ colour \notin {"default", "none"})
  <2>1. p = <<>>
    BY <1>0, <1>1 DEF Fill
  <2>2. ASSUME NEW x \in Int, at <= x, x < end, colour \in Colours \ {"default"} PROVE FALSE
    <3>1. colour \notin {"default", "none"}
      BY <2>2 DEF Colours
    <3> QED BY <1>1, <2>2, <3>1
  <2> QED BY <2>1, <2>2
<1>2. CASE at < end /\ colour \notin {"default", "none"}
  <2>1. p = <<f>>
    BY <1>0, <1>2 DEF Fill
  <2>2. f \in Marks
    BY <1>2 DEF Marks, Fills
  <2>3. f.what = "fill" /\ f.row = r /\ f.from = at /\ f.to = end /\ f.colour = colour
    OBVIOUS
  <2> HIDE DEF f
  <2>4. p \in Seq(Marks) /\ DOMAIN p = {1} /\ p[1] = f
    BY <2>1, <2>2
  <2>5. ASSUME NEW x \in Int, at <= x, x < end PROVE Over(p, r, x) = {1}
    BY <2>3, <2>4, <2>5 DEF Over, IsFill
  <2> QED BY <1>2, <2>3, <2>4, <2>5
<1> QED BY <1>1, <1>2

-----------------------------------------------------------------------------
(* The first pass over a row.                                              *)

Look(r, c) == visual(grid[r][c], Here(r, c))
CursorLine(r, c) == [what |-> "cursor", row |-> r, col |-> c]

(* p gives a cell its background, and a line cursor on no background.      *)
Backed(p, r, c) == Coloured(p, r, cellX(r, c), cellEnd(r, c), Look(r, c).bg)
Lined(p, r, c) ==
    Here(r, c) /\ line /\ Look(r, c).bg = "default" =>
        Marked(p, CursorLine(r, c), r, cellX(r, c), cellEnd(r, c))

Runs == [ops : Seq(Marks), from : Nat, bg : Colours \union {"none"}]

(* After c columns: what was filled is to the left of the run, and a cell  *)
(* is of the run, or to the left of it and painted.                        *)
Running(run, r, d) == run.bg = Look(r, d).bg /\ run.from <= cellX(r, d)
Flushed(run, r, d) == cellEnd(r, d) <= run.from /\ Backed(run.ops, r, d)
RunInv(run, r, c) ==
    /\ run \in Runs
    /\ run.from <= cellX(r, c + 1)
    /\ \A i \in DOMAIN run.ops : run.ops[i].what = "fill" =>
           run.ops[i].row = r /\ run.ops[i].to <= run.from
    /\ \A d \in 1..c : Shows(r, d) =>
           Lined(run.ops, r, d) /\ (Running(run, r, d) \/ Flushed(run, r, d))

(* The metrics, the cells and the cursor of a frame.                       *)
ScreenInv == SettingsInv /\ grid \in Grids /\ MetricsInv

(* A cell is painted in colours.                                           *)
LEMMA LookTypes ==
    ASSUME ScreenInv, NEW r \in 1..Rows, NEW c \in 1..Cols
    PROVE  Look(r, c).fg \in Colours /\ Look(r, c).bg \in Colours /\ Look(r, c).bg # "none"
<1>1. grid \in [1..Rows -> [1..Cols -> Cell]]
  BY RendererAssumption DEF ScreenInv
<1> DEFINE cell == grid[r][c]
<1>2. cell \in Cell
  BY <1>1
<1> HIDE DEF cell
<1>3. cell.fg \in Colours /\ cell.bg \in Colours
  BY <1>2 DEF Cell
<1>4. \A here : visual(cell, here).fg \in Colours /\ visual(cell, here).bg \in Colours
  BY <1>3 DEF visual, CursorColour, Colours
<1>5. Look(r, c).fg \in Colours /\ Look(r, c).bg \in Colours
  BY <1>4 DEF Look, cell
<1> QED BY <1>5 DEF Colours

(* The marks of a cell are not fills, and its line cursor is the last.     *)
CellMarks(r, c) == paintBuiltinGlyph(r, c) \o paintCursor(r, c)

(* Painting a cell in the second pass paints its builtin glyph and its     *)
(* line cursor.                                                            *)
LEMMA CellMarksFacts ==
    ASSUME ScreenInv, NEW r \in 1..Rows, NEW c \in 1..Cols, NEW from, NEW to
    PROVE  /\ CellMarks(r, c) \in Seq(Marks)
           /\ \A i \in DOMAIN CellMarks(r, c) : CellMarks(r, c)[i].what # "fill"
           /\ Builtin(grid[r][c]) =>
                 Marked(CellMarks(r, c), Glyph(r, c, Look(r, c).fg, Font), r, from, to)
           /\ Here(r, c) /\ line => Marked(CellMarks(r, c), CursorLine(r, c), r, from, to)
<1> DEFINE g == Glyph(r, c, Look(r, c).fg, Font)
           k == CursorLine(r, c)
           p == paintBuiltinGlyph(r, c)
           q == paintCursor(r, c)
<1>1. g \in Marks /\ g.what # "fill"
  <2>1. Font \in [family : Families, size : Sizes]
    BY DEF Font, ScreenInv, SettingsInv
  <2> QED BY <2>1, LookTypes DEF Glyph, Marks, Glyphs
<1>2. k \in Marks /\ k.what # "fill"
  BY DEF CursorLine, Marks, CursorLines
<1>3. p = (IF Builtin(grid[r][c]) THEN <<g>> ELSE <<>>)
  BY DEF paintBuiltinGlyph, Look
<1>4. q = (IF Here(r, c) /\ line THEN <<k>> ELSE <<>>)
  BY DEF paintCursor, CursorLine
<1> HIDE DEF g, k, p, q
<1> DEFINE pq == p \o q
<1>5. p \in Seq(Marks) /\ q \in Seq(Marks)
  BY <1>1, <1>2, <1>3, <1>4
<1>6. /\ \A i \in DOMAIN p : p[i].what # "fill"
      /\ \A i \in DOMAIN q : q[i].what # "fill"
  <2>1. \A m : m.what # "fill" => \A i \in DOMAIN <<m>> : <<m>>[i].what # "fill"
    OBVIOUS
  <2>2. \A i \in DOMAIN <<>> : <<>>[i].what # "fill"
    OBVIOUS
  <2>3. p \in {<<g>>, <<>>} /\ q \in {<<k>>, <<>>}
    BY <1>3, <1>4
  <2> QED BY <1>1, <1>2, <2>1, <2>2, <2>3
<1>a. /\ pq \in Seq(Marks) /\ Len(p) \in Nat /\ Len(q) \in Nat
      /\ DOMAIN p = 1..Len(p) /\ DOMAIN q = 1..Len(q) /\ DOMAIN pq = 1..(Len(p) + Len(q))
      /\ \A i \in 1..Len(p) : pq[i] = p[i]
      /\ \A i \in 1..Len(q) : pq[Len(p) + i] = q[i]
  BY <1>5, ConcatMarks
<1>7. pq \in Seq(Marks) /\ \A i \in DOMAIN pq : pq[i].what # "fill"
  <2> HIDE DEF pq
  <2>2. ASSUME NEW i \in DOMAIN pq PROVE pq[i].what # "fill"
    <3>1. CASE i <= Len(p)
      BY <1>6, <1>a, <3>1
    <3>2. CASE i > Len(p)
      <4>1. i - Len(p) \in 1..Len(q) /\ Len(p) + (i - Len(p)) = i
        BY <1>a, <3>2
      <4>2. pq[i] = q[i - Len(p)]
        BY <1>a, <4>1
      <4> QED BY <1>6, <1>a, <4>1, <4>2
    <3> QED BY <1>a, <3>1, <3>2
  <2> QED BY <1>a, <2>2
<1>8. \A m : \A i, n \in Nat : n = Len(pq) /\ i \in DOMAIN pq /\ pq[i] = m => Marked(pq, m, r, from, to)
  <2> HIDE DEF pq
  <2>1. TAKE m
  <2>2. TAKE i, n \in Nat
  <2>3. \A j \in (i + 1)..n : n = Len(pq) => j \in DOMAIN pq
    <3>1. DOMAIN pq = 1..Len(pq)
      BY <1>7
    <3> QED BY <3>1
  <2> QED BY <1>7, <2>3 DEF Marked, IsFill
<1>9. \A m : (\E i \in DOMAIN pq : pq[i] = m) => Marked(pq, m, r, from, to)
  <2> HIDE DEF pq
  <2>1. DOMAIN pq \subseteq Nat /\ Len(pq) \in Nat
    BY <1>7
  <2> QED BY <1>8, <2>1
<1>10. ASSUME Builtin(grid[r][c]) PROVE Marked(pq, g, r, from, to)
  <2>1. p = <<g>>
    BY <1>3, <1>10
  <2> HIDE DEF pq
  <2>2. 1 \in DOMAIN pq /\ pq[1] = g
    <3>1. Len(p) = 1 /\ p[1] = g
      BY <2>1
    <3>2. 1 \in 1..Len(p) /\ 1 \in 1..(Len(p) + Len(q))
      BY <1>a, <3>1
    <3> QED BY <1>a, <3>1, <3>2
  <2> QED BY <1>9, <2>2
<1>11. ASSUME Here(r, c) /\ line PROVE Marked(pq, k, r, from, to)
  <2>1. q = <<k>>
    BY <1>4, <1>11
  <2> HIDE DEF pq
  <2>2. Len(p) + 1 \in DOMAIN pq /\ pq[Len(p) + 1] = k
    <3>1. Len(q) = 1 /\ q[1] = k
      BY <2>1
    <3>2. 1 \in 1..Len(q) /\ Len(p) + 1 \in 1..(Len(p) + Len(q))
      BY <1>a, <3>1
    <3> QED BY <1>a, <3>1, <3>2
  <2> QED BY <1>9, <2>2
<1>12. CellMarks(r, c) = pq
  BY DEF CellMarks, p, q
<1> HIDE DEF pq
<1>13. /\ Builtin(grid[r][c]) => Marked(pq, g, r, from, to)
       /\ Here(r, c) /\ line => Marked(pq, k, r, from, to)
  BY <1>10, <1>11
<1> QED BY <1>7, <1>12, <1>13 DEF g, k

(* Marks that are no fills leave every cell as it is.                      *)
LEMMA NoMoreFills ==
    ASSUME NEW p \in Seq(Marks), NEW q \in Seq(Marks), \A i \in DOMAIN q : q[i].what # "fill"
    PROVE  /\ p \o q \in Seq(Marks)
           /\ \A i \in DOMAIN (p \o q) : (p \o q)[i].what = "fill" => i \in DOMAIN p /\ (p \o q)[i] = p[i]
           /\ \A r, from, to : Apart(q, r, from, to)
<1> DEFINE pq == p \o q
<1>1. /\ pq \in Seq(Marks) /\ Len(p) \in Nat /\ Len(q) \in Nat
      /\ DOMAIN p = 1..Len(p) /\ DOMAIN q = 1..Len(q) /\ DOMAIN pq = 1..(Len(p) + Len(q))
      /\ \A i \in 1..Len(p) : pq[i] = p[i]
      /\ \A i \in 1..Len(q) : pq[Len(p) + i] = q[i]
  BY ConcatMarks
<1> HIDE DEF pq
<1>2. ASSUME NEW i \in DOMAIN pq, pq[i].what = "fill" PROVE i \in DOMAIN p /\ pq[i] = p[i]
  <2>1. CASE i <= Len(p)
    BY <1>1, <2>1
  <2>2. CASE i > Len(p)
    <3>1. i - Len(p) \in 1..Len(q) /\ Len(p) + (i - Len(p)) = i
      BY <1>1, <2>2
    <3>2. pq[i] = q[i - Len(p)]
      BY <1>1, <3>1
    <3> QED BY <1>1, <1>2, <3>1, <3>2
  <2> QED BY <1>1, <2>1, <2>2
<1>3. \A r, from, to : Apart(q, r, from, to)
  BY DEF Apart, IsFill
<1> QED BY <1>1, <1>2, <1>3 DEF pq

(* The places of the cells of a row.                                       *)
LEMMA CellPlaces ==
    ASSUME ScreenInv, NEW r \in 1..Rows, NEW c \in 1..Cols
    PROVE  /\ cellX(r, c) \in Nat /\ cellEnd(r, c) \in Nat /\ cellX(r, c + 1) \in Nat
           /\ cellX(r, c) <= cellX(r, c + 1)
           /\ \A d \in 1..(c - 1) : d \in 1..Cols
           /\ Shows(r, c) => \A d \in 1..(c - 1) : Shows(r, d) => cellEnd(r, d) <= cellX(r, c)
<1>1. Cols \in Nat
  BY RendererAssumption
<1>2. c \in 1..(Cols + 1) /\ c + 1 \in 1..(Cols + 1) /\ \A d \in 1..(c - 1) : d \in 1..Cols /\ d < c
  BY <1>1
<1>3. Placed(r)
  BY RowPlaced DEF ScreenInv
<1> QED BY <1>1, <1>2, <1>3 DEF Placed

(* A run that ends where or after its cells end backs them all.            *)
LEMMA FlushBacks ==
    ASSUME ScreenInv, NEW r \in 1..Rows, NEW c \in 0..Cols, NEW run, RunInv(run, r, c), NEW end \in Nat,
           \A d \in 1..c : Shows(r, d) =>
             \A x \in cellX(r, d)..(cellEnd(r, d) - 1) : x < WindowWidth => x < end
    PROVE  /\ flushRun(r, run, end) \in Seq(Marks)
           /\ \A i \in DOMAIN flushRun(r, run, end) : flushRun(r, run, end)[i].what = "fill" =>
                 /\ flushRun(r, run, end)[i].row = r
                 /\ flushRun(r, run, end)[i].to <= run.from \/ flushRun(r, run, end)[i].to = end
           /\ \A d \in 1..c : Shows(r, d) =>
                 Backed(flushRun(r, run, end), r, d) /\ Lined(flushRun(r, run, end), r, d)
<1> DEFINE ops == run.ops
           f == Fill(r, run.from, end, run.bg)
           p == ops \o f
<1>0. flushRun(r, run, end) = p
  BY DEF flushRun
<1>1. ops \in Seq(Marks) /\ run.from \in Nat /\ run.bg \in Colours \union {"none"} /\ Cols \in Nat
  BY RendererAssumption DEF RunInv, Runs
<1>2. /\ f \in Seq(Marks)
      /\ \A i \in DOMAIN f : f[i].row = r /\ f[i].from = run.from /\ f[i].to = end
      /\ \A x \in Int : run.from <= x /\ x < end /\ run.bg \in Colours \ {"default"} =>
            Over(f, r, x) = {1} /\ 1 \in DOMAIN f /\ f[1].colour = run.bg
      /\ run.bg = "default" => f = <<>>
  <2>1. FillsRange(f, r, run.from, end, run.bg)
    BY <1>1, FillFacts
  <2> HIDE DEF f
  <2> QED BY <2>1 DEF FillsRange
<1>3. /\ p \in Seq(Marks) /\ Len(ops) \in Nat /\ Len(f) \in Nat
      /\ DOMAIN ops = 1..Len(ops) /\ DOMAIN f = 1..Len(f) /\ DOMAIN p = 1..(Len(ops) + Len(f))
      /\ \A i \in 1..Len(ops) : p[i] = ops[i]
      /\ \A i \in 1..Len(f) : p[Len(ops) + i] = f[i]
  BY <1>1, <1>2, ConcatMarks
<1>4. \A i \in DOMAIN ops : ops[i].what = "fill" => ops[i].row = r /\ ops[i].to <= run.from
  BY DEF RunInv
<1> HIDE DEF f, ops
<1>5. ASSUME NEW i \in DOMAIN p, p[i].what = "fill"
      PROVE  p[i].row = r /\ (p[i].to <= run.from \/ p[i].to = end)
  <2> HIDE DEF p
  <2>1. CASE i <= Len(ops)
    <3>1. i \in DOMAIN ops /\ p[i] = ops[i]
      BY <1>3, <2>1
    <3> QED BY <1>4, <1>5, <3>1
  <2>2. CASE i > Len(ops)
    <3>1. i - Len(ops) \in 1..Len(f) /\ Len(ops) + (i - Len(ops)) = i
      BY <1>3, <2>2
    <3>2. i - Len(ops) \in DOMAIN f /\ p[i] = f[i - Len(ops)]
      BY <1>3, <3>1
    <3> QED BY <1>2, <3>2
  <2> QED BY <1>3, <2>1, <2>2
<1>6. ASSUME NEW d \in 1..c, Shows(r, d) PROVE Backed(p, r, d) /\ Lined(p, r, d)
  <2> DEFINE from == cellX(r, d)
             to == cellEnd(r, d)
             bg == Look(r, d).bg
             k == CursorLine(r, d)
  <2>1. d \in 1..Cols
    BY <1>1
  <2>2. from \in Nat /\ to \in Nat /\ bg \in Colours /\ bg # "none"
    BY <2>1, CellPlaces, LookTypes
  <2>3. Lined(ops, r, d) /\ (Running(run, r, d) \/ Flushed(run, r, d))
    BY <1>6 DEF RunInv, ops
  <2>4. \A x \in from..(to - 1) : x < WindowWidth => x < end
    BY <1>6
  <2>5. CASE Running(run, r, d)
    <3>1. run.bg = bg /\ run.from <= from
      BY <2>5 DEF Running
    <3> HIDE DEF from, to, bg, p
    <3>2. Apart(ops, r, from, to)
      <4> SUFFICES ASSUME NEW j \in DOMAIN ops, IsFill(ops[j], r) PROVE ops[j].to <= from
        BY DEF Apart
      <4>1. ops[j].to <= run.from
        BY <1>4 DEF IsFill
      <4>2. ops[j].to \in Nat
        <5>1. ops[j] \in Marks
          BY <1>1 DEF ops
        <5> QED BY <5>1, FillTypes DEF IsFill, Fills
      <4> QED BY <1>1, <2>2, <3>1, <4>1, <4>2
    <3>3. Coloured(f, r, from, to, bg)
      <4>1. CASE bg = "default"
        BY <1>2, <3>1, <4>1, NothingPainted
      <4>2. CASE bg # "default"
        <5> SUFFICES ASSUME NEW x \in from..(to - 1), x < WindowWidth
                     PROVE  \E i \in DOMAIN f : Over(f, r, x) = {i} /\ f[i].colour = bg
          BY <4>2 DEF Coloured
        <5>1. x \in Int /\ run.from <= x /\ x < end
          BY <1>1, <2>2, <2>4, <3>1
        <5>2. run.bg \in Colours \ {"default"}
          BY <2>2, <3>1, <4>2
        <5> QED BY <1>2, <3>1, <5>1, <5>2
      <4> QED BY <4>1, <4>2
    <3>4. Coloured(p, r, from, to, bg)
      BY <1>1, <1>2, <2>2, <3>2, <3>3, EarlierApart DEF p, ops
    <3>5. bg = "default" => \A mark : Marked(ops, mark, r, from, to) => Marked(p, mark, r, from, to)
      <4> SUFFICES ASSUME bg = "default" PROVE \A mark : Marked(ops, mark, r, from, to) => Marked(p, mark, r, from, to)
        OBVIOUS
      <4>1. Apart(f, r, from, to)
        BY <1>2, <3>1, NothingPainted
      <4>2. ops \in Seq(Marks)
        BY <1>1 DEF ops
      <4> QED BY <1>2, <2>2, <4>1, <4>2, LaterApart DEF p
    <3> QED BY <2>3, <3>4, <3>5 DEF Backed, Lined, from, to, bg
  <2>6. CASE Flushed(run, r, d)
    <3>1. to <= run.from /\ Coloured(ops, r, from, to, bg)
      BY <2>6 DEF Flushed, Backed, ops
    <3>2. Lined(ops, r, d)
      BY <2>3
    <3>3. Apart(f, r, from, to)
      BY <1>2, <3>1 DEF Apart
    <3>4. ops \in Seq(Marks)
      BY <1>1 DEF ops
    <3> HIDE DEF from, to, bg, p
    <3>5. /\ Coloured(p, r, from, to, bg)
          /\ \A mark : Marked(ops, mark, r, from, to) => Marked(p, mark, r, from, to)
      BY <1>2, <2>2, <3>1, <3>3, <3>4, LaterApart DEF p
    <3> QED BY <3>2, <3>5 DEF Backed, Lined, from, to, bg
  <2> QED BY <2>3, <2>5, <2>6
<1>7. p \in Seq(Marks)
  BY <1>3
<1> HIDE DEF p
<1> QED BY <1>0, <1>5, <1>6, <1>7

(* A cell joins the run or starts one.                                     *)
LEMMA AddCellKeeps ==
    ASSUME ScreenInv, NEW r \in 1..Rows, NEW c \in 1..Cols, Shows(r, c), NEW run, RunInv(run, r, c - 1)
    PROVE  RunInv(addCell(r, run, c), r, c)
<1> DEFINE bg == Look(r, c).bg
           marks == CellMarks(r, c)
           X == cellX(r, c)
           same == bg = run.bg
           ops == IF same THEN run.ops ELSE flushRun(r, run, X)
           new == addCell(r, run, c)
           k == CursorLine(r, c)
<1>0. Cols \in Nat /\ c - 1 \in 0..Cols /\ c - 1 + 1 = c
  BY RendererAssumption
<1>1. /\ X \in Nat /\ cellEnd(r, c) \in Nat /\ cellX(r, c + 1) \in Nat /\ X <= cellX(r, c + 1)
      /\ \A d \in 1..(c - 1) : d \in 1..Cols /\ (Shows(r, d) => cellEnd(r, d) <= X)
  BY CellPlaces
<1>2. bg \in Colours /\ bg # "none"
  BY LookTypes
<1>3. /\ marks \in Seq(Marks) /\ \A i \in DOMAIN marks : marks[i].what # "fill"
      /\ Here(r, c) /\ line => Marked(marks, k, r, X, cellEnd(r, c))
  BY CellMarksFacts
<1>4. /\ run \in Runs /\ run.ops \in Seq(Marks) /\ run.from \in Nat /\ run.bg \in Colours \union {"none"}
      /\ run.from <= X
      /\ \A i \in DOMAIN run.ops : run.ops[i].what = "fill" => run.ops[i].row = r /\ run.ops[i].to <= run.from
      /\ \A d \in 1..(c - 1) : Shows(r, d) =>
           Lined(run.ops, r, d) /\ (Running(run, r, d) \/ Flushed(run, r, d))
  BY <1>0 DEF RunInv, Runs
<1>5. /\ new.ops = ops \o marks
      /\ new.from = IF same THEN run.from ELSE X
      /\ new.bg = bg
      /\ new = [ops |-> new.ops, from |-> new.from, bg |-> new.bg]
  <2>1. new = IF same THEN [run EXCEPT !.ops = @ \o marks]
              ELSE [ops |-> flushRun(r, run, X) \o marks, from |-> X, bg |-> bg]
    BY DEF addCell, Look, CellMarks
  <2> HIDE DEF new, marks, X, bg
  <2>2. CASE same
    <3>1. new = [ops |-> run.ops \o marks, from |-> run.from, bg |-> run.bg]
      BY <1>4, <2>1, <2>2 DEF Runs
    <3> QED BY <2>2, <3>1
  <2>3. CASE ~same
    <3>1. new = [ops |-> flushRun(r, run, X) \o marks, from |-> X, bg |-> bg]
      BY <2>1, <2>3
    <3> QED BY <2>3, <3>1
  <2> QED BY <2>2, <2>3
<1> HIDE DEF new, marks
<1>6. /\ flushRun(r, run, X) \in Seq(Marks)
      /\ \A i \in DOMAIN flushRun(r, run, X) : flushRun(r, run, X)[i].what = "fill" =>
            /\ flushRun(r, run, X)[i].row = r
            /\ flushRun(r, run, X)[i].to <= run.from \/ flushRun(r, run, X)[i].to = X
      /\ \A d \in 1..(c - 1) : Shows(r, d) =>
            Backed(flushRun(r, run, X), r, d) /\ Lined(flushRun(r, run, X), r, d)
  <2>1. \A d \in 1..(c - 1) : Shows(r, d) =>
          \A x \in cellX(r, d)..(cellEnd(r, d) - 1) : x < WindowWidth => x < X
    <3> TAKE d \in 1..(c - 1)
    <3> HAVE Shows(r, d)
    <3>1. cellX(r, d) \in Nat /\ cellEnd(r, d) \in Nat
      BY <1>1, CellPlaces
    <3> HIDE DEF X
    <3> QED BY <1>1, <3>1
  <2> QED BY <1>0, <1>1, <2>1, FlushBacks
<1>7. /\ ops \in Seq(Marks)
      /\ \A i \in DOMAIN ops : ops[i].what = "fill" => ops[i].row = r /\ ops[i].to <= new.from
      /\ \A d \in 1..(c - 1) : Shows(r, d) => Lined(ops, r, d)
  <2> HIDE DEF X
  <2>1. CASE same
    BY <1>4, <1>5, <2>1
  <2>2. CASE ~same
    <3> DEFINE q == flushRun(r, run, X)
    <3>1. ops = q /\ new.from = X
      BY <1>5, <2>2
    <3> HIDE DEF q, ops
    <3>2. \A i \in DOMAIN q : q[i].what = "fill" => q[i].row = r /\ q[i].to <= X
      <4> SUFFICES ASSUME NEW i \in DOMAIN q, q[i].what = "fill" PROVE q[i].row = r /\ q[i].to <= X
        OBVIOUS
      <4>1. q[i].row = r /\ (q[i].to <= run.from \/ q[i].to = X)
        BY <1>6 DEF q
      <4>2. q[i].to \in Nat
        <5>1. q[i] \in Marks
          BY <1>6 DEF q
        <5> QED BY <5>1, FillTypes DEF Fills
      <4> QED BY <1>1, <1>4, <4>1, <4>2
    <3> QED BY <1>6, <3>1, <3>2 DEF q
  <2> QED BY <2>1, <2>2
<1> HIDE DEF ops, X
<1>8. /\ new.ops \in Seq(Marks)
      /\ \A i \in DOMAIN new.ops : new.ops[i].what = "fill" => i \in DOMAIN ops /\ new.ops[i] = ops[i]
      /\ \A from, to : Apart(marks, r, from, to)
  <2> DEFINE pq == ops \o marks
  <2>1. /\ pq \in Seq(Marks)
        /\ \A i \in DOMAIN pq : pq[i].what = "fill" => i \in DOMAIN ops /\ pq[i] = ops[i]
        /\ \A s, from, to : Apart(marks, s, from, to)
    BY <1>3, <1>7, NoMoreFills
  <2>2. new.ops = pq
    BY <1>5
  <2> HIDE DEF pq
  <2> QED BY <2>1, <2>2
<1>9. ASSUME NEW d \in 1..Cols
      PROVE  /\ Backed(ops, r, d) => Backed(new.ops, r, d)
             /\ Lined(ops, r, d) => Lined(new.ops, r, d)
  <2>1. cellX(r, d) \in Nat /\ cellEnd(r, d) \in Nat
    BY CellPlaces
  <2> DEFINE from == cellX(r, d)
             to == cellEnd(r, d)
             b == Look(r, d).bg
  <2>2. Apart(marks, r, from, to) /\ from \in Nat /\ to \in Nat
    BY <1>8, <2>1
  <2> HIDE DEF from, to, b
  <2>3. /\ Coloured(ops, r, from, to, b) => Coloured(new.ops, r, from, to, b)
        /\ \A mark : Marked(ops, mark, r, from, to) => Marked(new.ops, mark, r, from, to)
    BY <1>3, <1>5, <1>7, <2>2, LaterApart
  <2> QED BY <2>3 DEF Backed, Lined, from, to, b
<1>10. new \in Runs /\ new.from \in Nat /\ new.from <= X
  <2>1. new.from \in Nat /\ new.from <= X
    BY <1>1, <1>4, <1>5
  <2> QED BY <1>2, <1>5, <1>8, <2>1 DEF Runs
<1>11. new.from <= cellX(r, c + 1)
  BY <1>1, <1>10
<1>12. \A i \in DOMAIN new.ops : new.ops[i].what = "fill" => new.ops[i].row = r /\ new.ops[i].to <= new.from
  BY <1>7, <1>8
<1>13. Lined(new.ops, r, c) /\ Running(new, r, c)
  <2>1. Running(new, r, c)
    BY <1>5, <1>10 DEF Running, X
  <2>2. ASSUME Here(r, c), line PROVE Marked(new.ops, k, r, X, cellEnd(r, c))
    <3> DEFINE to == cellEnd(r, c)
    <3>1. to \in Nat /\ Marked(marks, k, r, X, to)
      BY <1>1, <1>3, <2>2
    <3> HIDE DEF to, k
    <3>2. \A mark : Marked(marks, mark, r, X, to) => Marked(ops \o marks, mark, r, X, to)
      BY <1>1, <1>3, <1>7, <3>1, EarlierApart
    <3> QED BY <1>5, <3>1, <3>2 DEF to
  <2> QED BY <2>1, <2>2 DEF Lined, X
<1>14. ASSUME NEW d \in 1..(c - 1), Shows(r, d)
       PROVE  Lined(new.ops, r, d) /\ (Running(new, r, d) \/ Flushed(new, r, d))
  <2>1. d \in 1..Cols
    BY <1>1
  <2>2. Lined(new.ops, r, d)
    BY <1>7, <1>9, <1>14, <2>1
  <2>3. CASE same
    <3>1. ops = run.ops /\ new.from = run.from /\ new.bg = run.bg
      BY <1>5, <2>3 DEF ops
    <3>2. Running(run, r, d) => Running(new, r, d)
      BY <3>1 DEF Running
    <3>3. Flushed(run, r, d) => Flushed(new, r, d)
      BY <1>9, <2>1, <3>1 DEF Flushed
    <3> QED BY <1>4, <1>14, <2>2, <3>2, <3>3
  <2>4. CASE ~same
    <3>1. ops = flushRun(r, run, X) /\ new.from = X
      BY <1>5, <2>4 DEF ops
    <3>2. Backed(ops, r, d)
      BY <1>6, <1>14, <3>1
    <3>3. cellEnd(r, d) <= new.from
      BY <1>1, <1>14, <3>1
    <3> QED BY <1>9, <2>1, <2>2, <3>2, <3>3 DEF Flushed
  <2> QED BY <2>3, <2>4
<1>15. RunInv(new, r, c)
  <2>1. \A d \in 1..c : d \in 1..(c - 1) \/ d = c
    BY <1>0
  <2> QED BY <1>10, <1>11, <1>12, <1>13, <1>14, <2>1 DEF RunInv
<1> QED BY <1>15 DEF new

(* The runs of a row, one cell after the other.                            *)
RunsOf(f, r) ==
    /\ f \in [0..Cols -> Runs] /\ f[0] = NoRun
    /\ \A c \in 1..Cols : f[c] = IF Shows(r, c) THEN addCell(r, f[c - 1], c) ELSE f[c - 1]

(* addCell() keeps a run a run.                                            *)
LEMMA AddCellTypes ==
    ASSUME ScreenInv, NEW r \in 1..Rows, NEW c \in 1..Cols, NEW run \in Runs
    PROVE  addCell(r, run, c) \in Runs
<1> DEFINE bg == Look(r, c).bg
           marks == CellMarks(r, c)
           X == cellX(r, c)
           q == flushRun(r, run, X)
<1>1. addCell(r, run, c) = IF bg = run.bg THEN [run EXCEPT !.ops = @ \o marks]
                           ELSE [ops |-> q \o marks, from |-> X, bg |-> bg]
  BY DEF addCell, Look, CellMarks
<1>2. bg \in Colours
  BY LookTypes
<1>3. marks \in Seq(Marks)
  BY CellMarksFacts
<1>4. X \in Nat
  BY CellPlaces
<1> HIDE DEF bg, marks, X
<1>5. run.ops \in Seq(Marks) /\ run.from \in Nat /\ run.bg \in Colours \union {"none"}
  BY DEF Runs
<1>6. q \in Seq(Marks)
  <2> DEFINE f == Fill(r, run.from, X, run.bg)
  <2>1. FillsRange(f, r, run.from, X, run.bg)
    BY <1>4, <1>5, FillFacts
  <2>2. q = run.ops \o f
    BY DEF flushRun
  <2>3. f \in Seq(Marks)
    BY <2>1 DEF FillsRange
  <2> HIDE DEF f
  <2> QED BY <1>5, <2>2, <2>3
<1> HIDE DEF q
<1>7. run.ops \o marks \in Seq(Marks) /\ q \o marks \in Seq(Marks)
  BY <1>3, <1>5, <1>6
<1>8. CASE bg = run.bg
  <2>1. addCell(r, run, c) = [ops |-> run.ops \o marks, from |-> run.from, bg |-> run.bg]
    BY <1>1, <1>8 DEF Runs
  <2> QED BY <1>5, <1>7, <2>1 DEF Runs
<1>9. CASE bg # run.bg
  <2>1. addCell(r, run, c) = [ops |-> q \o marks, from |-> X, bg |-> bg]
    BY <1>1, <1>9
  <2> QED BY <1>2, <1>4, <1>7, <2>1 DEF Runs
<1> QED BY <1>8, <1>9

(* The end of a row: its last run, and the margin.                         *)
RowEnd(r) == cellX(r, Cols + 1)
WholeRow(r, run) ==
    flushRun(r, run, Shorter(RowEnd(r), WindowWidth)) \o Fill(r, RowEnd(r), WindowWidth, run.bg)

(* backgrounds() paints what the runs of the row, one after the other,     *)
(* give.                                                                   *)
LEMMA RunsExist ==
    ASSUME ScreenInv, NEW r \in 1..Rows
    PROVE  \E f : RunsOf(f, r) /\ backgrounds(r) = WholeRow(r, f[Cols])
<1> DEFINE value(f, c) == IF c = 0 THEN NoRun
                          ELSE IF grid[r][c].span = 0 THEN f[c - 1]
                          ELSE addCell(r, f[c - 1], c)
           Unfold(f) == [c \in 0..Cols |->
                           IF c = 0 THEN NoRun
                           ELSE IF grid[r][c].span = 0 THEN f[c - 1]
                           ELSE addCell(r, f[c - 1], c)]
           next(c, k) == IF grid[r][c].span = 0 THEN k ELSE addCell(r, k, c)
           step == [c \in 1..Cols |-> [k \in Runs |-> next(c, k)]]
           f == CHOOSE f : f = Unfold(f)
<1>1. Cols \in Nat /\ NoRun \in Runs
  BY RendererAssumption DEF NoRun, Runs
<1>2. \A c \in 1..Cols, k \in Runs : next(c, k) \in Runs
  BY AddCellTypes
<1>3. step \in [1..Cols -> [Runs -> Runs]]
  <2> HIDE DEF next
  <2> QED BY <1>2
<1>4. PICK g : Solves(g, Cols, Runs, NoRun, step)
  <2> HIDE DEF step
  <2> QED BY <1>1, <1>3, Recursion
<1>5. g \in [0..Cols -> Runs] /\ g[0] = NoRun
  BY <1>4 DEF Solves
<1>6. ASSUME NEW c \in 1..Cols PROVE g[c] = next(c, g[c - 1])
  <2>1. g[c] = step[c][g[c - 1]] /\ g[c - 1] \in Runs
    <3>1. c - 1 \in 0..Cols
      BY <1>1
    <3> HIDE DEF step
    <3> QED BY <1>4, <3>1 DEF Solves
  <2> HIDE DEF next
  <2> QED BY <2>1
<1>7. \A h : Unfold(h) = [c \in 0..Cols |-> value(h, c)]
  OBVIOUS
<1>8. \A h, c : c # 0 => value(h, c) = next(c, h[c - 1])
  OBVIOUS
<1>9. \A h : value(h, 0) = NoRun
  OBVIOUS
<1>10. backgrounds(r) = WholeRow(r, f[Cols])
  BY DEF backgrounds, WholeRow, RowEnd
<1> HIDE DEF Unfold, value, next
<1>11. g = Unfold(g)
  <2>1. \A c \in 0..Cols : g[c] = value(g, c)
    BY <1>1, <1>5, <1>6, <1>8, <1>9
  <2> QED BY <1>5, <1>7, <2>1
<1>12. f = Unfold(f)
  BY <1>11
<1> HIDE DEF f
<1>13. f = [c \in 0..Cols |-> value(f, c)]
  BY <1>7, <1>12
<1>14. f[0] = NoRun /\ \A c \in 1..Cols : f[c] = next(c, f[c - 1])
  <2>1. \A c \in 0..Cols : f[c] = value(f, c)
    BY <1>13
  <2> QED BY <1>1, <1>8, <1>9, <2>1
<1>15. \A c \in 0..Cols : f[c] \in Runs
  <2>1. \A c \in 1..Cols : f[c - 1] \in Runs => f[c] \in Runs
    BY <1>2, <1>14
  <2>2. f[0] \in Runs
    BY <1>1, <1>14
  <2> QED BY <1>1, <2>1, <2>2, Values
<1>16. f \in [0..Cols -> Runs]
  BY <1>13, <1>15
<1>17. \A c \in 1..Cols : grid[r][c].span = 0 <=> ~Shows(r, c)
  <2>1. grid \in [1..Rows -> [1..Cols -> Cell]]
    BY RendererAssumption DEF ScreenInv
  <2>2. \A c \in 1..Cols : grid[r][c] \in Cell
    BY <2>1
  <2> QED BY <2>2 DEF Cell, Shows
<1>18. \A c \in 1..Cols : f[c] = IF Shows(r, c) THEN addCell(r, f[c - 1], c) ELSE f[c - 1]
  BY <1>14, <1>17 DEF next
<1> QED BY <1>10, <1>14, <1>16, <1>18 DEF RunsOf

(* What the first pass paints of a row is of that row, and backs every     *)
(* cell that it shows.                                                     *)
LEMMA BackgroundsFacts ==
    ASSUME ScreenInv, NEW r \in 1..Rows
    PROVE  /\ backgrounds(r) \in Seq(Marks)
           /\ \A i \in DOMAIN backgrounds(r) : backgrounds(r)[i].what = "fill" => backgrounds(r)[i].row = r
           /\ \A c \in 1..Cols : Shows(r, c) => Backed(backgrounds(r), r, c) /\ Lined(backgrounds(r), r, c)
<1>1. PICK f : RunsOf(f, r) /\ backgrounds(r) = WholeRow(r, f[Cols])
  BY RunsExist
<1>2. /\ Cols \in Nat /\ WindowWidth \in Nat \ {0} /\ Placed(r)
      /\ \A c \in 1..Cols : c \in 1..(Cols + 1)
      /\ Cols + 1 \in 1..(Cols + 1) /\ 1 \in 1..(Cols + 1)
  BY RendererAssumption, RowPlaced DEF ScreenInv
<1> DEFINE G == {c \in 0..Cols : RunInv(f[c], r, c)}
<1>3. 0 \in G
  <2>1. f[0] = NoRun /\ NoRun \in Runs /\ NoRun.ops = <<>> /\ NoRun.from = 0
    BY <1>1 DEF RunsOf, NoRun, Runs
  <2>2. cellX(r, 0 + 1) \in Nat
    BY <1>2 DEF Placed
  <2>3. RunInv(NoRun, r, 0)
    BY <2>1, <2>2 DEF RunInv
  <2> QED BY <1>2, <2>1, <2>3
<1>4. ASSUME NEW c \in 1..Cols, c - 1 \in G PROVE c \in G
  <2>1. RunInv(f[c - 1], r, c - 1) /\ c \in 0..Cols
    BY <1>2, <1>4
  <2>2. CASE Shows(r, c)
    <3>1. f[c] = addCell(r, f[c - 1], c)
      BY <1>1, <2>2 DEF RunsOf
    <3> QED BY <2>1, <2>2, <3>1, AddCellKeeps
  <2>3. CASE ~Shows(r, c)
    <3>1. f[c] = f[c - 1]
      BY <1>1, <2>3 DEF RunsOf
    <3>2. cellX(r, c) \in Nat /\ cellX(r, c + 1) \in Nat /\ cellX(r, c) <= cellX(r, c + 1)
      BY CellPlaces
    <3> DEFINE run == f[c]
    <3>3. RunInv(run, r, c - 1)
      BY <2>1, <3>1
    <3> HIDE DEF run
    <3>4. c - 1 + 1 = c /\ \A d \in 1..c : d \in 1..(c - 1) \/ d = c
      BY <1>2
    <3>5. run.from <= cellX(r, c + 1)
      <4>1. run.from <= cellX(r, c) /\ run.from \in Nat
        BY <3>3, <3>4 DEF RunInv, Runs
      <4> QED BY <3>2, <4>1
    <3>6. RunInv(run, r, c)
      BY <2>3, <3>3, <3>4, <3>5 DEF RunInv
    <3> QED BY <2>1, <3>6 DEF run
  <2> QED BY <2>2, <2>3
<1> DEFINE run == f[Cols]
<1>5. RunInv(run, r, Cols)
  <2>1. 0..Cols \subseteq G
    <3> HIDE DEF G
    <3> QED BY <1>2, <1>3, <1>4, UpTo
  <2> QED BY <1>2, <2>1
<1> HIDE DEF run
<1> DEFINE end == RowEnd(r)
           stop == Shorter(end, WindowWidth)
           q == flushRun(r, run, stop)
           m == Fill(r, end, WindowWidth, run.bg)
<1>6. end \in Nat
  BY <1>2 DEF Placed, RowEnd
<1>7. stop \in Nat /\ stop = IF end < WindowWidth THEN end ELSE WindowWidth
  <2> HIDE DEF end
  <2> QED BY <1>2, <1>6 DEF Shorter
<1>8. \A c \in 1..Cols : cellX(r, c) \in Nat /\ cellEnd(r, c) \in Nat /\ (Shows(r, c) => cellEnd(r, c) <= end)
  <2> TAKE c \in 1..Cols
  <2>1. c < Cols + 1
    BY <1>2
  <2> QED BY <1>2, <2>1 DEF Placed, RowEnd
<1> HIDE DEF end, stop
<1>9. /\ q \in Seq(Marks)
      /\ \A i \in DOMAIN q : q[i].what = "fill" => q[i].row = r
      /\ \A d \in 1..Cols : Shows(r, d) => Backed(q, r, d) /\ Lined(q, r, d)
  <2>1. \A d \in 1..Cols : Shows(r, d) =>
          \A x \in cellX(r, d)..(cellEnd(r, d) - 1) : x < WindowWidth => x < stop
    <3> TAKE d \in 1..Cols
    <3> HAVE Shows(r, d)
    <3> QED BY <1>2, <1>6, <1>7, <1>8
  <2>2. Cols \in 0..Cols
    BY <1>2
  <2>3. /\ q \in Seq(Marks)
        /\ \A i \in DOMAIN q : q[i].what = "fill" =>
              q[i].row = r /\ (q[i].to <= run.from \/ q[i].to = stop)
        /\ \A d \in 1..Cols : Shows(r, d) => Backed(q, r, d) /\ Lined(q, r, d)
    BY <1>5, <1>7, <2>1, <2>2, FlushBacks
  <2> HIDE DEF q
  <2> QED BY <2>3
<1>10. /\ m \in Seq(Marks)
       /\ \A i \in DOMAIN m : m[i].row = r /\ m[i].from = end
  <2>1. run.bg \in Colours \union {"none"}
    BY <1>5 DEF RunInv, Runs
  <2>2. FillsRange(m, r, end, WindowWidth, run.bg)
    BY <1>2, <1>6, <2>1, FillFacts
  <2> HIDE DEF m
  <2> QED BY <2>2 DEF FillsRange
<1> HIDE DEF q, m
<1> DEFINE p == q \o m
<1>11. backgrounds(r) = p
  BY <1>1 DEF WholeRow, q, m, end, stop, run
<1>12. /\ p \in Seq(Marks) /\ Len(q) \in Nat /\ Len(m) \in Nat
       /\ DOMAIN q = 1..Len(q) /\ DOMAIN m = 1..Len(m) /\ DOMAIN p = 1..(Len(q) + Len(m))
       /\ \A i \in 1..Len(q) : p[i] = q[i]
       /\ \A i \in 1..Len(m) : p[Len(q) + i] = m[i]
  BY <1>9, <1>10, ConcatMarks
<1>13. ASSUME NEW c \in 1..Cols, Shows(r, c) PROVE Backed(p, r, c) /\ Lined(p, r, c)
  <2> DEFINE from == cellX(r, c)
             to == cellEnd(r, c)
             bg == Look(r, c).bg
  <2>1. from \in Nat /\ to \in Nat /\ to <= end
    BY <1>8, <1>13
  <2>2. Coloured(q, r, from, to, bg) /\ Lined(q, r, c)
    BY <1>9, <1>13 DEF Backed
  <2> HIDE DEF from, to, bg
  <2>3. Apart(m, r, from, to)
    BY <1>10, <2>1 DEF Apart
  <2>4. /\ Coloured(p, r, from, to, bg)
        /\ \A mark : Marked(q, mark, r, from, to) => Marked(p, mark, r, from, to)
    BY <1>9, <1>10, <2>1, <2>2, <2>3, LaterApart
  <2> QED BY <2>2, <2>4 DEF Backed, Lined, from, to, bg
<1> HIDE DEF p
<1>14. ASSUME NEW i \in DOMAIN p, p[i].what = "fill" PROVE p[i].row = r
  <2>1. CASE i <= Len(q)
    <3>1. i \in DOMAIN q /\ p[i] = q[i]
      BY <1>12, <2>1
    <3> QED BY <1>9, <1>14, <3>1
  <2>2. CASE i > Len(q)
    <3>1. i - Len(q) \in 1..Len(m) /\ Len(q) + (i - Len(q)) = i
      BY <1>12, <2>2
    <3>2. i - Len(q) \in DOMAIN m /\ p[i] = m[i - Len(q)]
      BY <1>12, <3>1
    <3> QED BY <1>10, <3>2
  <2> QED BY <1>12, <2>1, <2>2
<1> QED BY <1>11, <1>12, <1>13, <1>14

-----------------------------------------------------------------------------
(* What a frame shows.                                                     *)

RowShown(r) == \A c \in 1..Cols : Shows(r, c) => Backed(painted, r, c) /\ Lined(painted, r, c)
CellShown(r, c) ==
    Shows(r, c) =>
      /\ grid[r][c].text # Blank /\ ~grid[r][c].hidden =>
           Marked(painted, Glyph(r, c, Look(r, c).fg, Font), r, cellX(r, c), cellEnd(r, c))
      /\ Here(r, c) /\ line /\ Builtin(grid[r][c]) =>
           Marked(painted, CursorLine(r, c), r, cellX(r, c), cellEnd(r, c))
Before(r, c) == r < row \/ (r = row /\ c < col)
LayoutFits == ~Builtin(grid[row][col]) /\ layout.fg = Look(row, col).fg /\ layout.font = Font

(* The offsets stay those of the cells until a setting changes.            *)
GridInv ==
    /\ grid \in Grids
    /\ Undisturbed /\ vs \in Painting \union {"end", "idle"} => MetricsInv

(* A frame begins with nothing painted.                                    *)
FreshInv ==
    /\ vs = "begin" => ~current
    /\ vs \in {"begin", "render"} => painted = <<>> /\ row = 1 /\ col = 1

(* The first pass backs the rows one after the other; the second shows the *)
(* cells, and fills nothing.                                               *)
PaintInv ==
    Undisturbed /\ fonts /\ vs \in Painting \union {"end"} =>
      /\ painted \in Seq(Marks)
      /\ vs = "pass1" => /\ col = 1
                         /\ \A i \in DOMAIN painted : painted[i].what = "fill" => painted[i].row < row
      /\ \A r \in 1..Rows : (vs = "pass1" => r < row) => RowShown(r)
      /\ \A r \in 1..Rows, c \in 1..Cols :
           vs = "end" \/ (vs # "pass1" /\ Before(r, c)) => CellShown(r, c)
      /\ vs = "paint" => LayoutFits

ShowInv == GridInv /\ FreshInv /\ PaintInv

(* The cells keep their places and looks.                                  *)
SameScreen == UNCHANGED <<prop, cellWidth, offsets, grid, cursor, line, family, size>>

(* A step that leaves them alone moves and recolours no cell.              *)
LEMMA SamePlaces ==
    ASSUME SameScreen
    PROVE  /\ \A r, c : /\ cellX(r, c)' = cellX(r, c) /\ cellEnd(r, c)' = cellEnd(r, c)
                        /\ Look(r, c)' = Look(r, c) /\ (Here(r, c)' <=> Here(r, c))
                        /\ (Shows(r, c)' <=> Shows(r, c))
           /\ Font' = Font /\ grid' = grid /\ (line' <=> line)
           /\ MetricsInv' <=> MetricsInv
<1> USE DEF SameScreen
<1>1. \A r, c : cellX(r, c)' = cellX(r, c)
  BY DEF cellX
<1>2. \A r, c : cellEnd(r, c)' = cellEnd(r, c)
  BY <1>1 DEF cellEnd
<1>3. \A r, c : Here(r, c)' <=> Here(r, c)
  BY DEF Here
<1>4. \A r, c : Look(r, c)' = Look(r, c)
  BY <1>3 DEF Look, visual, Here
<1>5. \A r, c : Shows(r, c)' <=> Shows(r, c)
  BY DEF Shows
<1>6. MetricsInv' <=> MetricsInv
  BY DEF MetricsInv, computeRowMetrics, naturalWidth
<1> QED BY <1>1, <1>2, <1>3, <1>4, <1>5, <1>6 DEF Font

(* A row is shown where its marks are on the canvas of the next state.     *)
LEMMA SameRow ==
    ASSUME SameScreen, NEW r,
           \A c \in 1..Cols : Shows(r, c) => Backed(painted', r, c) /\ Lined(painted', r, c)
    PROVE  RowShown(r)'
  BY SamePlaces DEF RowShown, Backed, Lined, CursorLine, Coloured, Marked, Over, IsFill

(* So is a cell.                                                           *)
LEMMA SameCell ==
    ASSUME SameScreen, NEW r, NEW c,
           Shows(r, c) =>
             /\ grid[r][c].text # Blank /\ ~grid[r][c].hidden =>
                  Marked(painted', Glyph(r, c, Look(r, c).fg, Font), r, cellX(r, c), cellEnd(r, c))
             /\ Here(r, c) /\ line /\ Builtin(grid[r][c]) =>
                  Marked(painted', CursorLine(r, c), r, cellX(r, c), cellEnd(r, c))
    PROVE  CellShown(r, c)'
  BY SamePlaces DEF CellShown, CursorLine, Builtin, Glyph, Marked, IsFill

(* What was shown stays, when nothing is painted over it.                  *)
LEMMA RowKept ==
    ASSUME ScreenInv, SameScreen, NEW r \in 1..Rows, painted \in Seq(Marks), NEW q \in Seq(Marks),
           painted' = painted \o q, \A from, to : Apart(q, r, from, to), RowShown(r)
    PROVE  RowShown(r)'
<1>1. SUFFICES ASSUME NEW c \in 1..Cols, Shows(r, c) PROVE Backed(painted', r, c) /\ Lined(painted', r, c)
  BY SameRow
<1> DEFINE from == cellX(r, c)
           to == cellEnd(r, c)
           bg == Look(r, c).bg
<1>2. from \in Nat /\ to \in Nat
  BY CellPlaces
<1>3. Coloured(painted, r, from, to, bg) /\ Lined(painted, r, c)
  BY <1>1 DEF RowShown, Backed
<1> HIDE DEF from, to, bg
<1>4. /\ Coloured(painted \o q, r, from, to, bg)
      /\ \A mark : Marked(painted, mark, r, from, to) => Marked(painted \o q, mark, r, from, to)
  BY <1>2, <1>3, LaterApart
<1> QED BY <1>3, <1>4 DEF Backed, Lined, from, to, bg

(* A cell that was painted stays painted when no background comes over     *)
(* it.                                                                     *)
LEMMA CellKept ==
    ASSUME ScreenInv, SameScreen, NEW r \in 1..Rows, NEW c \in 1..Cols, painted \in Seq(Marks),
           NEW q \in Seq(Marks), painted' = painted \o q, \A from, to : Apart(q, r, from, to),
           CellShown(r, c)
    PROVE  CellShown(r, c)'
<1> DEFINE from == cellX(r, c)
           to == cellEnd(r, c)
<1>2. from \in Nat /\ to \in Nat
  BY CellPlaces
<1> HIDE DEF from, to
<1>4. \A mark : Marked(painted, mark, r, from, to) => Marked(painted', mark, r, from, to)
  BY <1>2, LaterApart
<1> QED BY <1>4, SameCell DEF CellShown, from, to

(* A cell that is painted last is shown.                                   *)
LEMMA CellPainted ==
    ASSUME ScreenInv, SameScreen, NEW r \in 1..Rows, NEW c \in 1..Cols, painted \in Seq(Marks),
           NEW q \in Seq(Marks), painted' = painted \o q,
           \A from, to :
             /\ grid[r][c].text # Blank /\ ~grid[r][c].hidden =>
                  Marked(q, Glyph(r, c, Look(r, c).fg, Font), r, from, to)
             /\ Here(r, c) /\ line /\ Builtin(grid[r][c]) => Marked(q, CursorLine(r, c), r, from, to)
    PROVE  CellShown(r, c)'
<1> DEFINE from == cellX(r, c)
           to == cellEnd(r, c)
<1>2. from \in Nat /\ to \in Nat
  BY CellPlaces
<1>3. /\ grid[r][c].text # Blank /\ ~grid[r][c].hidden =>
           Marked(q, Glyph(r, c, Look(r, c).fg, Font), r, from, to)
      /\ Here(r, c) /\ line /\ Builtin(grid[r][c]) => Marked(q, CursorLine(r, c), r, from, to)
  OBVIOUS
<1> HIDE DEF from, to
<1>4. \A mark : Marked(q, mark, r, from, to) => Marked(painted', mark, r, from, to)
  BY <1>2, EarlierApart
<1> QED BY <1>3, <1>4, SameCell DEF from, to

(* A row that is backed after the rows before it is shown.                 *)
LEMMA RowPainted ==
    ASSUME ScreenInv, SameScreen, NEW r \in 1..Rows, painted \in Seq(Marks),
           \A i \in DOMAIN painted : painted[i].what = "fill" => painted[i].row < r,
           painted' = painted \o backgrounds(r)
    PROVE  RowShown(r)'
<1> DEFINE q == backgrounds(r)
<1>1. q \in Seq(Marks) /\ \A c \in 1..Cols : Shows(r, c) => Backed(q, r, c) /\ Lined(q, r, c)
  BY BackgroundsFacts
<1>2. painted' = painted \o q
  OBVIOUS
<1>3. \A from, to : Apart(painted, r, from, to)
  BY DEF Apart, IsFill
<1> HIDE DEF q
<1>4. SUFFICES ASSUME NEW c \in 1..Cols, Shows(r, c) PROVE Backed(painted', r, c) /\ Lined(painted', r, c)
  BY SameRow
<1> DEFINE from == cellX(r, c)
           to == cellEnd(r, c)
           bg == Look(r, c).bg
<1>5. from \in Nat /\ to \in Nat
  BY CellPlaces
<1>6. Coloured(q, r, from, to, bg) /\ Lined(q, r, c)
  BY <1>1, <1>4 DEF Backed
<1> HIDE DEF from, to, bg
<1>7. /\ Coloured(painted \o q, r, from, to, bg)
      /\ \A mark : Marked(q, mark, r, from, to) => Marked(painted \o q, mark, r, from, to)
  BY <1>1, <1>3, <1>5, <1>6, EarlierApart
<1> QED BY <1>2, <1>6, <1>7 DEF Backed, Lined, from, to, bg

(* The fills after a row was backed are of that row and of those before.   *)
LEMMA FillsSoFar ==
    ASSUME NEW p \in Seq(Marks), NEW q \in Seq(Marks), NEW r \in Nat,
           \A i \in DOMAIN p : p[i].what = "fill" => p[i].row < r,
           \A i \in DOMAIN q : q[i].what = "fill" => q[i].row = r
    PROVE  /\ p \o q \in Seq(Marks)
           /\ \A i \in DOMAIN (p \o q) : (p \o q)[i].what = "fill" => (p \o q)[i].row < r + 1
<1> DEFINE pq == p \o q
<1>1. /\ pq \in Seq(Marks) /\ Len(p) \in Nat /\ Len(q) \in Nat
      /\ DOMAIN p = 1..Len(p) /\ DOMAIN q = 1..Len(q) /\ DOMAIN pq = 1..(Len(p) + Len(q))
      /\ \A i \in 1..Len(p) : pq[i] = p[i]
      /\ \A i \in 1..Len(q) : pq[Len(p) + i] = q[i]
  BY ConcatMarks
<1> HIDE DEF pq
<1>2. ASSUME NEW i \in DOMAIN pq, pq[i].what = "fill" PROVE pq[i].row < r + 1
  <2>1. pq[i].row \in Nat
    <3>1. pq[i] \in Fills
      BY <1>1, <1>2, FillTypes
    <3> QED BY <3>1 DEF Fills
  <2>2. CASE i <= Len(p)
    <3>1. i \in DOMAIN p /\ pq[i] = p[i]
      BY <1>1, <2>2
    <3>2. pq[i].row < r
      BY <1>2, <3>1
    <3> QED BY <2>1, <3>2
  <2>3. CASE i > Len(p)
    <3>1. i - Len(p) \in 1..Len(q) /\ Len(p) + (i - Len(p)) = i
      BY <1>1, <2>3
    <3>2. i - Len(p) \in DOMAIN q /\ pq[i] = q[i - Len(p)]
      BY <1>1, <3>1
    <3>3. pq[i].row = r
      BY <1>2, <3>2
    <3> QED BY <3>3
  <2> QED BY <1>1, <2>2, <2>3
<1> QED BY <1>1, <1>2 DEF pq

(* The steps of a frame that no setting disturbs: q is what they paint.    *)
PaintStep == PaintRow \/ VisitCell \/ GetLayout \/ PaintLayout

(* The steps of painting change the canvas alone, and end at the end of a  *)
(* frame.                                                                  *)
LEMMA PaintStepFrame ==
    ASSUME RenderInv, PaintStep
    PROVE  /\ SameScreen /\ UNCHANGED <<fonts, todo, current>>
           /\ vs \in Painting /\ vs' \in Painting \union {"end"}
<1>1. SameScreen /\ UNCHANGED <<fonts, todo, current>>
  BY DEF PaintStep, PaintRow, VisitCell, GetLayout, PaintLayout, SameScreen,
         fontVars, metricVars, uiVars
<1>2. vs \in Painting /\ vs' \in Painting \union {"end"}
  BY NextCellTypes DEF PaintStep, PaintRow, VisitCell, GetLayout, PaintLayout, Painting, RenderInv
<1> QED BY <1>1, <1>2

(* The first pass.                                                         *)
LEMMA PaintRowShows ==
    ASSUME RenderInv, ScreenInv, PaintInv, PaintRow, Undisturbed, fonts
    PROVE  PaintInv'
<1>1. SameScreen /\ vs = "pass1" /\ painted' = painted \o backgrounds(row) /\ col' = col
  BY PaintStepFrame DEF PaintStep, PaintRow
<1>2. PICK at \in 1..Rows : at = row
  BY DEF RenderInv, SettingsInv
<1>3. /\ painted \in Seq(Marks) /\ col = 1 /\ Rows \in Nat
      /\ \A i \in DOMAIN painted : painted[i].what = "fill" => painted[i].row < at
      /\ \A r \in 1..Rows : r < at => RowShown(r)
  BY <1>1, <1>2, RendererAssumption DEF PaintInv, Painting
<1> DEFINE q == backgrounds(at)
<1>4. q \in Seq(Marks) /\ \A i \in DOMAIN q : q[i].what = "fill" => q[i].row = at
  BY BackgroundsFacts
<1>5. painted' = painted \o q
  BY <1>1, <1>2
<1>6. RowShown(at)'
  BY <1>1, <1>3, <1>5, RowPainted
<1> HIDE DEF q
<1>7. ASSUME NEW r \in 1..Rows, r < at PROVE RowShown(r)'
  <2>1. \A from, to : Apart(q, r, from, to)
    BY <1>4, <1>7 DEF Apart, IsFill
  <2>2. RowShown(r)
    BY <1>3, <1>7
  <2> QED BY <1>1, <1>3, <1>4, <1>5, <2>1, <2>2, RowKept
<1>8. /\ painted' \in Seq(Marks)
      /\ \A i \in DOMAIN painted' : painted'[i].what = "fill" => painted'[i].row < at + 1
  <2> DEFINE pq == painted \o q
  <2>1. at \in Nat
    OBVIOUS
  <2>2. /\ pq \in Seq(Marks)
        /\ \A i \in DOMAIN pq : pq[i].what = "fill" => pq[i].row < at + 1
    BY <1>3, <1>4, <2>1, FillsSoFar
  <2>3. painted' = pq
    BY <1>5
  <2> HIDE DEF pq
  <2> QED BY <2>2, <2>3
<1>9. CASE at < Rows
  <2>1. row' = at + 1 /\ vs' = "pass1"
    BY <1>1, <1>2, <1>9 DEF PaintRow
  <2>2. \A r \in 1..Rows : r < at + 1 => r < at \/ r = at
    OBVIOUS
  <2>3. \A r \in 1..Rows : r < row' => RowShown(r)'
    BY <1>6, <1>7, <2>1, <2>2
  <2>4. col' = 1 /\ vs' # "end" /\ vs' # "paint" /\ \A i \in DOMAIN painted' : painted'[i].what = "fill" => painted'[i].row < row'
    BY <1>1, <1>3, <1>8, <2>1
  <2> QED BY <1>8, <2>1, <2>3, <2>4 DEF PaintInv
<1>10. CASE ~(at < Rows)
  <2>1. row' = 1 /\ vs' = "pass2" /\ col' = 1
    BY <1>1, <1>2, <1>3, <1>10 DEF PaintRow
  <2>2. \A r \in 1..Rows : r < at \/ r = at
    BY <1>3, <1>10
  <2>3. \A r \in 1..Rows : RowShown(r)'
    BY <1>6, <1>7, <2>2
  <2>4. \A r \in 1..Rows, c \in 1..Cols : ~Before(r, c)'
    BY <2>1, RendererAssumption DEF Before
  <2> QED BY <1>8, <2>1, <2>3, <2>4 DEF PaintInv
<1> QED BY <1>9, <1>10

(* The second pass: what comes before the next cell came before this one,  *)
(* or is this one.                                                         *)
LEMMA NextCellBefore ==
    ASSUME RenderInv, NextCell, NEW r \in 1..Rows, NEW c \in 1..Cols, vs' = "end" \/ Before(r, c)'
    PROVE  Before(r, c) \/ (r = row /\ c = col)
<1>1. row \in 1..Rows /\ col \in 1..Cols /\ Rows \in Nat /\ Cols \in Nat
  BY RendererAssumption DEF RenderInv, SettingsInv
<1>2. CASE col < Cols
  <2>1. col' = col + 1 /\ row' = row /\ vs' = "pass2"
    BY <1>2 DEF NextCell
  <2>2. r < row \/ (r = row /\ c < col + 1)
    BY <2>1 DEF Before
  <2> QED BY <1>1, <2>2 DEF Before
<1>3. CASE ~(col < Cols) /\ row < Rows
  <2>1. col' = 1 /\ row' = row + 1 /\ vs' = "pass2"
    BY <1>3 DEF NextCell
  <2>2. r < row + 1 \/ (r = row + 1 /\ c < 1)
    BY <2>1 DEF Before
  <2> QED BY <1>1, <1>3, <2>2 DEF Before
<1>4. CASE ~(col < Cols) /\ ~(row < Rows)
  BY <1>1, <1>4 DEF Before
<1> QED BY <1>2, <1>3, <1>4

(* A step of the second pass that paints q, no fills, shows its cell.      *)
LEMMA CellStepShows ==
    ASSUME RenderInv, ScreenInv, PaintInv, Undisturbed, fonts, SameScreen, vs \in {"pass2", "paint"}, NextCell,
           NEW q \in Seq(Marks), \A i \in DOMAIN q : q[i].what # "fill", painted' = painted \o q,
           Shows(row, col) =>
             \A from, to :
               /\ grid[row][col].text # Blank /\ ~grid[row][col].hidden =>
                    Marked(q, Glyph(row, col, Look(row, col).fg, Font), row, from, to)
               /\ Here(row, col) /\ line /\ Builtin(grid[row][col]) =>
                    Marked(q, CursorLine(row, col), row, from, to)
    PROVE  PaintInv'
<1>1. /\ painted \in Seq(Marks)
      /\ \A r \in 1..Rows : RowShown(r)
      /\ \A r \in 1..Rows, c \in 1..Cols : Before(r, c) => CellShown(r, c)
  BY DEF PaintInv, Painting
<1>2. PICK at \in 1..Rows, on \in 1..Cols : at = row /\ on = col
  BY DEF RenderInv, SettingsInv
<1>3. painted' \in Seq(Marks) /\ \A r, from, to : Apart(q, r, from, to)
  <2> DEFINE pq == painted \o q
  <2>1. pq \in Seq(Marks) /\ \A r, from, to : Apart(q, r, from, to)
    BY <1>1, NoMoreFills
  <2>2. painted' = pq
    OBVIOUS
  <2> HIDE DEF pq
  <2> QED BY <2>1, <2>2
<1>4. vs' # "pass1" /\ vs' # "paint"
  BY NextCellTypes DEF RenderInv
<1>5. ASSUME NEW r \in 1..Rows PROVE RowShown(r)'
  BY <1>1, <1>3, RowKept
<1>6. ASSUME NEW r \in 1..Rows, NEW c \in 1..Cols, vs' = "end" \/ Before(r, c)' PROVE CellShown(r, c)'
  <2>1. CASE Before(r, c)
    <3>1. CellShown(r, c)
      BY <1>1, <2>1
    <3> QED BY <1>1, <1>3, <3>1, CellKept
  <2>2. CASE r = at /\ c = on
    <3>1. Shows(at, on) =>
            \A from, to :
              /\ grid[at][on].text # Blank /\ ~grid[at][on].hidden =>
                   Marked(q, Glyph(at, on, Look(at, on).fg, Font), at, from, to)
              /\ Here(at, on) /\ line /\ Builtin(grid[at][on]) =>
                   Marked(q, CursorLine(at, on), at, from, to)
      BY <1>2
    <3>2. CASE Shows(at, on)
      <4>1. CellShown(at, on)'
        BY <1>1, <3>1, <3>2, CellPainted
      <4> QED BY <2>2, <4>1
    <3>3. CASE ~Shows(at, on)
      <4>1. CellShown(at, on)'
        BY <3>3, SameCell
      <4> QED BY <2>2, <4>1
    <3> QED BY <3>2, <3>3
  <2>3. Before(r, c) \/ (r = at /\ c = on)
    BY <1>2, <1>6, NextCellBefore
  <2> QED BY <2>1, <2>2, <2>3
<1> QED BY <1>3, <1>4, <1>5, <1>6 DEF PaintInv

(* A visit to a cell in the second pass paints what the cell needs, or     *)
(* goes on to its layout.                                                  *)
LEMMA VisitCellShows ==
    ASSUME RenderInv, ScreenInv, PaintInv, VisitCell, Undisturbed, fonts
    PROVE  PaintInv'
<1>1. SameScreen /\ vs = "pass2" /\ NextCell
  BY PaintStepFrame DEF PaintStep, VisitCell
<1>2. row \in 1..Rows /\ col \in 1..Cols /\ painted \in Seq(Marks)
  BY <1>1 DEF RenderInv, SettingsInv, PaintInv, Painting
<1> DEFINE cell == grid[row][col]
           marked == cell.span > 0 /\ Builtin(cell)
           q == IF marked THEN CellMarks(row, col) ELSE <<>>
<1>3. \A from, to :
        /\ CellMarks(row, col) \in Seq(Marks)
        /\ \A i \in DOMAIN CellMarks(row, col) : CellMarks(row, col)[i].what # "fill"
        /\ Builtin(cell) => Marked(CellMarks(row, col), Glyph(row, col, Look(row, col).fg, Font), row, from, to)
        /\ Here(row, col) /\ line => Marked(CellMarks(row, col), CursorLine(row, col), row, from, to)
  BY <1>2, CellMarksFacts
<1>4. q \in Seq(Marks) /\ \A i \in DOMAIN q : q[i].what # "fill"
  <2>1. CASE marked
    <3>1. q = CellMarks(row, col)
      BY <2>1
    <3> HIDE DEF q
    <3> QED BY <1>3, <3>1
  <2>2. CASE ~marked
    BY <2>2
  <2> QED BY <2>1, <2>2
<1>5. painted' = painted \o q
  <2>1. CASE marked
    <3> DEFINE g == paintBuiltinGlyph(row, col)
               k == paintCursor(row, col)
    <3>1. painted' = painted \o g \o k /\ q = g \o k
      BY <2>1 DEF VisitCell, CellMarks
    <3>2. g \in Seq(Marks) /\ k \in Seq(Marks)
      <4>1. Font \in [family : Families, size : Sizes]
        BY DEF Font, ScreenInv, SettingsInv
      <4>2. visual(cell, Here(row, col)).fg \in Colours
        BY <1>2, LookTypes DEF Look
      <4>3. Glyph(row, col, visual(cell, Here(row, col)).fg, Font) \in Marks
        BY <1>2, <4>1, <4>2 DEF Glyph, Marks, Glyphs
      <4>4. [what |-> "cursor", row |-> row, col |-> col] \in Marks
        BY <1>2 DEF Marks, CursorLines
      <4> QED BY <4>3, <4>4 DEF paintBuiltinGlyph, paintCursor
    <3> HIDE DEF g, k, q
    <3> QED BY <1>2, <3>1, <3>2, MarksAssociative
  <2>2. CASE ~marked
    <3>1. painted' = painted /\ q = <<>>
      BY <2>2 DEF VisitCell
    <3> QED BY <1>2, <3>1
  <2> QED BY <2>1, <2>2
<1>6. ASSUME Shows(row, col), NEW from, NEW to
      PROVE  /\ cell.text # Blank /\ ~cell.hidden =>
                  Marked(q, Glyph(row, col, Look(row, col).fg, Font), row, from, to)
             /\ Here(row, col) /\ line /\ Builtin(cell) => Marked(q, CursorLine(row, col), row, from, to)
  <2>1. cell.span > 0 /\ cell.span # 0
    BY <1>6 DEF Shows
  <2>2. CASE Builtin(cell)
    <3>1. q = CellMarks(row, col)
      BY <2>1, <2>2
    <3> HIDE DEF q
    <3> QED BY <1>3, <2>2, <3>1
  <2>3. CASE ~Builtin(cell)
    <3>1. cell.hidden \/ cell.text = Blank
      BY <2>1, <2>3 DEF VisitCell
    <3> QED BY <2>3, <3>1
  <2> QED BY <2>2, <2>3
<1> HIDE DEF q
<1> QED BY <1>1, <1>4, <1>5, <1>6, CellStepShows

(* The layout that is looked up has the colour of its cell and the font    *)
(* that is set, and is painted before a setting changes.                   *)
LEMMA GetLayoutShows ==
    ASSUME RenderInv, ScreenInv, PaintInv, GetLayout, Undisturbed, fonts
    PROVE  PaintInv'
<1>1. SameScreen /\ vs = "pass2" /\ vs' = "paint" /\ row' = row /\ col' = col /\ painted' = painted
  BY PaintStepFrame DEF PaintStep, GetLayout
<1>2. /\ painted \in Seq(Marks)
      /\ \A r \in 1..Rows : RowShown(r)
      /\ \A r \in 1..Rows, c \in 1..Cols : Before(r, c) => CellShown(r, c)
  BY <1>1 DEF PaintInv, Painting
<1>3. <<>> \in Seq(Marks) /\ painted' = painted \o <<>> /\ \A r, from, to : Apart(<<>>, r, from, to)
  BY <1>1, <1>2, NothingPainted
<1>4. ASSUME NEW r \in 1..Rows PROVE RowShown(r)'
  BY <1>1, <1>2, <1>3, RowKept
<1>5. ASSUME NEW r \in 1..Rows, NEW c \in 1..Cols, Before(r, c)' PROVE CellShown(r, c)'
  <2>1. CellShown(r, c)
    BY <1>1, <1>2, <1>5 DEF Before
  <2> QED BY <1>1, <1>2, <1>3, <2>1, CellKept
<1>6. LayoutFits'
  <2> DEFINE cell == grid[row][col]
             fg == Look(row, col).fg
             new == Layout(cell.text, fg, cell.span)
  <2>1. ~Builtin(cell) /\ \E g \in getGlyphLayout(cache, new) : cache' = g.cache /\ layout' = g.layout
    BY DEF GetLayout, Look
  <2>2. PICK g \in getGlyphLayout(cache, new) : layout' = g.layout
    BY <2>1
  <2>3. new.fg = fg /\ new.font = Font /\ KeyOf(new) = <<new.text, new.fg, new.span>>
    BY DEF Layout, KeyOf
  <2> HIDE DEF new, fg
  <2>4. \A l \in cache : l.font = Font
    BY DEF RenderInv, CacheInv, Undisturbed
  <2>5. g.layout.fg = fg /\ g.layout.font = Font
    <3>1. CASE Hits(cache, new) # {}
      <4>1. PICK l \in Hits(cache, new) : g.layout = l
        BY <3>1 DEF getGlyphLayout
      <4>2. l \in cache /\ <<l.text, l.fg, l.span>> = <<new.text, new.fg, new.span>>
        BY DEF Hits, KeyOf
      <4>3. l.fg = new.fg
        BY <4>2
      <4> QED BY <2>3, <2>4, <4>1, <4>2, <4>3
    <3>2. CASE Hits(cache, new) = {}
      <4>1. g.layout = new
        BY <3>2 DEF getGlyphLayout
      <4> QED BY <2>3, <4>1
    <3> QED BY <3>1, <3>2
  <2>6. layout'.fg = fg /\ layout'.font = Font
    BY <2>2, <2>5
  <2>7. Look(row, col)' = Look(row, col) /\ Font' = Font /\ (Builtin(grid[row][col])' <=> Builtin(cell))
    <3>1. \A r, c : Look(r, c)' = Look(r, c)
      BY <1>1, SamePlaces
    <3>2. grid' = grid /\ Font' = Font
      BY <1>1, SamePlaces
    <3>3. Look(row, col)' = Look(row, col)
      BY <1>1, <3>2 DEF Look, visual, Here, SameScreen
    <3>4. Builtin(grid[row][col])' <=> Builtin(cell)
      BY <1>1, <3>2 DEF Builtin
    <3> QED BY <3>2, <3>3, <3>4
  <2> QED BY <2>1, <2>6, <2>7 DEF LayoutFits, fg
<1>7. painted' \in Seq(Marks) /\ vs' # "end" /\ vs' # "pass1"
  BY <1>1, <1>2
<1> QED BY <1>4, <1>5, <1>6, <1>7 DEF PaintInv

(* A layout is painted at the cell it was asked for.                       *)
LEMMA PaintLayoutShows ==
    ASSUME RenderInv, ScreenInv, PaintInv, PaintLayout, Undisturbed, fonts
    PROVE  PaintInv'
<1>1. SameScreen /\ vs = "paint" /\ NextCell
      /\ painted' = Append(painted, Glyph(row, col, layout.fg, layout.font))
  BY PaintStepFrame DEF PaintStep, PaintLayout
<1>2. /\ row \in 1..Rows /\ col \in 1..Cols /\ painted \in Seq(Marks)
      /\ ~Builtin(grid[row][col]) /\ layout.fg = Look(row, col).fg /\ layout.font = Font
  BY <1>1 DEF RenderInv, SettingsInv, PaintInv, Painting, LayoutFits
<1> DEFINE g == Glyph(row, col, Look(row, col).fg, Font)
           q == <<g>>
<1>3. g \in Marks /\ g.what # "fill"
  <2>1. Font \in [family : Families, size : Sizes]
    BY DEF Font, ScreenInv, SettingsInv
  <2>2. Look(row, col).fg \in Colours
    BY <1>2, LookTypes
  <2> QED BY <1>2, <2>1, <2>2 DEF Glyph, Marks, Glyphs
<1>4. painted' = Append(painted, g)
  BY <1>1, <1>2
<1> HIDE DEF g
<1>5. q \in Seq(Marks) /\ painted' = painted \o q /\ \A i \in DOMAIN q : q[i].what # "fill"
  BY <1>2, <1>3, <1>4
<1>6. \A from, to : Marked(q, g, row, from, to)
  BY <1>3, OneMark
<1> HIDE DEF q
<1>7. \A from, to :
        /\ grid[row][col].text # Blank /\ ~grid[row][col].hidden =>
             Marked(q, Glyph(row, col, Look(row, col).fg, Font), row, from, to)
        /\ Here(row, col) /\ line /\ Builtin(grid[row][col]) =>
             Marked(q, CursorLine(row, col), row, from, to)
  BY <1>2, <1>6 DEF g
<1> QED BY <1>1, <1>5, <1>7, CellStepShows

(* The steps of a frame.                                                   *)
LEMMA DrawFrameShows == ASSUME RenderInv, ShowInv, DrawFrame PROVE ShowInv'
<1>0. GridInv /\ FreshInv /\ PaintInv /\ SettingsInv
  BY DEF ShowInv, RenderInv
<1>1. CASE RequestBuffer
  <2>1. /\ grid' \in Grids /\ vs' = "begin" /\ current' = FALSE
        /\ painted' = <<>> /\ row' = 1 /\ col' = 1
    BY <1>1 DEF RequestBuffer
  <2> QED BY <2>1 DEF ShowInv, GridInv, FreshInv, PaintInv, Undisturbed
<1>2. CASE MapBuffer
  <2>1. /\ vs = "begin" /\ UNCHANGED <<metricVars, frameVars, uiVars>>
        /\ vs' = "render" \/ (vs' = "idle" /\ current' = current)
    BY <1>2 DEF MapBuffer
  <2>2. ~current /\ painted = <<>> /\ row = 1 /\ col = 1
    BY <1>0, <2>1 DEF FreshInv
  <2>3. grid' = grid /\ painted' = painted /\ row' = row /\ col' = col
    BY <2>1 DEF frameVars
  <2>4. GridInv'
    BY <1>0, <2>1, <2>2, <2>3 DEF GridInv, Undisturbed, Painting
  <2>5. FreshInv' /\ PaintInv'
    BY <2>1, <2>2, <2>3 DEF FreshInv, PaintInv, Painting
  <2> QED BY <2>4, <2>5 DEF ShowInv
<1>3. CASE StartGrid
  <2>1. /\ vs = "render" /\ vs' = "pass1" /\ grid' = grid /\ painted' = painted /\ row' = row /\ col' = col
        /\ prop' = prop /\ cellWidth' = cellWidth /\ family' = family /\ size' = size
        /\ prop => offsets' = computeRowMetrics(grid)
    BY <1>3 DEF StartGrid, fontVars, metricVars, frameVars
  <2>2. painted = <<>> /\ row = 1 /\ col = 1
    BY <1>0, <2>1 DEF FreshInv
  <2>3. MetricsInv'
    BY <2>1 DEF MetricsInv, computeRowMetrics, naturalWidth
  <2>4. GridInv' /\ FreshInv'
    BY <1>0, <2>1, <2>3 DEF GridInv, FreshInv
  <2>5. \A r \in 1..Rows : ~(r < row')
    BY <2>1, <2>2
  <2>6. PaintInv'
    BY <2>1, <2>2, <2>5 DEF PaintInv
  <2> QED BY <2>4, <2>6 DEF ShowInv
<1>4. CASE PaintStep
  <2>1. /\ SameScreen /\ UNCHANGED <<fonts, todo, current>>
        /\ vs \in Painting /\ vs' \in Painting \union {"end"}
    BY <1>4, PaintStepFrame
  <2>2. grid' = grid /\ (MetricsInv' <=> MetricsInv)
    BY <2>1, SamePlaces
  <2>3. Undisturbed' => Undisturbed
    BY <2>1 DEF Undisturbed
  <2>4. Undisturbed => ScreenInv
    BY <1>0, <2>1 DEF GridInv, ScreenInv
  <2>5. GridInv'
    BY <1>0, <2>2, <2>3, <2>4 DEF GridInv, ScreenInv
  <2>6. FreshInv'
    BY <2>1 DEF FreshInv, Painting
  <2>7. ASSUME Undisturbed, fonts PROVE PaintInv'
    <3>1. ScreenInv
      BY <2>4, <2>7
    <3> QED BY <1>0, <1>4, <2>7, <3>1, PaintRowShows, VisitCellShows, GetLayoutShows, PaintLayoutShows DEF PaintStep
  <2>8. PaintInv'
    <3>1. CASE Undisturbed /\ fonts
      BY <2>7, <3>1
    <3>2. CASE ~(Undisturbed /\ fonts)
      <4>1. ~(Undisturbed' /\ fonts')
        BY <2>1, <2>3, <3>2
      <4> QED BY <4>1 DEF PaintInv
    <3> QED BY <3>1, <3>2
  <2> QED BY <2>5, <2>6, <2>8 DEF ShowInv
<1>5. CASE EndFrame
  <2>1. /\ vs = "end" /\ vs' = "idle" /\ SameScreen /\ UNCHANGED <<todo, grid>> /\ current' \in {current, FALSE}
    BY <1>5 DEF EndFrame, SameScreen, fontVars, metricVars, uiVars
  <2>2. MetricsInv' <=> MetricsInv
    BY <2>1, SamePlaces
  <2>3. Undisturbed' => Undisturbed
    BY <2>1 DEF Undisturbed
  <2>4. GridInv'
    BY <1>0, <2>1, <2>2, <2>3 DEF GridInv
  <2>5. FreshInv' /\ PaintInv'
    BY <2>1 DEF FreshInv, PaintInv, Painting
  <2> QED BY <2>4, <2>5 DEF ShowInv
<1> QED BY <1>1, <1>2, <1>3, <1>4, <1>5 DEF DrawFrame, PaintStep

(* A step that disturbs a frame leaves nothing to show.                    *)
LEMMA DisturbedShows ==
    ASSUME ShowInv, ~Undisturbed', grid' \in Grids, UNCHANGED vs,
           ~current' \/ current' = current,
           UNCHANGED <<painted, row, col>> \/ vs = "idle"
    PROVE  ShowInv'
<1>1. GridInv' /\ PaintInv'
  BY DEF GridInv, PaintInv
<1>2. FreshInv'
  BY DEF ShowInv, FreshInv
<1> QED BY <1>1, <1>2 DEF ShowInv

(* The setters, and surfaces.                                              *)
LEMMA SettingsShow == ASSUME RenderInv, ShowInv, Settings PROVE ShowInv'
<1>0. grid \in Grids
  BY DEF ShowInv, GridInv
<1>1. UNCHANGED <<vs, painted, row, col, grid>>
  BY DEF Settings, SetDensity, SetConfig, WriteSetting, UpdateDimensions, clearGlyphCache, MeasureFont, frameVars
<1>2. ASSUME NEW s \in Sizes, SetDensity(s) PROVE ShowInv'
  <2>1. todo' = <<"size", "dims">> /\ current' = current
    BY <1>2 DEF SetDensity
  <2>2. ~Undisturbed'
    <3>1. <<"size", "dims">> # <<>>
      OBVIOUS
    <3> QED BY <2>1, <3>1 DEF Undisturbed
  <2> QED BY <1>0, <1>1, <2>1, <2>2, DisturbedShows
<1>3. ASSUME NEW s \in Sizes, NEW f \in Families, NEW l \in BOOLEAN, SetConfig(s, f, l) PROVE ShowInv'
  <2>1. current' = current
    BY <1>3 DEF SetConfig
  <2>2. CASE window
    <3> DEFINE long == <<"size", "dims", "family", "clear", "dims", "clear", "dims", "style">>
    <3>1. todo' = long
      BY <1>3, <2>2 DEF SetConfig
    <3>2. long # <<>>
      OBVIOUS
    <3>3. ~Undisturbed'
      BY <3>1, <3>2 DEF Undisturbed
    <3> QED BY <1>0, <1>1, <2>1, <3>3, DisturbedShows
  <2>3. CASE ~window
    <3>1. vs = "idle"
      BY <2>3 DEF RenderInv, FrameInv
    <3>2. SameScreen /\ UNCHANGED <<todo, current>>
      BY <1>3, <2>3 DEF SetConfig, SameScreen, fontVars, metricVars, frameVars, uiVars
    <3>3. MetricsInv' <=> MetricsInv
      BY <3>2, SamePlaces
    <3>4. GridInv'
      BY <1>1, <3>1, <3>2, <3>3 DEF ShowInv, GridInv, Undisturbed
    <3>5. FreshInv' /\ PaintInv'
      BY <1>1, <3>1 DEF FreshInv, PaintInv, Painting
    <3> QED BY <3>4, <3>5 DEF ShowInv
  <2> QED BY <2>2, <2>3
<1>4. CASE WriteSetting \/ UpdateDimensions \/ clearGlyphCache \/ MeasureFont
  <2>1. ~current'
    BY <1>4 DEF WriteSetting, UpdateDimensions, clearGlyphCache, MeasureFont, NextSetter
  <2>2. ~Undisturbed'
    BY <2>1 DEF Undisturbed
  <2> QED BY <1>0, <1>1, <2>1, <2>2, DisturbedShows
<1> QED BY <1>2, <1>3, <1>4 DEF Settings

(* A surface comes or goes between frames only.                            *)
LEMMA SurfacesShow == ASSUME RenderInv, ShowInv, Surfaces PROVE ShowInv'
<1>1. vs = "idle" /\ vs' = vs /\ grid' = grid /\ ~current'
  BY DEF Surfaces, OnSurfaceCreated, OnSurfaceDestroyed, SetResourceManager, surfaceFree, frameVars
<1>2. grid \in Grids /\ ~Undisturbed'
  BY <1>1 DEF ShowInv, GridInv, Undisturbed
<1> QED BY <1>1, <1>2, DisturbedShows

(* ShowInv is inductive, beside RenderInv.                                 *)
LEMMA NextShow == RenderInv /\ ShowInv /\ [Next]_vars => ShowInv'
<1> SUFFICES ASSUME RenderInv, ShowInv, [Next]_vars PROVE ShowInv'
  OBVIOUS
<1>1. CASE DrawFrame
  BY <1>1, DrawFrameShows
<1>2. CASE Settings
  BY <1>2, SettingsShow
<1>3. CASE Surfaces
  BY <1>3, SurfacesShow
<1>4. CASE UNCHANGED vars
  <2>1. /\ SameScreen /\ UNCHANGED <<fonts, todo, current, vs, painted, row, col, layout, grid>>
    BY <1>4 DEF vars, SameScreen, fontVars, metricVars, uiVars, frameVars
  <2>2. MetricsInv' <=> MetricsInv
    BY <2>1, SamePlaces
  <2>3. GridInv' /\ FreshInv'
    BY <2>1, <2>2 DEF ShowInv, GridInv, FreshInv, Undisturbed
  <2>4. \A r : RowShown(r) => RowShown(r)'
    <3> TAKE r
    <3> HAVE RowShown(r)
    <3> QED BY <2>1, SameRow DEF RowShown
  <2>5. \A r, c : CellShown(r, c) => CellShown(r, c)'
    <3> TAKE r, c
    <3> HAVE CellShown(r, c)
    <3> QED BY <2>1, SameCell DEF CellShown
  <2>6. LayoutFits' <=> LayoutFits
    BY <2>1 DEF LayoutFits, Builtin, Look, visual, Here, Font, SameScreen
  <2>7. \A r, c : Before(r, c)' <=> Before(r, c)
    BY <2>1 DEF Before
  <2>8. PaintInv'
    BY <2>1, <2>4, <2>5, <2>6, <2>7 DEF ShowInv, PaintInv, Undisturbed
  <2> QED BY <2>3, <2>8 DEF ShowInv
<1> QED BY <1>1, <1>2, <1>3, <1>4 DEF Next

(* ShowInv: as long as no setting has come between its steps, the rows the *)
(* first pass of a frame is done with have their backgrounds, the cells    *)
(* the second pass is done with their glyphs and the line cursor, at the   *)
(* places the grid gives them.                                             *)
THEOREM ShowInvariant == Safety => []ShowInv
<1>1. Init => ShowInv
  BY DEF Init, ShowInv, GridInv, FreshInv, PaintInv, Undisturbed, Painting
<1>2. RenderInv /\ ShowInv /\ [Next]_vars => ShowInv'
  BY NextShow
<1> QED BY <1>1, <1>2, RenderInvariant, PTL DEF Safety

(* ClickHitsCell: a click on what a frame shows of a cell reaches that     *)
(* cell, or the tail of a wide one, in a monospace and in a proportional   *)
(* font, with every font, size and width of the screen.                    *)
THEOREM ClickHits == Safety => []ClickHitsCell
<1>1. RenderInv /\ ShowInv => ClickHitsCell
  <2> SUFFICES ASSUME RenderInv, ShowInv, vs \in {"end", "idle"}, Undisturbed,
                      NEW r \in 1..Rows, NEW c \in 1..Cols, Shows(r, c),
                      NEW x \in cellX(r, c)..(cellEnd(r, c) - 1)
               PROVE  mapXToCol(r, x) \in c..(c + grid[r][c].span - 1)
    BY DEF ClickHitsCell
  <2>1. SettingsInv /\ grid \in Grids /\ MetricsInv
    BY DEF RenderInv, ShowInv, GridInv
  <2> QED BY <2>1, PointHits
<1> QED BY <1>1, RenderInvariant, ShowInvariant, PTL

(* The fill on top of a place.                                             *)
LEMMA TopFillIs ==
    ASSUME NEW r, NEW x, NEW bg,
           IF bg = "default" THEN Over(painted, r, x) = {}
           ELSE \E i \in DOMAIN painted : Over(painted, r, x) = {i} /\ painted[i].colour = bg,
           DOMAIN painted \subseteq Nat
    PROVE  TopFill(r, x) = bg
<1> DEFINE I == Over(painted, r, x)
<1>1. TopFill(r, x) = IF I = {} THEN "default" ELSE painted[Max(I)].colour
  BY DEF TopFill, Over, IsFill
<1> HIDE DEF I
<1>2. CASE bg = "default"
  BY <1>1, <1>2 DEF I
<1>3. CASE bg # "default"
  <2>1. PICK i \in DOMAIN painted : I = {i} /\ painted[i].colour = bg
    BY <1>3 DEF I
  <2>2. Max(I) = i
    BY <2>1 DEF Max
  <2> QED BY <1>1, <2>1, <2>2
<1> QED BY <1>2, <1>3

(* FrameShowsCells: a frame no setting interferes with shows every cell,   *)
(* its background and above every background its glyph, in its colours and *)
(* in the font that is set, and the line cursor where nothing hides it.    *)
THEOREM FrameShows == Safety => []FrameShowsCells
<1>1. RenderInv /\ ShowInv => FrameShowsCells
  <2>1. SUFFICES ASSUME RenderInv, ShowInv, vs = "end", Undisturbed, fonts,
                        NEW r \in 1..Rows, NEW c \in 1..Cols, Shows(r, c)
                 PROVE  /\ \A x \in cellX(r, c)..(cellEnd(r, c) - 1) :
                             x < WindowWidth => TopFill(r, x) = Look(r, c).bg
                        /\ grid[r][c].text # Blank /\ ~grid[r][c].hidden =>
                             OnTop(Glyph(r, c, Look(r, c).fg, Font), r, c)
                        /\ Here(r, c) /\ line /\ (Builtin(grid[r][c]) \/ Look(r, c).bg = "default") =>
                             OnTop([what |-> "cursor", row |-> r, col |-> c], r, c)
    BY DEF FrameShowsCells, Look
  <2>2. painted \in Seq(Marks) /\ RowShown(r) /\ CellShown(r, c)
    BY <2>1 DEF ShowInv, PaintInv, Painting
  <2>3. Backed(painted, r, c) /\ Lined(painted, r, c)
    BY <2>1, <2>2 DEF RowShown
  <2>4. ASSUME NEW x \in cellX(r, c)..(cellEnd(r, c) - 1), x < WindowWidth
        PROVE  TopFill(r, x) = Look(r, c).bg
    <3> DEFINE bg == Look(r, c).bg
    <3>1. IF bg = "default" THEN Over(painted, r, x) = {}
          ELSE \E i \in DOMAIN painted : Over(painted, r, x) = {i} /\ painted[i].colour = bg
      BY <2>3, <2>4 DEF Backed, Coloured
    <3>2. DOMAIN painted \subseteq Nat
      BY <2>2
    <3> HIDE DEF bg
    <3>3. TopFill(r, x) = bg
      BY <3>1, <3>2, TopFillIs
    <3> QED BY <3>3 DEF bg
  <2>5. \A mark : Marked(painted, mark, r, cellX(r, c), cellEnd(r, c)) => OnTop(mark, r, c)
    BY DEF Marked, OnTop, IsFill
  <2>6. grid[r][c].text # Blank /\ ~grid[r][c].hidden => OnTop(Glyph(r, c, Look(r, c).fg, Font), r, c)
    BY <2>1, <2>2, <2>5 DEF CellShown
  <2>7. Here(r, c) /\ line /\ (Builtin(grid[r][c]) \/ Look(r, c).bg = "default") =>
          OnTop(CursorLine(r, c), r, c)
    BY <2>1, <2>2, <2>3, <2>5 DEF CellShown, Lined
  <2> QED BY <2>4, <2>6, <2>7 DEF CursorLine
<1> QED BY <1>1, RenderInvariant, ShowInvariant, PTL
=============================================================================
