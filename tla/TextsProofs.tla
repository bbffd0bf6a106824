----------------------------- MODULE TextsProofs -----------------------------
(***************************************************************************)
(* What the guards and the questions of query2.py do to every text of the  *)
(* model, what the PDF parser does to every file and the chunker to every  *)
(* document: TLC reads the texts and documents of MCTexts, the theorems    *)
(* are about all of them.  A text, a reply, an analysis, a PDF or any      *)
(* other document has no bound here.                                       *)
(*                                                                         *)
(*  1. Induction on numbers, and what a filtered list holds.               *)
(*  2. AnnexedIsComplete: a text that grows keeps its values, so what is   *)
(*     missing after the annex was missing before, and its line is annexed *)
(*     or left out.                                                        *)
(*  3. MotivesAreAsked: the filters and the grouping ask about every       *)
(*     reason, and an aspect has a place only when all of them have one.   *)
(*  4. FlagsAreRight: the last file before a page of a label is that of    *)
(*     the label, and its mention is the shortest name that ends with it.  *)
(*  5. PagesAreTrue: sections laid end to end keep their characters within *)
(*     their spans, each section is held as a row, and the text kept of a  *)
(*     page is as long as the guard on the yield asks for.                 *)
(*  6. FragmentsHoldTheText: every reader gives a list of characters,      *)
(*     every cut leaves each character that is not blank in a unit, and a  *)
(*     step moves it from the units to come to the fragment being filled,  *)
(*     from there to the fragments; HoldsInv says where it may be.         *)
(***************************************************************************)
EXTENDS Chunking, Texts, SequenceTheorems, FiniteSetTheorems, WellFoundedInduction, TLAPS

-----------------------------------------------------------------------------
(* 1. Numbers and lists. *)

LEMMA NatLeast ==
    ASSUME NEW T \in SUBSET Nat, T # {}
    PROVE  \E x \in T : \A y \in T : x <= y
<1>1. IsWellFoundedOn(OpToRel(<, Nat), Nat)
    BY NatLessThanWellFounded
<1>2. \E x \in T : \A y \in T : ~(<<y, x>> \in OpToRel(<, Nat))
    BY <1>1, WFMin, Zenon
<1>3. \A x, y \in Nat : y < x => <<y, x>> \in OpToRel(<, Nat)
    BY DEF OpToRel
<1>4. PICK x \in T : \A y \in T : ~(y < x)
    BY <1>2, <1>3
<1> QED
    BY <1>4

\* Induction over the natural numbers, stated with a set so that the provers can
\* use it.
LEMMA NatSetInduction ==
    ASSUME NEW S, 0 \in S, \A n \in Nat : n \in S => n + 1 \in S
    PROVE  Nat \subseteq S
<1> DEFINE T == Nat \ S
<1> SUFFICES ASSUME T # {} PROVE FALSE
    OBVIOUS
<1>1. PICK x \in T : \A y \in T : x <= y
    BY NatLeast
<1>2. x # 0 /\ x - 1 \in Nat
    BY <1>1
<1>3. x - 1 \in S
    BY <1>1, <1>2
<1> QED
    BY <1>1, <1>2, <1>3

\* f begins with c and follows the step functions up to L.
Recursive(f, c, L, step) == f[0] = c /\ \A n \in 1..L : f[n] = step[n][f[n - 1]]

\* A function can be defined by recursion on an interval, one step function for each
\* number of the interval.
LEMMA RecursionExists ==
    ASSUME NEW T, NEW c \in T, NEW L \in Nat, NEW step \in [1..L -> [T -> T]]
    PROVE  \E f \in [0..L -> T] : Recursive(f, c, L, step)
<1> DEFINE Fits(g, n) == g[0] = c /\ \A z \in 1..n : g[z] = step[z][g[z - 1]]
           Good == {n \in Nat : n <= L => \E g \in [0..n -> T] : Fits(g, n)}
<1>1. 0 \in Good
    <2> DEFINE g == [z \in 0..0 |-> c]
    <2>1. g \in [0..0 -> T] /\ Fits(g, 0)
        OBVIOUS
    <2> QED
        BY <2>1
<1>2. ASSUME NEW n \in Nat, n \in Good PROVE n + 1 \in Good
    <2> SUFFICES ASSUME n + 1 <= L PROVE \E g \in [0..(n + 1) -> T] : Fits(g, n + 1)
        OBVIOUS
    <2>1. PICK g \in [0..n -> T] : Fits(g, n)
        <3>1. n <= L
            OBVIOUS
        <3> QED
            BY <1>2, <3>1
    <2> DEFINE h == [z \in 0..(n + 1) |-> IF z = n + 1 THEN step[n + 1][g[n]] ELSE g[z]]
    <2>2. h \in [0..(n + 1) -> T]
        OBVIOUS
    <2>3. Fits(h, n + 1)
        BY <2>1
    <2> QED
        BY <2>2, <2>3
<1>3. L \in Good
    <2> HIDE DEF Good
    <2> QED
        BY <1>1, <1>2, NatSetInduction
<1> QED
    BY <1>3 DEF Recursive

\* f gives the selection of each beginning of s.
Selects(f, s, kept, L, e) ==
    /\ Selected(s, kept) = f[L] /\ f[0] = e
    /\ \A n \in 1..L : f[n] = IF kept[n] THEN Append(f[n - 1], s[n]) ELSE f[n - 1]

\* The selection goes through the elements one after the other.
LEMMA SelectedUnfolds ==
    ASSUME NEW S, NEW s \in Seq(S), NEW kept, NEW L \in Nat, L = Len(s), NEW e, e = <<>>
    PROVE  \E f \in [0..L -> Seq(S)] : Selects(f, s, kept, L, e)
<1>1. e \in Seq(S)
    BY EmptySeq
<1>2. \A n \in 1..L : s[n] \in S
    BY ElementOfSeq
<1>3. PICK step : step = [n \in 1..L |->
                            [t \in Seq(S) |-> IF kept[n] THEN Append(t, s[n]) ELSE t]]
    OBVIOUS
<1>4. \A t \in Seq(S), n \in 1..L : (IF kept[n] THEN Append(t, s[n]) ELSE t) \in Seq(S)
    BY <1>2, AppendProperties
<1>5. step \in [1..L -> [Seq(S) -> Seq(S)]]
    BY <1>3, <1>4
<1>6. \E f \in [0..L -> Seq(S)] : Recursive(f, e, L, step)
    BY <1>1, <1>5, RecursionExists, Zenon
<1>7. PICK f \in [0..L -> Seq(S)] : f[0] = e /\ \A n \in 1..L : f[n] = step[n][f[n - 1]]
    BY <1>6 DEF Recursive
<1>8. ASSUME NEW n \in 1..L PROVE f[n] = IF kept[n] THEN Append(f[n - 1], s[n]) ELSE f[n - 1]
    <2>1. f[n - 1] \in Seq(S)
        OBVIOUS
    <2> QED
        BY <1>3, <1>7, <2>1
<1> DEFINE F(g) == [n \in 0..L |->
                       IF n = 0 THEN e
                       ELSE IF kept[n] THEN Append(g[n - 1], s[n]) ELSE g[n - 1]]
           upto == CHOOSE g : g = F(g)
<1>9. f = F(f)
    <2>1. ASSUME NEW n \in 0..L PROVE f[n] = F(f)[n]
        <3>1. CASE n = 0
            BY <1>7, <3>1
        <3>2. CASE n # 0
            <4>1. n \in 1..L
                BY <3>2
            <4> QED
                BY <1>8, <3>2, <4>1
        <3> QED
            BY <3>1, <3>2
    <2> QED
        BY <2>1
<1>10. upto = F(upto)
    BY <1>9, Zenon
<1>11. Selected(s, kept) = upto[L]
    BY DEF Selected
<1> HIDE DEF upto
<1>12. \A n \in 0..L : upto[n] = IF n = 0 THEN e
                                  ELSE IF kept[n] THEN Append(upto[n - 1], s[n]) ELSE upto[n - 1]
    BY <1>10
<1>13. PICK Agree : Agree = {n \in Nat : n <= L => upto[n] = f[n]}
    OBVIOUS
<1>14. 0 \in Agree
    BY <1>7, <1>12, <1>13
<1>15. ASSUME NEW n \in Nat, n \in Agree PROVE n + 1 \in Agree
    <2> SUFFICES ASSUME n + 1 <= L PROVE upto[n + 1] = f[n + 1]
        BY <1>13
    <2>1. upto[n] = f[n] /\ n + 1 \in 1..L /\ n + 1 \in 0..L /\ (n + 1) - 1 = n /\ n + 1 # 0
        BY <1>13, <1>15
    <2>2. upto[n + 1] = IF kept[n + 1] THEN Append(upto[n], s[n + 1]) ELSE upto[n]
        BY <1>12, <2>1
    <2>3. f[n + 1] = IF kept[n + 1] THEN Append(f[n], s[n + 1]) ELSE f[n]
        BY <1>8, <2>1
    <2> QED
        BY <2>1, <2>2, <2>3
<1>16. L \in Agree
    BY <1>14, <1>15, NatSetInduction
<1>17. upto[L] = f[L]
    BY <1>13, <1>16
<1>18. Selects(f, s, kept, L, e)
    BY <1>7, <1>8, <1>11, <1>17 DEF Selects
<1> QED
    BY <1>18

\* t is what the first n elements of s leave, each taken from the place that h says.
Picks(t, h, s, kept, n) ==
    /\ h \in [1..Len(t) -> 1..n]
    /\ \A j \in 1..Len(t) : kept[h[j]] /\ t[j] = s[h[j]]
    /\ \A z, j \in 1..Len(t) : z < j => h[z] < h[j]
    /\ \A m \in 1..n : kept[m] => \E j \in 1..Len(t) : h[j] = m

\* One kept element more.
LEMMA PicksMore ==
    ASSUME NEW S, NEW s \in Seq(S), NEW kept, NEW n \in Nat, n + 1 <= Len(s),
           NEW t \in Seq(S), NEW h, Picks(t, h, s, kept, n), kept[n + 1],
           NEW u, u = Append(t, s[n + 1])
    PROVE  \E g : Picks(u, g, s, kept, n + 1)
<1>1. PICK N \in Nat : N = Len(t)
    BY LenProperties
<1>2. s[n + 1] \in S
    BY ElementOfSeq, LenProperties
<1>3. Len(u) = N + 1 /\ u[N + 1] = s[n + 1] /\ \A j \in 1..N : u[j] = t[j]
    BY <1>1, <1>2, AppendProperties
<1>4. PICK g : g = [j \in 1..(N + 1) |-> IF j = N + 1 THEN n + 1 ELSE h[j]]
    OBVIOUS
<1>5. /\ h \in [1..N -> 1..n]
      /\ \A j \in 1..N : kept[h[j]] /\ t[j] = s[h[j]]
      /\ \A z, j \in 1..N : z < j => h[z] < h[j]
      /\ \A m \in 1..n : kept[m] => \E j \in 1..N : h[j] = m
    BY <1>1 DEF Picks
<1>6. /\ g[N + 1] = n + 1
      /\ \A j \in 1..N : g[j] = h[j] /\ h[j] \in 1..n
    <2>1. N + 1 \in 1..(N + 1)
        OBVIOUS
    <2>2. g[N + 1] = n + 1
        BY <1>4, <2>1
    <2>3. ASSUME NEW j \in 1..N PROVE g[j] = h[j] /\ h[j] \in 1..n
        <3>1. j \in 1..(N + 1) /\ j # N + 1
            OBVIOUS
        <3>2. g[j] = h[j]
            BY <1>4, <3>1
        <3>3. h[j] \in 1..n
            BY <1>5
        <3> QED
            BY <3>2, <3>3
    <2> QED
        BY <2>2, <2>3
<1>7. g \in [1..(N + 1) -> 1..(n + 1)]
    <2>1. ASSUME NEW j \in 1..(N + 1) PROVE g[j] \in 1..(n + 1)
        <3>1. CASE j = N + 1
            <4>1. n + 1 \in 1..(n + 1)
                OBVIOUS
            <4> QED
                BY <1>6, <3>1, <4>1
        <3>2. CASE j \in 1..N
            <4>1. g[j] \in 1..n
                BY <1>6, <3>2
            <4>2. \A m \in 1..n : m \in 1..(n + 1)
                OBVIOUS
            <4> QED
                BY <4>1, <4>2, Zenon
        <3>3. j = N + 1 \/ j \in 1..N
            OBVIOUS
        <3> QED
            BY <3>1, <3>2, <3>3, Zenon
    <2> QED
        BY <1>4, <2>1
<1>8. ASSUME NEW j \in 1..(N + 1) PROVE kept[g[j]] /\ u[j] = s[g[j]]
    <2>1. CASE j = N + 1
        BY <1>3, <1>6, <2>1
    <2>2. CASE j \in 1..N
        BY <1>3, <1>5, <1>6, <2>2
    <2>3. j = N + 1 \/ j \in 1..N
        OBVIOUS
    <2> QED
        BY <2>1, <2>2, <2>3, Zenon
<1>9. ASSUME NEW z \in 1..(N + 1), NEW j \in 1..(N + 1), z < j PROVE g[z] < g[j]
    <2>1. z \in 1..N
        BY <1>9
    <2>2. CASE j = N + 1
        BY <1>6, <2>1, <2>2
    <2>3. CASE j \in 1..N
        BY <1>5, <1>6, <1>9, <2>1, <2>3
    <2> QED
        BY <2>2, <2>3
<1>10. ASSUME NEW m \in 1..(n + 1), kept[m] PROVE \E j \in 1..(N + 1) : g[j] = m
    <2>1. CASE m = n + 1
        BY <1>6, <2>1
    <2>2. CASE m \in 1..n
        <3>1. PICK j \in 1..N : h[j] = m
            BY <1>5, <1>10, <2>2
        <3>2. g[j] = m
            BY <1>6, <3>1
        <3>3. j \in 1..(N + 1)
            OBVIOUS
        <3> QED
            BY <3>2, <3>3, Zenon
    <2>3. m = n + 1 \/ m \in 1..n
        OBVIOUS
    <2> QED
        BY <2>1, <2>2, <2>3, Zenon
<1>11. Picks(u, g, s, kept, n + 1)
    BY <1>3, <1>7, <1>8, <1>9, <1>10 DEF Picks
<1> QED
    BY <1>11

\* What is selected comes from places of the list that go up, and from all that are kept.
LEMMA SelectedPicks ==
    ASSUME NEW S, NEW s \in Seq(S), NEW kept
    PROVE  /\ Selected(s, kept) \in Seq(S)
           /\ \E h : Picks(Selected(s, kept), h, s, kept, Len(s))
<1>1. PICK L \in Nat : L = Len(s)
    BY LenProperties
<1>2. PICK e : e = <<>>
    OBVIOUS
<1>3. PICK f \in [0..L -> Seq(S)] : Selects(f, s, kept, L, e)
    BY <1>1, <1>2, SelectedUnfolds
<1>4. PICK Good : Good = {n \in Nat : n <= L => \E h : Picks(f[n], h, s, kept, n)}
    OBVIOUS
<1>5. 0 \in Good
    <2>1. f[0] = <<>>
        BY <1>2, <1>3 DEF Selects
    <2>2. PICK h : h = [j \in 1..0 |-> j]
        OBVIOUS
    <2>3. Len(<<>>) = 0 /\ h \in [1..0 -> 1..0]
        BY <2>2
    <2>4. Picks(<<>>, h, s, kept, 0)
        BY <2>3 DEF Picks
    <2> QED
        BY <1>4, <2>1, <2>4
<1>6. ASSUME NEW n \in Nat, n \in Good PROVE n + 1 \in Good
    <2> SUFFICES ASSUME n + 1 <= L PROVE \E h : Picks(f[n + 1], h, s, kept, n + 1)
        BY <1>4
    <2>1. n + 1 \in 1..L /\ (n + 1) - 1 = n /\ f[n] \in Seq(S)
        OBVIOUS
    <2>2. PICK h : Picks(f[n], h, s, kept, n)
        BY <1>4, <1>6
    <2>3. f[n + 1] = IF kept[n + 1] THEN Append(f[n], s[n + 1]) ELSE f[n]
        BY <1>3, <2>1 DEF Selects
    <2>4. CASE kept[n + 1]
        <3>1. f[n + 1] = Append(f[n], s[n + 1]) /\ n + 1 <= Len(s)
            BY <1>1, <2>3, <2>4
        <3> QED
            BY <2>1, <2>2, <2>4, <3>1, PicksMore
    <2>5. CASE ~kept[n + 1]
        <3>1. PICK t \in Seq(S) : t = f[n]
            BY <2>1
        <3>2. f[n + 1] = t /\ Len(t) \in Nat
            BY <2>3, <2>5, <3>1, LenProperties
        <3>3. Picks(t, h, s, kept, n)
            BY <2>2, <3>1
        <3>4. h \in [1..Len(t) -> 1..(n + 1)]
            <4>1. h \in [1..Len(t) -> 1..n] /\ 1..n \subseteq 1..(n + 1)
                BY <3>3 DEF Picks
            <4> QED
                BY <4>1
        <3>5. \A m \in 1..(n + 1) : kept[m] => m \in 1..n
            <4>1. \A m \in 1..(n + 1) : m = n + 1 \/ m \in 1..n
                OBVIOUS
            <4> QED
                BY <2>5, <4>1, Zenon
        <3>6. \A m \in 1..(n + 1) : kept[m] => \E j \in 1..Len(t) : h[j] = m
            BY <3>3, <3>5, Zenon DEF Picks
        <3>7. Picks(t, h, s, kept, n + 1)
            BY <3>3, <3>4, <3>6, Zenon DEF Picks
        <3> QED
            BY <3>2, <3>7
    <2> QED
        BY <2>4, <2>5
<1>7. L \in Good
    BY <1>5, <1>6, NatSetInduction
<1>8. Selected(s, kept) = f[L] /\ L \in 0..L
    BY <1>3 DEF Selects
<1> QED
    BY <1>1, <1>4, <1>7, <1>8

\* The elements of a selection.
LEMMA SelectedElements ==
    ASSUME NEW S, NEW s \in Seq(S), NEW kept
    PROVE  /\ Selected(s, kept) \in Seq(S)
           /\ \A j \in DOMAIN Selected(s, kept) :
                 \E m \in DOMAIN s : kept[m] /\ Selected(s, kept)[j] = s[m]
           /\ \A m \in DOMAIN s : kept[m] =>
                 \E j \in DOMAIN Selected(s, kept) : Selected(s, kept)[j] = s[m]
<1>1. PICK t \in Seq(S) : t = Selected(s, kept)
    BY SelectedPicks
<1>2. PICK h : Picks(t, h, s, kept, Len(s))
    BY <1>1, SelectedPicks
<1>3. DOMAIN t = 1..Len(t) /\ DOMAIN s = 1..Len(s)
    BY LenProperties
<1>4. \A j \in DOMAIN t : h[j] \in DOMAIN s /\ kept[h[j]] /\ t[j] = s[h[j]]
    BY <1>2, <1>3 DEF Picks
<1>5. ASSUME NEW m \in DOMAIN s, kept[m] PROVE \E j \in DOMAIN t : t[j] = s[m]
    <2>1. PICK j \in DOMAIN t : h[j] = m
        BY <1>2, <1>3, <1>5, Zenon DEF Picks
    <2> QED
        BY <1>4, <2>1
<1> QED
    BY <1>1, <1>4, <1>5, Zenon

\* Distinct keeps every element, and none twice.
LEMMA DistinctElements ==
    ASSUME NEW S, NEW s \in Seq(S)
    PROVE  /\ Distinct(s) \in Seq(S)
           /\ ToSet(Distinct(s)) = ToSet(s)
           /\ \A z, j \in DOMAIN Distinct(s) : z # j => Distinct(s)[z] # Distinct(s)[j]
<1>1. PICK kept : kept = [n \in DOMAIN s |-> \A k \in 1..(n - 1) : s[k] # s[n]]
    OBVIOUS
<1>2. PICK t \in Seq(S) : t = Selected(s, kept)
    BY SelectedPicks
<1>3. t = Distinct(s)
    BY <1>1, <1>2 DEF Distinct
<1>4. PICK h : Picks(t, h, s, kept, Len(s))
    BY <1>2, SelectedPicks
<1>5. DOMAIN t = 1..Len(t) /\ DOMAIN s = 1..Len(s) /\ Len(t) \in Nat /\ Len(s) \in Nat
    BY LenProperties
<1>6. ASSUME NEW z \in DOMAIN t, NEW j \in DOMAIN t, z < j PROVE t[z] # t[j]
    <2>1. h[z] \in 1..Len(s) /\ h[j] \in 1..Len(s) /\ h[z] < h[j] /\ kept[h[j]]
        BY <1>4, <1>5, <1>6 DEF Picks
    <2>2. h[z] \in 1..(h[j] - 1)
        BY <2>1
    <2>3. s[h[z]] # s[h[j]]
        BY <1>1, <1>5, <2>1, <2>2
    <2> QED
        BY <1>4, <1>5, <2>3 DEF Picks
<1>7. \A z, j \in DOMAIN t : z # j => t[z] # t[j]
    BY <1>5, <1>6
<1>8. ASSUME NEW m \in DOMAIN s PROVE \E j \in DOMAIN t : t[j] = s[m]
    <2>1. PICK T : T = {k \in DOMAIN s : s[k] = s[m]}
        OBVIOUS
    <2>2. T \in SUBSET Nat /\ T # {}
        BY <1>5, <2>1
    <2>3. PICK k \in T : \A l \in T : k <= l
        BY <2>2, NatLeast
    <2>4. \A l \in 1..(k - 1) : s[l] # s[k]
        BY <1>5, <2>1, <2>3
    <2>5. kept[k] /\ k \in 1..Len(s) /\ s[k] = s[m]
        BY <1>1, <1>5, <2>1, <2>4
    <2>6. PICK j \in 1..Len(t) : h[j] = k
        BY <1>4, <2>5, Zenon DEF Picks
    <2>7. t[j] = s[h[j]]
        BY <1>4 DEF Picks
    <2> QED
        BY <1>5, <2>5, <2>6, <2>7
<1>9. ASSUME NEW j \in DOMAIN t PROVE \E m \in DOMAIN s : s[m] = t[j]
    BY <1>4, <1>5 DEF Picks
<1>10. ToSet(t) = ToSet(s)
    BY <1>8, <1>9 DEF ToSet
<1> QED
    BY <1>3, <1>7, <1>10

-----------------------------------------------------------------------------
(* 2. The annex of a synthesis. *)

\* A function on the first numbers is a list.
LEMMA Listed ==
    ASSUME NEW T, NEW n \in Nat, NEW f \in [1..n -> T]
    PROVE  f \in Seq(T) /\ Len(f) = n /\ DOMAIN f = 1..n
<1>1. f \in Seq(T)
    BY SeqDef
<1>2. DOMAIN f = 1..n /\ DOMAIN f = 1..Len(f) /\ Len(f) \in Nat
    BY <1>1, LenProperties
<1> QED
    BY <1>1, <1>2

\* t has every line of s, or at least what every line of s says.
HoldsLines(t, s) == \A k \in DOMAIN s : \E j \in DOMAIN t : t[j] = s[k]
Retells(t, s) == \A k \in DOMAIN s : \E j \in DOMAIN t : t[j].tokens = s[k].tokens

LEMMA LinesRetell == \A s, t : HoldsLines(t, s) => Retells(t, s)
    BY DEF HoldsLines, Retells

LEMMA TokensGrow ==
    ASSUME NEW s, NEW t, Retells(t, s)
    PROVE  Tokens(s) \subseteq Tokens(t) /\ Numbers(s) \subseteq Numbers(t)
<1>1. Tokens(s) \subseteq Tokens(t)
    <2> SUFFICES ASSUME NEW x \in Tokens(s) PROVE x \in Tokens(t)
        OBVIOUS
    <2>1. PICK k \in DOMAIN s : x \in ToSet(s[k].tokens)
        BY DEF Tokens
    <2>2. PICK j \in DOMAIN t : t[j].tokens = s[k].tokens
        BY DEF Retells
    <2> QED
        BY <2>1, <2>2 DEF Tokens
<1> QED
    BY <1>1 DEF Numbers

\* A text that says more has more values, capitals included: a proper name keeps its
\* place in its line.
LEMMA ValuesGrow ==
    ASSUME NEW s, NEW t, NEW lot, Retells(t, s)
    PROVE  ValeursDe(s, lot) \subseteq ValeursDe(t, lot)
<1>1. Numbers(s) \subseteq Numbers(t)
    BY TokensGrow
<1>2. NomsPropres(s, lot) \subseteq NomsPropres(t, lot)
    <2> DEFINE Proper(said, x) ==
                  \E k \in DOMAIN said : \E z \in DOMAIN said[k].tokens :
                      /\ said[k].tokens[z] = [kind |-> "name", word |-> x]
                      /\ ~Heads(said[k].tokens, z) /\ ~EndsSentence(said[k].tokens, z)
    <2>1. ASSUME NEW x, Proper(s, x) PROVE Proper(t, x)
        <3>1. PICK k \in DOMAIN s : \E z \in DOMAIN s[k].tokens :
                  /\ s[k].tokens[z] = [kind |-> "name", word |-> x]
                  /\ ~Heads(s[k].tokens, z) /\ ~EndsSentence(s[k].tokens, z)
            BY <2>1
        <3>2. PICK j \in DOMAIN t : t[j].tokens = s[k].tokens
            BY DEF Retells
        <3> QED
            BY <3>1, <3>2
    <2>2. \A said : NomsPropres(said, lot) =
              {[word |-> w] : w \in {x \in lot.capital \ lot.lower : Proper(said, x)}}
        BY DEF NomsPropres
    <2> HIDE DEF Proper
    <2> QED
        BY <2>1, <2>2
<1> QED
    BY <1>1, <1>2 DEF ValeursDe

LEMMA StandsInMore ==
    ASSUME NEW s, NEW t, NEW v, HoldsLines(t, s), StandsIn(v, s)
    PROVE  StandsIn(v, t)
<1>1. Numbers(s) \subseteq Numbers(t)
    BY LinesRetell, TokensGrow
<1>2. "whole" \in DOMAIN v
    BY DEF StandsIn
<1>3. PICK sep \in {",", "."} :
          \/ \E n \in Numbers(s) : PartOf(Pointed(v.whole, sep, v.frac), Written(n))
          \/ \E k \in DOMAIN s : PartOf(Pointed(v.whole, sep, v.frac), s[k].mark)
    BY DEF StandsIn
<1>4. CASE \E n \in Numbers(s) : PartOf(Pointed(v.whole, sep, v.frac), Written(n))
    BY <1>1, <1>2, <1>4 DEF StandsIn
<1>5. CASE \E k \in DOMAIN s : PartOf(Pointed(v.whole, sep, v.frac), s[k].mark)
    <2>1. PICK k \in DOMAIN s : PartOf(Pointed(v.whole, sep, v.frac), s[k].mark)
        BY <1>5
    <2>2. PICK j \in DOMAIN t : t[j] = s[k]
        BY DEF HoldsLines
    <2> QED
        BY <1>2, <2>1, <2>2 DEF StandsIn
<1> QED
    BY <1>3, <1>4, <1>5

\* What a text lacks, one that has its lines does not lack more of.
LEMMA MissingShrinks ==
    ASSUME NEW s, NEW t, NEW blocks, NEW lot, HoldsLines(t, s)
    PROVE  Missing(t, blocks, lot) \subseteq Missing(s, blocks, lot)
<1>1. ValeursDe(s, lot) \subseteq ValeursDe(t, lot)
    BY LinesRetell, ValuesGrow
<1>2. \A v : StandsIn(v, s) => StandsIn(v, t)
    BY StandsInMore
<1> QED
    BY <1>1, <1>2 DEF Missing

Carries(l, values, lot) == l.mark # <<"#">> /\ ValeursDe(<<l>>, lot) \cap values # {}

\* x is the item of a line of the blocks that carries a value the synthesis lacks.
Lacks(x, synthesis, blocks, lot) ==
    \E k \in DOMAIN blocks : /\ Carries(blocks[k], Missing(synthesis, blocks, lot), lot)
                             /\ x = Propre(blocks[k])

\* The lines that a synthesis lacks are those of the blocks that carry a value it lacks.
LEMMA LinesOfRetention ==
    ASSUME NEW synthesis, NEW blocks, IsList(blocks), NEW lot,
           NEW lines, lines = Retention(synthesis, blocks, lot).lines
    PROVE  /\ IsList(lines)
           /\ \A x : x \in ToSet(lines) <=> Lacks(x, synthesis, blocks, lot)
<1>1. PICK values : values = Missing(synthesis, blocks, lot)
    OBVIOUS
<1>2. PICK kept : kept = [k \in DOMAIN blocks |-> Carries(blocks[k], values, lot)]
    OBVIOUS
<1>3. PICK S : S = ToSet(blocks)
    OBVIOUS
<1>4. blocks \in Seq(S)
    BY <1>3 DEF IsList
<1>5. PICK c : c = Selected(blocks, kept)
    OBVIOUS
<1>6. c = Carriers(values, blocks, lot)
    BY <1>2, <1>5 DEF Carriers, Carries
<1>7. /\ c \in Seq(S)
      /\ \A j \in DOMAIN c : \E m \in DOMAIN blocks : kept[m] /\ c[j] = blocks[m]
      /\ \A m \in DOMAIN blocks : kept[m] => \E j \in DOMAIN c : c[j] = blocks[m]
    BY <1>4, <1>5, SelectedElements
<1>8. PICK n \in Nat : n = Len(c) /\ DOMAIN c = 1..n
    BY <1>7, LenProperties
<1>9. PICK T : T = {Propre(x) : x \in S}
    OBVIOUS
<1>10. PICK p : p = [k \in DOMAIN c |-> Propre(c[k])]
    OBVIOUS
<1>11. p \in [1..n -> T]
    <2>1. \A k \in 1..n : c[k] \in S
        BY <1>7, <1>8, ElementOfSeq
    <2> QED
        BY <1>8, <1>9, <1>10, <2>1
<1>12. p \in Seq(T)
    BY <1>11, Listed
<1>13. lines = Distinct(p)
    BY <1>1, <1>6, <1>10 DEF Retention
<1>14. lines \in Seq(T) /\ ToSet(lines) = ToSet(p)
    BY <1>12, <1>13, DistinctElements
<1>15. IsList(lines)
    <2>1. PICK L \in Nat : L = Len(lines) /\ DOMAIN lines = 1..L /\ lines \in [1..L -> T]
        BY <1>14, LenProperties
    <2>2. lines \in [1..L -> ToSet(lines)]
        BY <2>1 DEF ToSet
    <2>3. lines \in Seq(ToSet(lines))
        BY <2>2, Listed
    <2> QED
        BY <2>3 DEF IsList
<1>16. ASSUME NEW x PROVE x \in ToSet(p) <=> \E k \in DOMAIN blocks : Carries(blocks[k], values, lot) /\ x = Propre(blocks[k])
    <2>1. ASSUME x \in ToSet(p)
          PROVE  \E k \in DOMAIN blocks : Carries(blocks[k], values, lot) /\ x = Propre(blocks[k])
        <3>1. PICK j \in DOMAIN c : x = Propre(c[j])
            BY <1>10, <2>1 DEF ToSet
        <3>2. PICK m \in DOMAIN blocks : kept[m] /\ c[j] = blocks[m]
            BY <1>7
        <3> QED
            BY <1>2, <3>1, <3>2
    <2>2. ASSUME NEW k \in DOMAIN blocks, Carries(blocks[k], values, lot), x = Propre(blocks[k])
          PROVE  x \in ToSet(p)
        <3>1. kept[k]
            BY <1>2, <2>2
        <3>2. PICK j \in DOMAIN c : c[j] = blocks[k]
            BY <1>7, <3>1
        <3> QED
            BY <1>10, <2>2, <3>2 DEF ToSet
    <2> QED
        BY <2>1, <2>2
<1> QED
    BY <1>1, <1>14, <1>15, <1>16 DEF Lacks

LEMMA ListLength == \A s : IsList(s) => Len(s) \in Nat /\ DOMAIN s = 1..Len(s)
<1> SUFFICES ASSUME NEW s, IsList(s) PROVE Len(s) \in Nat /\ DOMAIN s = 1..Len(s)
    OBVIOUS
<1>1. PICK S : S = ToSet(s)
    OBVIOUS
<1>2. s \in Seq(S)
    BY <1>1 DEF IsList
<1> QED
    BY <1>2, LenProperties

\* Two lists one after the other.
LEMMA JoinedList ==
    ASSUME NEW s, NEW t, IsList(s), IsList(t)
    PROVE  /\ IsList(s \o t) /\ ToSet(s \o t) = ToSet(s) \cup ToSet(t)
           /\ Len(s) \in Nat /\ Len(t) \in Nat
           /\ DOMAIN s = 1..Len(s) /\ DOMAIN t = 1..Len(t)
           /\ DOMAIN (s \o t) = 1..(Len(s) + Len(t)) /\ Len(s \o t) = Len(s) + Len(t)
           /\ \A k \in 1..Len(s) : (s \o t)[k] = s[k]
           /\ \A k \in 1..Len(t) : (s \o t)[Len(s) + k] = t[k]
<1>1. PICK S : S = ToSet(s) \cup ToSet(t)
    OBVIOUS
<1>2. s \in Seq(S) /\ t \in Seq(S)
    BY <1>1, SeqMonotonic DEF IsList
<1>3. PICK u : u = s \o t
    OBVIOUS
<1>4. u \in Seq(S)
    BY <1>2, <1>3, ConcatProperties
<1>5. PICK m \in Nat : m = Len(s) /\ DOMAIN s = 1..m
    BY <1>2, LenProperties
<1>6. PICK n \in Nat : n = Len(t) /\ DOMAIN t = 1..n
    BY <1>2, LenProperties
<1>7. Len(u) = m + n /\ \A k \in 1..(m + n) : u[k] = IF k <= m THEN s[k] ELSE t[k - m]
    BY <1>2, <1>3, <1>5, <1>6, ConcatProperties
<1>8. DOMAIN u = 1..(m + n)
    BY <1>4, <1>7, LenProperties
<1>9. \A k \in 1..m : u[k] = s[k]
    BY <1>7
<1>10. \A k \in 1..n : u[m + k] = t[k]
    BY <1>7
<1>11. ToSet(u) = S
    <2>1. ASSUME NEW x \in S PROVE x \in ToSet(u)
        <3>1. CASE x \in ToSet(s)
            <4>1. PICK k \in 1..m : x = s[k]
                BY <1>5, <3>1 DEF ToSet
            <4>2. k \in DOMAIN u /\ u[k] = x
                BY <1>8, <1>9, <4>1
            <4> QED
                BY <4>2 DEF ToSet
        <3>2. CASE x \in ToSet(t)
            <4>1. PICK k \in 1..n : x = t[k]
                BY <1>6, <3>2 DEF ToSet
            <4>2. m + k \in DOMAIN u /\ u[m + k] = x
                BY <1>8, <1>10, <4>1
            <4> QED
                BY <4>2 DEF ToSet
        <3> QED
            BY <1>1, <2>1, <3>1, <3>2
    <2>2. \A k \in DOMAIN u : u[k] \in S
        BY <1>4, <1>7, <1>8, ElementOfSeq
    <2> QED
        BY <2>1, <2>2 DEF ToSet
<1>12. IsList(u)
    BY <1>4, <1>11 DEF IsList
<1> QED
    BY <1>1, <1>3, <1>5, <1>6, <1>7, <1>8, <1>9, <1>10, <1>11, <1>12

LEMMA Single == \A x : IsList(<<x>>) /\ ToSet(<<x>>) = {x} /\ Len(<<x>>) = 1 /\ <<x>>[1] = x
                           /\ DOMAIN <<x>> = {1}
<1> SUFFICES ASSUME NEW x PROVE IsList(<<x>>) /\ ToSet(<<x>>) = {x} /\ DOMAIN <<x>> = {1}
    OBVIOUS
<1>1. DOMAIN <<x>> = {1}
    OBVIOUS
<1>2. ToSet(<<x>>) = {x}
    BY <1>1 DEF ToSet
<1>3. <<x>> \in Seq({x})
    OBVIOUS
<1> QED
    BY <1>1, <1>2, <1>3 DEF IsList

LEMMA LinesAreElements == \A s, t : HoldsLines(t, s) <=> ToSet(s) \subseteq ToSet(t)
    BY DEF HoldsLines, ToSet

LEMMA SeqIsList ==
    ASSUME NEW S, NEW s \in Seq(S)
    PROVE  IsList(s)
<1>1. PICK n \in Nat : n = Len(s) /\ s \in [1..n -> S]
    BY LenProperties
<1>2. s \in [1..n -> ToSet(s)]
    BY <1>1 DEF ToSet
<1> QED
    BY <1>1, <1>2, Listed DEF IsList

\* A part of a list.
LEMMA PartOfList ==
    ASSUME NEW s, IsList(s), NEW m \in Nat, NEW n \in Nat, 1 <= m, m <= n, n <= Len(s)
    PROVE  /\ IsList(SubSeq(s, m, n)) /\ Len(SubSeq(s, m, n)) = n - m + 1
           /\ \A z \in 1..(n - m + 1) : SubSeq(s, m, n)[z] = s[m + z - 1]
<1>1. PICK L \in Nat : L = Len(s) /\ DOMAIN s = 1..L
    BY ListLength
<1>2. PICK u : u = SubSeq(s, m, n)
    OBVIOUS
<1>3. m \in Int /\ n \in Int /\ \A z \in m..n : s[z] \in ToSet(s)
    BY <1>1, ElementOfSeq DEF IsList
<1>4. u \in Seq(ToSet(s)) /\ Len(u) = n - m + 1 /\ \A z \in 1..(n - m + 1) : u[z] = s[m + z - 1]
    BY <1>2, <1>3, SubSeqProperties
<1> QED
    BY <1>2, <1>4, SeqIsList

\* The first elements of a list.
LEMMA FirstQuestions ==
    ASSUME NEW s, IsList(s), NEW n \in Nat
    PROVE  /\ IsList(First(n, s)) /\ Len(First(n, s)) \in Nat
           /\ DOMAIN First(n, s) = 1..Len(First(n, s))
           /\ Len(First(n, s)) <= n /\ Len(First(n, s)) <= Len(s)
           /\ (Len(First(n, s)) = n /\ n < Len(s)) \/ First(n, s) = s
           /\ \A k \in DOMAIN First(n, s) : First(n, s)[k] = s[k]
<1>1. PICK S : S = ToSet(s)
    OBVIOUS
<1>2. s \in Seq(S)
    BY <1>1 DEF IsList
<1>3. PICK L \in Nat : L = Len(s)
    BY <1>2, LenProperties
<1>4. PICK m : m = Min({n, L})
    OBVIOUS
<1>5. m \in Nat /\ m <= n /\ m <= L /\ ((m = n /\ n < L) \/ m = L)
    BY <1>4 DEF Min
<1>6. PICK f : f = SubSeq(s, 1, m)
    OBVIOUS
<1>7. f = First(n, s)
    BY <1>3, <1>4, <1>6 DEF First
<1>8. f \in Seq(S) /\ Len(f) = m /\ \A k \in 1..m : f[k] = s[k]
    <2>1. \A z \in 1..m : s[z] \in S
        BY <1>2, <1>3, <1>5, ElementOfSeq
    <2>2. 1 <= m \/ m = 0
        BY <1>5
    <2>3. /\ SubSeq(s, 1, m) \in Seq(S)
          /\ Len(SubSeq(s, 1, m)) = IF 1 <= m THEN m - 1 + 1 ELSE 0
          /\ \A z \in 1..(m - 1 + 1) : SubSeq(s, 1, m)[z] = s[1 + z - 1]
        BY <1>5, <2>1, SubSeqProperties
    <2>4. \A z \in 1..m : z \in 1..(m - 1 + 1) /\ 1 + z - 1 = z
        BY <1>5
    <2> QED
        BY <1>5, <1>6, <2>2, <2>3, <2>4
<1>9. DOMAIN f = 1..m /\ f \in [1..m -> S]
    BY <1>8, LenProperties
<1>10. IsList(f)
    <2>1. f \in [1..m -> ToSet(f)]
        BY <1>9 DEF ToSet
    <2> QED
        BY <1>5, <2>1, Listed DEF IsList
<1>11. m = L => f = s
    BY <1>2, <1>3, <1>6, SubSeqFull
<1> QED
    BY <1>3, <1>5, <1>7, <1>8, <1>9, <1>10, <1>11

\* What the annex does not show of the lines is left out.
LEMMA ShownOrLeftOut ==
    ASSUME NEW lines, IsList(lines)
    PROVE  LET shown == First(MaxLines, lines) IN
           /\ IsList(shown) /\ ToSet(shown) \subseteq ToSet(lines)
           /\ ToSet(lines) \subseteq ToSet(shown) \cup ToSet(LeftOut(lines))
<1>1. PICK shown : shown = First(MaxLines, lines)
    OBVIOUS
<1>2. PICK max \in Nat : max = MaxLines
    BY GuardsAssumption
<1>3. PICK n \in Nat : n = Len(lines) /\ DOMAIN lines = 1..n
    BY ListLength
<1>4. PICK m \in Nat : m = Len(shown) /\ DOMAIN shown = 1..m
    BY <1>1, <1>2, FirstQuestions
<1>5. /\ IsList(shown) /\ m <= n /\ ((m = max /\ max < n) \/ shown = lines)
      /\ \A k \in 1..m : shown[k] = lines[k]
    BY <1>1, <1>2, <1>3, <1>4, FirstQuestions
<1>6. m = n \/ (m = max /\ max < n)
    BY <1>3, <1>4, <1>5
<1>7. ToSet(shown) \subseteq ToSet(lines)
    <2>1. \A k \in 1..m : k \in 1..n
        BY <1>5
    <2> QED
        BY <1>3, <1>4, <1>5, <2>1 DEF ToSet
<1>8. ASSUME NEW k \in 1..n PROVE lines[k] \in ToSet(shown) \cup ToSet(LeftOut(lines))
    <2>1. CASE k <= m
        <3>1. k \in 1..m
            BY <2>1
        <3> QED
            BY <1>4, <1>5, <3>1 DEF ToSet
    <2>2. CASE ~(k <= m)
        <3>1. PICK a \in Nat : a = max + 1
            OBVIOUS
        <3>2. 1 <= a /\ a <= n /\ a <= k /\ k - a + 1 \in 1..(n - a + 1) /\ a + (k - a + 1) - 1 = k
            BY <1>6, <2>2, <3>1
        <3>3. PICK left : left = SubSeq(lines, a, n)
            OBVIOUS
        <3>4. /\ IsList(left) /\ Len(left) = n - a + 1
              /\ \A z \in 1..(n - a + 1) : left[z] = lines[a + z - 1]
            BY <1>3, <3>2, <3>3, PartOfList
        <3>5. DOMAIN left = 1..(n - a + 1)
            BY <3>4, ListLength
        <3>6. lines[k] \in ToSet(left)
            <4>1. PICK z : z = k - a + 1
                OBVIOUS
            <4>2. z \in DOMAIN left /\ left[z] = lines[a + z - 1] /\ a + z - 1 = k
                BY <3>2, <3>4, <3>5, <4>1
            <4> QED
                BY <4>2 DEF ToSet
        <3>7. LeftOut(lines) = left
            BY <1>2, <1>3, <3>1, <3>3 DEF LeftOut
        <3> QED
            BY <3>6, <3>7
    <2> QED
        BY <2>1, <2>2
<1>9. ToSet(lines) \subseteq ToSet(shown) \cup ToSet(LeftOut(lines))
    BY <1>3, <1>8 DEF ToSet
<1> QED
    BY <1>1, <1>5, <1>7, <1>9

\* The text is the synthesis, a title and the lines that are shown.
LEMMA AnnexedText ==
    ASSUME NEW synthesis, IsList(synthesis), NEW blocks, IsList(blocks), NEW lot,
           NEW before, before = Retention(synthesis, blocks, lot), Lacking(before)
    PROVE  LET said == Annexed(synthesis, blocks, lot)
               shown == First(MaxLines, before.lines)
           IN  /\ IsList(said)
               /\ ToSet(said) = ToSet(synthesis) \cup {[mark |-> <<"#">>, tokens |-> <<>>]}
                                    \cup ToSet(shown)
<1>1. PICK lines : lines = before.lines
    OBVIOUS
<1>2. IsList(lines)
    BY <1>1, LinesOfRetention
<1>3. PICK shown : shown = First(MaxLines, lines)
    OBVIOUS
<1>4. IsList(shown)
    BY <1>2, <1>3, ShownOrLeftOut
<1>5. KeptLines(before) = shown
    BY <1>1, <1>3 DEF KeptLines, First
<1>6. PICK title : title = [mark |-> <<"#">>, tokens |-> <<>>]
    OBVIOUS
<1>7. Annexed(synthesis, blocks, lot) = (synthesis \o <<title>>) \o shown
    BY <1>5, <1>6 DEF Annexed
<1>8. IsList(synthesis \o <<title>>) /\ ToSet(synthesis \o <<title>>) = ToSet(synthesis) \cup {title}
    BY JoinedList, Single
<1>9. PICK s : s = synthesis \o <<title>>
    OBVIOUS
<1>10. IsList(s \o shown) /\ ToSet(s \o shown) = ToSet(s) \cup ToSet(shown)
    BY <1>4, <1>8, <1>9, JoinedList
<1> QED
    BY <1>1, <1>3, <1>6, <1>7, <1>8, <1>9, <1>10

\* A line of the blocks and its item say the same, unless a decimal loses its head.
LEMMA ItemSays ==
    \A line : ~Beheaded(line) => Propre(line).tokens = line.tokens
    BY DEF Propre, Item

\* Even then, all but the first token are those of the line.
LEMMA BeheadedSays ==
    ASSUME NEW line, Beheaded(line), IsList(line.tokens)
    PROVE  ToSet(Propre(line).tokens) \subseteq {Head(Propre(line).tokens)} \cup ToSet(line.tokens)
<1>1. PICK tokens : tokens = line.tokens
    OBVIOUS
<1>2. PICK x : x = [Head(tokens) EXCEPT !.whole = Head(tokens).frac, !.frac = <<>>]
    OBVIOUS
<1>3. PICK S : S = ToSet(tokens)
    OBVIOUS
<1>4. tokens \in Seq(S) /\ tokens # <<>>
    BY <1>1, <1>3 DEF IsList, Beheaded, Opens
<1>5. PICK rest : rest = Tail(tokens)
    OBVIOUS
<1>6. rest \in Seq(S)
    BY <1>4, <1>5, HeadTailProperties
<1>7. IsList(rest)
    BY <1>6, SeqIsList
<1>8. PICK n \in Nat : n = Len(rest) /\ DOMAIN rest = 1..n
    BY <1>7, ListLength
<1>9. ToSet(rest) \subseteq S
    <2>1. \A k \in 1..n : rest[k] \in S
        BY <1>6, <1>8, ElementOfSeq
    <2> QED
        BY <1>8, <2>1 DEF ToSet
<1>10. IsList(<<x>>) /\ ToSet(<<x>>) = {x} /\ Len(<<x>>) = 1 /\ <<x>>[1] = x
    BY Single
<1>11. PICK u : u = <<x>> \o rest
    OBVIOUS
<1>12. ToSet(u) = {x} \cup ToSet(rest) /\ u[1] = x /\ DOMAIN u = 1..(1 + n) /\ IsList(u)
    BY <1>7, <1>8, <1>10, <1>11, JoinedList
<1>13. Head(u) = x
    BY <1>12 DEF Head
<1>14. Propre(line).tokens = u
    BY <1>1, <1>2, <1>5, <1>11 DEF Propre, Item
<1> QED
    BY <1>1, <1>3, <1>9, <1>12, <1>13, <1>14

\* What the annex leaves missing, and what it brings.
LEMMA AnnexIsComplete ==
    ASSUME NEW synthesis, IsList(synthesis), NEW blocks, IsList(blocks), NEW lot,
           \A k \in DOMAIN blocks : IsList(blocks[k].tokens),
           NEW before, before = Retention(synthesis, blocks, lot), Lacking(before),
           NEW said, said = Annexed(synthesis, blocks, lot)
    PROVE  /\ \A k \in DOMAIN blocks :
                 Carries(blocks[k], Missing(said, blocks, lot), lot) =>
                     Beheaded(blocks[k]) \/ Propre(blocks[k]) \in ToSet(LeftOut(before.lines))
           /\ NombresHorsExtraits(said, lot) \subseteq
                 NombresHorsExtraits(synthesis \o blocks, lot) \cup Remains(blocks)
<1>1. PICK title : title = [mark |-> <<"#">>, tokens |-> <<>>]
    OBVIOUS
<1>2. PICK lines : lines = before.lines
    OBVIOUS
<1>3. PICK shown : shown = First(MaxLines, lines)
    OBVIOUS
<1>4. IsList(said) /\ ToSet(said) = ToSet(synthesis) \cup {title} \cup ToSet(shown)
    BY <1>1, <1>2, <1>3, AnnexedText
<1>5. PICK missing : missing = Missing(synthesis, blocks, lot)
    OBVIOUS
<1>6. /\ IsList(lines)
      /\ \A x : x \in ToSet(lines) <=>
            \E k \in DOMAIN blocks : Carries(blocks[k], missing, lot) /\ x = Propre(blocks[k])
    <2>1. lines = Retention(synthesis, blocks, lot).lines
        BY <1>2
    <2>2. IsList(lines) /\ \A x : x \in ToSet(lines) <=> Lacks(x, synthesis, blocks, lot)
        BY <2>1, LinesOfRetention
    <2> QED
        BY <1>5, <2>2 DEF Lacks
<1>7. PICK out : out = LeftOut(lines)
    OBVIOUS
<1>8. ToSet(shown) \subseteq ToSet(lines) /\ ToSet(lines) \subseteq ToSet(shown) \cup ToSet(out)
    BY <1>3, <1>6, <1>7, ShownOrLeftOut
<1>9. PICK left : left = Missing(said, blocks, lot)
    OBVIOUS
<1>10. left \subseteq missing
    <2>1. HoldsLines(said, synthesis)
        BY <1>4, LinesAreElements
    <2> QED
        BY <1>5, <1>9, <2>1, MissingShrinks
<1>11. ASSUME NEW k \in DOMAIN blocks, Carries(blocks[k], left, lot),
              ~Beheaded(blocks[k]), Propre(blocks[k]) \notin ToSet(out)
       PROVE  FALSE
    <2>1. PICK v \in left : v \in ValeursDe(<<blocks[k]>>, lot)
        BY <1>11 DEF Carries
    <2>2. Carries(blocks[k], missing, lot)
        BY <1>10, <1>11 DEF Carries
    <2>3. Propre(blocks[k]) \in ToSet(lines)
        BY <1>6, <2>2
    <2>4. Propre(blocks[k]) \in ToSet(said)
        BY <1>4, <1>8, <1>11, <2>3
    <2>5. PICK j \in DOMAIN said : said[j].tokens = blocks[k].tokens
        BY <1>11, <2>4, ItemSays DEF ToSet
    <2>6. Retells(said, <<blocks[k]>>)
        BY <2>5 DEF Retells
    <2>7. v \in ValeursDe(said, lot)
        BY <2>1, <2>6, ValuesGrow
    <2> QED
        BY <1>9, <2>1, <2>7 DEF Missing
<1>12. PICK whole : whole = synthesis \o blocks
    OBVIOUS
<1>13. ToSet(whole) = ToSet(synthesis) \cup ToSet(blocks)
    BY <1>12, JoinedList
<1>14. PICK remains : remains = Remains(blocks)
    OBVIOUS
<1>15. ASSUME NEW j \in DOMAIN said, NEW x \in ToSet(said[j].tokens), x \notin remains
       PROVE  \E k \in DOMAIN whole : x \in ToSet(whole[k].tokens)
    <2>1. said[j] \in ToSet(said)
        BY DEF ToSet
    <2>2. CASE said[j] \in ToSet(synthesis)
        <3>1. said[j] \in ToSet(whole)
            BY <1>13, <2>2
        <3>2. PICK k \in DOMAIN whole : whole[k] = said[j]
            BY <3>1 DEF ToSet
        <3> QED
            BY <3>2
    <2>3. CASE said[j] = title
        <3>1. said[j].tokens = <<>>
            <4>1. title.tokens = <<>>
                BY <1>1
            <4> QED
                BY <2>3, <4>1
        <3>2. ToSet(<<>>) = {}
            BY DEF ToSet
        <3> QED
            BY <3>1, <3>2
    <2>4. CASE said[j] \in ToSet(shown)
        <3>1. PICK k \in DOMAIN blocks : said[j] = Propre(blocks[k])
            BY <1>6, <1>8, <2>4
        <3>2. x \in ToSet(blocks[k].tokens)
            <4>1. CASE ~Beheaded(blocks[k])
                BY <3>1, <4>1, ItemSays
            <4>2. CASE Beheaded(blocks[k])
                <5>1. PICK line : line = blocks[k]
                    OBVIOUS
                <5>2. Head(Propre(line).tokens) \in remains
                    BY <1>14, <4>2, <5>1 DEF Remains
                <5>3. IsList(line.tokens) /\ Beheaded(line)
                    BY <4>2, <5>1
                <5>4. x \in {Head(Propre(line).tokens)} \cup ToSet(line.tokens)
                    BY <3>1, <5>1, <5>3, BeheadedSays
                <5> QED
                    BY <1>15, <5>1, <5>2, <5>4
            <4> QED
                BY <4>1, <4>2
        <3>3. blocks[k] \in ToSet(whole)
            BY <1>13 DEF ToSet
        <3>4. PICK m \in DOMAIN whole : whole[m] = blocks[k]
            BY <3>3 DEF ToSet
        <3> QED
            BY <3>2, <3>4
    <2> QED
        BY <1>4, <2>1, <2>2, <2>3, <2>4
<1>16. \A x \in Tokens(said) : x \in remains \/ x \in Tokens(whole)
    <2>1. \A x \in Tokens(said) : \E j \in DOMAIN said : x \in ToSet(said[j].tokens)
        BY DEF Tokens
    <2>2. \A x : (\E k \in DOMAIN whole : x \in ToSet(whole[k].tokens)) => x \in Tokens(whole)
        BY DEF Tokens
    <2> QED
        BY <1>15, <2>1, <2>2
<1>17. NombresHorsExtraits(said, lot) \subseteq NombresHorsExtraits(whole, lot) \cup remains
    BY <1>16 DEF NombresHorsExtraits, Numbers
<1> QED
    BY <1>2, <1>7, <1>9, <1>11, <1>12, <1>14, <1>17

-----------------------------------------------------------------------------
(* 3. The questions. *)

\* A list that asks about the reasons of a set and no other, twice only in the same
\* words as a coordinated pair.
AskedList(t, reasons, pairs) ==
    /\ IsList(t)
    /\ \A k \in DOMAIN t : \E r \in reasons : AsksFor(t[k], r, pairs)
    /\ \A r \in reasons : \E k \in DOMAIN t : AsksFor(t[k], r, pairs)
    /\ \A j, k \in DOMAIN t : j # k /\ t[j] = t[k] => Joins(t[j], pairs)

LEMMA AskedNone == \A pairs : AskedList(<<>>, {}, pairs)
<1>1. DOMAIN <<>> = {} /\ IsList(<<>>)
    BY EmptySeq DEF ToSet, IsList
<1> QED
    BY <1>1 DEF AskedList

\* One more name: when it is a reason already asked about, it is also that of a pair.
LEMMA AskedMore ==
    ASSUME NEW t, NEW reasons, NEW pairs, AskedList(t, reasons, pairs),
           NEW x, NEW more, more # {}, \A r \in more : AsksFor(x, r, pairs),
           x \in reasons => Joins(x, pairs)
    PROVE  AskedList(<<x>> \o t, more \cup reasons, pairs)
<1>1. PICK u : u = <<x>> \o t
    OBVIOUS
<1>2. IsList(t) /\ IsList(<<x>>) /\ Len(<<x>>) = 1 /\ <<x>>[1] = x
    BY Single DEF AskedList
<1>3. PICK n \in Nat : n = Len(t) /\ DOMAIN t = 1..n
    BY <1>2, ListLength
<1>4. /\ IsList(u) /\ DOMAIN u = 1..(1 + n) /\ u[1] = x
      /\ \A k \in 1..n : u[1 + k] = t[k]
    BY <1>1, <1>2, <1>3, JoinedList
<1>5. ASSUME NEW k \in 1..(1 + n), k # 1 PROVE k - 1 \in 1..n /\ u[k] = t[k - 1]
    <2>1. k - 1 \in 1..n /\ 1 + (k - 1) = k
        BY <1>5
    <2> QED
        BY <1>4, <2>1
<1>6. ASSUME NEW k \in 1..(1 + n) PROVE \E r \in more \cup reasons : AsksFor(u[k], r, pairs)
    <2>1. CASE k = 1
        BY <1>4, <2>1
    <2>2. CASE k # 1
        BY <1>3, <1>5, <2>2 DEF AskedList
    <2> QED
        BY <2>1, <2>2
<1>7. ASSUME NEW r \in more \cup reasons PROVE \E k \in 1..(1 + n) : AsksFor(u[k], r, pairs)
    <2>1. CASE r \in more
        <3>1. 1 \in 1..(1 + n)
            OBVIOUS
        <3> QED
            BY <1>4, <2>1, <3>1
    <2>2. CASE r \in reasons
        <3>1. PICK k \in 1..n : AsksFor(t[k], r, pairs)
            BY <1>3, <2>2 DEF AskedList
        <3>2. 1 + k \in 1..(1 + n)
            OBVIOUS
        <3> QED
            BY <1>4, <3>1, <3>2
    <2> QED
        BY <2>1, <2>2
<1>8. ASSUME NEW k \in 1..(1 + n), k # 1, u[k] = x PROVE Joins(x, pairs)
    <2>1. PICK r \in reasons : AsksFor(x, r, pairs)
        BY <1>3, <1>5, <1>8 DEF AskedList
    <2> QED
        BY <2>1 DEF AsksFor, Joins
<1>9. ASSUME NEW j \in 1..(1 + n), NEW k \in 1..(1 + n), j # k, u[j] = u[k]
      PROVE  Joins(u[j], pairs)
    <2>1. CASE j = 1
        BY <1>4, <1>8, <1>9, <2>1
    <2>2. CASE k = 1
        BY <1>4, <1>8, <1>9, <2>2
    <2>3. CASE j # 1 /\ k # 1
        <3>1. j - 1 # k - 1
            BY <1>9
        <3> QED
            BY <1>3, <1>5, <1>9, <2>3, <3>1 DEF AskedList
    <2> QED
        BY <2>1, <2>2, <2>3
<1> QED
    BY <1>1, <1>4, <1>6, <1>7, <1>9 DEF AskedList

\* The reasons that are kept, each once and without the generic ones.
LEMMA ThemedOnce ==
    ASSUME NEW names, IsList(names),
           NEW kept, kept = Themed(Distinct(names))
    PROVE  /\ IsList(kept) /\ ToSet(kept) = ToSet(names) \ Generic
           /\ \A j, k \in DOMAIN kept : j # k => kept[j] # kept[k]
<1>1. PICK S : S = ToSet(names)
    OBVIOUS
<1>2. PICK d \in Seq(S) : d = Distinct(names)
    BY <1>1, DistinctElements DEF IsList
<1>3. ToSet(d) = S /\ \A j, k \in DOMAIN d : j # k => d[j] # d[k]
    BY <1>1, <1>2, DistinctElements DEF IsList
<1>4. PICK ok : ok = [k \in DOMAIN d |-> d[k] \notin Generic]
    OBVIOUS
<1>5. kept = Selected(d, ok)
    BY <1>2, <1>4 DEF Themed
<1>6. kept \in Seq(S) /\ \E h : Picks(kept, h, d, ok, Len(d))
    BY <1>5, SelectedPicks
<1>7. PICK h : Picks(kept, h, d, ok, Len(d))
    BY <1>6
<1>8. /\ DOMAIN d = 1..Len(d) /\ Len(d) \in Nat
      /\ DOMAIN kept = 1..Len(kept) /\ Len(kept) \in Nat
    BY <1>2, <1>6, LenProperties
<1>9. \A j \in DOMAIN kept : h[j] \in DOMAIN d /\ kept[j] = d[h[j]] /\ kept[j] \notin Generic
    <2>1. \A j \in DOMAIN kept : h[j] \in DOMAIN d /\ kept[j] = d[h[j]] /\ ok[h[j]]
        BY <1>7, <1>8 DEF Picks
    <2> QED
        BY <1>4, <2>1
<1>10. ToSet(kept) = S \ Generic
    <2>1. ASSUME NEW x \in S \ Generic PROVE x \in ToSet(kept)
        <3>1. PICK m \in DOMAIN d : x = d[m]
            BY <1>3 DEF ToSet
        <3>2. ok[m] /\ m \in 1..Len(d)
            BY <1>4, <1>8, <3>1
        <3>3. PICK j \in 1..Len(kept) : h[j] = m
            BY <1>7, <3>2, Zenon DEF Picks
        <3> QED
            BY <1>8, <1>9, <3>1, <3>3 DEF ToSet
    <2>2. \A j \in DOMAIN kept : kept[j] \in S
        BY <1>3, <1>9 DEF ToSet
    <2> QED
        BY <1>9, <2>1, <2>2 DEF ToSet
<1>11. \A j, k \in DOMAIN kept : j # k => h[j] # h[k]
    <2>1. \A j, k \in DOMAIN kept : j < k => h[j] < h[k]
        BY <1>7, <1>8 DEF Picks
    <2>2. \A j, k \in DOMAIN kept : j # k => j < k \/ k < j
        BY <1>8
    <2>3. \A j \in DOMAIN kept : h[j] \in Nat
        BY <1>8, <1>9
    <2> QED
        BY <2>1, <2>2, <2>3
<1>13. \A j, k \in DOMAIN kept : j # k => kept[j] # kept[k]
    BY <1>3, <1>9, <1>11
<1>14. IsList(kept)
    <2>1. kept \in [1..Len(kept) -> S]
        BY <1>6, LenProperties
    <2>2. kept \in [1..Len(kept) -> ToSet(kept)]
        BY <2>1 DEF ToSet
    <2>3. kept \in Seq(ToSet(kept))
        BY <1>8, <2>2, Listed
    <2> QED
        BY <2>3 DEF IsList
<1> QED
    BY <1>1, <1>10, <1>13, <1>14

\* The groups from the i-th name on, f giving those of the names that follow.
GroupsFrom(f, names, pairs, z, none) ==
    IF z > Len(names) THEN none
    ELSE IF z < Len(names) /\ <<names[z], names[z + 1]>> \in pairs
         THEN <<names[z] \o names[z + 1]>> \o f[z + 2]
         ELSE <<names[z]>> \o f[z + 1]

LEMMA GroupsFromSame ==
    ASSUME NEW f, NEW g, NEW names, NEW pairs, NEW z, NEW none,
           z <= Len(names) => g[z + 1] = f[z + 1] /\ g[z + 2] = f[z + 2],
           Len(names) \in Nat, z \in Nat
    PROVE  GroupsFrom(g, names, pairs, z, none) = GroupsFrom(f, names, pairs, z, none)
<1>1. CASE z > Len(names)
    BY <1>1 DEF GroupsFrom
<1>2. CASE ~(z > Len(names))
    <2>1. g[z + 1] = f[z + 1] /\ g[z + 2] = f[z + 2]
        BY <1>2
    <2> QED
        BY <2>1 DEF GroupsFrom
<1> QED
    BY <1>1, <1>2

\* The groups of every end of the list: the recursion goes up, so the function is built
\* from the last name down.
LEMMA GroupingUnfolds ==
    ASSUME NEW names, IsList(names), NEW pairs, NEW L \in Nat, L = Len(names),
           NEW none, none = <<>>
    PROVE  \E f : /\ Grouping(names, pairs, 2) = f[1]
                  /\ \A z \in 1..(L + 2) : f[z] = GroupsFrom(f, names, pairs, z, none)
<1> DEFINE Fits(f, a) == f = [z \in a..(L + 2) |-> GroupsFrom(f, names, pairs, z, none)]
<1>1. PICK Good : Good = {m \in Nat : m <= L => \E f : Fits(f, L + 1 - m)}
    OBVIOUS
<1>2. 0 \in Good
    <2>1. PICK f : f = [z \in (L + 1)..(L + 2) |-> none]
        OBVIOUS
    <2>2. \A z \in (L + 1)..(L + 2) : GroupsFrom(f, names, pairs, z, none) = none
        BY DEF GroupsFrom
    <2>3. f = [z \in (L + 1)..(L + 2) |-> GroupsFrom(f, names, pairs, z, none)]
        BY <2>1, <2>2
    <2>4. L + 1 - 0 = L + 1
        OBVIOUS
    <2> QED
        BY <1>1, <2>3, <2>4
<1>3. ASSUME NEW m \in Nat, m \in Good PROVE m + 1 \in Good
    <2> SUFFICES ASSUME m + 1 <= L PROVE \E g : Fits(g, L + 1 - (m + 1))
        BY <1>1
    <2>0. PICK a : a = L + 1 - m
        OBVIOUS
    <2>1. a \in 2..(L + 1) /\ a = L + 1 - m
        BY <2>0
    <2>2. L + 1 - (m + 1) = a - 1 /\ m <= L
        BY <2>1
    <2>3. PICK f : Fits(f, L + 1 - m)
        BY <1>1, <1>3, <2>2
    <2>4. \A z \in a..(L + 2) : f[z] = GroupsFrom(f, names, pairs, z, none)
        BY <2>1, <2>3
    <2>5. PICK g : g = [z \in (a - 1)..(L + 2) |->
                           IF z = a - 1 THEN GroupsFrom(f, names, pairs, z, none) ELSE f[z]]
        OBVIOUS
    <2>6. \A z \in a..(L + 2) : g[z] = f[z]
        BY <2>1, <2>5
    <2>7. ASSUME NEW z \in (a - 1)..(L + 2)
          PROVE  GroupsFrom(g, names, pairs, z, none) = GroupsFrom(f, names, pairs, z, none)
        <3>1. z <= L => z + 1 \in a..(L + 2) /\ z + 2 \in a..(L + 2)
            BY <2>1
        <3>2. z \in Nat
            BY <2>1
        <3> QED
            BY <2>6, <3>1, <3>2, GroupsFromSame
    <2>8. ASSUME NEW z \in (a - 1)..(L + 2)
          PROVE  g[z] = GroupsFrom(g, names, pairs, z, none)
        <3>1. CASE z = a - 1
            BY <2>5, <2>7, <3>1
        <3>2. CASE z # a - 1
            <4>1. z \in a..(L + 2)
                BY <2>1, <3>2
            <4> QED
                BY <2>4, <2>6, <2>7, <4>1
        <3> QED
            BY <3>1, <3>2
    <2>9. g = [z \in (a - 1)..(L + 2) |-> GroupsFrom(g, names, pairs, z, none)]
        <3>1. g = [z \in (a - 1)..(L + 2) |-> g[z]]
            BY <2>5
        <3> QED
            BY <2>8, <3>1
    <2> QED
        BY <2>2, <2>9
<1>4. L \in Good
    BY <1>2, <1>3, NatSetInduction
<1>5. PICK f : Fits(f, 1)
    <2>1. L + 1 - L = 1
        OBVIOUS
    <2> QED
        BY <1>1, <1>4, <2>1
<1> DEFINE F(g) == [z \in 1..(Len(names) + 2) |->
                       IF z > Len(names) THEN <<>>
                       ELSE IF z < Len(names) /\ <<names[z], names[z + 1]>> \in pairs
                            THEN <<names[z] \o names[z + 1]>> \o g[z + 2]
                            ELSE <<names[z]>> \o g[z + 1]]
           groups == CHOOSE g : g = F(g)
<1>6. f = F(f)
    BY <1>5 DEF GroupsFrom
<1>7. groups = F(groups)
    BY <1>6, Zenon
<1>8. Grouping(names, pairs, 2) = groups[1]
    BY DEF Grouping
<1> HIDE DEF groups
<1>9. \A z \in 1..(L + 2) : groups[z] = GroupsFrom(groups, names, pairs, z, none)
    BY <1>7 DEF GroupsFrom
<1> QED
    BY <1>8, <1>9

\* Grouping asks about every reason.
LEMMA RegroupedAsks ==
    ASSUME NEW names, IsList(names), \A j, k \in DOMAIN names : j # k => names[j] # names[k],
           NEW reasons, ToSet(names) = reasons,
           NEW coordinated, NEW pairs, pairs = coordinated \cap (reasons \X reasons)
    PROVE  AskedList(Regrouped(names, coordinated), reasons, pairs)
<1>1. PICK L \in Nat : L = Len(names) /\ DOMAIN names = 1..L
    BY ListLength
<1>2. PICK none : none = <<>>
    OBVIOUS
<1>3. PICK f : /\ Grouping(names, coordinated, 2) = f[1]
               /\ \A z \in 1..(L + 2) : f[z] = GroupsFrom(f, names, coordinated, z, none)
    BY <1>1, <1>2, GroupingUnfolds
<1> DEFINE From(z) == {names[k] : k \in z..L}
<1>4. \A z \in 1..L : From(z) = {names[z]} \cup From(z + 1)
    <2>1. \A z \in 1..L : z..L = {z} \cup (z + 1)..L
        OBVIOUS
    <2> QED
        BY <2>1
<1>5. \A z \in 1..L : names[z] \notin From(z + 1)
    <2>1. \A z \in 1..L : \A k \in (z + 1)..L : k \in 1..L /\ k # z
        OBVIOUS
    <2> QED
        BY <1>1, <2>1
<1>6. From(1) = reasons
    BY <1>1 DEF ToSet
<1>7. From(L + 1) = {} /\ From(L + 2) = {}
    OBVIOUS
<1> DEFINE Good == {m \in Nat : m <= L + 1 =>
                       \A z \in (L + 2 - m)..(L + 2) : AskedList(f[z], From(z), pairs)}
<1> HIDE DEF From
<1>8. AskedList(f[L + 1], From(L + 1), pairs) /\ AskedList(f[L + 2], From(L + 2), pairs)
    <2>1. L + 1 \in 1..(L + 2) /\ L + 2 \in 1..(L + 2) /\ L + 1 > L /\ L + 2 > L
        OBVIOUS
    <2>2. /\ f[L + 1] = GroupsFrom(f, names, coordinated, L + 1, none)
          /\ f[L + 2] = GroupsFrom(f, names, coordinated, L + 2, none)
        BY <1>3, <2>1
    <2>3. f[L + 1] = <<>> /\ f[L + 2] = <<>>
        BY <1>1, <1>2, <2>1, <2>2 DEF GroupsFrom
    <2> QED
        BY <1>7, <2>3, AskedNone
<1>9. 0 \in Good
    <2>1. \A z \in (L + 2 - 0)..(L + 2) : z = L + 2
        OBVIOUS
    <2> QED
        BY <1>8, <2>1
<1>10. ASSUME NEW m \in Nat, m \in Good PROVE m + 1 \in Good
    <2> SUFFICES ASSUME m + 1 <= L + 1, NEW z \in (L + 2 - (m + 1))..(L + 2)
                 PROVE  AskedList(f[z], From(z), pairs)
        OBVIOUS
    <2>1. m <= L + 1
        OBVIOUS
    <2>2. \A k \in (L + 2 - m)..(L + 2) : AskedList(f[k], From(k), pairs)
        BY <1>10, <2>1
    <2> HIDE DEF Good
    <2>3. CASE z >= L + 1
        <3>1. z = L + 1 \/ z = L + 2
            BY <2>3
        <3> QED
            BY <1>8, <3>1
    <2>4. CASE z \in 1..L /\ z = L + 1 - m
        <3>1. CASE z < L /\ <<names[z], names[z + 1]>> \in coordinated
            <4>1. z \in 1..(L + 2) /\ z + 1 \in 1..L /\ z + 2 \in (L + 2 - m)..(L + 2)
                  /\ (z + 1) + 1 = z + 2 /\ ~(z > L)
                BY <2>4, <3>1
            <4>2. PICK x : x = names[z] \o names[z + 1]
                OBVIOUS
            <4>3. f[z] = <<x>> \o f[z + 2]
                BY <1>1, <1>3, <3>1, <4>1, <4>2 DEF GroupsFrom
            <4>4. names[z] \in reasons /\ names[z + 1] \in reasons
                BY <1>1, <2>4, <4>1 DEF ToSet
            <4>5. PICK p \in pairs : p = <<names[z], names[z + 1]>>
                BY <3>1, <4>4
            <4>6. p[1] = names[z] /\ p[2] = names[z + 1] /\ x = p[1] \o p[2]
                BY <4>2, <4>5
            <4>7. PICK more : more = {names[z], names[z + 1]}
                OBVIOUS
            <4>8. Joins(x, pairs) /\ (\A r \in more : AsksFor(x, r, pairs)) /\ more # {}
                BY <4>6, <4>7 DEF Joins, AsksFor
            <4>9. AskedList(f[z + 2], From(z + 2), pairs)
                BY <2>2, <4>1
            <4>10. From(z) = {names[z]} \cup From(z + 1)
                   /\ From(z + 1) = {names[z + 1]} \cup From(z + 2)
                BY <1>4, <2>4, <4>1
            <4>11. From(z) = more \cup From(z + 2)
                BY <4>7, <4>10
            <4>12. AskedList(<<x>> \o f[z + 2], more \cup From(z + 2), pairs)
                BY <4>8, <4>9, AskedMore
            <4> QED
                BY <4>3, <4>11, <4>12
        <3>2. CASE ~(z < L /\ <<names[z], names[z + 1]>> \in coordinated)
            <4>1. z \in 1..(L + 2) /\ z + 1 \in (L + 2 - m)..(L + 2)
                BY <2>4
            <4>2. f[z] = <<names[z]>> \o f[z + 1]
                <5>1. ~(z > Len(names)) /\ f[z] = GroupsFrom(f, names, coordinated, z, none)
                    BY <1>1, <1>3, <2>4, <4>1
                <5>2. ~(z < Len(names) /\ <<names[z], names[z + 1]>> \in coordinated)
                    BY <1>1, <3>2
                <5> QED
                    BY <5>1, <5>2, Zenon DEF GroupsFrom
            <4>3. PICK x : x = names[z]
                OBVIOUS
            <4>4. PICK more : more = {x}
                OBVIOUS
            <4>5. (\A r \in more : AsksFor(x, r, pairs)) /\ more # {}
                BY <4>4 DEF AsksFor
            <4>6. From(z) = more \cup From(z + 1) /\ x \notin From(z + 1)
                BY <1>4, <1>5, <2>4, <4>3, <4>4
            <4>7. AskedList(f[z + 1], From(z + 1), pairs)
                BY <2>2, <4>1
            <4>8. AskedList(<<x>> \o f[z + 1], more \cup From(z + 1), pairs)
                BY <4>5, <4>6, <4>7, AskedMore
            <4> QED
                BY <4>2, <4>3, <4>6, <4>8
        <3> QED
            BY <3>1, <3>2
    <2>5. CASE z \in 1..L /\ z # L + 1 - m
        <3>1. z \in (L + 2 - m)..(L + 2)
            BY <2>5
        <3> QED
            BY <2>2, <3>1
    <2>6. z >= L + 1 \/ z \in 1..L
        OBVIOUS
    <2> QED
        BY <2>3, <2>4, <2>5, <2>6
<1>11. L + 1 \in Good
    <2> HIDE DEF Good
    <2> QED
        BY <1>9, <1>10, NatSetInduction
<1>12. AskedList(f[1], From(1), pairs)
    <2>1. L + 2 - (L + 1) = 1 /\ 1 \in 1..(L + 2)
        OBVIOUS
    <2> QED
        BY <1>11, <2>1
<1> QED
    BY <1>3, <1>6, <1>12 DEF Regrouped

LEMMA ListedBy ==
    ASSUME NEW n \in Nat, NEW f, f = [k \in 1..n |-> f[k]]
    PROVE  IsList(f) /\ Len(f) = n /\ DOMAIN f = 1..n
<1>1. f \in [1..n -> ToSet(f)]
    BY DEF ToSet
<1> QED
    BY <1>1, Listed DEF IsList

\* The questions of one kind.
OfKind(s, kind) == IsList(s) /\ \A k \in DOMAIN s : s[k].kind = kind

LEMMA ObjectQuestions ==
    ASSUME NEW a PROVE OfKind(OnObject(a), "object")
<1>1. CASE a.object = Nothing
    <2>1. IsList(<<>>) /\ DOMAIN <<>> = {}
        BY EmptySeq DEF IsList
    <2> QED
        BY <1>1, <2>1 DEF OnObject, OfKind
<1>2. CASE a.object # Nothing
    <2>1. PICK n : n = Gabarits(a.type)
        OBVIOUS
    <2>2. n \in Nat
        BY <2>1, QuestionsAssumption DEF Gabarits
    <2>3. PICK q : q = Question("object", a.object, ObjectItems(a))
        OBVIOUS
    <2>4. q.kind = "object"
        BY <2>3 DEF Question
    <2>5. PICK s : s = [k \in 1..n |-> q]
        OBVIOUS
    <2>6. IsList(s) /\ DOMAIN s = 1..n
        BY <2>2, <2>5, ListedBy
    <2>7. OnObject(a) = s
        BY <1>2, <2>1, <2>3, <2>5 DEF OnObject
    <2> QED
        BY <2>4, <2>5, <2>6, <2>7 DEF OfKind
<1> QED
    BY <1>1, <1>2

LEMMA MotifQuestions ==
    ASSUME NEW a, IsList(a.motifs)
    PROVE  /\ OfKind(OnMotifs(a), "motif") /\ DOMAIN OnMotifs(a) = DOMAIN a.motifs
           /\ \A k \in DOMAIN a.motifs : OnMotifs(a)[k].name = a.motifs[k]
<1>1. PICK n \in Nat : n = Len(a.motifs) /\ DOMAIN a.motifs = 1..n
    BY ListLength
<1>2. PICK s : s = [k \in 1..n |-> Question("motif", a.motifs[k], MotifItems(a, k))]
    OBVIOUS
<1>3. IsList(s) /\ DOMAIN s = 1..n
    BY <1>2, ListedBy
<1>4. OnMotifs(a) = s
    BY <1>1, <1>2 DEF OnMotifs
<1>5. \A k \in 1..n : s[k].kind = "motif" /\ s[k].name = a.motifs[k]
    BY <1>2 DEF Question
<1> QED
    BY <1>1, <1>3, <1>4, <1>5 DEF OfKind

LEMMA AspectQuestions ==
    ASSUME NEW a, IsList(a.aspects)
    PROVE  OfKind(OnAspects(a), "aspect")
<1>1. CASE a.object = Nothing
    <2>1. IsList(<<>>) /\ DOMAIN <<>> = {}
        BY EmptySeq DEF IsList
    <2> QED
        BY <1>1, <2>1 DEF OnAspects, OfKind
<1>2. CASE a.object # Nothing
    <2>1. PICK n \in Nat : n = Len(a.aspects) /\ DOMAIN a.aspects = 1..n
        BY ListLength
    <2>2. PICK s : s = [k \in 1..n |-> Question("aspect", a.aspects[k], AspectItems(a, k))]
        OBVIOUS
    <2>3. IsList(s) /\ DOMAIN s = 1..n
        BY <2>2, ListedBy
    <2>4. OnAspects(a) = s
        BY <1>2, <2>1, <2>2 DEF OnAspects
    <2>5. \A k \in 1..n : s[k].kind = "aspect"
        BY <2>2 DEF Question
    <2> QED
        BY <2>3, <2>4, <2>5 DEF OfKind
<1> QED
    BY <1>1, <1>2

\* What the analysis leaves to ask about.
LEMMA AnalysedLists ==
    ASSUME NEW reply, IsList(reply.motifs), IsList(reply.aspects),
           NEW coordinated, NEW a, a = Analysed(reply, coordinated),
           NEW reasons, reasons = ToSet(reply.motifs) \ Generic,
           NEW pairs, pairs = coordinated \cap (reasons \X reasons)
    PROVE  AskedList(a.motifs, reasons, pairs) /\ IsList(a.aspects)
<1>1. PICK kept : kept = Themed(Distinct(reply.motifs))
    OBVIOUS
<1>2. /\ IsList(kept) /\ ToSet(kept) = reasons
      /\ \A j, k \in DOMAIN kept : j # k => kept[j] # kept[k]
    BY <1>1, ThemedOnce
<1>3. AskedList(Regrouped(kept, coordinated), reasons, pairs)
    BY <1>2, RegroupedAsks
<1>4. PICK S : S = ToSet(reply.aspects)
    OBVIOUS
<1>5. PICK d \in Seq(S) : d = Distinct(reply.aspects)
    BY <1>4, DistinctElements DEF IsList
<1>6. PICK new : new = [k \in DOMAIN d |-> ~Redit(d[k], reply.object)]
    OBVIOUS
<1>7. Selected(d, new) \in Seq(S)
    BY SelectedElements
<1>8. IsList(NewAspects(d, reply.object))
    BY <1>6, <1>7, SeqIsList DEF NewAspects
<1>9. a.motifs = Regrouped(kept, coordinated) /\ a.aspects = NewAspects(d, reply.object)
    BY <1>1, <1>5 DEF Analysed
<1> QED
    BY <1>3, <1>8, <1>9

\* Where the questions of each kind are.
Placed(questions, A, B, C, motifs) ==
    /\ Len(questions) = A + B + C /\ DOMAIN questions = 1..(A + B + C)
    /\ \A k \in 1..A : questions[k].kind = "object"
    /\ \A k \in (A + 1)..(A + B) : questions[k].kind = "aspect"
    /\ \A k \in (A + B + 1)..(A + B + C) :
          questions[k].kind = "motif" /\ questions[k].name = motifs[k - (A + B)]

\* All that could be asked, and how many of the aspects have a place.
LEMMA ComposedOf ==
    ASSUME NEW a, IsList(a.motifs), IsList(a.aspects)
    PROVE  \E questions : \E A, B, C \in Nat :
               /\ IsList(questions) /\ Composer(a) = First(MaxQuestions, questions)
               /\ Placed(questions, A, B, C, a.motifs)
               /\ DOMAIN a.motifs = 1..C
               /\ B = 0 \/ A + B + C <= MaxQuestions
<1>1. PICK o : o = OnObject(a)
    OBVIOUS
<1>2. PICK q : q = OnMotifs(a)
    OBVIOUS
<1>3. OfKind(o, "object")
    BY <1>1, ObjectQuestions
<1>4. PICK A \in Nat : A = Len(o) /\ DOMAIN o = 1..A
    BY <1>3, ListLength DEF OfKind
<1>5. /\ OfKind(q, "motif") /\ DOMAIN q = DOMAIN a.motifs
      /\ \A k \in DOMAIN a.motifs : q[k].name = a.motifs[k]
    BY <1>2, MotifQuestions
<1>6. PICK C \in Nat : C = Len(q) /\ DOMAIN q = 1..C
    BY <1>5, ListLength DEF OfKind
<1>7. PICK room : room = Max({0, Room(o, q)})
    OBVIOUS
<1>8. Room(o, q) = MaxQuestions - A - C /\ MaxQuestions \in Nat
    BY <1>4, <1>6, QuestionsAssumption DEF Room
<1>9. room \in Nat /\ (room = 0 \/ room = MaxQuestions - A - C)
    BY <1>7, <1>8 DEF Max
<1>10. PICK all : all = OnAspects(a)
    OBVIOUS
<1>11. OfKind(all, "aspect")
    BY <1>10, AspectQuestions
<1>12. PICK p : p = First(room, all)
    OBVIOUS
<1>13. PICK B \in Nat : B = Len(p) /\ B <= room /\ DOMAIN p = 1..B /\ IsList(p)
    BY <1>9, <1>11, <1>12, FirstQuestions DEF OfKind
<1>14. \A k \in 1..B : p[k].kind = "aspect"
    <2>1. /\ \A k \in DOMAIN p : p[k] = all[k]
          /\ Len(p) <= Len(all) /\ DOMAIN all = 1..Len(all) /\ Len(all) \in Nat
        BY <1>9, <1>11, <1>12, FirstQuestions, ListLength DEF OfKind
    <2>2. \A k \in 1..B : k \in DOMAIN all
        BY <1>13, <2>1
    <2> QED
        BY <1>11, <1>13, <2>1, <2>2 DEF OfKind
<1>15. PICK op : op = o \o p
    OBVIOUS
<1>16. /\ IsList(op) /\ Len(op) = A + B
       /\ \A k \in 1..A : op[k] = o[k]
       /\ \A k \in 1..B : op[A + k] = p[k]
    BY <1>3, <1>4, <1>13, <1>15, JoinedList DEF OfKind
<1>17. PICK questions : questions = op \o q
    OBVIOUS
<1>18. /\ IsList(questions) /\ Len(questions) = A + B + C /\ DOMAIN questions = 1..(A + B + C)
       /\ \A k \in 1..(A + B) : questions[k] = op[k]
       /\ \A k \in 1..C : questions[(A + B) + k] = q[k]
    <2>1. PICK n \in Nat : n = A + B
        OBVIOUS
    <2>2. IsList(op) /\ IsList(q) /\ Len(op) = n /\ Len(q) = C
        BY <1>5, <1>6, <1>16, <2>1 DEF OfKind
    <2>3. /\ IsList(questions) /\ Len(questions) = n + C /\ DOMAIN questions = 1..(n + C)
          /\ \A k \in 1..n : questions[k] = op[k]
          /\ \A k \in 1..C : questions[n + k] = q[k]
        BY <1>17, <2>2, JoinedList
    <2> QED
        BY <2>1, <2>3
<1>19. Placed(questions, A, B, C, a.motifs)
    <2>1. \A k \in 1..A : questions[k].kind = "object"
        BY <1>3, <1>4, <1>16, <1>18 DEF OfKind
    <2>2. ASSUME NEW k \in (A + 1)..(A + B) PROVE questions[k].kind = "aspect"
        <3>1. PICK z : z = k - A
            OBVIOUS
        <3>2. z \in 1..B /\ A + z = k /\ k \in 1..(A + B)
            BY <3>1
        <3>3. questions[k] = op[k] /\ op[A + z] = p[z] /\ p[z].kind = "aspect"
            BY <1>14, <1>16, <1>18, <3>2
        <3> QED
            BY <3>2, <3>3
    <2>3. ASSUME NEW k \in (A + B + 1)..(A + B + C)
          PROVE  questions[k].kind = "motif" /\ questions[k].name = a.motifs[k - (A + B)]
        <3>1. k - (A + B) \in 1..C /\ (A + B) + (k - (A + B)) = k
            OBVIOUS
        <3>2. questions[k] = q[k - (A + B)]
            BY <1>18, <3>1
        <3> QED
            BY <1>5, <1>6, <3>1, <3>2 DEF OfKind
    <2> QED
        BY <1>18, <2>1, <2>2, <2>3 DEF Placed
<1>20. Composer(a) = First(MaxQuestions, questions)
    BY <1>1, <1>2, <1>7, <1>10, <1>12, <1>15, <1>17 DEF Composer
<1>21. B = 0 \/ A + B + C <= MaxQuestions
    BY <1>8, <1>9, <1>13
<1> QED
    BY <1>5, <1>6, <1>18, <1>19, <1>20, <1>21

\* The facts of MotivesAreAsked, of any list of questions.
Motifs(questions) == {k \in DOMAIN questions : questions[k].kind = "motif"}
Asked(questions, reasons, pairs) ==
    /\ Len(questions) <= MaxQuestions
    /\ \A j, k \in Motifs(questions) :
          j # k /\ questions[j].name = questions[k].name => Joins(questions[j].name, pairs)
    /\ \A k \in Motifs(questions) : \E r \in reasons : AsksFor(questions[k].name, r, pairs)
    /\ (\E r \in reasons : \A k \in Motifs(questions) : ~AsksFor(questions[k].name, r, pairs)) =>
          Len(questions) = MaxQuestions /\ \A k \in DOMAIN questions : questions[k].kind # "aspect"

LEMMA MotifsAreAsked ==
    ASSUME NEW a, IsList(a.aspects), NEW reasons, NEW pairs, AskedList(a.motifs, reasons, pairs)
    PROVE  Asked(Composer(a), reasons, pairs)
<1>1. IsList(a.motifs)
    BY DEF AskedList
<1>2. PICK questions : \E A, B, C \in Nat :
               /\ IsList(questions) /\ Composer(a) = First(MaxQuestions, questions)
               /\ Placed(questions, A, B, C, a.motifs)
               /\ DOMAIN a.motifs = 1..C
               /\ B = 0 \/ A + B + C <= MaxQuestions
    BY <1>1, ComposedOf
<1>3. PICK A \in Nat, B \in Nat, C \in Nat :
               /\ IsList(questions) /\ Composer(a) = First(MaxQuestions, questions)
               /\ Placed(questions, A, B, C, a.motifs)
               /\ DOMAIN a.motifs = 1..C
               /\ B = 0 \/ A + B + C <= MaxQuestions
    BY <1>2
<1>4. PICK s : s = Composer(a)
    OBVIOUS
<1>5. /\ DOMAIN s = 1..Len(s) /\ Len(s) \in Nat /\ Len(s) <= MaxQuestions /\ Len(s) <= Len(questions)
      /\ (Len(s) = MaxQuestions /\ MaxQuestions < Len(questions)) \/ s = questions
      /\ \A k \in DOMAIN s : s[k] = questions[k]
    BY <1>3, <1>4, FirstQuestions, QuestionsAssumption
<1>6. /\ Len(questions) = A + B + C /\ DOMAIN questions = 1..(A + B + C)
      /\ \A k \in 1..A : questions[k].kind = "object"
      /\ \A k \in (A + 1)..(A + B) : questions[k].kind = "aspect"
      /\ \A k \in (A + B + 1)..(A + B + C) :
            questions[k].kind = "motif" /\ questions[k].name = a.motifs[k - (A + B)]
    BY <1>3 DEF Placed
<1>7. \A k \in DOMAIN s : k \in 1..(A + B + C)
    BY <1>5, <1>6
<1>8. ASSUME NEW k \in Motifs(s)
      PROVE  k \in Nat /\ k - (A + B) \in 1..C /\ s[k].name = a.motifs[k - (A + B)]
    <2>1. k \in DOMAIN s /\ s[k].kind = "motif"
        BY DEF Motifs
    <2>2. k \notin 1..A /\ k \notin (A + 1)..(A + B)
        BY <1>5, <1>6, <2>1
    <2>3. k \in (A + B + 1)..(A + B + C)
        BY <1>7, <2>1, <2>2
    <2> QED
        BY <1>5, <1>6, <2>1, <2>3
<1>9. ASSUME NEW j \in Motifs(s), NEW k \in Motifs(s), j # k, s[j].name = s[k].name
      PROVE  Joins(s[j].name, pairs)
    <2>1. PICK y : y = j - (A + B)
        OBVIOUS
    <2>2. PICK z : z = k - (A + B)
        OBVIOUS
    <2>3. y \in 1..C /\ s[j].name = a.motifs[y] /\ z \in 1..C /\ s[k].name = a.motifs[z] /\ y # z
        BY <1>8, <1>9, <2>1, <2>2
    <2> QED
        BY <1>3, <1>9, <2>3 DEF AskedList
<1>10. ASSUME NEW k \in Motifs(s) PROVE \E r \in reasons : AsksFor(s[k].name, r, pairs)
    BY <1>3, <1>8 DEF AskedList
<1>13. ASSUME s = questions, NEW r \in reasons PROVE \E k \in Motifs(s) : AsksFor(s[k].name, r, pairs)
    <2>1. PICK z \in 1..C : AsksFor(a.motifs[z], r, pairs)
        BY <1>3 DEF AskedList
    <2>2. PICK k : k = (A + B) + z
        OBVIOUS
    <2>3. k \in (A + B + 1)..(A + B + C) /\ k - (A + B) = z /\ k \in 1..(A + B + C)
        BY <2>2
    <2>4. k \in DOMAIN s /\ s[k].kind = "motif" /\ s[k].name = a.motifs[z]
        BY <1>6, <1>13, <2>3
    <2> QED
        BY <2>1, <2>4 DEF Motifs
<1>11. ASSUME s # questions
       PROVE  Len(s) = MaxQuestions /\ \A k \in DOMAIN s : s[k].kind # "aspect"
    <2>1. Len(s) = MaxQuestions /\ MaxQuestions < A + B + C /\ MaxQuestions \in Nat
        BY <1>5, <1>6, <1>11, QuestionsAssumption, Zenon
    <2>2. B = 0
        BY <1>3, <2>1
    <2>3. ASSUME NEW k \in DOMAIN s PROVE s[k].kind # "aspect"
        <3>1. k \in 1..A \/ k \in (A + B + 1)..(A + B + C)
            BY <1>7, <2>2
        <3>2. questions[k].kind = "object" \/ questions[k].kind = "motif"
            BY <1>6, <3>1
        <3> QED
            BY <1>5, <3>2
    <2> QED
        BY <2>1, <2>3
<1>12. Asked(s, reasons, pairs)
    BY <1>5, <1>9, <1>10, <1>11, <1>13, Zenon DEF Asked
<1> QED
    BY <1>4, <1>12

-----------------------------------------------------------------------------
(* 4. The pages that an answer cites. *)

\* A bounded set of numbers has a greatest one.
LEMMA NatGreatest ==
    ASSUME NEW n \in Nat, NEW S \in SUBSET (0..n), S # {}
    PROVE  Max(S) \in S /\ \A y \in S : Max(S) >= y
<1>1. PICK T : T = {x \in 0..n : \A y \in S : x >= y}
    OBVIOUS
<1>2. T \in SUBSET Nat /\ n \in T
    BY <1>1
<1>3. PICK x \in T : \A y \in T : x <= y
    BY <1>2, NatLeast
<1>4. x \in S
    <2> SUFFICES ASSUME x \notin S PROVE FALSE
        OBVIOUS
    <2>1. x \in 0..n /\ (\A y \in S : x >= y) /\ (\A y \in S : y # x)
        BY <1>1, <1>3
    <2>2. \A y \in S : y \in 0..n /\ x - 1 >= y
        <3>1. \A y \in S : y \in 0..n
            OBVIOUS
        <3> QED
            BY <2>1, <3>1
    <2>3. x - 1 \in 0..n
        <3>1. PICK y \in S : y \in 0..n /\ x - 1 >= y
            BY <2>2
        <3> QED
            BY <2>1, <3>1
    <2>4. x - 1 \in T
        BY <1>1, <2>2, <2>3
    <2> QED
        BY <1>3, <2>1, <2>4
<1>5. \E m \in S : \A y \in S : m >= y
    BY <1>1, <1>4
<1> QED
    BY <1>5 DEF Max

\* The spelling of one word or file name is what is written there.
LEMMA SpelledOne == \A token : Spelled(<<token>>) = token.text
<1> SUFFICES ASSUME NEW token PROVE Spelled(<<token>>) = token.text
    OBVIOUS
<1>1. PICK tokens : tokens = <<token>>
    OBVIOUS
<1>2. Len(tokens) = 1 /\ tokens[1] = token
    BY <1>1, Single
<1> DEFINE F(g) == [n \in 1..Len(tokens) |->
                       IF n = 1 THEN tokens[1].text ELSE g[n - 1] \o <<" ">> \o tokens[n].text]
           upto == CHOOSE g : g = F(g)
<1>3. PICK g : g = [n \in 1..1 |-> token.text]
    OBVIOUS
<1>4. g = F(g)
    <2>1. \A n \in 1..1 : n = 1
        OBVIOUS
    <2> QED
        BY <1>2, <1>3, <2>1
<1>5. upto = F(upto)
    BY <1>4, Zenon
<1>6. Spelled(tokens) = upto[Len(tokens)]
    BY DEF Spelled
<1> HIDE DEF upto
<1>7. upto[1] = token.text
    BY <1>2, <1>5
<1> QED
    BY <1>1, <1>2, <1>6, <1>7

LEMMA ReversedList ==
    ASSUME NEW s, IsList(s), NEW r, r = Reverse(s)
    PROVE  IsList(r) /\ Len(r) = Len(s) /\ \A k \in 1..Len(s) : r[k] = s[Len(s) - k + 1]
<1>1. PICK n \in Nat : n = Len(s)
    BY ListLength
<1>2. r = [k \in 1..n |-> s[(n - k) + 1]]
    BY <1>1 DEF Reverse
<1>3. IsList(r) /\ Len(r) = n
    BY <1>2, ListedBy
<1> QED
    BY <1>1, <1>2, <1>3

\* A name ends with itself, and with no longer one.
LEMMA SuffixOfItself ==
    ASSUME NEW s, IsList(s)
    PROVE  IsSuffix(s, s)
<1>1. PICK r : r = Reverse(s)
    OBVIOUS
<1>2. Len(r) \in Nat
    BY <1>1, ReversedList, ListLength
<1> QED
    BY <1>1, <1>2 DEF IsSuffix, IsPrefix

LEMMA SuffixIsShorter ==
    ASSUME NEW s, NEW t, IsList(s), IsList(t), IsSuffix(s, t)
    PROVE  Len(s) <= Len(t) /\ (Len(s) = Len(t) => s = t)
<1>1. PICK r : r = Reverse(s)
    OBVIOUS
<1>2. PICK u : u = Reverse(t)
    OBVIOUS
<1>3. PICK m \in Nat : m = Len(s)
    BY ListLength
<1>4. PICK n \in Nat : n = Len(t)
    BY ListLength
<1>5. IsList(r) /\ Len(r) = m /\ \A k \in 1..m : r[k] = s[m - k + 1]
    BY <1>1, <1>3, ReversedList
<1>6. IsList(u) /\ Len(u) = n /\ \A k \in 1..n : u[k] = t[n - k + 1]
    BY <1>2, <1>4, ReversedList
<1>7. m <= n /\ SubSeq(r, 1, m) = SubSeq(u, 1, m)
    BY <1>1, <1>2, <1>5, <1>6 DEF IsSuffix, IsPrefix
<1>8. ASSUME m = n PROVE s = t
    <2>1. SubSeq(r, 1, m) = r /\ SubSeq(u, 1, n) = u
        BY <1>5, <1>6, SubSeqFull DEF IsList
    <2>2. r = u
        BY <1>7, <1>8, <2>1
    <2>3. \A k \in 1..m : s[k] = t[k]
        <3>1. \A k \in 1..m : m - k + 1 \in 1..m /\ m - (m - k + 1) + 1 = k
            OBVIOUS
        <3>2. \A k \in 1..m : r[m - k + 1] = s[k] /\ u[m - k + 1] = t[k]
            BY <1>5, <1>6, <1>8, <3>1
        <3> QED
            BY <2>2, <3>2
    <2>4. PICK S : S = ToSet(s) \cup ToSet(t)
        OBVIOUS
    <2>5. s \in Seq(S) /\ t \in Seq(S)
        BY <2>4, SeqMonotonic DEF IsList
    <2> QED
        BY <1>3, <1>4, <1>8, <2>3, <2>5, SeqEqual
<1> QED
    BY <1>3, <1>4, <1>7, <1>8

\* A mention of one file name, as _NOM_PDF takes it, names that file, even when other
\* names end with it.
LEMMA NamedWhole ==
    ASSUME NEW pages, \A n \in DOMAIN pages : IsList(n),
           NEW name \in DOMAIN pages, Known(name, pages),
           NEW token, token.text = Own(name)
    PROVE  Named(<<token>>, pages) = name
<1>1. PICK mention : mention = <<token>>
    OBVIOUS
<1>2. PICK own : own = Own(name)
    OBVIOUS
<1>3. IsList(mention) /\ Len(mention) = 1 /\ DOMAIN mention = {1}
    BY <1>1, Single
<1>4. SubSeq(mention, 1, 1) = mention
    BY <1>3, SubSeqFull DEF IsList
<1> DEFINE Ending(z) == {n \in DOMAIN pages : IsSuffix(Spelled(SubSeq(mention, z, Len(mention))), n)}
           Found == {z \in DOMAIN mention : Ending(z) # {}}
<1>5. PICK names : names = Ending(1)
    OBVIOUS
<1>6. names = {n \in DOMAIN pages : IsSuffix(own, n)}
    BY <1>1, <1>2, <1>3, <1>4, <1>5, SpelledOne
<1>7. name \in DOMAIN pages /\ IsList(name) /\ (own = name \/ names = {name})
    BY <1>2, <1>6 DEF Known
<1>8. name \in names
    BY <1>6, <1>7, SuffixOfItself
<1>9. Found = {1}
    BY <1>3, <1>5, <1>8
<1> HIDE DEF Ending
<1>10. (CHOOSE z \in Found : \A j \in Found : z <= j) = 1
    BY <1>9
<1>11. Named(mention, pages) = Shortest(names)
    BY <1>5, <1>9, <1>10 DEF Named, Ending
<1>12. CASE own = name
    <2>1. \A m \in names : IsList(m) /\ Len(m) \in Nat /\ Len(m) >= Len(name)
        BY <1>6, <1>7, <1>12, SuffixIsShorter, ListLength
    <2>2. PICK w : w = Shortest(names)
        OBVIOUS
    <2>3. w \in names /\ \A m \in names : Len(m) >= Len(w)
        BY <1>8, <2>1, <2>2 DEF Shortest
    <2>4. Len(w) = Len(name)
        BY <1>8, <2>1, <2>3
    <2>5. w = name
        BY <1>6, <1>7, <1>12, <2>1, <2>3, <2>4, SuffixIsShorter
    <2> QED
        BY <1>1, <1>11, <2>2, <2>5
<1>13. CASE names = {name}
    <2>1. Len(name) \in Nat
        BY <1>7, ListLength
    <2>2. Shortest(names) = name
        BY <1>13, <2>1 DEF Shortest
    <2> QED
        BY <1>1, <1>11, <2>2
<1> QED
    BY <1>7, <1>12, <1>13

\* The place after a name in the text of a label: a break, then the page.
AfterFile(said, k, name) ==
    /\ IsList(said) /\ k \in 1..Len(said) /\ k > 2
    /\ said[k - 1].kind = "break"
    /\ said[k - 2].kind = "file" /\ said[k - 2].text = name
    /\ k > 3 => said[k - 3].kind = "break"

\* A text that ends with one file name, alone, and a break.
EndsWithFile(w, n, name) ==
    /\ IsList(w) /\ n \in Nat /\ n >= 2 /\ Len(w) = n
    /\ w[n].kind = "break" /\ w[n - 1].kind = "file" /\ w[n - 1].text = name
    /\ n > 2 => w[n - 2].kind = "break"

\* What stands before the page of a label ends so, in the window that the code reads.
LEMMA WindowEndsWithFile ==
    ASSUME NEW said, NEW k, NEW name, AfterFile(said, k, name)
    PROVE  \E n : EndsWithFile(Preceding(said, k), n, name)
<1>1. PICK L \in Nat : L = Len(said) /\ DOMAIN said = 1..L
    BY ListLength DEF AfterFile
<1>2. k \in 1..L /\ k > 2 /\ Window \in Nat /\ Window >= 2
    BY <1>1, GuardsAssumption, TextsAssumption DEF AfterFile
<1>3. PICK m : m = IF k > Window THEN k - Window ELSE 1
    OBVIOUS
<1>4. m \in Nat /\ 1 <= m /\ m <= k - 2
    BY <1>2, <1>3
<1>5. PICK w : w = SubSeq(said, m, k - 1)
    OBVIOUS
<1>6. PICK n : n = (k - 1) - m + 1
    OBVIOUS
<1>7. n \in Nat /\ n >= 2 /\ n = k - m /\ k - 1 \in Nat /\ m <= k - 1 /\ k - 1 <= L
    BY <1>2, <1>4, <1>6
<1>8. IsList(w) /\ Len(w) = n /\ \A z \in 1..n : w[z] = said[m + z - 1]
    <2>1. PICK q \in Nat : q = k - 1
        BY <1>7
    <2>2. IsList(said) /\ m \in Nat /\ 1 <= m /\ m <= q /\ q <= Len(said)
        BY <1>1, <1>4, <1>7, <2>1 DEF AfterFile
    <2>3. w = SubSeq(said, m, q) /\ q - m + 1 = n
        BY <1>5, <1>6, <2>1
    <2>4. /\ IsList(w) /\ Len(w) = q - m + 1
          /\ \A z \in 1..(q - m + 1) : w[z] = said[m + z - 1]
        BY <2>2, <2>3, PartOfList
    <2> QED
        BY <2>3, <2>4
<1>9. w[n] = said[k - 1] /\ w[n - 1] = said[k - 2]
    <2>1. n \in 1..n /\ m + n - 1 = k - 1 /\ n - 1 \in 1..n /\ m + (n - 1) - 1 = k - 2
        BY <1>2, <1>4, <1>7
    <2> QED
        BY <1>8, <2>1
<1>10. n > 2 => k > 3 /\ w[n - 2] = said[k - 3]
    <2> SUFFICES ASSUME n > 2 PROVE k > 3 /\ w[n - 2] = said[k - 3]
        OBVIOUS
    <2>1. n - 2 \in 1..n /\ m + (n - 2) - 1 = k - 3 /\ k > 3
        BY <1>2, <1>4, <1>7
    <2> QED
        BY <1>8, <2>1
<1>11. EndsWithFile(w, n, name)
    <2>1. w[n].kind = "break" /\ w[n - 1].kind = "file" /\ w[n - 1].text = name
        BY <1>9 DEF AfterFile
    <2>2. n > 2 => w[n - 2].kind = "break"
        BY <1>10 DEF AfterFile
    <2> QED
        BY <1>7, <1>8, <2>1, <2>2 DEF EndsWithFile
<1>12. Preceding(said, k) = w
    BY <1>3, <1>5 DEF Preceding
<1> QED
    BY <1>11, <1>12

\* The mention that ends there is what _NOM_PDF takes of the file name.
LEMMA MentionIsFile ==
    ASSUME NEW w, NEW n, NEW name, EndsWithFile(w, n, name), Own(name) # <<>>
    PROVE  Mention(w, n - 1) = <<[text |-> Own(name)]>>
<1>1. n \in Nat /\ n >= 2 /\ Len(w) = n /\ IsList(w)
    BY DEF EndsWithFile
<1>2. PICK m : m = n - 1
    OBVIOUS
<1>3. m \in Nat /\ 1 <= m /\ m <= n /\ m \in 1..m
    BY <1>1, <1>2
<1>4. w[m].kind = "file" /\ w[m].text = name
    BY <1>2 DEF EndsWithFile
<1> DEFINE Start(z) == /\ \A j \in z..m : Runs(w[j]) /\ (j > z => Unbroken(w[j]))
                       /\ z = 1 \/ ~Runs(w[z - 1]) \/ ~Unbroken(w[z])
<1>5. Start(m)
    <2>1. \A j \in m..m : j = m /\ ~(j > m)
        BY <1>3
    <2>2. Runs(w[m])
        BY <1>4 DEF Runs
    <2>3. m = 1 \/ ~Runs(w[m - 1])
        <3>1. m = 1 \/ (n > 2 /\ m - 1 = n - 2)
            BY <1>1, <1>2
        <3> QED
            BY <3>1 DEF EndsWithFile, Runs
    <2> QED
        BY <2>1, <2>2, <2>3
<1>6. ASSUME NEW z \in 1..m, Start(z) PROVE z = m
    <2> SUFFICES ASSUME z # m PROVE FALSE
        OBVIOUS
    <2>1. n - 2 \in z..m /\ n > 2
        BY <1>1, <1>2, <1>3
    <2>2. Runs(w[n - 2])
        BY <1>6, <2>1
    <2>3. w[n - 2].kind = "break"
        BY <2>1 DEF EndsWithFile
    <2> QED
        BY <2>2, <2>3 DEF Runs
<1>7. RunStart(w, m) = CHOOSE z \in 1..m : Start(z)
    BY DEF RunStart
<1> HIDE DEF Start
<1>8. RunStart(w, m) = m
    BY <1>3, <1>5, <1>6, <1>7
<1>9. PICK token : token = [text |-> Own(name)]
    OBVIOUS
<1>10. Mention(w, m) = [j \in 1..(m - m + 1) |-> [text |-> Own(w[m + j - 1].text)]]
    BY <1>8 DEF Mention
<1>11. m - m + 1 = 1 /\ \A j \in 1..1 : m + j - 1 = m
    BY <1>3
<1>12. Mention(w, m) = [j \in 1..1 |-> token]
    BY <1>4, <1>9, <1>10, <1>11
<1>13. <<token>> = [j \in 1..1 |-> token]
    OBVIOUS
<1> QED
    BY <1>2, <1>9, <1>12, <1>13

\* The document of a page is the one whose name stands there: a volume before it has
\* been passed.
LEMMA DocumentIsFile ==
    ASSUME NEW pages, \A m \in DOMAIN pages : IsList(m),
           NEW w, NEW n, NEW name \in DOMAIN pages, EndsWithFile(w, n, name),
           Known(name, pages), Own(name) # <<>>
    PROVE  DocumentOf(w, pages) = name
<1>1. n \in Nat /\ n >= 2 /\ DOMAIN w = 1..n
    BY ListLength DEF EndsWithFile
<1>2. PICK files : files = {z \in DOMAIN w : Kind(w[z], "file")}
    OBVIOUS
<1>3. PICK volumes : volumes = {z \in DOMAIN w :
              Kind(w[z], "tome") /\ Cardinality(Volumes(w[z].number, pages)) = 1}
    OBVIOUS
<1>4. n - 1 \in files /\ n \notin files
    BY <1>1, <1>2 DEF EndsWithFile, Kind
<1>5. n \notin volumes /\ n - 1 \notin volumes
    BY <1>1, <1>3 DEF EndsWithFile, Kind
<1>6. Max(files \cup {0}) = n - 1
    <2>1. PICK S : S = files \cup {0}
        OBVIOUS
    <2>2. S \in SUBSET (0..n) /\ S # {} /\ n - 1 \in S /\ n \notin S
        BY <1>1, <1>2, <1>4, <2>1
    <2>3. Max(S) \in S /\ \A y \in S : Max(S) >= y
        BY <1>1, <2>2, NatGreatest
    <2>4. PICK x : x = Max(S)
        OBVIOUS
    <2>5. x \in 0..n /\ x # n /\ x >= n - 1
        BY <2>2, <2>3, <2>4
    <2>6. x = n - 1
        BY <1>1, <2>5
    <2> QED
        BY <2>1, <2>4, <2>6
<1>7. ~(Max(volumes \cup {0}) > n - 1)
    <2>1. PICK S : S = volumes \cup {0}
        OBVIOUS
    <2>2. S \in SUBSET (0..n) /\ S # {} /\ n \notin S
        BY <1>1, <1>3, <1>5, <2>1
    <2>3. Max(S) \in S
        BY <1>1, <2>2, NatGreatest
    <2>4. PICK x : x = Max(S)
        OBVIOUS
    <2>5. x \in 0..n /\ x # n
        BY <2>2, <2>3, <2>4
    <2>6. ~(x > n - 1)
        BY <1>1, <2>5
    <2> QED
        BY <2>1, <2>4, <2>6
<1>8. DocumentOf(w, pages) = Named(Mention(w, n - 1), pages)
    <2>1. files # {}
        BY <1>4
    <2> QED
        BY <1>2, <1>3, <1>6, <1>7, <2>1 DEF DocumentOf
<1>9. PICK token : token = [text |-> Own(name)]
    OBVIOUS
<1>10. token.text = Own(name) /\ Mention(w, n - 1) = <<token>>
    BY <1>9, MentionIsFile
<1>11. Named(<<token>>, pages) = name
    BY <1>10, NamedWhole
<1> QED
    BY <1>8, <1>10, <1>11

\* What the guard says of one label: the pages that it claims and that are not there.
Flagged(c, pages) == {<<c.name, page>> : page \in Claimed(c, pages) \ pages[c.name]}

\* The page of the label c stands at k, after its file name.
LabelAt(said, k, c) == AfterFile(said, k, c.name) /\ said[k].from = c.from /\ said[k].to = c.to

LEMMA LabelIsFlagged ==
    ASSUME NEW pages, \A m \in DOMAIN pages : IsList(m),
           NEW c, c.from \in Nat, c.to \in Nat, c.name \in DOMAIN pages,
           Known(c.name, pages), Own(c.name) # <<>>,
           NEW said, NEW k, LabelAt(said, k, c)
    PROVE  OutsideAt(said, k, pages) = Flagged(c, pages)
<1>1. PICK name : name = c.name
    OBVIOUS
<1>2. PICK n : EndsWithFile(Preceding(said, k), n, name)
    BY <1>1, WindowEndsWithFile DEF LabelAt
<1>3. DocumentOf(Preceding(said, k), pages) = name
    BY <1>1, <1>2, DocumentIsFile
<1>4. Reference(name, pages) = pages[name]
    BY <1>1 DEF Reference
<1>5. PICK from \in Nat : from = c.from
    OBVIOUS
<1>6. PICK to : to = IF c.to < from \/ c.to - from > WidePages THEN from ELSE c.to
    OBVIOUS
<1>7. to \in Nat /\ from <= to /\ (to # from => ~(c.to < from \/ c.to - from > WidePages))
    BY <1>5, <1>6, GuardsAssumption
<1>8. said[k].from = from /\ said[k].to = c.to
    BY <1>5 DEF LabelAt
<1>9. PICK there : there = pages[name]
    OBVIOUS
<1>10. OutsideAt(said, k, pages) =
           IF from # to /\ {from, to} \subseteq there THEN {}
           ELSE {<<name, page>> : page \in (from..to) \ there}
    BY <1>3, <1>4, <1>6, <1>8, <1>9 DEF OutsideAt
<1>11. PICK told : told = IF c.to < from \/ c.to - from > WidePages THEN {from} ELSE from..c.to
    OBVIOUS
<1>12. told = from..to /\ (told # {from} <=> from # to)
    <2>1. from..from = {from}
        OBVIOUS
    <2>2. told = from..to
        BY <1>6, <1>11, <2>1
    <2>3. from # to => to \in told /\ to # from
        BY <1>7, <2>2
    <2> QED
        BY <2>1, <2>2, <2>3
<1>13. told # {from} => to = c.to
    BY <1>6, <1>7, <1>12
<1>14. Claimed(c, pages) = IF told # {from} /\ {from, to} \subseteq there THEN {} ELSE told
    BY <1>1, <1>5, <1>9, <1>11, <1>13 DEF Claimed
<1> QED
    BY <1>1, <1>9, <1>10, <1>12, <1>14 DEF Flagged

\* A label: a break, the file name, a break, the page, a break.
IsLabel(e, c) ==
    /\ IsList(e) /\ Len(e) = 5
    /\ e[1].kind = "break" /\ e[2].kind = "file" /\ e[2].text = c.name
    /\ e[3].kind = "break" /\ e[5].kind = "break"
    /\ e[4].kind = "page" /\ e[4].from = c.from /\ e[4].to = c.to

LEMMA LabelReads == \A c, e : e = Etiquette(c) => IsLabel(e, c)
<1> SUFFICES ASSUME NEW c, NEW e, e = Etiquette(c) PROVE IsLabel(e, c)
    OBVIOUS
<1>1. PICK b : b = [kind |-> "break"]
    OBVIOUS
<1>2. PICK f : f = [kind |-> "file", text |-> c.name]
    OBVIOUS
<1>3. PICK p : p = [kind |-> "page", from |-> c.from, to |-> c.to]
    OBVIOUS
<1>4. e = <<b, f, b, p, b>>
    BY <1>1, <1>2, <1>3 DEF Etiquette
<1>5. e \in Seq({b, f, p}) /\ Len(e) = 5
    BY <1>4
<1>6. e[1] = b /\ e[2] = f /\ e[3] = b /\ e[4] = p /\ e[5] = b
    BY <1>4
<1>7. IsList(e)
    BY <1>5, SeqIsList
<1> QED
    BY <1>1, <1>2, <1>3, <1>5, <1>6, <1>7 DEF IsLabel

\* In text, from the place b on, stands the label of c.
Stands(said, b, e) == \A k \in 1..5 : said[b + k] = e[k]

OnlyPage(said, b) == \A k \in (b + 1)..(b + 5) : Kind(said[k], "page") <=> k = b + 4

LEMMA LabelStands ==
    ASSUME NEW said, IsList(said), NEW b \in Nat, b + 5 <= Len(said),
           NEW c, Stands(said, b, Etiquette(c))
    PROVE  LabelAt(said, b + 4, c) /\ OnlyPage(said, b)
<1>1. PICK e : e = Etiquette(c)
    OBVIOUS
<1>2. said[b + 1] = e[1] /\ said[b + 2] = e[2] /\ said[b + 3] = e[3] /\ said[b + 4] = e[4]
      /\ said[b + 5] = e[5]
    <2>1. \A k \in 1..5 : said[b + k] = e[k]
        BY <1>1 DEF Stands
    <2>2. 1 \in 1..5 /\ 2 \in 1..5 /\ 3 \in 1..5 /\ 4 \in 1..5 /\ 5 \in 1..5
        OBVIOUS
    <2> QED
        BY <2>1, <2>2, Zenon
<1>3. /\ Len(e) = 5
      /\ e[1].kind = "break" /\ e[2].kind = "file" /\ e[2].text = c.name
      /\ e[3].kind = "break" /\ e[5].kind = "break"
      /\ e[4].kind = "page" /\ e[4].from = c.from /\ e[4].to = c.to
    <2>1. IsLabel(e, c)
        BY <1>1, LabelReads, Zenon
    <2> QED
        BY <2>1 DEF IsLabel
<1>4. PICK L \in Nat : L = Len(said)
    BY ListLength
<1>5. b + 4 \in 1..L /\ b + 4 > 3 /\ (b + 4) - 1 = b + 3 /\ (b + 4) - 2 = b + 2 /\ (b + 4) - 3 = b + 1
    BY <1>4
<1>6. LabelAt(said, b + 4, c)
    BY <1>2, <1>3, <1>4, <1>5 DEF LabelAt, AfterFile
<1>7. ASSUME NEW k \in (b + 1)..(b + 5) PROVE Kind(said[k], "page") <=> k = b + 4
    <2>1. k = b + 1 \/ k = b + 2 \/ k = b + 3 \/ k = b + 4 \/ k = b + 5
        OBVIOUS
    <2>2. CASE k = b + 4
        BY <1>2, <1>3, <2>2 DEF Kind
    <2>3. CASE k # b + 4
        BY <1>2, <1>3, <2>1, <2>3 DEF Kind
    <2> QED
        BY <2>2, <2>3
<1> QED
    BY <1>6, <1>7 DEF OnlyPage

\* u is s, of length m, followed by t, of length n.
Follows(u, s, m, t, n) ==
    /\ IsList(u) /\ Len(u) = m + n
    /\ \A k \in 1..m : u[k] = s[k]
    /\ \A k \in 1..n : u[m + k] = t[k]

LEMMA Concatenation ==
    ASSUME NEW s, IsList(s), NEW t, IsList(t), NEW m, m = Len(s), NEW n, n = Len(t),
           NEW u, u = s \o t
    PROVE  Follows(u, s, m, t, n)
<1>1. m \in Nat /\ n \in Nat
    BY ListLength
<1>2. IsList(u)
    BY JoinedList
<1>3. Len(u) = m + n
    BY JoinedList
<1>4. \A k \in 1..m : u[k] = s[k]
    BY JoinedList
<1>5. \A k \in 1..n : u[m + k] = t[k]
    BY JoinedList
<1> QED
    BY <1>2, <1>3, <1>4, <1>5 DEF Follows

\* The text of two labels: where each stands, and that no page stands elsewhere.
Copies(said, b, d, first, second) ==
    /\ IsList(said) /\ Len(said) = d + 5
    /\ b + 5 <= d
    /\ Stands(said, b, Etiquette(first)) /\ Stands(said, d, Etiquette(second))
    /\ \A k \in 1..(d + 5) : Kind(said[k], "page") <=> k \in {b + 4, d + 4}

LEMMA CopiedLabels ==
    ASSUME NEW before, IsList(before), \A k \in DOMAIN before : ~Kind(before[k], "page"),
           NEW between, IsList(between), \A k \in DOMAIN between : ~Kind(between[k], "page"),
           NEW first, NEW second,
           NEW said, said = before \o Etiquette(first) \o between \o Etiquette(second)
    PROVE  \E b, d \in Nat : Copies(said, b, d, first, second)
<1>1. PICK e : e = Etiquette(first)
    OBVIOUS
<1>2. PICK f : f = Etiquette(second)
    OBVIOUS
<1>3. IsList(e) /\ Len(e) = 5 /\ IsList(f) /\ Len(f) = 5
    <2>1. IsLabel(e, first) /\ IsLabel(f, second)
        BY <1>1, <1>2, LabelReads, Zenon
    <2> QED
        BY <2>1 DEF IsLabel
<1> PICK five \in Nat : five = 5
    OBVIOUS
<1>4. PICK b \in Nat : b = Len(before)
    BY ListLength
<1>5. PICK n \in Nat : n = Len(between)
    BY ListLength
<1>6. PICK u : u = before \o e
    OBVIOUS
<1>7. /\ IsList(u) /\ Len(u) = b + 5
      /\ \A k \in 1..b : u[k] = before[k]
      /\ \A k \in 1..5 : u[b + k] = e[k]
    <2>1. Follows(u, before, b, e, five)
        BY <1>3, <1>4, <1>6, Concatenation
    <2> QED
        BY <2>1 DEF Follows
<1>8. PICK z \in Nat : z = b + 5
    OBVIOUS
<1>9. PICK v : v = u \o between
    OBVIOUS
<1>10. Len(u) = z
    BY <1>7, <1>8
<1>11. /\ IsList(v) /\ Len(v) = z + n
       /\ \A k \in 1..z : v[k] = u[k]
       /\ \A k \in 1..n : v[z + k] = between[k]
    <2>1. Follows(v, u, z, between, n)
        BY <1>5, <1>7, <1>9, <1>10, Concatenation
    <2> QED
        BY <2>1 DEF Follows
<1>12. PICK d \in Nat : d = z + n
    OBVIOUS
<1>13. Len(v) = d
    BY <1>11, <1>12
<1>14. said = v \o f
    BY <1>1, <1>2, <1>6, <1>9
<1>15. /\ IsList(said) /\ Len(said) = d + 5
       /\ \A k \in 1..d : said[k] = v[k]
       /\ \A k \in 1..5 : said[d + k] = f[k]
    <2>1. Follows(said, v, d, f, five)
        BY <1>3, <1>11, <1>13, <1>14, Concatenation
    <2> QED
        BY <2>1 DEF Follows
<1>16. b + 5 <= d /\ b + 5 = z
    BY <1>8, <1>12
<1>17. Stands(said, b, e)
    <2>1. \A k \in 1..5 : b + k \in 1..d /\ b + k \in 1..z
        BY <1>16
    <2> QED
        BY <1>7, <1>11, <1>15, <2>1 DEF Stands
<1>18. Stands(said, d, f)
    BY <1>15 DEF Stands
<1>19. b + 5 <= Len(said) /\ d + 5 <= Len(said)
    BY <1>15, <1>16
<1>20. OnlyPage(said, b)
    BY <1>1, <1>15, <1>17, <1>19, LabelStands
<1>21. OnlyPage(said, d)
    BY <1>2, <1>15, <1>18, <1>19, LabelStands
<1>22. ASSUME NEW k \in 1..(d + 5) PROVE Kind(said[k], "page") <=> k \in {b + 4, d + 4}
    <2>1. CASE k \in 1..b
        <3>1. k \in 1..d /\ k \in 1..z /\ k \notin {b + 4, d + 4}
            BY <1>16, <2>1
        <3>2. said[k] = before[k] /\ k \in DOMAIN before
            BY <1>4, <1>7, <1>11, <1>15, <2>1, <3>1, ListLength
        <3> QED
            BY <3>1, <3>2
    <2>2. CASE k \in (b + 1)..(b + 5)
        <3>1. k # d + 4
            BY <1>16, <2>2
        <3> QED
            BY <1>20, <2>2, <3>1 DEF OnlyPage
    <2>3. CASE k \in (z + 1)..d
        <3>1. PICK j : j = k - z
            OBVIOUS
        <3>2. j \in 1..n /\ k = z + j /\ k \in 1..d /\ k \notin {b + 4, d + 4}
            BY <1>8, <1>12, <2>3, <3>1
        <3>3. said[k] = between[j] /\ j \in DOMAIN between
            BY <1>5, <1>11, <1>15, <3>2, ListLength
        <3> QED
            BY <3>2, <3>3
    <2>4. CASE k \in (d + 1)..(d + 5)
        <3>1. k # b + 4
            BY <1>16, <2>4
        <3> QED
            BY <1>21, <2>4, <3>1 DEF OnlyPage
    <2>5. k \in 1..b \/ k \in (b + 1)..(b + 5) \/ k \in (z + 1)..d \/ k \in (d + 1)..(d + 5)
        BY <1>8, <1>12
    <2> QED
        BY <2>1, <2>2, <2>3, <2>4, <2>5
<1>23. Copies(said, b, d, first, second)
    BY <1>1, <1>2, <1>16, <1>15, <1>17, <1>18, <1>22 DEF Copies
<1> QED
    BY <1>23

\* What the guard says of the text of two labels of the lot.
LEMMA LabelsAreFlagged ==
    ASSUME NEW a, Citing(a),
           \A c \in {a.first, a.second} : Known(c.name, PagesDuLot(a.passages))
    PROVE  PagesHorsLot(Copied(a), PagesDuLot(a.passages)) =
               Flagged(a.first, PagesDuLot(a.passages)) \cup Flagged(a.second, PagesDuLot(a.passages))
<1>1. PICK pages : pages = PagesDuLot(a.passages)
    OBVIOUS
<1>2. DOMAIN pages = {p.name : p \in a.passages}
    BY <1>1 DEF PagesDuLot
<1>3. \A m \in DOMAIN pages : IsList(m)
    BY <1>2 DEF Citing
<1>4. PICK said : said = Copied(a)
    OBVIOUS
<1>5. PICK first : first = a.first
    OBVIOUS
<1>6. PICK second : second = a.second
    OBVIOUS
<1>7. \A c \in {first, second} :
          /\ c.from \in Nat /\ c.to \in Nat /\ c.name \in DOMAIN pages
          /\ Known(c.name, pages) /\ Own(c.name) # <<>>
    BY <1>1, <1>2, <1>5, <1>6 DEF Citing
<1>8. PICK b \in Nat, d \in Nat : Copies(said, b, d, first, second)
    <2>1. /\ IsList(a.before) /\ \A k \in DOMAIN a.before : ~Kind(a.before[k], "page")
          /\ IsList(a.between) /\ \A k \in DOMAIN a.between : ~Kind(a.between[k], "page")
        BY DEF Citing
    <2>2. said = a.before \o Etiquette(first) \o a.between \o Etiquette(second)
        BY <1>4, <1>5, <1>6 DEF Copied
    <2> QED
        BY <2>1, <2>2, CopiedLabels
<1>9. IsList(said) /\ Len(said) = d + 5 /\ b + 5 <= d + 5 /\ DOMAIN said = 1..(d + 5)
    BY <1>8, ListLength DEF Copies
<1>10. LabelAt(said, b + 4, first) /\ LabelAt(said, d + 4, second)
    BY <1>8, <1>9, LabelStands DEF Copies
<1>11. OutsideAt(said, b + 4, pages) = Flagged(first, pages)
    BY <1>3, <1>7, <1>10, LabelIsFlagged
<1>12. OutsideAt(said, d + 4, pages) = Flagged(second, pages)
    BY <1>3, <1>7, <1>10, LabelIsFlagged
<1>13. {z \in DOMAIN said : Kind(said[z], "page")} = {b + 4, d + 4}
    <2>1. b + 4 \in 1..(d + 5) /\ d + 4 \in 1..(d + 5)
        BY <1>9
    <2> QED
        BY <1>8, <1>9, <2>1 DEF Copies
<1>14. PagesHorsLot(said, pages) = UNION {OutsideAt(said, k, pages) : k \in {b + 4, d + 4}}
    <2>1. DOMAIN pages # {}
        BY <1>7
    <2> QED
        BY <1>13, <2>1 DEF PagesHorsLot
<1>15. PagesHorsLot(said, pages) = Flagged(first, pages) \cup Flagged(second, pages)
    <2>1. UNION {OutsideAt(said, k, pages) : k \in {b + 4, d + 4}}
              = OutsideAt(said, b + 4, pages) \cup OutsideAt(said, d + 4, pages)
        OBVIOUS
    <2> QED
        BY <1>11, <1>12, <1>14, <2>1
<1> QED
    BY <1>1, <1>4, <1>5, <1>6, <1>15

-----------------------------------------------------------------------------
(* What the theorems about Texts follow from. *)

\* What is made of a text is what its handler makes of it.
TextsInv ==
    /\ reading \in Answers \cup Summaries \cup Analyses
    /\ Read("answer") => made = PagesHorsLot(Copied(reading), PagesDuLot(reading.passages))
    /\ Read("summary") => made = Annexed(reading.synthesis, reading.blocks, reading.lot)
    /\ Read("analysis") => made = Composer(Analysed(reading.reply, reading.coordinated))

LEMMA TextsInvariant == TextsSpec => []TextsInv
<1>1. TextsInit => TextsInv
    BY DEF TextsInit, TextsInv, Read
<1>2. TextsInv /\ [TextsNext]_<<reading, made>> => TextsInv'
    <2> SUFFICES ASSUME TextsInv, [TextsNext]_<<reading, made>> PROVE TextsInv'
        OBVIOUS
    <2>1. CASE ReadAnswer
        BY <2>1 DEF ReadAnswer, TextsInv, Read
    <2>2. CASE ReadSummary
        BY <2>2 DEF ReadSummary, TextsInv, Read
    <2>3. CASE ReadAnalysis
        BY <2>3 DEF ReadAnalysis, TextsInv, Read
    <2>4. CASE UNCHANGED <<reading, made>>
        BY <2>4 DEF TextsInv, Read
    <2> QED
        BY <2>1, <2>2, <2>3, <2>4 DEF TextsNext
<1> QED
    BY <1>1, <1>2, PTL DEF TextsSpec

\* Of an answer that copies two labels of its passages, whatever the passages, their
\* pages and the words around them, PagesHorsLot flags the pages that a label claims and
\* that its document does not have in the lot, and no other - when _NOM_PDF takes their
\* names whole, or when no other name ends with what it takes of them.
THEOREM FlagsRight == TextsSpec => []FlagsAreRight
<1>1. TextsInv => FlagsAreRight
    <2> SUFFICES ASSUME TextsInv, Read("answer") PROVE FlagsAreRight
        BY DEF FlagsAreRight
    <2>1. Citing(reading)
        BY TextsAssumption DEF TextsInv, Read
    <2>2. PICK pages : pages = PagesDuLot(reading.passages)
        OBVIOUS
    <2> SUFFICES ASSUME \A c \in {reading.first, reading.second} : Known(c.name, pages)
                 PROVE  made = UNION {Flagged(c, pages) : c \in {reading.first, reading.second}}
        BY <2>2 DEF FlagsAreRight, Flagged
    <2>3. made = Flagged(reading.first, pages) \cup Flagged(reading.second, pages)
        BY <2>1, <2>2, LabelsAreFlagged DEF TextsInv
    <2>4. UNION {Flagged(c, pages) : c \in {reading.first, reading.second}}
              = Flagged(reading.first, pages) \cup Flagged(reading.second, pages)
        OBVIOUS
    <2> QED
        BY <2>3, <2>4
<1> QED
    BY <1>1, TextsInvariant, PTL

\* After Annexed, whatever the synthesis, the blocks and the extracts, a line that still
\* carries a missing value is beyond the lines that the annex shows or begins with a
\* decimal, and the annex brings no number from outside the extracts of its own, what
\* remains of such a decimal apart.
THEOREM AnnexComplete == TextsSpec => []AnnexedIsComplete
<1>1. TextsInv => AnnexedIsComplete
    <2> SUFFICES ASSUME TextsInv, Read("summary") PROVE AnnexedIsComplete
        BY DEF AnnexedIsComplete
    <2>1. PICK synthesis : synthesis = reading.synthesis
        OBVIOUS
    <2>2. PICK blocks : blocks = reading.blocks
        OBVIOUS
    <2>3. PICK lot : lot = reading.lot
        OBVIOUS
    <2>4. /\ IsList(blocks) /\ IsList(synthesis)
          /\ \A k \in DOMAIN blocks : IsList(blocks[k].tokens)
        BY <2>1, <2>2, TextsAssumption DEF TextsInv, Read
    <2>5. PICK before : before = Retention(synthesis, blocks, lot)
        OBVIOUS
    <2>6. PICK said : said = made
        OBVIOUS
    <2>7. said = Annexed(synthesis, blocks, lot)
        BY <2>1, <2>2, <2>3, <2>6 DEF TextsInv
    <2>8. Lacking(before) =>
              /\ \A k \in DOMAIN blocks :
                    Carries(blocks[k], Missing(said, blocks, lot), lot) =>
                        Beheaded(blocks[k]) \/ Propre(blocks[k]) \in ToSet(LeftOut(before.lines))
              /\ NombresHorsExtraits(said, lot) \subseteq
                    NombresHorsExtraits(synthesis \o blocks, lot) \cup Remains(blocks)
        BY <2>4, <2>5, <2>7, AnnexIsComplete
    <2> QED
        BY <2>1, <2>2, <2>3, <2>5, <2>6, <2>8 DEF AnnexedIsComplete, Carries
<1> QED
    BY <1>1, TextsInvariant, PTL

\* Whatever the reasons that a reply names, the pairs that the request coordinates and
\* the templates, Composer asks about every reason unless max_questions is reached
\* without an aspect, asks the same twice only in the words of a pair, and never asks
\* more than max_questions.
THEOREM MotivesAsked == TextsSpec => []MotivesAreAsked
<1>1. TextsInv => MotivesAreAsked
    <2> SUFFICES ASSUME TextsInv, Read("analysis") PROVE MotivesAreAsked
        BY DEF MotivesAreAsked
    <2>1. PICK reply : reply = reading.reply
        OBVIOUS
    <2>2. PICK a : a = Analysed(reply, reading.coordinated)
        OBVIOUS
    <2>3. PICK reasons : reasons = ToSet(reply.motifs) \ Generic
        OBVIOUS
    <2>4. PICK pairs : pairs = reading.coordinated \cap (reasons \X reasons)
        OBVIOUS
    <2>5. IsList(reply.aspects) /\ IsList(reply.motifs)
        BY <2>1, TextsAssumption DEF TextsInv, Read
    <2>6. IsList(a.aspects) /\ AskedList(a.motifs, reasons, pairs)
        BY <2>2, <2>3, <2>4, <2>5, AnalysedLists
    <2>7. made = Composer(a)
        BY <2>1, <2>2 DEF TextsInv
    <2>8. Asked(made, reasons, pairs)
        BY <2>6, <2>7, MotifsAreAsked
    <2> QED
        BY <2>1, <2>3, <2>4, <2>8 DEF MotivesAreAsked, Asked, Motifs
<1> QED
    BY <1>1, TextsInvariant, PTL

-----------------------------------------------------------------------------
(* 5. The pages of a PDF. *)

\* What a section is: some characters, printed on its page or added by the parser.
Section(x) ==
    /\ IsList(x.text) /\ Len(x.text) > 0
    /\ \A j \in 1..Len(x.text) : x.text[j].page \in {0, x.page}
Sections(s) == IsList(s) /\ \A k \in 1..Len(s) : Section(s[k])
Unprinted(s) == IsList(s) /\ \A j \in 1..Len(s) : s[j].page = 0

\* A table of pages in order between two offsets, which knows the page of every
\* printed character of t; t holds the characters c in a row.
Lies(span, from, to) ==
    /\ span[1] \in Int /\ span[2] \in Int
    /\ from <= span[1] /\ span[1] < span[2] /\ span[2] <= to
InOrder(table, from, to) ==
    /\ \A k \in 1..Len(table) : Lies(table[k], from, to)
    /\ \A k \in 2..Len(table) : table[k - 1][2] <= table[k][1]
Within(x, span) == span[1] <= x /\ x < span[2]
Knows(t, table, from) ==
    \A x \in 1..Len(t) : t[x].page # 0 =>
        \E k \in 1..Len(table) : Within(from + x - 1, table[k]) /\ table[k][3] = t[x].page
HoldsAt(t, c, b) == b + Len(c) <= Len(t) /\ \A j \in 1..Len(c) : t[b + j] = c[j]
HoldsRow(t, c) == \E b \in Nat : HoldsAt(t, c, b)

LEMMA RowEarlier ==
    ASSUME NEW s, IsList(s), NEW t, IsList(t), NEW c, IsList(c), HoldsRow(s, c)
    PROVE  HoldsRow(s \o t, c)
<1>1. PICK b \in Nat : HoldsAt(s, c, b)
    BY DEF HoldsRow
<1>2. PICK u : u = s \o t
    OBVIOUS
<1>3. PICK m \in Nat : m = Len(s)
    BY ListLength
<1>4. PICK n \in Nat : n = Len(t)
    BY ListLength
<1>5. PICK l \in Nat : l = Len(c)
    BY ListLength
<1>6. Follows(u, s, m, t, n)
    BY <1>2, <1>3, <1>4, Concatenation
<1>7. HoldsAt(u, c, b)
    <2>1. b + l <= m /\ Len(u) = m + n
        BY <1>1, <1>3, <1>5, <1>6 DEF HoldsAt, Follows
    <2>2. \A j \in 1..l : b + j \in 1..m
        BY <2>1
    <2>3. \A j \in 1..l : u[b + j] = c[j]
        BY <1>1, <1>5, <1>6, <2>2 DEF HoldsAt, Follows
    <2> QED
        BY <1>5, <2>1, <2>3 DEF HoldsAt
<1> QED
    BY <1>2, <1>7 DEF HoldsRow

LEMMA RowLater ==
    ASSUME NEW s, IsList(s), NEW t, IsList(t), NEW c, IsList(c), HoldsRow(t, c)
    PROVE  HoldsRow(s \o t, c)
<1>1. PICK b \in Nat : HoldsAt(t, c, b)
    BY DEF HoldsRow
<1>2. PICK u : u = s \o t
    OBVIOUS
<1>3. PICK m \in Nat : m = Len(s)
    BY ListLength
<1>4. PICK n \in Nat : n = Len(t)
    BY ListLength
<1>5. PICK l \in Nat : l = Len(c)
    BY ListLength
<1>6. Follows(u, s, m, t, n)
    BY <1>2, <1>3, <1>4, Concatenation
<1>7. HoldsAt(u, c, m + b)
    <2>1. b + l <= n /\ Len(u) = m + n
        BY <1>1, <1>4, <1>5, <1>6 DEF HoldsAt, Follows
    <2>2. \A j \in 1..l : b + j \in 1..n /\ (m + b) + j = m + (b + j)
        BY <2>1
    <2>3. \A j \in 1..l : u[(m + b) + j] = c[j]
        BY <1>1, <1>5, <1>6, <2>2 DEF HoldsAt, Follows
    <2> QED
        BY <1>5, <2>1, <2>3 DEF HoldsAt
<1> QED
    BY <1>2, <1>7 DEF HoldsRow

LEMMA RowOfItself == \A t : IsList(t) => HoldsRow(t, t)
<1> SUFFICES ASSUME NEW t, IsList(t) PROVE HoldsRow(t, t)
    OBVIOUS
<1>1. PICK n \in Nat : n = Len(t)
    BY ListLength
<1>2. HoldsAt(t, t, 0)
    <2>1. \A j \in 1..n : 0 + j = j
        OBVIOUS
    <2> QED
        BY <1>1, <2>1 DEF HoldsAt
<1> QED
    BY <1>2 DEF HoldsRow

\* The end of a row that is held is held.
LEMMA RowEnd ==
    ASSUME NEW t, IsList(t), NEW a, IsList(a), NEW c, IsList(c), HoldsRow(t, a \o c)
    PROVE  HoldsRow(t, c)
<1>1. PICK u : u = a \o c
    OBVIOUS
<1>2. PICK b \in Nat : HoldsAt(t, u, b)
    BY <1>1 DEF HoldsRow
<1>3. PICK m \in Nat : m = Len(a)
    BY ListLength
<1>4. PICK n \in Nat : n = Len(c)
    BY ListLength
<1>5. Follows(u, a, m, c, n)
    BY <1>1, <1>3, <1>4, Concatenation
<1>6. PICK L \in Nat : L = Len(t)
    BY ListLength
<1>7. HoldsAt(t, c, b + m)
    <2>1. b + (m + n) <= L /\ (b + m) + n <= L
        BY <1>2, <1>5, <1>6 DEF HoldsAt, Follows
    <2>2. \A j \in 1..n : m + j \in 1..(m + n) /\ (b + m) + j = b + (m + j)
        OBVIOUS
    <2>3. \A j \in 1..n : t[(b + m) + j] = c[j]
        BY <1>2, <1>5, <2>2 DEF HoldsAt, Follows
    <2> QED
        BY <1>4, <1>6, <2>1, <2>3 DEF HoldsAt
<1> QED
    BY <1>7 DEF HoldsRow

LEMMA LiesWider ==
    ASSUME NEW span, NEW from \in Int, NEW to \in Int, NEW end \in Int,
           Lies(span, from, to), to <= end
    PROVE  Lies(span, from, end)
    BY DEF Lies

LEMMA OrderWider ==
    ASSUME NEW table, NEW from \in Int, NEW to \in Int, NEW end \in Int,
           InOrder(table, from, to), to <= end
    PROVE  InOrder(table, from, end)
    BY LiesWider DEF InOrder

\* What the parser adds has no page to be known.
LEMMA KnowsGap ==
    ASSUME NEW t, IsList(t), NEW gap, Unprinted(gap), NEW table, NEW from \in Int,
           Knows(t, table, from)
    PROVE  Knows(t \o gap, table, from)
<1>1. PICK u : u = t \o gap
    OBVIOUS
<1>2. PICK m \in Nat : m = Len(t)
    BY ListLength
<1>3. PICK n \in Nat : n = Len(gap)
    BY ListLength DEF Unprinted
<1>4. Follows(u, t, m, gap, n)
    BY <1>1, <1>2, <1>3, Concatenation DEF Unprinted
<1>5. ASSUME NEW x \in 1..(m + n), u[x].page # 0
      PROVE  \E k \in 1..Len(table) : Within(from + x - 1, table[k]) /\ table[k][3] = u[x].page
    <2>1. CASE x \in 1..m
        <3>1. u[x] = t[x]
            BY <1>4, <2>1 DEF Follows
        <3> QED
            BY <1>2, <1>5, <2>1, <3>1 DEF Knows
    <2>2. CASE x \notin 1..m
        <3>1. x - m \in 1..n /\ m + (x - m) = x
            BY <2>2
        <3>2. u[x] = gap[x - m]
            BY <1>4, <3>1 DEF Follows
        <3>3. gap[x - m].page = 0
            BY <1>3, <3>1 DEF Unprinted
        <3> QED
            BY <1>5, <3>2, <3>3
    <2> QED
        BY <2>1, <2>2
<1>6. Len(u) = m + n
    BY <1>4 DEF Follows
<1> QED
    BY <1>1, <1>5, <1>6 DEF Knows

\* t with one section more, and its line in the table.
\* u is s with x behind its n elements.
Appended(u, s, n, x) ==
    /\ IsList(u) /\ Len(u) = n + 1
    /\ \A k \in 1..n : u[k] = s[k]
    /\ u[n + 1] = x

LEMMA AppendedOne ==
    ASSUME NEW s, IsList(s), NEW n \in Nat, n = Len(s), NEW x, NEW u, u = Append(s, x)
    PROVE  Appended(u, s, n, x)
<1>1. PICK S : S = ToSet(s) \cup {x}
    OBVIOUS
<1>2. s \in Seq(S) /\ x \in S
    BY <1>1, SeqMonotonic DEF IsList
<1>3. u \in Seq(S)
    BY <1>2, AppendProperties
<1>4. Len(u) = n + 1
    BY <1>2, AppendProperties
<1>5. u[n + 1] = x
    BY <1>2, AppendProperties
<1>6. \A k \in 1..n : u[k] = s[k]
    BY <1>2, AppendProperties
<1> QED
    BY <1>3, <1>4, <1>5, <1>6, SeqIsList DEF Appended

HasLength(s, n) == IsList(s) /\ Len(s) = n
IsSpan(span, from, to, page) == span[1] = from /\ span[2] = to /\ span[3] = page

LEMMA KnowsSection ==
    ASSUME NEW t, NEW m \in Nat, HasLength(t, m),
           NEW section, Section(section), NEW l \in Nat, HasLength(section.text, l),
           NEW table, NEW n \in Nat, HasLength(table, n), NEW from \in Int,
           NEW a \in Int, a = from + m, NEW e \in Int, e = a + l,
           InOrder(table, from, a), Knows(t, table, from),
           NEW span, IsSpan(span, a, e, section.page),
           NEW longer, Appended(longer, table, n, span)
    PROVE  InOrder(longer, from, e) /\ Knows(t \o section.text, longer, from)
<1>1. PICK c : c = section.text /\ IsList(c)
    BY DEF Section
<1>2. m = Len(t) /\ IsList(t)
    BY DEF HasLength
<1>3. l = Len(c)
    BY <1>1 DEF HasLength
<1>4. l > 0
    BY <1>1, <1>3 DEF Section
<1>5. PICK u : u = t \o c
    OBVIOUS
<1>6. Follows(u, t, m, c, l)
    BY <1>1, <1>2, <1>3, <1>5, Concatenation
<1>7. n = Len(table)
    BY DEF HasLength
<1>8. span[1] = a /\ span[2] = e /\ span[3] = section.page
    BY DEF IsSpan
<1>11. Len(longer) = n + 1 /\ longer[n + 1] = span
    BY <1>7 DEF Appended
<1>12. \A k \in 1..n : longer[k] = table[k]
    BY <1>7 DEF Appended
<1>14. ASSUME NEW k \in 1..(n + 1) PROVE Lies(longer[k], from, e)
    <2>1. CASE k \in 1..n
        <3>1. Lies(table[k], from, a)
            BY <1>7, <2>1 DEF InOrder
        <3>2. a <= e
            OBVIOUS
        <3>3. Lies(table[k], from, e)
            BY <3>1, <3>2, LiesWider
        <3> QED
            BY <1>12, <2>1, <3>3
    <2>2. CASE k = n + 1
        <3>1. from <= a /\ a < e
            BY <1>4
        <3>2. Lies(span, from, e)
            BY <1>8, <3>1 DEF Lies
        <3> QED
            BY <1>11, <2>2, <3>2
    <2> QED
        BY <2>1, <2>2
<1>15. ASSUME NEW k \in 2..(n + 1) PROVE longer[k - 1][2] <= longer[k][1]
    <2>1. k - 1 \in 1..n
        OBVIOUS
    <2>2. longer[k - 1] = table[k - 1]
        BY <1>12, <2>1
    <2>3. CASE k \in 2..n
        <3>1. longer[k] = table[k]
            BY <1>12, <2>3
        <3>2. table[k - 1][2] <= table[k][1]
            BY <1>7, <2>3 DEF InOrder
        <3> QED
            BY <2>2, <3>1, <3>2
    <2>4. CASE k = n + 1
        <3>1. longer[k] = span
            BY <1>11, <2>4
        <3>2. table[k - 1][2] <= a
            BY <1>7, <2>1 DEF InOrder, Lies
        <3> QED
            BY <1>8, <2>2, <3>1, <3>2
    <2> QED
        BY <2>3, <2>4
<1>16. InOrder(longer, from, e)
    BY <1>11, <1>14, <1>15 DEF InOrder
<1>17. ASSUME NEW x \in 1..(m + l), u[x].page # 0
       PROVE  \E k \in 1..(n + 1) : Within(from + x - 1, longer[k]) /\ longer[k][3] = u[x].page
    <2>1. CASE x \in 1..m
        <3>1. u[x] = t[x]
            BY <1>6, <2>1 DEF Follows
        <3>2. PICK k \in 1..n : Within(from + x - 1, table[k]) /\ table[k][3] = t[x].page
            BY <1>2, <1>7, <1>17, <2>1, <3>1 DEF Knows
        <3>3. longer[k] = table[k] /\ k \in 1..(n + 1)
            BY <1>12
        <3> QED
            BY <3>1, <3>2, <3>3
    <2>2. CASE x \notin 1..m
        <3>1. x - m \in 1..l /\ m + (x - m) = x
            BY <2>2
        <3>2. u[x] = c[x - m]
            BY <1>6, <3>1 DEF Follows
        <3>3. c[x - m].page = section.page
            BY <1>1, <1>3, <1>17, <3>1, <3>2 DEF Section
        <3>4. a <= from + x - 1 /\ from + x - 1 < e
            BY <2>2
        <3>5. Within(from + x - 1, span)
            BY <1>8, <3>4 DEF Within
        <3>6. longer[n + 1] = span /\ n + 1 \in 1..(n + 1)
            BY <1>11
        <3> QED
            BY <1>8, <3>2, <3>3, <3>5, <3>6
    <2> QED
        BY <2>1, <2>2
<1>18. Knows(u, longer, from)
    <2>1. Len(u) = m + l
        BY <1>6 DEF Follows
    <2> QED
        BY <1>11, <1>17, <2>1 DEF Knows
<1> QED
    BY <1>1, <1>5, <1>16, <1>18

\* The first n sections are laid out: the table tells their pages, and each of them
\* is there.
Gap0(n, gap) == IF n = 0 THEN 0 ELSE Len(gap)
LaidOut(laid, sections, n, from, gap) ==
    /\ IsList(laid.text) /\ IsList(laid.spans) /\ Len(laid.spans) = n
    /\ laid.offset = from + Len(laid.text) + Gap0(n, gap)
    /\ n = 0 => laid.text = <<>>
    /\ InOrder(laid.spans, from, from + Len(laid.text))
    /\ Knows(laid.text, laid.spans, from)
    /\ \A k \in 1..n : HoldsRow(laid.text, sections[k].text)

LEMMA PutOneMore ==
    ASSUME NEW sections, Sections(sections), NEW from \in Int, NEW gap, Unprinted(gap),
           NEW n \in Nat, n + 1 <= Len(sections),
           NEW laid, LaidOut(laid, sections, n, from, gap),
           NEW r, r = Put(laid, sections[n + 1], gap)
    PROVE  LaidOut(r, sections, n + 1, from, gap)
<1>1. PICK t : t = laid.text /\ IsList(t)
    BY DEF LaidOut
<1>2. PICK table : table = laid.spans /\ IsList(table) /\ Len(table) = n
    BY DEF LaidOut
<1>3. PICK section : section = sections[n + 1]
    OBVIOUS
<1>4. Section(section)
    <2>1. n + 1 \in 1..Len(sections)
        BY ListLength DEF Sections
    <2> QED
        BY <1>3, <2>1 DEF Sections
<1>5. PICK c : c = section.text /\ IsList(c)
    BY <1>4 DEF Section
<1>6. PICK l \in Nat : l = Len(c)
    BY <1>5, ListLength
<1>7. PICK g \in Nat : g = Len(gap)
    BY ListLength DEF Unprinted
<1>8. table = <<>> <=> n = 0
    <2>1. table \in Seq(ToSet(table))
        BY <1>2 DEF IsList
    <2> QED
        BY <1>2, <2>1, EmptySeq
<1>9. PICK before : before = IF n = 0 THEN t ELSE t \o gap
    OBVIOUS
<1>10. PICK m \in Nat : m = Len(t)
    BY <1>1, ListLength
<1>11. /\ IsList(before) /\ Len(before) = m + Gap0(n, gap) /\ Gap0(n, gap) \in Nat
       /\ Knows(before, table, from)
       /\ \A k \in 1..n : HoldsRow(before, sections[k].text)
    <2>1. Knows(t, table, from) /\ \A k \in 1..n : HoldsRow(t, sections[k].text)
        BY <1>1, <1>2 DEF LaidOut
    <2>2. CASE n = 0
        BY <1>1, <1>9, <1>10, <2>1, <2>2 DEF Gap0
    <2>3. CASE n # 0
        <3>1. before = t \o gap
            BY <1>9, <2>3
        <3>2. IsList(gap)
            BY DEF Unprinted
        <3>3. IsList(before) /\ Len(before) = m + g
            BY <1>1, <1>7, <1>10, <3>1, <3>2, JoinedList
        <3>4. Knows(before, table, from)
            BY <1>1, <2>1, <3>1, KnowsGap
        <3>5. ASSUME NEW k \in 1..n PROVE HoldsRow(before, sections[k].text)
            <4>1. IsList(sections[k].text)
                <5>1. k \in 1..Len(sections)
                    BY ListLength DEF Sections
                <5> QED
                    BY <5>1 DEF Sections, Section
            <4> QED
                BY <1>1, <2>1, <3>1, <3>2, <4>1, RowEarlier
        <3> QED
            BY <1>7, <2>3, <3>3, <3>4, <3>5 DEF Gap0
    <2> QED
        BY <2>2, <2>3
<1>12. PICK d \in Nat : d = Len(before)
    BY <1>11, ListLength
<1>13. PICK a \in Int : a = from + d
    OBVIOUS
<1>24. PICK e \in Int : e = a + l
    OBVIOUS
<1>25. laid.offset = a
    <2>1. laid.offset = from + m + Gap0(n, gap)
        BY <1>1, <1>10 DEF LaidOut
    <2>2. PICK z \in Nat : z = Gap0(n, gap)
        BY <1>11
    <2>3. d = m + z
        BY <1>11, <1>12, <2>2
    <2>4. laid.offset = from + m + z
        BY <2>1, <2>2
    <2> QED
        BY <1>13, <2>3, <2>4
<1>14. InOrder(table, from, a)
    <2>1. InOrder(table, from, from + m)
        BY <1>1, <1>2, <1>10 DEF LaidOut
    <2>2. from + m \in Int /\ from + m <= a
        BY <1>10, <1>11, <1>12, <1>13
    <2> QED
        BY <2>1, <2>2, OrderWider
<1>26. PICK span : span = <<a, e, section.page>>
    OBVIOUS
<1>15. PICK longer : longer = Append(table, span)
    OBVIOUS
<1>27. Appended(longer, table, n, span)
    BY <1>2, <1>15, AppendedOne
<1>28. IsSpan(span, a, e, section.page)
    BY <1>26 DEF IsSpan
<1>29. HasLength(before, d) /\ HasLength(section.text, l) /\ HasLength(table, n)
    BY <1>2, <1>5, <1>6, <1>11, <1>12 DEF HasLength
<1>16. InOrder(longer, from, e) /\ Knows(before \o section.text, longer, from)
    BY <1>4, <1>11, <1>13, <1>14, <1>24, <1>27, <1>28, <1>29, KnowsSection
<1>30. IsList(longer) /\ Len(longer) = n + 1
    BY <1>27 DEF Appended
<1>17. r.text = before \o c /\ r.spans = longer /\ r.offset = e + g
    <2>1. r.spans = longer
        BY <1>2, <1>3, <1>5, <1>6, <1>24, <1>25, <1>26, <1>15 DEF Put
    <2>2. r.offset = e + g
        BY <1>3, <1>5, <1>6, <1>7, <1>24, <1>25 DEF Put
    <2>3. r.text = IF table = <<>> THEN c ELSE t \o gap \o c
        BY <1>1, <1>2, <1>3, <1>5 DEF Put
    <2>4. CASE n # 0
        BY <1>8, <1>9, <2>1, <2>2, <2>3, <2>4
    <2>5. CASE n = 0
        <3>1. before = t /\ r.text = c
            BY <1>8, <1>9, <2>3, <2>5
        <3>2. t = <<>>
            BY <1>1, <2>5 DEF LaidOut
        <3>3. t \o c = c
            BY <1>5, <3>2, ConcatEmptySeq DEF IsList
        <3> QED
            BY <1>5, <2>1, <2>2, <3>1, <3>3
    <2> QED
        BY <2>4, <2>5
<1>18. PICK u : u = before \o c
    OBVIOUS
<1>19. IsList(u) /\ Len(u) = d + l
    BY <1>5, <1>6, <1>11, <1>12, <1>18, JoinedList
<1>20. ASSUME NEW k \in 1..(n + 1) PROVE HoldsRow(u, sections[k].text)
    <2>1. CASE k \in 1..n
        <3>1. IsList(sections[k].text)
            <4>1. k \in 1..Len(sections)
                BY ListLength DEF Sections
            <4> QED
                BY <4>1 DEF Sections, Section
        <3> QED
            BY <1>5, <1>11, <1>18, <2>1, <3>1, RowEarlier
    <2>2. CASE k = n + 1
        <3>1. HoldsRow(c, c)
            BY <1>5, RowOfItself
        <3> QED
            BY <1>3, <1>5, <1>11, <1>18, <2>2, <3>1, RowLater
    <2> QED
        BY <2>1, <2>2
<1>21. Gap0(n + 1, gap) = g /\ n + 1 # 0
    BY <1>7 DEF Gap0
<1>22. e = from + Len(u)
    BY <1>6, <1>12, <1>13, <1>19, <1>24
<1>31. r.text = u
    BY <1>5, <1>17, <1>18
<1>32. r.offset = from + Len(u) + Gap0(n + 1, gap)
    BY <1>17, <1>21, <1>22
<1>23. InOrder(r.spans, from, from + Len(u)) /\ Knows(u, r.spans, from)
    BY <1>5, <1>16, <1>17, <1>18, <1>22
<1> QED
    BY <1>17, <1>19, <1>20, <1>21, <1>23, <1>30, <1>31, <1>32 DEF LaidOut

Layout(C, P) == [text : Seq(C), offset : Int, spans : Seq(Int \X Int \X P)]

LEMMA PutTyped ==
    ASSUME NEW C, NEW P, NEW r \in Layout(C, P), NEW section, section.text \in Seq(C),
           section.page \in P, NEW gap \in Seq(C)
    PROVE  Put(r, section, gap) \in Layout(C, P)
<1>1. r.text \in Seq(C) /\ r.offset \in Int /\ r.spans \in Seq(Int \X Int \X P)
    BY DEF Layout
<1>2. PICK c \in Seq(C) : c = section.text
    OBVIOUS
<1>3. PICK l \in Nat : l = Len(c)
    BY <1>2, LenProperties
<1>4. PICK g \in Nat : g = Len(gap)
    BY LenProperties
<1>5. PICK end \in Int : end = r.offset + l
    BY <1>1
<1>6. PICK offset \in Int : offset = end + g
    OBVIOUS
<1>7. PICK said : said = IF r.spans = <<>> THEN c ELSE r.text \o gap \o c
    OBVIOUS
<1>8. said \in Seq(C)
    BY <1>1, <1>2, <1>7, ConcatProperties
<1>9. PICK span : span = <<r.offset, end, section.page>>
    OBVIOUS
<1>10. span \in Int \X Int \X P
    BY <1>1, <1>5, <1>9
<1>11. Append(r.spans, span) \in Seq(Int \X Int \X P)
    BY <1>1, <1>10, AppendProperties
<1>12. Put(r, section, gap) = [text |-> said, offset |-> offset, spans |-> Append(r.spans, span)]
    BY <1>2, <1>3, <1>4, <1>5, <1>6, <1>7, <1>9 DEF Put
<1> QED
    BY <1>8, <1>11, <1>12 DEF Layout

\* What is laid out before the first section.
Bare(from) == [text |-> <<>>, offset |-> from, spans |-> <<>>]

LEMMA EndToEndUnfolds ==
    ASSUME NEW sections, Sections(sections), NEW from \in Int, NEW gap, Unprinted(gap),
           NEW L \in Nat, L = Len(sections)
    PROVE  \E f : /\ EndToEnd(sections, from, gap) = f[L]
                  /\ f[0] = Bare(from)
                  /\ \A n \in 1..L : f[n] = Put(f[n - 1], sections[n], gap)
<1>1. PICK C : C = ToSet(gap) \cup UNION {ToSet(sections[n].text) : n \in 1..L}
    OBVIOUS
<1>2. PICK P : P = {sections[n].page : n \in 1..L}
    OBVIOUS
<1>3. PICK T : T = Layout(C, P)
    OBVIOUS
<1>4. PICK e : e = Bare(from)
    OBVIOUS
<1>5. gap \in Seq(C)
    BY <1>1, SeqMonotonic DEF Unprinted, IsList
<1>6. ASSUME NEW n \in 1..L PROVE sections[n].text \in Seq(C) /\ sections[n].page \in P
    <2>1. IsList(sections[n].text)
        BY DEF Sections, Section
    <2>2. ToSet(sections[n].text) \subseteq C
        BY <1>1
    <2> QED
        BY <1>2, <2>1, <2>2, SeqMonotonic DEF IsList
<1>7. e \in T
    BY <1>3, <1>4, EmptySeq DEF Bare, Layout
<1>8. PICK step : step = [n \in 1..L |-> [r \in T |-> Put(r, sections[n], gap)]]
    OBVIOUS
<1>9. \A n \in 1..L, r \in T : Put(r, sections[n], gap) \in T
    BY <1>3, <1>5, <1>6, PutTyped
<1>10. step \in [1..L -> [T -> T]]
    BY <1>8, <1>9
<1>11. \E f \in [0..L -> T] : Recursive(f, e, L, step)
    BY <1>7, <1>10, RecursionExists, Zenon
<1>12. PICK f \in [0..L -> T] : f[0] = e /\ \A n \in 1..L : f[n] = step[n][f[n - 1]]
    BY <1>11 DEF Recursive
<1>13. ASSUME NEW n \in 1..L PROVE f[n] = Put(f[n - 1], sections[n], gap)
    <2>1. f[n - 1] \in T
        OBVIOUS
    <2> QED
        BY <1>8, <1>12, <2>1
<1> DEFINE F(g) == [n \in 0..L |-> IF n = 0 THEN e ELSE Put(g[n - 1], sections[n], gap)]
           upto == CHOOSE g : g = F(g)
<1>14. f = F(f)
    <2>1. ASSUME NEW n \in 0..L PROVE f[n] = F(f)[n]
        <3>1. CASE n = 0
            BY <1>12, <3>1
        <3>2. CASE n # 0
            <4>1. n \in 1..L
                BY <3>2
            <4> QED
                BY <1>13, <3>2, <4>1
        <3> QED
            BY <3>1, <3>2
    <2> QED
        BY <2>1
<1>15. upto = F(upto)
    BY <1>14
<1>16. EndToEnd(sections, from, gap) = upto[L]
    BY <1>4 DEF EndToEnd, Bare
<1> HIDE DEF upto
<1>17. \A n \in 0..L : upto[n] = IF n = 0 THEN e ELSE Put(upto[n - 1], sections[n], gap)
    BY <1>15
<1>18. upto[0] = e
    BY <1>17
<1>19. ASSUME NEW n \in 1..L PROVE upto[n] = Put(upto[n - 1], sections[n], gap)
    BY <1>17
<1> QED
    BY <1>4, <1>16, <1>18, <1>19

LEMMA SectionsLaidOut ==
    ASSUME NEW sections, Sections(sections), NEW from \in Int, NEW gap, Unprinted(gap)
    PROVE  LaidOut(EndToEnd(sections, from, gap), sections, Len(sections), from, gap)
<1>1. PICK L \in Nat : L = Len(sections)
    BY ListLength DEF Sections
<1>2. PICK f : /\ EndToEnd(sections, from, gap) = f[L]
               /\ f[0] = Bare(from)
               /\ \A n \in 1..L : f[n] = Put(f[n - 1], sections[n], gap)
    BY <1>1, EndToEndUnfolds
<1>3. PICK Good : Good = {n \in Nat : n <= L => LaidOut(f[n], sections, n, from, gap)}
    OBVIOUS
<1>4. 0 \in Good
    <2>1. PICK none : none = <<>>
        OBVIOUS
    <2>2. none \in Seq({}) /\ Len(none) = 0
        BY <2>1, EmptySeq
    <2>3. IsList(none)
        BY <2>2, SeqIsList
    <2>4. f[0].text = none /\ f[0].spans = none /\ f[0].offset = from
        BY <1>2, <2>1 DEF Bare
    <2>5. InOrder(none, from, from + 0) /\ Knows(none, none, from)
        BY <2>2 DEF InOrder, Knows
    <2>6. LaidOut(f[0], sections, 0, from, gap)
        BY <2>1, <2>2, <2>3, <2>4, <2>5 DEF LaidOut, Gap0
    <2> QED
        BY <1>3, <2>6
<1>5. ASSUME NEW n \in Nat, n \in Good PROVE n + 1 \in Good
    <2> SUFFICES ASSUME n + 1 <= L PROVE LaidOut(f[n + 1], sections, n + 1, from, gap)
        BY <1>3
    <2>1. LaidOut(f[n], sections, n, from, gap)
        BY <1>3, <1>5
    <2>2. f[n + 1] = Put(f[n], sections[n + 1], gap)
        <3>1. n + 1 \in 1..L /\ (n + 1) - 1 = n
            OBVIOUS
        <3> QED
            BY <1>2, <3>1
    <2> QED
        BY <1>1, <2>1, <2>2, PutOneMore
<1>6. L \in Good
    BY <1>4, <1>5, NatSetInduction
<1> QED
    BY <1>1, <1>2, <1>3, <1>6

LEMMA PrintedList ==
    ASSUME NEW chars, IsList(chars), NEW p, NEW t, t = Printed(chars, p)
    PROVE  IsList(t) /\ Len(t) = Len(chars) /\ \A j \in 1..Len(t) : t[j].page = p
<1>1. PICK n \in Nat : n = Len(chars) /\ DOMAIN chars = 1..n
    BY ListLength
<1>2. t = [j \in 1..n |-> [c |-> chars[j], page |-> p]]
    BY <1>1 DEF Printed
<1>3. t = [j \in 1..n |-> t[j]] /\ \A j \in 1..n : t[j].page = p
    BY <1>2
<1>4. IsList(t) /\ Len(t) = n
    BY <1>3, ListedBy
<1> QED
    BY <1>1, <1>3, <1>4

LEMMA AddedUnprinted ==
    /\ Unprinted(Added(<<"/">>)) /\ Len(Added(<<"/">>)) = 1
    /\ Unprinted(Added(<<"/", "/">>)) /\ Len(Added(<<"/", "/">>)) = 2
    /\ Unprinted(Added(<<"/", "#", "/">>)) /\ Len(Added(<<"/", "#", "/">>)) = 3
<1>1. ASSUME NEW s, IsList(s) PROVE Unprinted(Added(s)) /\ Len(Added(s)) = Len(s)
    BY <1>1, PrintedList DEF Unprinted, Added
<1>2. PICK s : s = <<"/">>
    OBVIOUS
<1>3. s \in Seq({"/"}) /\ Len(s) = 1
    BY <1>2
<1>4. PICK t : t = <<"/", "/">>
    OBVIOUS
<1>5. t \in Seq({"/"}) /\ Len(t) = 2
    BY <1>4
<1>6. PICK u : u = <<"/", "#", "/">>
    OBVIOUS
<1>7. u \in Seq({"/", "#"}) /\ Len(u) = 3
    BY <1>6
<1>8. IsList(s) /\ IsList(t) /\ IsList(u)
    BY <1>3, <1>5, <1>7, SeqIsList
<1> QED
    BY <1>1, <1>2, <1>3, <1>4, <1>5, <1>6, <1>7, <1>8

\* The pages that are kept, in their order.
LEMMA KeptPages ==
    ASSUME NEW pdf, IsList(pdf.pages), NEW test, NEW kept, kept = Selected(Numbered(pdf), test)
    PROVE  /\ IsList(kept)
           /\ \A k \in 1..Len(kept) : kept[k] \in DOMAIN pdf.pages /\ test[kept[k]]
           /\ \A p \in DOMAIN pdf.pages : test[p] => \E k \in 1..Len(kept) : kept[k] = p
<1>1. PICK N \in Nat : N = Len(pdf.pages) /\ DOMAIN pdf.pages = 1..N
    BY ListLength
<1>2. PICK s : s = Numbered(pdf)
    OBVIOUS
<1>3. s = [p \in 1..N |-> p]
    BY <1>1, <1>2 DEF Numbered
<1>4. s \in [1..N -> 1..N] /\ \A p \in 1..N : s[p] = p
    BY <1>3
<1>5. s \in Seq(1..N) /\ DOMAIN s = 1..N
    BY <1>4, Listed
<1>6. kept = Selected(s, test)
    BY <1>2
<1>7. kept \in Seq(1..N)
    BY <1>5, <1>6, SelectedElements
<1>8. DOMAIN kept = 1..Len(kept)
    BY <1>7, LenProperties
<1>9. ASSUME NEW k \in 1..Len(kept) PROVE kept[k] \in DOMAIN pdf.pages /\ test[kept[k]]
    <2>1. k \in DOMAIN kept
        BY <1>8
    <2>2. \A j \in DOMAIN Selected(s, test) :
              \E m \in DOMAIN s : test[m] /\ Selected(s, test)[j] = s[m]
        <3>1. PICK S : s \in Seq(S)
            BY <1>5
        <3> QED
            BY <3>1, SelectedElements
    <2>3. PICK m \in DOMAIN s : test[m] /\ kept[k] = s[m]
        BY <1>6, <2>1, <2>2, Zenon
    <2> QED
        BY <1>1, <1>4, <1>5, <2>3
<1>10. ASSUME NEW p \in DOMAIN pdf.pages, test[p] PROVE \E k \in 1..Len(kept) : kept[k] = p
    <2>1. p \in DOMAIN s /\ s[p] = p
        BY <1>1, <1>4, <1>5
    <2>2. PICK k \in DOMAIN kept : kept[k] = s[p]
        BY <1>5, <1>6, <1>10, <2>1, SelectedElements
    <2> QED
        BY <1>8, <2>1, <2>2
<1> QED
    BY <1>7, <1>9, <1>10, SeqIsList

\* A section made of what the parser adds and of characters of a page.
MadeOf(section, a, chars, p) ==
    /\ Unprinted(a) /\ IsList(chars)
    /\ section.page = p /\ section.text = a \o Printed(chars, p)

LEMMA SectionMade ==
    ASSUME NEW section, NEW a, NEW chars, NEW p, MadeOf(section, a, chars, p),
           Len(a) > 0 \/ Len(chars) > 0
    PROVE  Section(section)
<1>1. PICK t : t = Printed(chars, p)
    OBVIOUS
<1>2. IsList(t) /\ Len(t) = Len(chars) /\ \A j \in 1..Len(t) : t[j].page = p
    BY <1>1, PrintedList DEF MadeOf
<1>3. PICK n \in Nat : n = Len(t)
    BY <1>2, ListLength
<1>4. PICK m \in Nat : m = Len(a)
    BY ListLength DEF MadeOf, Unprinted
<1>5. PICK u : u = a \o t
    OBVIOUS
<1>6. Follows(u, a, m, t, n)
    BY <1>2, <1>3, <1>4, <1>5, Concatenation DEF MadeOf, Unprinted
<1>7. ASSUME NEW j \in 1..(m + n) PROVE u[j].page \in {0, p}
    <2>1. CASE j \in 1..m
        <3>1. u[j] = a[j]
            BY <1>6, <2>1 DEF Follows
        <3>2. a[j].page = 0
            BY <1>4, <2>1 DEF MadeOf, Unprinted
        <3> QED
            BY <3>1, <3>2
    <2>2. CASE j \notin 1..m
        <3>1. j - m \in 1..n /\ m + (j - m) = j
            BY <2>2
        <3>2. u[j] = t[j - m]
            BY <1>6, <3>1 DEF Follows
        <3>3. t[j - m].page = p
            BY <1>2, <1>3, <3>1
        <3> QED
            BY <3>2, <3>3
    <2> QED
        BY <2>1, <2>2
<1>8. m + n > 0
    <2>1. m > 0 \/ n > 0
        BY <1>2, <1>3, <1>4
    <2> QED
        BY <2>1
<1>9. section.text = u /\ section.page = p
    BY <1>1, <1>5 DEF MadeOf
<1>10. IsList(u) /\ Len(u) = m + n
    BY <1>6 DEF Follows
<1> QED
    BY <1>7, <1>8, <1>9, <1>10 DEF Section

\* Enough of page p is among the sections: a row of its characters, as long as the
\* guard asks for.
Enough(chars, raw) == IsList(chars) /\ Len(chars) * Ratio >= Len(raw)
Shows(sections, k, chars, p) == \E a : MadeOf(sections[k], a, chars, p)
Judged(raw) == Ratio > 0 /\ ~Blank(raw) /\ Len(raw) >= MinRef
PagesShown(sections, pdf) ==
    \A p \in DOMAIN pdf.pages : Judged(pdf.pages[p].raw) =>
        \E k \in 1..Len(sections) : \E chars :
            Enough(chars, pdf.pages[p].raw) /\ Shows(sections, k, chars, p)

IsPdf(pdf) ==
    /\ IsList(pdf.pages)
    /\ \A p \in DOMAIN pdf.pages :
          IsList(pdf.pages[p].raw) /\ IsList(pdf.pages[p].md) /\ IsList(pdf.pages[p].ocr)

LEMMA RawEnough ==
    ASSUME NEW raw, IsList(raw)
    PROVE  /\ ~Blank(raw) => Len(raw) > 0
           /\ Judged(raw) => Enough(raw, raw)
<1>1. PICK n \in Nat : n = Len(raw) /\ DOMAIN raw = 1..n
    BY ListLength
<1>2. n = 0 => Blank(raw)
    BY <1>1 DEF Blank
<1>3. ASSUME Judged(raw) PROVE n * Ratio >= n
    <2>1. PICK r \in Nat : r = Ratio /\ r >= 1
        BY <1>3, ExtractionAssumption DEF Judged
    <2>2. n * r >= n
        BY <2>1
    <2> QED
        BY <2>1, <2>2
<1> QED
    BY <1>1, <1>2, <1>3 DEF Enough

LEMMA NothingUnprinted == \A none : none = <<>> => Unprinted(none)
<1>1. PICK none : none = <<>>
    OBVIOUS
<1>2. none \in Seq({}) /\ Len(none) = 0
    BY <1>1, EmptySeq
<1>3. IsList(none)
    BY <1>2, SeqIsList
<1>4. \A j \in 1..Len(none) : FALSE
    BY <1>2
<1> QED
    BY <1>1, <1>3, <1>4 DEF Unprinted

LEMMA SimpleSections ==
    ASSUME NEW pdf, IsPdf(pdf)
    PROVE  Sections(Simple(pdf)) /\ PagesShown(Simple(pdf), pdf)
<1>1. PICK test : test = [p \in DOMAIN pdf.pages |-> ~Blank(pdf.pages[p].raw)]
    OBVIOUS
<1>2. PICK kept : kept = Selected(Numbered(pdf), test)
    OBVIOUS
<1>3. /\ IsList(kept)
      /\ \A k \in 1..Len(kept) : kept[k] \in DOMAIN pdf.pages /\ test[kept[k]]
      /\ \A p \in DOMAIN pdf.pages : test[p] => \E k \in 1..Len(kept) : kept[k] = p
    BY <1>2, KeptPages DEF IsPdf
<1>4. PICK n \in Nat : n = Len(kept) /\ DOMAIN kept = 1..n
    BY <1>3, ListLength
<1>5. PICK s : s = Simple(pdf)
    OBVIOUS
<1> DEFINE lead(k) == IF k = 1 THEN <<>> ELSE Added(<<"/", "/">>)
<1>6. s = [k \in 1..n |->
              [page |-> kept[k],
               text |-> lead(k) \o Printed(pdf.pages[kept[k]].raw, kept[k])]]
    BY <1>1, <1>2, <1>4, <1>5, Zenon DEF Simple
<1>7. s = [k \in 1..n |-> s[k]]
    BY <1>6
<1>8. IsList(s) /\ Len(s) = n
    BY <1>7, ListedBy
<1>9. ASSUME NEW k \in 1..n
      PROVE  /\ ~Blank(pdf.pages[kept[k]].raw)
             /\ MadeOf(s[k], lead(k), pdf.pages[kept[k]].raw, kept[k])
    <2>1. PICK p \in DOMAIN pdf.pages : p = kept[k] /\ test[p]
        BY <1>3, <1>4
    <2>2. IsList(pdf.pages[p].raw) /\ ~Blank(pdf.pages[p].raw)
        BY <1>1, <2>1 DEF IsPdf
    <2>3. Unprinted(lead(k))
        <3>1. PICK none : none = <<>>
            OBVIOUS
        <3>2. Unprinted(none)
            BY <3>1, NothingUnprinted
        <3> QED
            BY <3>1, <3>2, AddedUnprinted
    <2>4. s[k].page = p /\ s[k].text = lead(k) \o Printed(pdf.pages[p].raw, p)
        BY <1>6, <2>1, Zenon
    <2> QED
        BY <2>1, <2>2, <2>3, <2>4 DEF MadeOf
<1> HIDE DEF lead
<1>10. Sections(s)
    <2>1. ASSUME NEW k \in 1..n PROVE Section(s[k])
        <3>1. IsList(pdf.pages[kept[k]].raw)
            BY <1>9 DEF MadeOf
        <3>2. Len(pdf.pages[kept[k]].raw) > 0
            BY <1>9, <3>1, RawEnough
        <3> QED
            BY <1>9, <3>2, SectionMade
    <2> QED
        BY <1>8, <2>1 DEF Sections
<1>11. PagesShown(s, pdf)
    <2> SUFFICES ASSUME NEW p \in DOMAIN pdf.pages, Judged(pdf.pages[p].raw)
                 PROVE  \E k \in 1..Len(s) : \E chars :
                           Enough(chars, pdf.pages[p].raw) /\ Shows(s, k, chars, p)
        BY DEF PagesShown
    <2>1. test[p]
        BY <1>1 DEF Judged
    <2>2. PICK k \in 1..n : kept[k] = p
        BY <1>3, <1>4, <2>1
    <2>3. Enough(pdf.pages[p].raw, pdf.pages[p].raw)
        BY RawEnough DEF IsPdf
    <2>4. Shows(s, k, pdf.pages[p].raw, p)
        BY <1>9, <2>2 DEF Shows
    <2> QED
        BY <1>8, <2>3, <2>4
<1> QED
    BY <1>5, <1>10, <1>11

LEMMA PageTextEnough ==
    ASSUME NEW pdf, IsPdf(pdf), NEW p \in DOMAIN pdf.pages
    PROVE  /\ IsList(PageText(pdf, p))
           /\ Judged(pdf.pages[p].raw) =>
                 PageText(pdf, p) # <<>> /\ Enough(PageText(pdf, p), pdf.pages[p].raw)
<1>1. PICK raw : raw = pdf.pages[p].raw /\ IsList(raw)
    BY DEF IsPdf
<1>2. PICK md : md = pdf.pages[p].md /\ IsList(md)
    BY DEF IsPdf
<1>3. PICK none : none = <<>>
    OBVIOUS
<1>4. IsList(none) /\ Len(none) = 0
    BY <1>3, EmptySeq, SeqIsList
<1>5. PICK t : t = PageText(pdf, p)
    OBVIOUS
<1>6. t = IF BatchOf(p) \in pdf.failing THEN (IF Blank(raw) THEN none ELSE raw)
          ELSE IF Ratio > 0 /\ Len(raw) >= MinRef /\ Len(md) * Ratio < Len(raw) THEN raw ELSE md
    BY <1>1, <1>2, <1>3, <1>5 DEF PageText, Guarded
<1>7. IsList(t)
    BY <1>1, <1>2, <1>4, <1>6
<1>8. ASSUME Judged(raw) PROVE t # none /\ Enough(t, raw)
    <2>1. Len(raw) > 0 /\ Enough(raw, raw) /\ Len(raw) \in Nat
        BY <1>1, <1>8, RawEnough, ListLength DEF Judged
    <2>2. raw # none
        BY <1>4, <2>1
    <2>3. CASE t = raw
        BY <2>1, <2>2, <2>3
    <2>4. CASE t # raw
        <3>1. t = md /\ ~(Len(md) * Ratio < Len(raw))
            BY <1>6, <1>8, <2>4 DEF Judged
        <3>2. PICK m \in Nat : m = Len(md)
            BY <1>2, ListLength
        <3>3. PICK r \in Nat : r = Ratio
            BY ExtractionAssumption
        <3>4. m * r \in Nat /\ m * r >= Len(raw)
            BY <2>1, <3>1, <3>2, <3>3
        <3>5. m # 0
            BY <2>1, <3>4
        <3>6. md # none
            BY <1>4, <3>2, <3>5
        <3> QED
            BY <1>2, <3>1, <3>2, <3>3, <3>4, <3>6 DEF Enough
    <2> QED
        BY <2>3, <2>4
<1> QED
    BY <1>1, <1>3, <1>5, <1>7, <1>8

LEMMA PagewiseSections ==
    ASSUME NEW pdf, IsPdf(pdf)
    PROVE  Sections(Pagewise(pdf)) /\ PagesShown(Pagewise(pdf), pdf)
<1>1. PICK test : test = [p \in DOMAIN pdf.pages |-> PageText(pdf, p) # <<>>]
    OBVIOUS
<1>2. PICK kept : kept = Selected(Numbered(pdf), test)
    OBVIOUS
<1>3. /\ IsList(kept)
      /\ \A k \in 1..Len(kept) : kept[k] \in DOMAIN pdf.pages /\ test[kept[k]]
      /\ \A p \in DOMAIN pdf.pages : test[p] => \E k \in 1..Len(kept) : kept[k] = p
    BY <1>2, KeptPages DEF IsPdf
<1>4. PICK n \in Nat : n = Len(kept) /\ DOMAIN kept = 1..n
    BY <1>3, ListLength
<1>5. PICK s : s = Pagewise(pdf)
    OBVIOUS
<1>6. s = [k \in 1..n |-> [page |-> kept[k], text |-> Printed(PageText(pdf, kept[k]), kept[k])]]
    BY <1>1, <1>2, <1>4, <1>5 DEF Pagewise
<1>7. s = [k \in 1..n |-> s[k]]
    BY <1>6
<1>8. IsList(s) /\ Len(s) = n
    BY <1>7, ListedBy
<1>9. PICK none : none = <<>>
    OBVIOUS
<1>10. Unprinted(none)
    BY <1>9, NothingUnprinted
<1>11. ASSUME NEW k \in 1..n
       PROVE  /\ MadeOf(s[k], none, PageText(pdf, kept[k]), kept[k])
              /\ Len(PageText(pdf, kept[k])) > 0
    <2>1. PICK p \in DOMAIN pdf.pages : p = kept[k] /\ test[p]
        BY <1>3, <1>4
    <2>2. PICK chars : chars = PageText(pdf, p) /\ IsList(chars) /\ chars # none
        BY <1>1, <1>9, <2>1, PageTextEnough
    <2>3. PICK m \in Nat : m = Len(chars)
        BY <2>2, ListLength
    <2>4. m # 0
        BY <1>9, <2>2, <2>3, EmptySeq DEF IsList
    <2>5. PICK t : t = Printed(chars, p) /\ IsList(t)
        BY <2>2, PrintedList
    <2>6. none \o t = t
        BY <1>9, <2>5, ConcatEmptySeq DEF IsList
    <2>7. s[k].page = p /\ s[k].text = t
        BY <1>6, <2>1, <2>2, <2>5
    <2> QED
        BY <1>10, <2>1, <2>2, <2>3, <2>4, <2>5, <2>6, <2>7 DEF MadeOf
<1>12. Sections(s)
    <2>1. ASSUME NEW k \in 1..n PROVE Section(s[k])
        BY <1>11, SectionMade
    <2> QED
        BY <1>8, <2>1 DEF Sections
<1>13. PagesShown(s, pdf)
    <2> SUFFICES ASSUME NEW p \in DOMAIN pdf.pages, Judged(pdf.pages[p].raw)
                 PROVE  \E k \in 1..Len(s) : \E chars :
                           Enough(chars, pdf.pages[p].raw) /\ Shows(s, k, chars, p)
        BY DEF PagesShown
    <2>1. PICK chars : chars = PageText(pdf, p) /\ Enough(chars, pdf.pages[p].raw) /\ chars # <<>>
        BY PageTextEnough
    <2>2. PICK k \in 1..n : kept[k] = p
        BY <1>1, <1>3, <1>4, <2>1
    <2>3. Shows(s, k, chars, p)
        BY <1>11, <2>1, <2>2 DEF Shows
    <2> QED
        BY <1>8, <2>1, <2>3
<1> QED
    BY <1>5, <1>12, <1>13

LEMMA OcrSectionsMade ==
    ASSUME NEW pdf, IsPdf(pdf)
    PROVE  Sections(OcrSections(pdf))
<1>1. PICK test : test = [p \in DOMAIN pdf.pages |->
                             p \in ToScan(pdf) /\ ~Blank(pdf.pages[p].ocr)]
    OBVIOUS
<1>2. PICK kept : kept = Selected(Numbered(pdf), test)
    OBVIOUS
<1>3. IsList(kept) /\ \A k \in 1..Len(kept) : kept[k] \in DOMAIN pdf.pages
    BY <1>2, KeptPages DEF IsPdf
<1>4. PICK n \in Nat : n = Len(kept) /\ DOMAIN kept = 1..n
    BY <1>3, ListLength
<1>5. PICK s : s = OcrSections(pdf)
    OBVIOUS
<1>6. PICK head : head = Added(<<"/", "#", "/">>)
    OBVIOUS
<1>7. s = [k \in 1..n |->
              [page |-> kept[k], text |-> head \o Printed(pdf.pages[kept[k]].ocr, kept[k])]]
    BY <1>1, <1>2, <1>4, <1>5, <1>6, Zenon DEF OcrSections
<1>8. s = [k \in 1..n |-> s[k]]
    BY <1>7
<1>9. IsList(s) /\ Len(s) = n
    BY <1>8, ListedBy
<1>10. ASSUME NEW k \in 1..n PROVE Section(s[k])
    <2>1. PICK p \in DOMAIN pdf.pages : p = kept[k]
        BY <1>3, <1>4
    <2>2. MadeOf(s[k], head, pdf.pages[p].ocr, p)
        <3>1. s[k].page = p /\ s[k].text = head \o Printed(pdf.pages[p].ocr, p)
            BY <1>7, <2>1
        <3>2. Unprinted(head)
            BY <1>6, AddedUnprinted
        <3>3. IsList(pdf.pages[p].ocr)
            BY DEF IsPdf
        <3> QED
            BY <3>1, <3>2, <3>3 DEF MadeOf
    <2>3. Len(head) > 0
        BY <1>6, AddedUnprinted
    <2> QED
        BY <2>2, <2>3, SectionMade
<1> QED
    BY <1>5, <1>9, <1>10 DEF Sections

\* Two texts one after the other, each with its table.
LEMMA JoinedTables ==
    ASSUME NEW t, NEW m \in Nat, HasLength(t, m), NEW u, NEW l \in Nat, HasLength(u, l),
           NEW first, NEW n \in Nat, HasLength(first, n),
           NEW second, NEW o \in Nat, HasLength(second, o),
           NEW end \in Int, InOrder(first, 1, end), end <= m + 1, Knows(t, first, 1),
           InOrder(second, m + 1, m + 1 + l), Knows(u, second, m + 1)
    PROVE  InOrder(first \o second, 1, 1 + m + l) /\ Knows(t \o u, first \o second, 1)
<1>1. PICK whole : whole = t \o u
    OBVIOUS
<1>2. PICK table : table = first \o second
    OBVIOUS
<1>3. Follows(whole, t, m, u, l)
    BY <1>1, Concatenation DEF HasLength
<1>4. Follows(table, first, n, second, o)
    BY <1>2, Concatenation DEF HasLength
<1>5. \A k \in 1..n : Lies(first[k], 1, end)
    BY DEF InOrder, HasLength
<1>6. \A k \in 1..o : Lies(second[k], m + 1, m + 1 + l)
    BY DEF InOrder, HasLength
<1>7. Len(table) = n + o /\ Len(whole) = m + l
    BY <1>3, <1>4 DEF Follows
<1>8. \A k \in 1..n : table[k] = first[k]
    BY <1>4 DEF Follows
<1>9. \A k \in 1..o : table[n + k] = second[k]
    BY <1>4 DEF Follows
<1>10. ASSUME NEW k \in 1..(n + o), k \notin 1..n
       PROVE  k - n \in 1..o /\ table[k] = second[k - n]
    <2>1. k - n \in 1..o /\ n + (k - n) = k
        BY <1>10
    <2> QED
        BY <1>9, <2>1
<1>11. ASSUME NEW k \in 1..(n + o) PROVE Lies(table[k], 1, 1 + m + l)
    <2>1. CASE k \in 1..n
        <3>1. Lies(first[k], 1, 1 + m + l)
            BY <1>5, <2>1, LiesWider
        <3> QED
            BY <1>8, <2>1, <3>1
    <2>2. CASE k \notin 1..n
        <3>1. Lies(second[k - n], m + 1, m + 1 + l)
            BY <1>6, <1>10, <2>2
        <3>2. Lies(second[k - n], 1, 1 + m + l)
            BY <3>1 DEF Lies
        <3> QED
            BY <1>10, <2>2, <3>2
    <2> QED
        BY <2>1, <2>2
<1>12. ASSUME NEW k \in 2..(n + o) PROVE table[k - 1][2] <= table[k][1]
    <2>1. CASE k \in 1..n
        <3>1. k - 1 \in 1..n /\ k \in 2..n
            BY <2>1
        <3>2. first[k - 1][2] <= first[k][1]
            BY <3>1 DEF InOrder, HasLength
        <3> QED
            BY <1>8, <2>1, <3>1, <3>2
    <2>2. CASE k = n + 1
        <3>1. k - 1 \in 1..n /\ 1 \in 1..o
            BY <2>2
        <3>2. first[k - 1][2] <= end /\ first[k - 1][2] \in Int
            BY <1>5, <3>1 DEF Lies
        <3>3. m + 1 <= second[1][1] /\ second[1][1] \in Int
            BY <1>6, <3>1 DEF Lies
        <3>4. table[k - 1] = first[k - 1] /\ table[k] = second[1]
            BY <1>8, <1>9, <2>2, <3>1
        <3> QED
            BY <3>2, <3>3, <3>4
    <2>3. CASE k \notin 1..(n + 1)
        <3>1. k - 1 \in 1..(n + o) /\ k - 1 \notin 1..n /\ k \notin 1..n
            BY <2>3
        <3>2. PICK j \in 2..o : j = k - n
            BY <2>3
        <3>3. j - 1 = (k - 1) - n /\ j - 1 \in 1..o
            BY <3>2
        <3>4. table[k] = second[j] /\ table[k - 1] = second[j - 1]
            BY <1>10, <3>1, <3>2, <3>3
        <3>5. second[j - 1][2] <= second[j][1]
            BY DEF InOrder, HasLength
        <3> QED
            BY <3>4, <3>5
    <2> QED
        BY <2>1, <2>2, <2>3
<1>13. ASSUME NEW x \in 1..(m + l), whole[x].page # 0
       PROVE  \E k \in 1..(n + o) : Within(1 + x - 1, table[k]) /\ table[k][3] = whole[x].page
    <2>1. CASE x \in 1..m
        <3>1. whole[x] = t[x]
            BY <1>3, <2>1 DEF Follows
        <3>2. PICK k \in 1..n : Within(1 + x - 1, first[k]) /\ first[k][3] = t[x].page
            BY <1>13, <2>1, <3>1 DEF Knows, HasLength
        <3>3. k \in 1..(n + o) /\ table[k] = first[k]
            BY <1>8
        <3> QED
            BY <3>1, <3>2, <3>3
    <2>2. CASE x \notin 1..m
        <3>1. PICK y \in 1..l : y = x - m /\ x = m + y
            BY <2>2
        <3>2. whole[x] = u[y]
            BY <1>3, <3>1 DEF Follows
        <3>3. PICK k \in 1..o : Within(m + 1 + y - 1, second[k]) /\ second[k][3] = u[y].page
            BY <1>13, <3>2 DEF Knows, HasLength
        <3>4. m + 1 + y - 1 = 1 + x - 1
            BY <3>1
        <3>5. n + k \in 1..(n + o) /\ table[n + k] = second[k]
            BY <1>9
        <3> QED
            BY <3>2, <3>3, <3>4, <3>5
    <2> QED
        BY <2>1, <2>2
<1> QED
    BY <1>1, <1>2, <1>7, <1>11, <1>12, <1>13 DEF InOrder, Knows

\* What is true of the text of a PDF and of its table.
PagesTold(r, pdf) ==
    /\ IsList(r.text) /\ IsList(r.spans)
    /\ InOrder(r.spans, 1, 1 + Len(r.text)) /\ Knows(r.text, r.spans, 1)
    /\ \A p \in DOMAIN pdf.pages : Judged(pdf.pages[p].raw) =>
          \E chars : Enough(chars, pdf.pages[p].raw) /\ HoldsRow(r.text, Printed(chars, p))

LEMMA ExtractedTold ==
    ASSUME NEW pdf, IsPdf(pdf), NEW r, r = Extracted(pdf)
    PROVE  PagesTold(r, pdf)
<1>1. PICK s : s = IF IsComplexVector(pdf) THEN Simple(pdf) ELSE Pagewise(pdf)
    OBVIOUS
<1>2. Sections(s) /\ PagesShown(s, pdf)
    BY <1>1, SimpleSections, PagewiseSections
<1>3. PICK none : none = <<>>
    OBVIOUS
<1>4. LaidOut(r, s, Len(s), 1, none)
    <2>1. r = EndToEnd(s, 1, none)
        BY <1>1, <1>3 DEF Extracted
    <2>2. Unprinted(none)
        BY <1>3, NothingUnprinted
    <2> QED
        BY <1>2, <2>1, <2>2, SectionsLaidOut
<1>5. ASSUME NEW p \in DOMAIN pdf.pages, Judged(pdf.pages[p].raw)
      PROVE  \E chars : Enough(chars, pdf.pages[p].raw) /\ HoldsRow(r.text, Printed(chars, p))
    <2>1. PICK k \in 1..Len(s) : \E chars :
                    Enough(chars, pdf.pages[p].raw) /\ Shows(s, k, chars, p)
        BY <1>2, <1>5 DEF PagesShown
    <2>2. PICK chars : Enough(chars, pdf.pages[p].raw) /\ Shows(s, k, chars, p)
        BY <2>1
    <2>3. PICK a : MadeOf(s[k], a, chars, p)
        BY <2>2 DEF Shows
    <2>4. HoldsRow(r.text, a \o Printed(chars, p))
        BY <1>4, <2>3 DEF LaidOut, MadeOf
    <2>5. IsList(a) /\ IsList(Printed(chars, p)) /\ IsList(r.text)
        BY <1>4, <2>3, PrintedList DEF MadeOf, Unprinted, LaidOut
    <2>6. HoldsRow(r.text, Printed(chars, p))
        BY <2>4, <2>5, RowEnd
    <2> QED
        BY <2>2, <2>6
<1> QED
    BY <1>4, <1>5 DEF PagesTold, LaidOut

LEMMA PdfTold ==
    ASSUME NEW pdf, IsPdf(pdf), NEW r, r = ParsePdf(pdf)
    PROVE  PagesTold(r, pdf)
<1>1. PICK body : body = Extracted(pdf) /\ PagesTold(body, pdf)
    BY ExtractedTold
<1>2. CASE r = body
    BY <1>1, <1>2
<1>3. CASE r # body
    <2>1. PICK t : t = body.text /\ IsList(t)
        BY <1>1 DEF PagesTold
    <2>2. PICK L \in Nat : L = Len(t)
        BY <2>1, ListLength
    <2>3. PICK s : s = OcrSections(pdf) /\ Sections(s)
        BY OcrSectionsMade
    <2>4. PICK gap : gap = Added(<<"/">>) /\ Unprinted(gap)
        BY AddedUnprinted
    <2>5. PICK line : line = Added(<<"/", "/">>) /\ Unprinted(line) /\ Len(line) = 2
        BY AddedUnprinted
    <2>6. PICK from \in Int : from = L + 1 + 2
        OBVIOUS
    <2>7. PICK ocr : ocr = EndToEnd(s, from, gap)
        OBVIOUS
    <2>8. r.text = t \o line \o ocr.text /\ r.spans = body.spans \o ocr.spans
        <3>1. from = Cursor(t)
            BY <2>2, <2>6 DEF Cursor
        <3> QED
            BY <1>1, <1>3, <2>1, <2>3, <2>4, <2>5, <2>7, <3>1 DEF ParsePdf, Merged
    <2>9. LaidOut(ocr, s, Len(s), from, gap)
        BY <2>3, <2>4, <2>7, SectionsLaidOut
    <2>10. PICK u : u = ocr.text /\ IsList(u)
        BY <2>9 DEF LaidOut
    <2>11. PICK l \in Nat : l = Len(u)
        BY <2>10, ListLength
    <2>12. PICK second : second = ocr.spans /\ IsList(second)
        BY <2>9 DEF LaidOut
    <2>13. PICK o \in Nat : o = Len(second)
        BY <2>12, ListLength
    <2>14. PICK first : first = body.spans /\ IsList(first)
        BY <1>1 DEF PagesTold
    <2>15. PICK n \in Nat : n = Len(first)
        BY <2>14, ListLength
    <2>16. PICK before : before = t \o line
        OBVIOUS
    <2>17. IsList(before) /\ Len(before) = L + 2 /\ IsList(line)
        <3>1. IsList(line)
            BY <2>5 DEF Unprinted
        <3>2. Follows(before, t, L, line, 2)
            BY <2>1, <2>2, <2>5, <2>16, <3>1, Concatenation
        <3> QED
            BY <3>1, <3>2 DEF Follows
    <2>18. PICK m \in Nat : m = L + 2
        OBVIOUS
    <2>19. /\ HasLength(before, m) /\ HasLength(u, l)
           /\ HasLength(first, n) /\ HasLength(second, o)
        BY <2>10, <2>11, <2>12, <2>13, <2>14, <2>15, <2>17, <2>18 DEF HasLength
    <2>20. InOrder(first, 1, 1 + L) /\ Knows(before, first, 1)
        <3>1. InOrder(first, 1, 1 + L) /\ Knows(t, first, 1)
            BY <1>1, <2>1, <2>2, <2>14 DEF PagesTold
        <3> QED
            BY <2>1, <2>5, <2>16, <3>1, KnowsGap
    <2>21. InOrder(second, m + 1, m + 1 + l) /\ Knows(u, second, m + 1)
        <3>1. InOrder(second, from, from + l) /\ Knows(u, second, from)
            BY <2>9, <2>10, <2>11, <2>12 DEF LaidOut
        <3>2. from = m + 1
            BY <2>6, <2>18
        <3> QED
            BY <3>1, <3>2
    <2>22. 1 + L \in Int /\ 1 + L <= m + 1
        BY <2>18
    <2>23. /\ InOrder(first \o second, 1, 1 + m + l)
           /\ Knows(before \o u, first \o second, 1)
        BY <2>19, <2>20, <2>21, <2>22, JoinedTables
    <2>24. PICK whole : whole = before \o u
        OBVIOUS
    <2>25. IsList(whole) /\ Len(whole) = m + l
        <3>1. Follows(whole, before, m, u, l)
            BY <2>10, <2>11, <2>17, <2>18, <2>24, Concatenation
        <3> QED
            BY <3>1 DEF Follows
    <2>26. IsList(first \o second)
        BY <2>12, <2>14, JoinedList
    <2>27. r.text = whole /\ r.spans = first \o second
        BY <2>8, <2>10, <2>12, <2>14, <2>16, <2>24
    <2>28. ASSUME NEW p \in DOMAIN pdf.pages, Judged(pdf.pages[p].raw)
           PROVE  \E chars : /\ Enough(chars, pdf.pages[p].raw)
                             /\ HoldsRow(whole, Printed(chars, p))
        <3>1. PICK chars : Enough(chars, pdf.pages[p].raw) /\ HoldsRow(t, Printed(chars, p))
            BY <1>1, <2>1, <2>28 DEF PagesTold
        <3>2. IsList(Printed(chars, p))
            BY <3>1, PrintedList DEF Enough
        <3>3. HoldsRow(before, Printed(chars, p))
            BY <2>1, <2>16, <2>17, <3>1, <3>2, RowEarlier
        <3>4. HoldsRow(whole, Printed(chars, p))
            BY <2>10, <2>17, <2>24, <3>2, <3>3, RowEarlier
        <3> QED
            BY <3>1, <3>4
    <2>29. InOrder(first \o second, 1, 1 + Len(whole)) /\ Knows(whole, first \o second, 1)
        <3>1. 1 + Len(whole) = 1 + m + l
            BY <2>25
        <3> QED
            BY <2>23, <2>24, <3>1
    <2> QED
        BY <2>25, <2>26, <2>27, <2>28, <2>29 DEF PagesTold
<1> QED
    BY <1>2, <1>3

\* As many characters as a row has are on its page.
LEMMA RowOnPage ==
    ASSUME NEW t, IsList(t), NEW chars, IsList(chars), NEW p, HoldsRow(t, Printed(chars, p)),
           NEW S, S = {x \in DOMAIN t : t[x].page = p}
    PROVE  Cardinality(S) \in Nat /\ Len(chars) <= Cardinality(S)
<1>1. PICK c : c = Printed(chars, p)
    OBVIOUS
<1>2. PICK n \in Nat : n = Len(chars)
    BY ListLength
<1>3. Len(c) = n /\ \A j \in 1..n : c[j].page = p
    BY <1>1, <1>2, PrintedList
<1>4. PICK b \in Nat : HoldsAt(t, c, b)
    BY <1>1 DEF HoldsRow
<1>5. PICK m \in Nat : m = Len(t) /\ DOMAIN t = 1..m
    BY ListLength
<1>6. b + n <= m /\ \A j \in 1..n : t[b + j] = c[j]
    BY <1>3, <1>4, <1>5 DEF HoldsAt
<1>7. PICK R : R = (b + 1)..(b + n)
    OBVIOUS
<1>8. IsFiniteSet(R) /\ Cardinality(R) = n
    BY <1>7, FS_Interval
<1>9. ASSUME NEW x \in R PROVE x \in S
    <2>1. x - b \in 1..n /\ b + (x - b) = x /\ x \in 1..m
        BY <1>6, <1>7
    <2>2. t[x] = c[x - b] /\ c[x - b].page = p
        BY <1>3, <1>6, <2>1
    <2> QED
        BY <1>5, <2>1, <2>2
<1>10. IsFiniteSet(1..m) /\ S \subseteq 1..m
    BY <1>5, FS_Interval
<1>11. IsFiniteSet(S)
    BY <1>10, FS_Subset
<1>12. R \subseteq S
    BY <1>9
<1>13. Cardinality(R) <= Cardinality(S)
    BY <1>11, <1>12, FS_Subset
<1>14. Cardinality(S) \in Nat
    BY <1>11, FS_CardinalityType
<1> QED
    BY <1>2, <1>8, <1>13, <1>14

\* Between the reading of a PDF and its cutting, the text is what the parser made.
PagesInv ==
    /\ file \in Files
    /\ stage = "text" /\ file.kind = "pdf" =>
          text = ParsePdf(file).text /\ spans = ParsePdf(file).spans

LEMMA PagesInvInit == Init => PagesInv
    BY DEF Init, Begin, PagesInv

LEMMA PagesInvNext == PagesInv /\ [Next]_vars => PagesInv'
<1> SUFFICES ASSUME PagesInv, [Next]_vars PROVE PagesInv'
    OBVIOUS
<1>1. CASE Parse
    BY <1>1 DEF Parse, PagesInv
<1>2. CASE CutSentences \/ CutParagraphs \/ CutFixed \/ CutSlides
    <2>1. file' = file /\ stage' # "text"
        BY <1>2 DEF CutSentences, CutParagraphs, CutInto, CutFixed, CutSlides
    <2> QED
        BY <2>1 DEF PagesInv
<1>3. CASE CutMail
    <2>1. file' = file /\ stage' # "text"
        BY <1>3 DEF CutMail
    <2> QED
        BY <2>1 DEF PagesInv
<1>4. CASE AddSentence \/ AddParagraph \/ AddLine
    <2>1. file' = file /\ stage' = stage /\ text' = text /\ spans' = spans
        BY <1>4, Zenon DEF AddSentence, AddParagraph, AddLine, Add
    <2> QED
        BY <2>1 DEF PagesInv
<1>5. CASE LastFragment
    <2>1. file' = file /\ stage' # "text"
        BY <1>5 DEF LastFragment
    <2> QED
        BY <2>1 DEF PagesInv
<1>6. CASE UNCHANGED vars
    BY <1>6 DEF PagesInv, vars
<1> QED
    BY <1>1, <1>2, <1>3, <1>4, <1>5, <1>6 DEF Next

LEMMA PagesInvTrue == PagesInv => PagesAreTrue
<1> SUFFICES ASSUME PagesInv PROVE PagesAreTrue
    OBVIOUS
<1>1. CASE ~(stage = "text" /\ file.kind = "pdf")
    BY <1>1 DEF PagesAreTrue, PageTableIsTrue, PagesAreRead
<1>2. CASE stage = "text" /\ file.kind = "pdf"
    <2>1. IsPdf(file)
        BY <1>2, ChunkingAssumption DEF PagesInv, IsPdf
    <2>2. PICK r : r = ParsePdf(file) /\ text = r.text /\ spans = r.spans
        BY <1>2 DEF PagesInv
    <2>3. PagesTold(r, file)
        BY <2>1, <2>2, PdfTold
    <2>4. PICK m \in Nat : m = Len(text) /\ DOMAIN text = 1..m
        BY <2>2, <2>3, ListLength DEF PagesTold
    <2>5. PICK n \in Nat : n = Len(spans) /\ DOMAIN spans = 1..n
        BY <2>2, <2>3, ListLength DEF PagesTold
    <2>6. InOrder(spans, 1, 1 + m) /\ Knows(text, spans, 1)
        BY <2>2, <2>3, <2>4 DEF PagesTold
    <2>7. PageTableIsTrue
        <3>1. ASSUME NEW k \in 1..n
              PROVE  /\ spans[k][1] < spans[k][2] /\ spans[k][2] <= m + 1
                     /\ k > 1 => spans[k - 1][2] <= spans[k][1]
            <4>1. Lies(spans[k], 1, 1 + m)
                BY <2>5, <2>6 DEF InOrder
            <4>2. k > 1 => k \in 2..n
                OBVIOUS
            <4>3. k > 1 => spans[k - 1][2] <= spans[k][1]
                BY <2>5, <2>6, <4>2 DEF InOrder
            <4> QED
                BY <4>1, <4>3 DEF Lies
        <3>2. ASSUME NEW x \in 1..m, text[x].page # 0
              PROVE  \E k \in 1..n : /\ x \in spans[k][1]..(spans[k][2] - 1)
                                     /\ spans[k][3] = text[x].page
            <4>1. PICK k \in 1..n : Within(1 + x - 1, spans[k]) /\ spans[k][3] = text[x].page
                BY <2>4, <2>5, <2>6, <3>2 DEF Knows
            <4>2. Lies(spans[k], 1, 1 + m)
                BY <2>5, <2>6 DEF InOrder
            <4>3. 1 + x - 1 = x
                OBVIOUS
            <4>4. x \in spans[k][1]..(spans[k][2] - 1)
                BY <4>1, <4>2, <4>3 DEF Within, Lies
            <4> QED
                BY <4>1, <4>4
        <3> QED
            BY <2>4, <2>5, <3>1, <3>2 DEF PageTableIsTrue
    <2>8. PagesAreRead
        <3> SUFFICES ASSUME NEW p \in DOMAIN file.pages, Judged(file.pages[p].raw)
                     PROVE  Cardinality(OnPage(p)) * Ratio >= Len(file.pages[p].raw)
            BY DEF PagesAreRead, Judged
        <3>1. PICK chars : Enough(chars, file.pages[p].raw) /\ HoldsRow(text, Printed(chars, p))
            BY <2>2, <2>3 DEF PagesTold
        <3>2. PICK N \in Nat : N = Cardinality(OnPage(p)) /\ Len(chars) <= N
            <4>1. PICK S : S = OnPage(p) /\ S = {x \in DOMAIN text : text[x].page = p}
                BY DEF OnPage
            <4>2. IsList(chars) /\ IsList(text)
                BY <2>2, <2>3, <3>1 DEF Enough, PagesTold
            <4>3. Cardinality(S) \in Nat /\ Len(chars) <= Cardinality(S)
                BY <3>1, <4>1, <4>2, RowOnPage
            <4> QED
                BY <4>1, <4>3
        <3>3. PICK l \in Nat : l = Len(chars) /\ l <= N
            BY <3>1, <3>2, ListLength DEF Enough
        <3>4. PICK e \in Nat : e = Len(file.pages[p].raw)
            BY <2>1, ListLength DEF IsPdf
        <3>5. PICK q \in Nat : q = Ratio
            BY ExtractionAssumption
        <3>6. l * q >= e
            BY <3>1, <3>3, <3>4, <3>5 DEF Enough
        <3>7. l * q <= N * q
            BY <3>3
        <3>8. N * q >= e
            BY <3>6, <3>7
        <3> QED
            BY <3>2, <3>4, <3>5, <3>8
    <2> QED
        BY <2>7, <2>8 DEF PagesAreTrue
<1> QED
    BY <1>1, <1>2

\* PDFParser: whatever pymupdf4llm returns, fails on or leaves out, in batches of any
\* size, every printed character is within the span of its own page, OCR sections
\* included, and no page is read less than the guard asks for.
THEOREM PagesKnown == Spec => []PagesAreTrue
<1>1. Spec => []PagesInv
    BY PagesInvInit, PagesInvNext, PTL DEF Spec
<1> QED
    BY <1>1, PagesInvTrue, PTL

-----------------------------------------------------------------------------
(* 6. The fragments of a text.  Lists first. *)

LEMMA AmongElements ==
    ASSUME NEW s, IsList(s), NEW set
    PROVE  IsList(Among(s, set)) /\ ToSet(Among(s, set)) = ToSet(s) \cap set
<1>1. PICK kept : kept = [n \in DOMAIN s |-> s[n] \in set]
    OBVIOUS
<1>2. PICK S : S = ToSet(s)
    OBVIOUS
<1>3. PICK t : t = Selected(s, kept)
    OBVIOUS
<1>4. Among(s, set) = t
    BY <1>1, <1>3 DEF Among
<1>5. s \in Seq(S)
    BY <1>2 DEF IsList
<1>6. /\ t \in Seq(S)
      /\ \A j \in DOMAIN t : \E m \in DOMAIN s : kept[m] /\ t[j] = s[m]
      /\ \A m \in DOMAIN s : kept[m] => \E j \in DOMAIN t : t[j] = s[m]
    BY <1>3, <1>5, SelectedElements
<1>7. \A m \in DOMAIN s : kept[m] <=> s[m] \in set
    BY <1>1, Zenon
<1>8. ASSUME NEW x \in ToSet(t) PROVE x \in ToSet(s) \cap set
    <2>1. PICK j \in DOMAIN t : x = t[j]
        BY DEF ToSet
    <2>2. PICK m \in DOMAIN s : kept[m] /\ t[j] = s[m]
        BY <1>6
    <2> QED
        BY <1>7, <2>1, <2>2, Zenon DEF ToSet
<1>9. ASSUME NEW x \in ToSet(s) \cap set PROVE x \in ToSet(t)
    <2>1. PICK m \in DOMAIN s : x = s[m]
        BY DEF ToSet
    <2>2. kept[m]
        BY <1>7, <2>1, Zenon
    <2>3. PICK j \in DOMAIN t : t[j] = s[m]
        BY <1>6, <2>2
    <2> QED
        BY <2>1, <2>3 DEF ToSet
<1>10. IsList(t)
    BY <1>6, SeqIsList
<1> QED
    BY <1>4, <1>8, <1>9, <1>10

NoElement(e) == IsList(e) /\ ToSet(e) = {} /\ Len(e) = 0
LEMMA EmptyList == \A e : e = <<>> => NoElement(e)
<1> SUFFICES ASSUME NEW e, e = <<>> PROVE NoElement(e)
    OBVIOUS
<1>1. e \in Seq({}) /\ Len(e) = 0 /\ DOMAIN e = {}
    BY EmptySeq
<1>2. IsList(e)
    BY <1>1, SeqIsList
<1>3. ToSet(e) = {}
    BY <1>1 DEF ToSet
<1> QED
    BY <1>1, <1>2, <1>3 DEF NoElement

\* t goes up through the members of S.
Enumerates(t, S) ==
    /\ IsList(t) /\ ToSet(t) = S
    /\ \A j, k \in 1..Len(t) : j < k => t[j] < t[k]

LEMMA AscendingEnumerates ==
    ASSUME NEW n \in Nat, NEW S \in SUBSET (1..n)
    PROVE  Enumerates(Ascending(S), S)
<1>1. CASE S = {}
    <2>1. Ascending(S) = <<>>
        BY <1>1 DEF Ascending
    <2>2. PICK e : e = <<>>
        OBVIOUS
    <2>3. NoElement(e)
        BY <2>2, EmptyList
    <2> QED
        BY <1>1, <2>1, <2>2, <2>3 DEF Enumerates, NoElement
<1>2. CASE S # {}
    <2>1. S \in SUBSET (0..n)
        OBVIOUS
    <2>2. Max(S) \in S /\ \A y \in S : Max(S) >= y
        BY <1>2, <2>1, NatGreatest
    <2>3. PICK m \in 1..n : m = Max(S)
        BY <2>2
    <2>4. PICK s : s = [k \in 1..m |-> k]
        OBVIOUS
    <2>5. s \in Seq(Nat) /\ Len(s) = m /\ DOMAIN s = 1..m
        BY <2>4
    <2>6. IsList(s)
        BY <2>5, SeqIsList
    <2>7. PICK kept : kept = [k \in DOMAIN s |-> s[k] \in S]
        OBVIOUS
    <2>8. PICK t : t = Selected(s, kept)
        OBVIOUS
    <2>9. Ascending(S) = t /\ t = Among(s, S)
        BY <1>2, <2>3, <2>4, <2>7, <2>8 DEF Ascending, Among
    <2>10. ToSet(s) = 1..m
        BY <2>4, <2>5 DEF ToSet
    <2>11. IsList(t) /\ ToSet(t) = S
        <3>1. S \subseteq 1..m
            BY <2>2, <2>3
        <3>2. IsList(t) /\ ToSet(t) = ToSet(s) \cap S
            BY <2>6, <2>9, AmongElements
        <3> QED
            BY <2>10, <3>1, <3>2
    <2>12. PICK h : Picks(t, h, s, kept, Len(s))
        BY <2>5, <2>8, SelectedPicks
    <2>13. ASSUME NEW j \in 1..Len(t), NEW k \in 1..Len(t), j < k PROVE t[j] < t[k]
        <3>1. h[j] \in 1..m /\ h[k] \in 1..m /\ t[j] = s[h[j]] /\ t[k] = s[h[k]] /\ h[j] < h[k]
            BY <2>5, <2>12, <2>13 DEF Picks
        <3> QED
            BY <2>4, <3>1
    <2> QED
        BY <2>9, <2>11, <2>13 DEF Enumerates
<1> QED
    BY <1>1, <1>2

\* Where a number that is not a member falls.
LEMMA PlaceAmong ==
    ASSUME NEW n \in Nat, NEW S \in SUBSET (1..n), NEW t, Enumerates(t, S),
           NEW x \in Nat, x \notin S
    PROVE  \E k \in 0..Len(t) : /\ k > 0 => t[k] < x
                                /\ k < Len(t) => x < t[k + 1]
<1>1. PICK L \in Nat : L = Len(t) /\ DOMAIN t = 1..L
    BY ListLength DEF Enumerates
<1>2. PICK T : T = {0} \cup {k \in 1..L : t[k] < x}
    OBVIOUS
<1>3. T \in SUBSET (0..L) /\ T # {}
    BY <1>2
<1>4. PICK k \in T : \A y \in T : k >= y
    BY <1>3, NatGreatest
<1>5. k \in 0..L
    BY <1>3
<1>6. k > 0 => t[k] < x
    BY <1>2, <1>5
<1>7. ASSUME k < L PROVE x < t[k + 1]
    <2>1. k + 1 \in 1..L /\ k + 1 \notin T
        BY <1>4, <1>5, <1>7
    <2>2. ~(t[k + 1] < x)
        BY <1>2, <2>1
    <2>3. PICK v : v = t[k + 1]
        OBVIOUS
    <2>4. v \in S
        BY <1>1, <2>1, <2>3 DEF Enumerates, ToSet
    <2>5. v \in Nat /\ v # x
        BY <2>4
    <2> QED
        BY <2>2, <2>3, <2>5
<1> QED
    BY <1>1, <1>5, <1>6, <1>7

\* Lists of lists, and all that they hold.
ListOfLists(ss) == IsList(ss) /\ \A k \in 1..Len(ss) : IsList(ss[k])
Everything(ss) == UNION {ToSet(ss[k]) : k \in 1..Len(ss)}

\* The lists of ss one after the other.
Chains(f, ss, L) == f[1] = ss[1] /\ \A n \in 2..L : f[n] = f[n - 1] \o ss[n]

LEMMA FlattenUnfolds ==
    ASSUME NEW ss, ListOfLists(ss), NEW L \in Nat, L = Len(ss), L # 0
    PROVE  \E f : Chains(f, ss, L) /\ FlattenSeq(ss) = f[L]
<1>1. PICK U : U = Everything(ss)
    OBVIOUS
<1>2. \A n \in 1..L : ss[n] \in Seq(U)
    <2> SUFFICES ASSUME NEW n \in 1..L PROVE ss[n] \in Seq(U)
        OBVIOUS
    <2>1. IsList(ss[n]) /\ ToSet(ss[n]) \subseteq U
        BY <1>1 DEF ListOfLists, Everything
    <2> QED
        BY <2>1, SeqMonotonic DEF IsList
<1>3. PICK e : e = <<>> /\ e \in Seq(U)
    BY EmptySeq
<1>4. PICK step : step = [n \in 1..L |-> [t \in Seq(U) |-> t \o ss[n]]]
    OBVIOUS
<1>5. step \in [1..L -> [Seq(U) -> Seq(U)]]
    <2>1. \A n \in 1..L, t \in Seq(U) : t \o ss[n] \in Seq(U)
        BY <1>2, ConcatProperties
    <2> QED
        BY <1>4, <2>1
<1>6. \E f \in [0..L -> Seq(U)] : Recursive(f, e, L, step)
    BY <1>3, <1>5, RecursionExists, Zenon
<1>7. PICK f \in [0..L -> Seq(U)] : f[0] = e /\ \A n \in 1..L : f[n] = step[n][f[n - 1]]
    BY <1>6 DEF Recursive
<1>8. \A n \in 1..L : f[n] = f[n - 1] \o ss[n]
    <2> SUFFICES ASSUME NEW n \in 1..L PROVE f[n] = f[n - 1] \o ss[n]
        OBVIOUS
    <2>1. f[n - 1] \in Seq(U)
        OBVIOUS
    <2> QED
        BY <1>4, <1>7, <2>1
<1>9. f[1] = ss[1]
    <2>1. 1 \in 1..L /\ 1 - 1 = 0
        OBVIOUS
    <2>2. f[1] = e \o ss[1] /\ ss[1] \in Seq(U)
        BY <1>2, <1>7, <1>8, <2>1
    <2> QED
        BY <1>3, <2>2, ConcatEmptySeq
<1> DEFINE F(g) == [i_1 \in 1..Len(ss) |-> IF i_1 = 1 THEN ss[i_1] ELSE g[i_1 - 1] \o ss[i_1]]
           flatten == CHOOSE g : g = F(g)
<1>10. PICK h : h = [n \in 1..L |-> f[n]]
    OBVIOUS
<1>11. h = F(h)
    <2>1. ASSUME NEW n \in 1..L PROVE h[n] = F(h)[n]
        <3>1. CASE n = 1
            BY <1>9, <1>10, <3>1
        <3>2. CASE n # 1
            <4>1. n - 1 \in 1..L
                BY <3>2
            <4>3. h[n] = f[n] /\ h[n - 1] = f[n - 1]
                BY <1>10, <4>1
            <4>2. h[n] = h[n - 1] \o ss[n]
                BY <1>8, <4>3
            <4> QED
                BY <3>2, <4>2
        <3> QED
            BY <3>1, <3>2
    <2> QED
        BY <1>10, <2>1
<1>12. flatten = F(flatten)
    <2>1. \E g : g = F(g)
        BY <1>11
    <2> QED
        BY <2>1, Zenon
<1>13. FlattenSeq(ss) = flatten[L]
    BY DEF FlattenSeq
<1> HIDE DEF flatten
<1>14. \A n \in 1..L : flatten[n] = IF n = 1 THEN ss[n] ELSE flatten[n - 1] \o ss[n]
    BY <1>12
<1>15. Chains(flatten, ss, L)
    <2>1. 1 \in 1..L /\ \A n \in 2..L : n \in 1..L /\ n # 1
        OBVIOUS
    <2> QED
        BY <1>14, <2>1 DEF Chains
<1> QED
    BY <1>13, <1>15

LEMMA FlattenList ==
    ASSUME NEW ss, ListOfLists(ss)
    PROVE  IsList(FlattenSeq(ss)) /\ ToSet(FlattenSeq(ss)) = Everything(ss)
<1>1. PICK L \in Nat : L = Len(ss) /\ DOMAIN ss = 1..L
    BY ListLength DEF ListOfLists
<1>2. CASE L = 0
    <2>1. FlattenSeq(ss) = ss
        BY <1>1, <1>2 DEF FlattenSeq
    <2>2. ToSet(ss) = {} /\ Everything(ss) = {}
        BY <1>1, <1>2 DEF ToSet, Everything
    <2> QED
        BY <2>1, <2>2 DEF ListOfLists
<1>3. CASE L # 0
    <2>1. PICK f : Chains(f, ss, L) /\ FlattenSeq(ss) = f[L]
        BY <1>1, <1>3, FlattenUnfolds
    <2>2. PICK Good : Good = {n \in Nat : n + 1 <= L =>
                                 /\ IsList(f[n + 1])
                                 /\ ToSet(f[n + 1]) = UNION {ToSet(ss[k]) : k \in 1..(n + 1)}}
        OBVIOUS
    <2>3. 0 \in Good
        <3>1. f[1] = ss[1] /\ 1 \in 1..L /\ 0 + 1 = 1
            BY <1>3, <2>1 DEF Chains
        <3>2. IsList(f[1])
            BY <1>1, <3>1 DEF ListOfLists
        <3>3. {ToSet(ss[k]) : k \in 1..1} = {ToSet(ss[1])}
            <4>1. \A k \in 1..1 : k = 1
                OBVIOUS
            <4>2. 1 \in 1..1
                OBVIOUS
            <4> QED
                BY <4>1, <4>2, Zenon
        <3>4. UNION {ToSet(ss[1])} = ToSet(ss[1])
            OBVIOUS
        <3> QED
            BY <2>2, <3>1, <3>2, <3>3, <3>4
    <2>4. ASSUME NEW n \in Nat, n \in Good PROVE n + 1 \in Good
        <3> SUFFICES ASSUME (n + 1) + 1 <= L
                     PROVE  /\ IsList(f[(n + 1) + 1])
                            /\ ToSet(f[(n + 1) + 1]) = UNION {ToSet(ss[k]) : k \in 1..((n + 1) + 1)}
            BY <2>2
        <3>1. PICK p \in 2..L : p = (n + 1) + 1
            OBVIOUS
        <3>2. p - 1 = n + 1 /\ p \in 1..L /\ n + 1 <= L
            BY <3>1
        <3>3. f[p] = f[p - 1] \o ss[p] /\ IsList(ss[p])
            BY <1>1, <2>1, <3>2 DEF Chains, ListOfLists
        <3>4. IsList(f[p - 1]) /\ ToSet(f[p - 1]) = UNION {ToSet(ss[k]) : k \in 1..(p - 1)}
            BY <2>2, <2>4, <3>2
        <3>5. IsList(f[p]) /\ ToSet(f[p]) = ToSet(f[p - 1]) \cup ToSet(ss[p])
            BY <3>3, <3>4, JoinedList
        <3>6. UNION {ToSet(ss[k]) : k \in 1..p} = (UNION {ToSet(ss[k]) : k \in 1..(p - 1)}) \cup ToSet(ss[p])
            <4>1. \A k : k \in 1..p <=> k \in 1..(p - 1) \/ k = p
                OBVIOUS
            <4> QED
                BY <4>1, Zenon
        <3> QED
            BY <3>1, <3>4, <3>5, <3>6
    <2>5. L - 1 \in Nat /\ (L - 1) + 1 = L
        BY <1>3
    <2>6. L - 1 \in Good
        BY <2>3, <2>4, <2>5, NatSetInduction
    <2>7. IsList(f[L]) /\ ToSet(f[L]) = UNION {ToSet(ss[k]) : k \in 1..L}
        BY <2>2, <2>5, <2>6
    <2> QED
        BY <1>1, <2>1, <2>7 DEF Everything
<1> QED
    BY <1>2, <1>3

\* A text cut from place to place: a piece at each, then what follows from the next.
Following(g, d, stop, head, next) == IF stop[d] THEN head[d] ELSE head[d] \o g[next[d]]
Descends(g, a, b, stop, head, next) ==
    \A d \in a..b : g[d] = Following(g, d, stop, head, next)
Advances(a, b, stop, next) == \A d \in a..b : ~stop[d] => next[d] \in (d + 1)..b

LEMMA DescentExists ==
    ASSUME NEW a \in Int, NEW b \in Int, NEW stop, NEW head, NEW next, Advances(a, b, stop, next)
    PROVE  \E g : Descends(g, a, b, stop, head, next)
<1> DEFINE From(g, n) == \A d \in a..b : d > b - n => g[d] = Following(g, d, stop, head, next)
<1>1. PICK Good : Good = {n \in Nat : \E g : From(g, n)}
    OBVIOUS
<1>2. 0 \in Good
    <2>1. \A g : From(g, 0)
        OBVIOUS
    <2> QED
        BY <1>1, <2>1
<1>3. ASSUME NEW n \in Nat, n \in Good PROVE n + 1 \in Good
    <2>1. PICK g : From(g, n)
        BY <1>1, <1>3
    <2>2. PICK h : h = [d \in a..b |-> IF d = b - n THEN Following(g, d, stop, head, next) ELSE g[d]]
        OBVIOUS
    <2>3. ASSUME NEW d \in a..b, d > b - (n + 1) PROVE h[d] = Following(h, d, stop, head, next)
        <3>1. ASSUME ~stop[d] PROVE h[next[d]] = g[next[d]]
            <4>1. next[d] \in (d + 1)..b
                BY <3>1 DEF Advances
            <4>2. PICK e \in (d + 1)..b : e = next[d]
                BY <4>1
            <4>3. e \in a..b /\ e # b - n
                BY <2>3
            <4>4. h[e] = g[e]
                BY <2>2, <4>3
            <4> QED
                BY <4>2, <4>4
        <3>2. Following(h, d, stop, head, next) = Following(g, d, stop, head, next)
            BY <3>1 DEF Following
        <3>3. CASE d = b - n
            BY <2>2, <3>2, <3>3
        <3>4. CASE d > b - n
            <4>1. h[d] = g[d]
                BY <2>2, <3>4
            <4>2. g[d] = Following(g, d, stop, head, next)
                BY <2>1, <3>4
            <4> QED
                BY <3>2, <4>1, <4>2
        <3>5. d = b - n \/ d > b - n
            BY <2>3
        <3> QED
            BY <3>3, <3>4, <3>5
    <2>4. From(h, n + 1)
        BY <2>3
    <2> QED
        BY <1>1, <2>4
<1>4. CASE a <= b
    <2>1. PICK m \in Nat : m = (b - a) + 1
        BY <1>4
    <2>2. m \in Good
        BY <1>2, <1>3, NatSetInduction
    <2>3. PICK g : From(g, m)
        BY <1>1, <2>2
    <2>4. \A d \in a..b : d > b - m
        BY <2>1
    <2>5. \A d \in a..b : g[d] = Following(g, d, stop, head, next)
        BY <2>3, <2>4
    <2> QED
        BY <2>5 DEF Descends
<1>5. CASE ~(a <= b)
    <2>1. \A d \in a..b : FALSE
        BY <1>5
    <2> QED
        BY <2>1 DEF Descends
<1> QED
    BY <1>4, <1>5

\* What holds where the cutting stops, and where it goes on, holds everywhere.
LEMMA DescentInduction ==
    ASSUME NEW a \in Int, NEW b \in Int, NEW Good,
           \A d \in a..b : (\A e \in (d + 1)..b : e \in Good) => d \in Good
    PROVE  \A d \in a..b : d \in Good
<1>1. PICK T : T = {n \in Nat : \A d \in a..b : d > b - n => d \in Good}
    OBVIOUS
<1>2. 0 \in T
    BY <1>1
<1>3. ASSUME NEW n \in Nat, n \in T PROVE n + 1 \in T
    <2>1. ASSUME NEW d \in a..b, d > b - (n + 1) PROVE d \in Good
        <3>1. \A e \in (d + 1)..b : e \in a..b /\ e > b - n
            BY <2>1
        <3>2. \A e \in (d + 1)..b : e \in Good
            BY <1>1, <1>3, <3>1
        <3> QED
            BY <3>2
    <2> QED
        BY <1>1, <2>1
<1>4. ASSUME NEW d \in a..b PROVE d \in Good
    <2>1. PICK m \in Nat : m = (b - d) + 1
        OBVIOUS
    <2>2. m \in T /\ d > b - m
        BY <1>2, <1>3, <2>1, NatSetInduction
    <2> QED
        BY <1>1, <2>2
<1> QED
    BY <1>4

-----------------------------------------------------------------------------
\* What stripping and trimming keep.

LEMMA LeastOf ==
    ASSUME NEW T \in SUBSET Nat, T # {}
    PROVE  Min(T) \in T /\ \A y \in T : Min(T) <= y
<1>1. \E x \in T : \A y \in T : x <= y
    BY NatLeast
<1> QED
    BY <1>1 DEF Min

LEMMA RangeIsSet == \A s : Range(s) = ToSet(s)
    BY DEF Range, ToSet

\* r is what is left of s, whose elements after the m-th are blank.
Bared(r, s, m) ==
    /\ IsList(r) /\ Len(r) <= m /\ ToSet(r) \subseteq ToSet(s)
    /\ \A x \in ToSet(s) : ~BlankAt(x) => x \in ToSet(r)

LEMMA StripBares ==
    ASSUME NEW s, IsList(s), NEW m \in Nat, m <= Len(s),
           \A k \in 1..Len(s) : k > m => BlankAt(s[k])
    PROVE  Bared(Strip(s), s, m)
<1>1. PICK n \in Nat : n = Len(s) /\ DOMAIN s = 1..n
    BY ListLength
<1>2. PICK I : I = Inked(s)
    OBVIOUS
<1>3. I = {k \in 1..n : ~BlankAt(s[k])}
    BY <1>1, <1>2 DEF Inked
<1>4. \A x \in ToSet(s) : ~BlankAt(x) => \E k \in I : s[k] = x
    BY <1>1, <1>3 DEF ToSet
<1>5. CASE I = {}
    <2>1. PICK e : e = <<>>
        OBVIOUS
    <2>2. Strip(s) = e
        BY <1>2, <1>5, <2>1 DEF Strip
    <2>3. NoElement(e)
        BY <2>1, EmptyList
    <2> QED
        BY <1>4, <1>5, <2>2, <2>3 DEF Bared, NoElement
<1>6. CASE I # {}
    <2>1. PICK a : a = Min(I)
        OBVIOUS
    <2>2. PICK b : b = Max(I)
        OBVIOUS
    <2>3. I \in SUBSET Nat /\ I \in SUBSET (0..n)
        BY <1>3
    <2>4. a \in I /\ \A y \in I : a <= y
        BY <1>6, <2>1, <2>3, LeastOf
    <2>5. b \in I /\ \A y \in I : b >= y
        BY <1>6, <2>2, <2>3, NatGreatest
    <2>6. a \in 1..n /\ b \in 1..n /\ a <= b /\ b <= m
        BY <1>1, <1>3, <2>4, <2>5
    <2>7. PICK r : r = SubSeq(s, a, b)
        OBVIOUS
    <2>8. Strip(s) = r
        BY <1>2, <1>6, <2>1, <2>2, <2>7 DEF Strip
    <2>9. IsList(r) /\ Len(r) = b - a + 1 /\ \A z \in 1..(b - a + 1) : r[z] = s[a + z - 1]
        BY <1>1, <2>6, <2>7, PartOfList
    <2>10. DOMAIN r = 1..(b - a + 1)
        BY <2>9, ListLength
    <2>11. ToSet(r) \subseteq ToSet(s)
        <3> SUFFICES ASSUME NEW z \in 1..(b - a + 1) PROVE r[z] \in ToSet(s)
            BY <2>10 DEF ToSet
        <3>1. a + z - 1 \in 1..n
            BY <2>6
        <3> QED
            BY <1>1, <2>9, <3>1 DEF ToSet
    <2>12. ASSUME NEW x \in ToSet(s), ~BlankAt(x) PROVE x \in ToSet(r)
        <3>1. PICK k \in I : s[k] = x
            BY <1>4, <2>12
        <3>2. PICK z : z = k - a + 1
            OBVIOUS
        <3>3. z \in 1..(b - a + 1) /\ a + z - 1 = k
            BY <1>3, <2>4, <2>5, <2>6, <3>2
        <3> QED
            BY <2>9, <2>10, <3>1, <3>3 DEF ToSet
    <2>13. Len(r) <= m
        BY <2>6, <2>9
    <2> QED
        BY <2>8, <2>9, <2>11, <2>12, <2>13 DEF Bared
<1> QED
    BY <1>5, <1>6

\* A unit lies in an interval, begins and ends with ink, and is not too long; the units
\* cut out of an interval hold all its ink.
Lodged(u, from, to, most) ==
    /\ u[1] \in from..to /\ u[2] \in from..to /\ u[1] <= u[2]
    /\ ~BlankAt(u[1]) /\ ~BlankAt(u[2])
    /\ (u[2] - u[1]) + 1 <= most
Holds(p, x) == \E k \in 1..Len(p) : x \in p[k][1]..p[k][2]
CutsUp(p, from, to, most) ==
    /\ IsList(p)
    /\ \A k \in 1..Len(p) : Lodged(p[k], from, to, most)
    /\ \A x \in from..to : ~BlankAt(x) => Holds(p, x)

LEMMA LodgedWider ==
    ASSUME NEW u, NEW a \in Int, NEW b \in Int, NEW c \in Int, NEW d \in Int, NEW m \in Int,
           NEW n \in Int, Lodged(u, b, c, m), a <= b, c <= d, m <= n
    PROVE  Lodged(u, a, d, n)
<1>1. PICK x \in b..c : x = u[1]
    BY DEF Lodged
<1>2. PICK y \in b..c : y = u[2]
    BY DEF Lodged
<1>3. x <= y /\ ~BlankAt(x) /\ ~BlankAt(y) /\ (y - x) + 1 <= m
    BY <1>1, <1>2 DEF Lodged
<1>4. x \in a..d /\ y \in a..d /\ (y - x) + 1 <= n
    BY <1>3
<1> QED
    BY <1>1, <1>2, <1>3, <1>4 DEF Lodged

LEMMA TrimCuts ==
    ASSUME NEW f \in Nat, NEW t \in Int, NEW most \in Int, (t - f) + 1 <= most
    PROVE  CutsUp(Trim(f, t), f, t, most)
<1>1. PICK ink : ink = {x \in f..t : ~BlankAt(x)}
    OBVIOUS
<1>2. CASE ink = {}
    <2>1. PICK e : e = <<>>
        OBVIOUS
    <2>2. Trim(f, t) = e
        BY <1>1, <1>2, <2>1 DEF Trim
    <2>3. NoElement(e)
        BY <2>1, EmptyList
    <2>4. \A x \in f..t : BlankAt(x)
        BY <1>1, <1>2, Zenon
    <2> QED
        BY <2>2, <2>3, <2>4 DEF CutsUp, NoElement
<1>3. CASE ink # {}
    <2>1. ink \in SUBSET Nat
        BY <1>1
    <2>2. PICK n \in Nat : n = t
        BY <1>1, <1>3
    <2>3. ink \in SUBSET (0..n)
        BY <1>1, <2>2
    <2>4. PICK a : a = Min(ink)
        OBVIOUS
    <2>5. PICK b : b = Max(ink)
        OBVIOUS
    <2>6. a \in ink /\ \A y \in ink : a <= y
        BY <1>3, <2>1, <2>4, LeastOf
    <2>7. b \in ink /\ \A y \in ink : b >= y
        BY <1>3, <2>3, <2>5, NatGreatest
    <2>8. a \in f..t /\ b \in f..t /\ ~BlankAt(a) /\ ~BlankAt(b) /\ a <= b
        BY <1>1, <2>6, <2>7
    <2>9. PICK u : u = <<a, b>>
        OBVIOUS
    <2>10. u[1] = a /\ u[2] = b
        BY <2>9
    <2>11. PICK p : p = <<u>>
        OBVIOUS
    <2>12. IsList(p) /\ Len(p) = 1 /\ p[1] = u
        BY <2>11, Single
    <2>13. Trim(f, t) = p
        BY <1>1, <1>3, <2>4, <2>5, <2>9, <2>11 DEF Trim
    <2>14. (b - a) + 1 <= most
        BY <2>8
    <2>15. Lodged(u, f, t, most)
        BY <2>8, <2>10, <2>14 DEF Lodged
    <2>16. \A x \in f..t : ~BlankAt(x) => x \in a..b
        BY <1>1, <2>6, <2>7
    <2>17. \A x \in f..t : ~BlankAt(x) => Holds(p, x)
        <3>1. 1 \in 1..Len(p)
            BY <2>12
        <3> QED
            BY <2>10, <2>12, <2>16, <3>1 DEF Holds
    <2>18. \A k \in 1..Len(p) : p[k] = u
        BY <2>12
    <2> QED
        BY <2>12, <2>13, <2>15, <2>17, <2>18 DEF CutsUp
<1> QED
    BY <1>2, <1>3

\* Units cut up to c, then those from a place before c on.
LEMMA CutsJoin ==
    ASSUME NEW a \in Int, NEW b \in Int, NEW c \in Int, NEW t \in Int, NEW most \in Int,
           a <= b, b <= c + 1, c <= t,
           NEW p, CutsUp(p, a, c, most), NEW q, CutsUp(q, b, t, most)
    PROVE  CutsUp(p \o q, a, t, most)
<1>1. PICK m \in Nat : m = Len(p)
    BY ListLength DEF CutsUp
<1>2. PICK n \in Nat : n = Len(q)
    BY ListLength DEF CutsUp
<1>3. PICK r : r = p \o q
    OBVIOUS
<1>4. /\ IsList(r) /\ Len(r) = m + n
      /\ \A k \in 1..m : r[k] = p[k]
      /\ \A k \in 1..n : r[m + k] = q[k]
    BY <1>1, <1>2, <1>3, JoinedList DEF CutsUp
<1>5. ASSUME NEW k \in 1..(m + n) PROVE Lodged(r[k], a, t, most)
    <2>1. CASE k \in 1..m
        <3>1. Lodged(p[k], a, c, most)
            BY <1>1, <2>1 DEF CutsUp
        <3>2. Lodged(p[k], a, t, most)
            BY <3>1, LodgedWider
        <3> QED
            BY <1>4, <2>1, <3>2
    <2>2. CASE k \notin 1..m
        <3>1. PICK z \in 1..n : k = m + z
            <4>1. k - m \in 1..n /\ k = m + (k - m)
                BY <2>2
            <4> QED
                BY <4>1
        <3>2. Lodged(q[z], b, t, most)
            BY <1>2 DEF CutsUp
        <3>3. Lodged(q[z], a, t, most)
            BY <3>2, LodgedWider
        <3> QED
            BY <1>4, <3>1, <3>3
    <2> QED
        BY <2>1, <2>2
<1>6. ASSUME NEW x \in a..t, ~BlankAt(x) PROVE Holds(r, x)
    <2>1. CASE x \in a..c
        <3>1. PICK k \in 1..m : x \in p[k][1]..p[k][2]
            BY <1>1, <1>6, <2>1 DEF CutsUp, Holds
        <3>2. k \in 1..(m + n) /\ r[k] = p[k]
            BY <1>4
        <3> QED
            BY <1>4, <3>1, <3>2 DEF Holds
    <2>2. CASE x \in b..t
        <3>1. PICK k \in 1..n : x \in q[k][1]..q[k][2]
            BY <1>2, <1>6, <2>2 DEF CutsUp, Holds
        <3>2. m + k \in 1..(m + n) /\ r[m + k] = q[k]
            BY <1>4
        <3> QED
            BY <1>4, <3>1, <3>2 DEF Holds
    <2>3. x \in a..c \/ x \in b..t
        OBVIOUS
    <2> QED
        BY <2>1, <2>2, <2>3
<1> QED
    BY <1>3, <1>4, <1>5, <1>6 DEF CutsUp

\* _split_oversized always advances, and never by more than the limit.
LEMMA CutAdvances ==
    ASSUME NEW d \in Nat, NEW end \in Nat, d < end, NEW limit \in Nat, NEW overlap \in Nat,
           NEW t \in Nat
    PROVE  CutAt(d, end, limit, overlap, t) \in (d + 1)..end
<1>1. PICK q \in Nat : q = Higher(1, limit - overlap) \div 2
    <2>1. PICK h \in Nat : h = Higher(1, limit - overlap)
        BY DEF Higher
    <2>2. h \div 2 \in Nat
        BY <2>1
    <2> QED
        BY <2>1, <2>2
<1>2. PICK from \in Nat : from = d + Higher(1, limit - overlap) \div 2
    <2>1. d + q \in Nat
        OBVIOUS
    <2> QED
        BY <1>1, <2>1
<1>3. ASSUME NEW c PROVE LastOf(c, from, end) \in 0..end
    <2>1. PICK T : T = {0} \cup {x \in from..(end - 1) : text[x].c = c}
        OBVIOUS
    <2>2. T \in SUBSET (0..(end - 1)) /\ T # {} /\ end - 1 \in Nat
        BY <2>1
    <2>3. Max(T) \in T
        BY <2>2, NatGreatest
    <2>4. LastOf(c, from, end) = Max(T)
        BY <2>1 DEF LastOf
    <2>5. PICK m \in 0..(end - 1) : m = Max(T)
        BY <2>2, <2>3
    <2>6. m \in 0..end
        OBVIOUS
    <2> QED
        BY <2>4, <2>5, <2>6
<1>4. PICK newline : newline = LastOf("/", from, end)
    OBVIOUS
<1>5. PICK space : space = LastOf(Space, from, end)
    OBVIOUS
<1>6. CutAt(d, end, limit, overlap, t) =
          IF end = t + 1 THEN end
          ELSE IF newline > d THEN newline
          ELSE IF space > d THEN space ELSE end
    BY <1>2, <1>4, <1>5 DEF CutAt
<1>7. newline \in 0..end /\ space \in 0..end
    BY <1>3, <1>4, <1>5
<1>8. PICK c : c = CutAt(d, end, limit, overlap, t)
    OBVIOUS
<1>9. c \in (d + 1)..end
    BY <1>6, <1>7, <1>8
<1> QED
    BY <1>8, <1>9

LEMMA CutAtEnd ==
    ASSUME NEW d \in Nat, NEW limit \in Nat, NEW overlap \in Nat, NEW t \in Nat, NEW end \in Nat,
           end = t + 1
    PROVE  CutAt(d, end, limit, overlap, t) = end
BY DEF CutAt

LEMMA NextAdvances ==
    ASSUME NEW d \in Nat, NEW end \in Nat, d < end, NEW overlap \in Nat, NEW t \in Nat
    PROVE  NextPiece(d, end, overlap, t) \in (d + 1)..end
<1>1. PICK from \in (d + 1)..end : from = Higher(end - overlap, d + 1)
    <2>1. Higher(end - overlap, d + 1) \in (d + 1)..end
        BY DEF Higher
    <2> QED
        BY <2>1
<1>2. PICK spaces : spaces = {x \in from..(end - 1) : text[x].c = Space}
    OBVIOUS
<1>3. NextPiece(d, end, overlap, t) =
         IF overlap > 0 /\ from <= t /\ ~BlankAt(from - 1) /\ spaces # {} /\ Min(spaces) + 1 < end
         THEN Min(spaces) + 1 ELSE from
    BY <1>1, <1>2 DEF NextPiece
<1>4. ASSUME spaces # {} PROVE Min(spaces) + 1 \in (d + 1)..end
    <2>1. spaces \in SUBSET Nat
        BY <1>2
    <2>2. Min(spaces) \in spaces
        BY <1>4, <2>1, LeastOf
    <2>3. PICK m \in from..(end - 1) : m = Min(spaces)
        BY <1>2, <2>2
    <2>4. m + 1 \in (d + 1)..end
        OBVIOUS
    <2> QED
        BY <2>3, <2>4
<1> QED
    BY <1>3, <1>4

\* The pieces of an oversized unit hold its ink, and none is longer than the limit.
LEMMA SplitCuts ==
    ASSUME NEW f \in Nat, NEW t \in Nat, f <= t, NEW limit \in Nat, limit # 0, NEW overlap \in Nat
    PROVE  CutsUp(SplitOversized(f, t, limit, overlap), f, t, limit)
<1> DEFINE End(d) == CutAt(d, Lower(d + limit, t + 1), limit, overlap, t)
           Body(d, rest) == IF End(d) > t THEN Trim(d, t) ELSE Trim(d, End(d) - 1) \o rest
           F(g) == [d \in f..(t + 1) |->
                       LET end == End(d) IN
                       IF end > t THEN Trim(d, t)
                       ELSE Trim(d, end - 1) \o g[NextPiece(d, end, overlap, t)]]
           pieces == CHOOSE g : g = F(g)
<1>1. ASSUME NEW d \in f..(t + 1)
      PROVE  /\ End(d) \in d..(t + 1) /\ End(d) <= d + limit
             /\ d <= t => d < End(d)
             /\ d = t + 1 => End(d) = t + 1
    <2>1. PICK e \in Nat : e = Lower(d + limit, t + 1)
        BY DEF Lower
    <2>2. e <= d + limit /\ e <= t + 1 /\ d <= e /\ (d <= t => d < e) /\ (d = t + 1 => e = t + 1)
        BY <2>1 DEF Lower
    <2>3. PICK c : c = CutAt(d, e, limit, overlap, t)
        OBVIOUS
    <2>4. d \in Nat
        OBVIOUS
    <2>5. d <= t => c \in (d + 1)..e
        BY <2>2, <2>3, <2>4, CutAdvances
    <2>6. d = t + 1 => c = t + 1
        <3> SUFFICES ASSUME d = t + 1 PROVE c = t + 1
            OBVIOUS
        <3>1. e = t + 1
            BY <2>2
        <3>2. CutAt(d, e, limit, overlap, t) = e
            BY <3>1, CutAtEnd
        <3> QED
            BY <2>3, <3>1, <3>2
    <2>7. End(d) = c
        BY <2>1, <2>3
    <2> HIDE DEF End
    <2> QED
        BY <2>2, <2>5, <2>6, <2>7
<1> HIDE DEF End
<1>2. PICK stop : stop = [d \in f..(t + 1) |-> End(d) > t]
    OBVIOUS
<1>3. PICK head : head = [d \in f..(t + 1) |-> IF End(d) > t THEN Trim(d, t) ELSE Trim(d, End(d) - 1)]
    OBVIOUS
<1>4. PICK next : next = [d \in f..(t + 1) |-> NextPiece(d, End(d), overlap, t)]
    OBVIOUS
<1>5. \A d \in f..(t + 1) : stop[d] <=> End(d) > t
    BY <1>2, Zenon
<1>6. ASSUME NEW d \in f..(t + 1), ~(End(d) > t)
      PROVE  /\ d <= t /\ NextPiece(d, End(d), overlap, t) \in (d + 1)..End(d)
             /\ End(d) \in (d + 1)..t
    <2>1. d <= t /\ d \in Nat
        BY <1>1, <1>6
    <2>2. End(d) \in Nat /\ d < End(d) /\ End(d) <= t
        BY <1>1, <1>6, <2>1
    <2>3. PICK e \in Nat : e = End(d)
        BY <2>2
    <2>4. NextPiece(d, e, overlap, t) \in (d + 1)..e
        BY <2>1, <2>2, <2>3, NextAdvances
    <2> QED
        BY <2>1, <2>2, <2>3, <2>4
<1>7. Advances(f, t + 1, stop, next)
    <2> SUFFICES ASSUME NEW d \in f..(t + 1), ~stop[d] PROVE next[d] \in (d + 1)..(t + 1)
        BY DEF Advances
    <2>1. ~(End(d) > t)
        BY <1>5, Zenon
    <2>2. NextPiece(d, End(d), overlap, t) \in (d + 1)..End(d) /\ End(d) \in (d + 1)..t
        BY <1>6, <2>1
    <2>3. next[d] = NextPiece(d, End(d), overlap, t)
        BY <1>4
    <2> QED
        BY <2>2, <2>3
<1>8. PICK h : Descends(h, f, t + 1, stop, head, next)
    <2>1. t + 1 \in Int
        OBVIOUS
    <2> QED
        BY <1>7, <2>1, DescentExists
<1>9. PICK g : g = [d \in f..(t + 1) |-> h[d]]
    OBVIOUS
<1>10. g = F(g)
    <2>1. ASSUME NEW d \in f..(t + 1) PROVE g[d] = F(g)[d]
        <3>1. h[d] = IF stop[d] THEN head[d] ELSE head[d] \o h[next[d]]
            BY <1>8 DEF Descends, Following
        <3>2. CASE End(d) > t
            <4>1. h[d] = head[d]
                BY <1>5, <3>1, <3>2, Zenon
            <4>2. head[d] = Trim(d, t) /\ g[d] = h[d]
                BY <1>3, <1>9, <3>2
            <4>3. F(g)[d] = Trim(d, t)
                BY <3>2
            <4> QED
                BY <4>1, <4>2, <4>3
        <3>3. CASE ~(End(d) > t)
            <4>1. h[d] = head[d] \o h[next[d]]
                BY <1>5, <3>1, <3>3, Zenon
            <4>2. next[d] = NextPiece(d, End(d), overlap, t) /\ next[d] \in f..(t + 1)
                BY <1>4, <1>6, <3>3
            <4>3. head[d] = Trim(d, End(d) - 1) /\ g[d] = h[d] /\ g[next[d]] = h[next[d]]
                BY <1>3, <1>9, <3>3, <4>2
            <4>4. F(g)[d] = Trim(d, End(d) - 1) \o g[NextPiece(d, End(d), overlap, t)]
                BY <3>3
            <4> QED
                BY <4>1, <4>2, <4>3, <4>4
        <3> QED
            BY <3>2, <3>3
    <2> QED
        BY <1>9, <2>1
<1>11. pieces = F(pieces)
    <2>1. \E k : k = F(k)
        BY <1>10
    <2> QED
        BY <2>1, Zenon
<1>12. SplitOversized(f, t, limit, overlap) = pieces[f]
    BY DEF SplitOversized, End
<1> HIDE DEF pieces
<1>13. \A d \in f..(t + 1) :
          pieces[d] = IF End(d) > t THEN Trim(d, t)
                      ELSE Trim(d, End(d) - 1) \o pieces[NextPiece(d, End(d), overlap, t)]
    BY <1>11
<1>14. PICK Good : Good = {d \in f..(t + 1) : CutsUp(pieces[d], d, t, limit)}
    OBVIOUS
<1>15. ASSUME NEW d \in f..(t + 1), \A e \in (d + 1)..(t + 1) : e \in Good PROVE d \in Good
    <2>1. CASE End(d) > t
        <3>1. pieces[d] = Trim(d, t)
            BY <1>13, <2>1
        <3>2. d \in Nat /\ (t - d) + 1 <= limit
            BY <1>1, <2>1
        <3>3. CutsUp(Trim(d, t), d, t, limit)
            <4>1. d \in Nat /\ t \in Int /\ limit \in Int
                BY <3>2
            <4> QED
                BY <3>2, <4>1, TrimCuts
        <3> QED
            BY <1>14, <3>1, <3>3
    <2>2. CASE ~(End(d) > t)
        <3>1. PICK c \in (d + 1)..t : c = End(d)
            BY <1>6, <2>2
        <3>2. PICK b \in (d + 1)..c : b = NextPiece(d, End(d), overlap, t)
            BY <1>6, <2>2, <3>1
        <3>3. pieces[d] = Trim(d, c - 1) \o pieces[b]
            BY <1>13, <2>2, <3>1, <3>2
        <3>4. CutsUp(pieces[b], b, t, limit)
            <4>1. b \in Good
                BY <1>15, <3>2
            <4> QED
                BY <1>14, <4>1
        <3>5. d \in Nat /\ c - 1 \in Int /\ ((c - 1) - d) + 1 <= limit
            BY <1>1, <3>1
        <3>6. CutsUp(Trim(d, c - 1), d, c - 1, limit)
            BY <3>5, TrimCuts
        <3>7. d \in Int /\ b \in Int /\ d <= b /\ b <= (c - 1) + 1 /\ c - 1 <= t
            BY <3>1, <3>2
        <3>8. CutsUp(Trim(d, c - 1) \o pieces[b], d, t, limit)
            BY <3>4, <3>5, <3>6, <3>7, CutsJoin
        <3> QED
            BY <1>14, <3>3, <3>8
    <2> QED
        BY <2>1, <2>2
<1>16. f \in Good
    <2>1. PICK b \in Int : b = t + 1
        OBVIOUS
    <2>2. \A d \in f..b : (\A e \in (d + 1)..b : e \in Good) => d \in Good
        BY <1>15, <2>1
    <2>3. f \in Int /\ f \in f..b
        BY <2>1
    <2>4. \A d \in f..b : d \in Good
        BY <2>1, <2>2, <2>3, DescentInduction
    <2> QED
        BY <2>3, <2>4
<1> QED
    BY <1>12, <1>14, <1>16

-----------------------------------------------------------------------------
\* Units cut between offsets.

\* The last start before a place, and what ends before the next one.
LEMMA RawCuts ==
    ASSUME NEW n \in Nat, DOMAIN text = 1..n, NEW lo \in Nat, lo # 0
    PROVE  CutsUp(Raw(lo, n), lo, n, n)
<1>1. PICK S : S = {x \in NonBlanks : x \in lo..n /\ Starts(lo, x)}
    OBVIOUS
<1>2. NonBlanks = {x \in 1..n : ~BlankAt(x)}
    BY DEF NonBlanks
<1>3. /\ S \in SUBSET (1..n)
      /\ \A x \in S : x \in lo..n /\ ~BlankAt(x)
    BY <1>1, <1>2
<1>4. ASSUME NEW x \in lo..n, ~BlankAt(x), Before(lo, x) = {} PROVE x \in S
    <2>1. Starts(lo, x)
        BY <1>4 DEF Starts
    <2>2. x \in NonBlanks
        BY <1>2, <1>4
    <2> QED
        BY <1>1, <2>1, <2>2
<1>5. ASSUME NEW x \in 0..n
      PROVE  /\ Before(lo, x) = {y \in lo..n : ~BlankAt(y) /\ y < x}
             /\ Before(lo, x) \in SUBSET (0..n)
    BY <1>2 DEF Before
<1> DEFINE End(x) == LET later == {y \in S : y > x} IN
                     IF later = {} THEN Max({y \in NonBlanks : y \in x..n})
                     ELSE Max(Before(lo, Min(later)))
           Next1(x, y) == x <= y /\ \A z \in S : z > x => z > y
<1>6. ASSUME NEW x \in S
      PROVE  /\ End(x) \in x..n /\ ~BlankAt(End(x))
             /\ \A y \in lo..n : ~BlankAt(y) /\ Next1(x, y) => y <= End(x)
    <2>1. x \in 1..n /\ x \in lo..n /\ ~BlankAt(x)
        BY <1>3
    <2>2. PICK later : later = {y \in S : y > x}
        OBVIOUS
    <2>3. CASE later = {}
        <3>1. PICK T : T = {y \in NonBlanks : y \in x..n}
            OBVIOUS
        <3>2. T \in SUBSET (0..n) /\ x \in T
            BY <1>2, <2>1, <3>1
        <3>3. PICK e : e = Max(T)
            OBVIOUS
        <3>4. e \in T /\ \A y \in T : e >= y
            BY <3>2, <3>3, NatGreatest
        <3>5. End(x) = e
            BY <2>2, <2>3, <3>1, <3>3
        <3>6. e \in x..n /\ ~BlankAt(e)
            BY <1>2, <3>1, <3>4
        <3>7. ASSUME NEW y \in lo..n, ~BlankAt(y), x <= y PROVE y <= e
            <4>1. y \in T
                BY <1>2, <3>1, <3>7
            <4> QED
                BY <3>4, <3>6, <4>1
        <3> QED
            BY <3>5, <3>6, <3>7
    <2>4. CASE later # {}
        <3>1. PICK m : m = Min(later)
            OBVIOUS
        <3>2. later \in SUBSET Nat
            <4>1. ASSUME NEW z \in later PROVE z \in Nat
                <5>1. z \in S
                    BY <2>2
                <5> QED
                    BY <1>3, <5>1
            <4> QED
                BY <4>1
        <3>3. m \in later
            BY <2>4, <3>1, <3>2, LeastOf
        <3>4. m \in S /\ m \in 0..n /\ m > x
            BY <1>3, <2>2, <3>3
        <3>5. PICK T : T = Before(lo, m)
            OBVIOUS
        <3>6. T = {y \in lo..n : ~BlankAt(y) /\ y < m} /\ T \in SUBSET (0..n)
            BY <1>5, <3>4, <3>5
        <3>7. x \in T
            BY <2>1, <3>4, <3>6
        <3>8. PICK e : e = Max(T)
            OBVIOUS
        <3>9. e \in T /\ \A y \in T : e >= y
            BY <3>6, <3>7, <3>8, NatGreatest
        <3>10. End(x) = e
            BY <2>2, <2>4, <3>1, <3>5, <3>8
        <3>11. e \in x..n /\ ~BlankAt(e)
            BY <2>1, <3>6, <3>7, <3>9
        <3>12. ASSUME NEW y \in lo..n, ~BlankAt(y), Next1(x, y) PROVE y <= e
            <4>1. m > y
                BY <3>4, <3>12
            <4>2. y \in T
                BY <3>4, <3>6, <3>12, <4>1
            <4> QED
                BY <3>9, <3>11, <4>2
        <3> QED
            BY <3>10, <3>11, <3>12
    <2> QED
        BY <2>3, <2>4
<1>7. ASSUME NEW y \in lo..n, ~BlankAt(y) PROVE \E x \in S : Next1(x, y)
    <2>1. PICK W : W = {w \in lo..n : ~BlankAt(w)}
        OBVIOUS
    <2>2. W \in SUBSET Nat /\ y \in W
        BY <1>7, <2>1
    <2>3. PICK w \in W : \A z \in W : w <= z
        BY <2>2, NatLeast
    <2>4. w \in lo..n /\ ~BlankAt(w) /\ w <= y
        BY <2>1, <2>2, <2>3
    <2>5. Before(lo, w) = {}
        <3>1. Before(lo, w) = {z \in lo..n : ~BlankAt(z) /\ z < w}
            BY <1>5, <2>4
        <3>2. ASSUME NEW z \in Before(lo, w) PROVE FALSE
            <4>1. z \in W /\ z \in lo..n /\ z < w
                BY <2>1, <3>1, <3>2
            <4> QED
                BY <2>3, <2>4, <4>1
        <3> QED
            BY <3>2
    <2>6. w \in S
        BY <1>4, <2>4, <2>5
    <2>7. PICK T : T = {z \in S : z <= y}
        OBVIOUS
    <2>8. T \in SUBSET (0..n) /\ w \in T
        <3>1. T \subseteq S /\ w \in T
            BY <2>4, <2>6, <2>7
        <3> QED
            BY <1>3, <3>1
    <2>9. PICK x : x = Max(T)
        OBVIOUS
    <2>10. x \in T /\ \A z \in T : x >= z
        BY <2>8, <2>9, NatGreatest
    <2>11. x \in S /\ x <= y /\ x \in 1..n
        BY <1>3, <2>7, <2>10
    <2>12. ASSUME NEW z \in S, z > x PROVE z > y
        <3>1. z \in 1..n
            BY <1>3
        <3>2. z \in T => x >= z
            BY <2>10
        <3>3. z \notin T
            BY <2>11, <2>12, <3>1, <3>2
        <3> QED
            BY <2>7, <3>1, <3>3
    <2> QED
        BY <2>11, <2>12
<1> HIDE DEF Next1
<1>8. PICK from : from = Ascending(S)
    OBVIOUS
<1>9. IsList(from) /\ ToSet(from) = S
    BY <1>3, <1>8, AscendingEnumerates DEF Enumerates
<1>10. PICK L \in Nat : L = Len(from) /\ DOMAIN from = 1..L
    BY <1>9, ListLength
<1>11. PICK p : p = [k \in 1..L |-> <<from[k], End(from[k])>>]
    OBVIOUS
<1>12. Raw(lo, n) = p
    BY <1>1, <1>8, <1>10, <1>11 DEF Raw
<1> HIDE DEF End
<1>13. p = [k \in 1..L |-> p[k]]
    BY <1>11
<1>14. IsList(p) /\ Len(p) = L
    BY <1>13, ListedBy
<1>15. ASSUME NEW k \in 1..L
       PROVE  p[k][1] = from[k] /\ p[k][2] = End(from[k]) /\ from[k] \in S
    BY <1>9, <1>10, <1>11 DEF ToSet
<1>16. ASSUME NEW k \in 1..L PROVE Lodged(p[k], lo, n, n)
    <2>1. PICK x \in S : x = from[k]
        BY <1>15
    <2>2. PICK e \in x..n : e = End(x)
        BY <1>6
    <2>3. ~BlankAt(e)
        BY <1>6, <2>2
    <2>4. x \in lo..n /\ ~BlankAt(x)
        BY <1>3
    <2>5. e \in lo..n /\ x <= e /\ (e - x) + 1 <= n
        BY <2>2, <2>4
    <2>6. p[k][1] = x /\ p[k][2] = e
        BY <1>15, <2>1, <2>2
    <2> QED
        BY <2>3, <2>4, <2>5, <2>6 DEF Lodged
<1>17. ASSUME NEW y \in lo..n, ~BlankAt(y) PROVE Holds(p, y)
    <2>1. PICK x \in S : Next1(x, y)
        BY <1>7, <1>17
    <2>2. y <= End(x)
        BY <1>6, <1>17, <2>1
    <2>3. PICK k \in 1..L : from[k] = x
        BY <1>9, <1>10 DEF ToSet
    <2>4. p[k][1] = x /\ p[k][2] = End(x)
        BY <1>15, <2>3
    <2>5. x <= y
        BY <2>1 DEF Next1
    <2>6. End(x) \in x..n /\ x \in 1..n
        BY <1>3, <1>6
    <2>7. y \in x..End(x)
        BY <2>2, <2>5, <2>6
    <2> QED
        BY <1>14, <2>4, <2>7 DEF Holds
<1> QED
    BY <1>12, <1>14, <1>16, <1>17 DEF CutsUp

\* A list of units, read by its members.
LEMMA CutsByMembers ==
    ASSUME NEW p, IsList(p), NEW a, NEW b, NEW most,
           \A u \in ToSet(p) : Lodged(u, a, b, most),
           \A x \in a..b : ~BlankAt(x) => \E u \in ToSet(p) : x \in u[1]..u[2]
    PROVE  CutsUp(p, a, b, most)
<1>1. PICK L \in Nat : L = Len(p) /\ DOMAIN p = 1..L
    BY ListLength
<1>2. \A k \in 1..L : p[k] \in ToSet(p)
    BY <1>1 DEF ToSet
<1>3. \A u \in ToSet(p) : \E k \in 1..L : u = p[k]
    BY <1>1 DEF ToSet
<1> QED
    BY <1>1, <1>2, <1>3 DEF CutsUp, Holds

Sizes(f) == f.size \in Nat /\ f.size # 0 /\ f.overlap \in 0..(f.size - 1)

\* Units cut again: nothing is lost, and none is longer than the size.
LEMMA SizedCuts ==
    ASSUME NEW n \in Nat, NEW us, CutsUp(us, 1, n, n), Sizes(file)
    PROVE  CutsUp(Sized(us), 1, n, file.size)
<1>1. PICK L \in Nat : L = Len(us) /\ DOMAIN us = 1..L
    BY ListLength DEF CutsUp
<1>2. PICK size \in Nat : size = file.size /\ size # 0
    BY DEF Sizes
<1>3. PICK overlap \in Nat : overlap = file.overlap /\ overlap < size
    BY <1>2 DEF Sizes
<1>4. PICK limit \in Nat : limit = Limit /\ limit # 0 /\ limit <= size
    <2>1. PICK h \in Nat : h = Higher(1, size - overlap) /\ h # 0 /\ h <= size
        BY <1>2, <1>3 DEF Higher
    <2>2. Limit = h \/ Limit = size
        BY <1>2, <1>3, <2>1 DEF Limit
    <2> QED
        BY <1>2, <2>1, <2>2
<1>5. PICK ss : ss = [k \in 1..L |->
                        IF Oversized(us[k]) THEN SplitOversized(us[k][1], us[k][2], limit, overlap)
                        ELSE <<us[k]>>]
    OBVIOUS
<1>6. Sized(us) = FlattenSeq(ss)
    BY <1>1, <1>3, <1>4, <1>5 DEF Sized
<1>7. ASSUME NEW k \in 1..L
      PROVE  /\ us[k][1] \in 1..n /\ us[k][2] \in 1..n
             /\ CutsUp(ss[k], us[k][1], us[k][2], size)
    <2>1. PICK u : u = us[k]
        OBVIOUS
    <2>2. Lodged(u, 1, n, n)
        BY <1>1, <2>1 DEF CutsUp
    <2>3. PICK f \in 1..n : f = u[1]
        BY <2>2 DEF Lodged
    <2>4. PICK t \in 1..n : t = u[2]
        BY <2>2 DEF Lodged
    <2>5. f <= t /\ ~BlankAt(f) /\ ~BlankAt(t) /\ f \in Nat /\ t \in Nat
        BY <2>2, <2>3, <2>4 DEF Lodged
    <2>6. CASE Oversized(u)
        <3>1. PICK p : p = SplitOversized(f, t, limit, overlap)
            OBVIOUS
        <3>2. ss[k] = p
            BY <1>5, <2>1, <2>3, <2>4, <2>6, <3>1
        <3>3. CutsUp(p, f, t, limit)
            BY <1>4, <2>5, <3>1, SplitCuts
        <3>4. ASSUME NEW j \in 1..Len(p) PROVE Lodged(p[j], f, t, size)
            <4>1. Lodged(p[j], f, t, limit)
                BY <3>3 DEF CutsUp
            <4>2. f \in Int /\ t \in Int /\ limit \in Int /\ size \in Int /\ f <= f /\ t <= t
                BY <2>5
            <4> QED
                BY <1>4, <4>1, <4>2, LodgedWider
        <3>5. CutsUp(p, f, t, size)
            BY <3>3, <3>4 DEF CutsUp
        <3> QED
            BY <2>1, <2>3, <2>4, <3>2, <3>5
    <2>7. CASE ~Oversized(u)
        <3>1. PICK p : p = <<u>>
            OBVIOUS
        <3>2. ss[k] = p
            BY <1>5, <2>1, <2>7, <3>1
        <3>3. IsList(p) /\ ToSet(p) = {u}
            BY <3>1, Single
        <3>4. (t - f) + 1 <= size
            BY <1>2, <2>3, <2>4, <2>7 DEF Oversized, Length
        <3>5. Lodged(u, f, t, size)
            BY <2>3, <2>4, <2>5, <3>4 DEF Lodged
        <3>6. \A x \in f..t : \E v \in ToSet(p) : x \in v[1]..v[2]
            BY <2>3, <2>4, <3>3
        <3>7. CutsUp(p, f, t, size)
            BY <3>3, <3>5, <3>6, CutsByMembers
        <3> QED
            BY <2>1, <2>3, <2>4, <3>2, <3>7
    <2> QED
        BY <2>6, <2>7
<1>8. IsList(ss) /\ Len(ss) = L /\ DOMAIN ss = 1..L
    <2>1. ss = [k \in 1..L |-> ss[k]]
        BY <1>5
    <2> QED
        BY <2>1, ListedBy
<1>9. ListOfLists(ss)
    BY <1>7, <1>8 DEF ListOfLists, CutsUp
<1>10. PICK p : p = FlattenSeq(ss)
    OBVIOUS
<1>11. IsList(p) /\ ToSet(p) = Everything(ss)
    BY <1>9, <1>10, FlattenList
<1>12. ASSUME NEW u \in ToSet(p) PROVE Lodged(u, 1, n, size)
    <2>1. PICK k \in 1..L : u \in ToSet(ss[k])
        BY <1>8, <1>11 DEF Everything
    <2>2. PICK m \in Nat : m = Len(ss[k]) /\ DOMAIN ss[k] = 1..m
        BY <1>7, ListLength DEF CutsUp
    <2>3. PICK j \in 1..m : u = ss[k][j]
        BY <2>1, <2>2 DEF ToSet
    <2>4. PICK f \in 1..n : f = us[k][1]
        BY <1>7
    <2>5. PICK t \in 1..n : t = us[k][2]
        BY <1>7
    <2>6. Lodged(u, f, t, size)
        BY <1>7, <2>2, <2>3, <2>4, <2>5 DEF CutsUp
    <2>7. 1 \in Int /\ f \in Int /\ t \in Int /\ n \in Int /\ size \in Int /\ 1 <= f /\ t <= n
          /\ size <= size
        OBVIOUS
    <2> QED
        BY <2>6, <2>7, LodgedWider
<1>13. ASSUME NEW x \in 1..n, ~BlankAt(x) PROVE \E u \in ToSet(p) : x \in u[1]..u[2]
    <2>1. PICK k \in 1..L : x \in us[k][1]..us[k][2]
        BY <1>1, <1>13 DEF CutsUp, Holds
    <2>2. Holds(ss[k], x)
        BY <1>7, <1>13, <2>1 DEF CutsUp
    <2>3. PICK m \in Nat : m = Len(ss[k]) /\ DOMAIN ss[k] = 1..m
        BY <1>7, ListLength DEF CutsUp
    <2>4. PICK j \in 1..m : x \in ss[k][j][1]..ss[k][j][2]
        BY <2>2, <2>3 DEF Holds
    <2>5. ss[k][j] \in ToSet(p)
        <3>1. ss[k][j] \in ToSet(ss[k])
            BY <2>3, <2>4 DEF ToSet
        <3> QED
            BY <1>8, <1>11, <3>1 DEF Everything
    <2> QED
        BY <2>4, <2>5
<1>14. CutsUp(p, 1, n, size)
    BY <1>11, <1>12, <1>13, CutsByMembers
<1> QED
    BY <1>2, <1>6, <1>10, <1>14

\* A unit keeps its characters, wherever the search finds them.
LEMMA LocatedUnits ==
    ASSUME NEW us, IsList(us)
    PROVE  /\ IsList(Located(us)) /\ Len(Located(us)) = Len(us)
           /\ \A k \in 1..Len(us) : Located(us)[k].real = us[k]
<1>1. PICK L \in Nat : L = Len(us) /\ DOMAIN us = 1..L
    BY ListLength
<1>2. \E at : Located(us) = [k \in 1..L |-> [at |-> at[k], real |-> us[k]]]
    <2> DEFINE cursor == CHOOSE cursor : cursor = [k \in 1..(Len(us) + 1) |->
                          IF k = 1 THEN 1
                          ELSE LET x == Find(us[k - 1], cursor[k - 1]) IN
                               IF x > Len(text) THEN cursor[k - 1] ELSE x + 1]
               at(k) == LET x == Find(us[k], cursor[k]) IN IF x > Len(text) THEN 0 ELSE x
    <2>1. Located(us) = [k \in 1..L |-> [at |-> at(k), real |-> us[k]]]
        BY <1>1 DEF Located
    <2> HIDE DEF at
    <2>2. PICK a : a = [k \in 1..L |-> at(k)]
        OBVIOUS
    <2>3. Located(us) = [k \in 1..L |-> [at |-> a[k], real |-> us[k]]]
        BY <2>1, <2>2
    <2> QED
        BY <2>3
<1>3. PICK at : Located(us) = [k \in 1..L |-> [at |-> at[k], real |-> us[k]]]
    BY <1>2
<1>4. PICK s : s = Located(us)
    OBVIOUS
<1>5. s = [k \in 1..L |-> s[k]] /\ \A k \in 1..L : s[k].real = us[k]
    BY <1>3, <1>4
<1>6. IsList(s) /\ Len(s) = L
    BY <1>5, ListedBy
<1> QED
    BY <1>1, <1>4, <1>5, <1>6

-----------------------------------------------------------------------------
\* Fragments closed.

LEMMA IntervalList ==
    ASSUME NEW f \in Int, NEW t \in Int, f <= t + 1, NEW u, u[1] = f, u[2] = t
    PROVE  /\ IsList(Interval(u)) /\ ToSet(Interval(u)) = f..t /\ Len(Interval(u)) = t - f + 1
           /\ Len(Interval(u)) \in Nat
<1>1. PICK m \in Nat : m = t - f + 1
    OBVIOUS
<1>2. PICK s : s = [k \in 1..m |-> f + k - 1]
    OBVIOUS
<1>3. Interval(u) = s
    BY <1>1, <1>2 DEF Interval
<1>4. s = [k \in 1..m |-> s[k]]
    BY <1>2
<1>5. IsList(s) /\ Len(s) = m /\ DOMAIN s = 1..m
    BY <1>4, ListedBy
<1>6. ASSUME NEW x \in f..t PROVE x \in ToSet(s)
    <2>1. PICK k \in 1..m : k = x - f + 1
        BY <1>1
    <2>2. s[k] = x
        BY <1>2, <2>1
    <2> QED
        BY <1>5, <2>2 DEF ToSet
<1>7. ASSUME NEW k \in 1..m PROVE s[k] \in f..t
    BY <1>1, <1>2
<1> QED
    BY <1>1, <1>3, <1>5, <1>6, <1>7 DEF ToSet

\* What stripping leaves of an interval of the text.
LEMMA StripHolds ==
    ASSUME NEW s, IsList(s)
    PROVE  /\ IsList(Strip(s)) /\ Len(Strip(s)) <= Len(s) /\ ToSet(Strip(s)) \subseteq ToSet(s)
           /\ \A x \in ToSet(s) : ~BlankAt(x) => x \in ToSet(Strip(s))
<1>1. PICK m \in Nat : m = Len(s)
    BY ListLength
<1>2. Bared(Strip(s), s, m)
    BY <1>1, StripBares
<1> QED
    BY <1>1, <1>2 DEF Bared

LEMMA OverlapTailList ==
    ASSUME NEW s, IsList(s), file.overlap \in Nat
    PROVE  IsList(OverlapTail(s)) /\ Len(OverlapTail(s)) <= file.overlap
<1>1. PICK o \in Nat : o = file.overlap
    OBVIOUS
<1>2. PICK n \in Nat : n = Len(s)
    BY ListLength
<1>3. PICK e : e = <<>>
    OBVIOUS
<1>4. IsList(e) /\ Len(e) <= o
    BY <1>3, EmptyList DEF NoElement
<1>5. PICK tail : tail = SubSeq(s, n - o + 1, n)
    OBVIOUS
<1>6. PICK blanks : blanks = {k \in DOMAIN tail : BlankAt(tail[k])}
    OBVIOUS
<1>7. OverlapTail(s) = IF o = 0 \/ n <= o THEN e
                       ELSE IF BlankAt(s[n - o]) THEN tail
                       ELSE IF blanks = {} THEN e
                       ELSE SubSeq(tail, Min(blanks) + 1, Len(tail))
    BY <1>1, <1>2, <1>3, <1>5, <1>6 DEF OverlapTail
<1>8. CASE o = 0 \/ n <= o
    BY <1>1, <1>4, <1>7, <1>8
<1>9. CASE ~(o = 0 \/ n <= o)
    <2>1. PICK a \in Nat : a = n - o + 1
        BY <1>9
    <2>2. 1 <= a /\ a <= n /\ n - a + 1 = o
        BY <1>9, <2>1
    <2>3. IsList(tail) /\ Len(tail) = o
        BY <1>2, <1>5, <2>1, <2>2, PartOfList
    <2>4. DOMAIN tail = 1..o
        BY <2>3, ListLength
    <2>5. ASSUME blanks # {}
          PROVE  LET r == SubSeq(tail, Min(blanks) + 1, Len(tail)) IN IsList(r) /\ Len(r) <= o
        <3>1. blanks \in SUBSET Nat /\ blanks \subseteq 1..o
            BY <1>6, <2>4
        <3>2. Min(blanks) \in blanks
            BY <2>5, <3>1, LeastOf
        <3>3. PICK b \in 1..o : b = Min(blanks)
            BY <3>1, <3>2
        <3>4. CASE b = o
            <4>1. SubSeq(tail, b + 1, o) = e
                <5>1. SubSeq(tail, o + 1, o) = <<>>
                    BY <2>3, SubSeqEmpty
                <5> QED
                    BY <1>3, <3>4, <5>1
            <4> QED
                BY <1>4, <2>3, <3>3, <4>1
        <3>5. CASE b # o
            <4>1. b + 1 \in Nat /\ 1 <= b + 1 /\ b + 1 <= o
                BY <3>5
            <4>2. IsList(SubSeq(tail, b + 1, o)) /\ Len(SubSeq(tail, b + 1, o)) = o - (b + 1) + 1
                BY <2>3, <4>1, PartOfList
            <4>3. o - (b + 1) + 1 <= o
                OBVIOUS
            <4> QED
                BY <2>3, <3>3, <4>2, <4>3
        <3> QED
            BY <3>4, <3>5
    <2>6. IsList(tail) /\ Len(tail) <= o
        BY <2>3
    <2> QED
        BY <1>1, <1>4, <1>7, <1>9, <2>5, <2>6
<1> QED
    BY <1>8, <1>9

\* A fragment, and fragments that hold the ink of an interval.
Headed(c) == "head" \in DOMAIN c /\ (c.head = <<>> \/ \E t \in Tables : c.head = Heading(t))
IsFragment(c, most) ==
    "text" \in DOMAIN c /\ IsList(c.text) /\ (Cuts => Len(c.text) <= most) /\ Headed(c)
HeldBy(cs, x) == \E k \in 1..Len(cs) : x \in ToSet(cs[k].text)
Fragmented(cs, a, b, most) ==
    /\ IsList(cs)
    /\ \A k \in 1..Len(cs) : IsFragment(cs[k], most)
    /\ \A x \in a..b : ~BlankAt(x) => HeldBy(cs, x)

LEMMA ChunkText ==
    \A s, a, b : /\ Chunk(s, a, b).text = s /\ "text" \in DOMAIN Chunk(s, a, b)
                 /\ Headed(Chunk(s, a, b))
    BY DEF Chunk, Headed

LEMMA HeldLonger ==
    ASSUME NEW p, NEW q, IsList(p), IsList(q), NEW x, HeldBy(p, x) \/ HeldBy(q, x)
    PROVE  HeldBy(p \o q, x)
<1>1. PICK m \in Nat : m = Len(p)
    BY ListLength
<1>2. PICK n \in Nat : n = Len(q)
    BY ListLength
<1>3. PICK r : r = p \o q
    OBVIOUS
<1>4. Len(r) = m + n /\ (\A k \in 1..m : r[k] = p[k]) /\ (\A k \in 1..n : r[m + k] = q[k])
    BY <1>1, <1>2, <1>3, JoinedList
<1>5. CASE HeldBy(p, x)
    <2>1. PICK k \in 1..m : x \in ToSet(p[k].text)
        BY <1>1, <1>5 DEF HeldBy
    <2>2. k \in 1..(m + n) /\ r[k] = p[k]
        BY <1>4
    <2> QED
        BY <1>3, <1>4, <2>1, <2>2 DEF HeldBy
<1>6. CASE HeldBy(q, x)
    <2>1. PICK k \in 1..n : x \in ToSet(q[k].text)
        BY <1>2, <1>6 DEF HeldBy
    <2>2. m + k \in 1..(m + n) /\ r[m + k] = q[k]
        BY <1>4
    <2> QED
        BY <1>3, <1>4, <2>1, <2>2 DEF HeldBy
<1> QED
    BY <1>5, <1>6

LEMMA FragmentsLonger ==
    ASSUME NEW p, NEW q, IsList(p), IsList(q), NEW most,
           \A k \in 1..Len(p) : IsFragment(p[k], most), \A k \in 1..Len(q) : IsFragment(q[k], most)
    PROVE  IsList(p \o q) /\ \A k \in 1..Len(p \o q) : IsFragment((p \o q)[k], most)
<1>1. PICK m \in Nat : m = Len(p)
    BY ListLength
<1>2. PICK n \in Nat : n = Len(q)
    BY ListLength
<1>3. PICK r : r = p \o q
    OBVIOUS
<1>4. /\ IsList(r) /\ Len(r) = m + n
      /\ (\A k \in 1..m : r[k] = p[k]) /\ (\A k \in 1..n : r[m + k] = q[k])
    BY <1>1, <1>2, <1>3, JoinedList
<1>5. ASSUME NEW k \in 1..(m + n) PROVE IsFragment(r[k], most)
    <2>1. CASE k \in 1..m
        BY <1>1, <1>4, <2>1
    <2>2. CASE k \notin 1..m
        <3>1. PICK z \in 1..n : k = m + z
            <4>1. k - m \in 1..n /\ k = m + (k - m)
                BY <2>2
            <4> QED
                BY <4>1
        <3> QED
            BY <1>2, <1>4, <3>1
    <2> QED
        BY <2>1, <2>2
<1> QED
    BY <1>3, <1>4, <1>5

\* A fragment of its own.
LEMMA OneFragment ==
    ASSUME NEW c, NEW most, IsFragment(c, most)
    PROVE  /\ IsList(<<c>>) /\ \A k \in 1..Len(<<c>>) : IsFragment(<<c>>[k], most)
           /\ \A x \in ToSet(c.text) : HeldBy(<<c>>, x)
<1>1. PICK p : p = <<c>>
    OBVIOUS
<1>2. IsList(p) /\ Len(p) = 1 /\ p[1] = c
    BY <1>1, Single
<1>3. \A k \in 1..Len(p) : p[k] = c
    BY <1>2
<1>4. 1 \in 1..Len(p)
    BY <1>2
<1> QED
    BY <1>1, <1>2, <1>3, <1>4 DEF HeldBy

\* _chunk_fixed: the windows leave nothing between them.
LEMMA FixedHolds ==
    ASSUME NEW n \in Nat, n # 0, n = Len(text), Sizes(file)
    PROVE  Fragmented(Fixed(1), 1, n, file.size)
<1>1. PICK size \in Nat : size = file.size /\ size # 0
    BY DEF Sizes
<1>2. PICK overlap \in Nat : overlap = file.overlap /\ overlap < size
    BY <1>1 DEF Sizes
<1> DEFINE End(d) == Lower(d + size, n + 1)
           One(d) == <<Chunk(Strip(Interval(<<d, End(d) - 1>>)), d, End(d))>>
           F(g) == [d \in 1..n |-> LET end == End(d)
                                       one == One(d)
                                   IN IF end > n THEN one ELSE one \o g[end - overlap]]
           windows == CHOOSE g : g = F(g)
<1>3. ASSUME NEW d \in 1..n
      PROVE  /\ End(d) \in (d + 1)..(n + 1) /\ End(d) <= d + size
             /\ ~(End(d) > n) => End(d) - overlap \in (d + 1)..n
    <2>1. PICK a \in Nat : a = d + size /\ a > d /\ a - overlap > d
        BY <1>1, <1>2
    <2>2. PICK e \in Nat : e = Lower(a, n + 1)
        BY DEF Lower
    <2>3. e \in (d + 1)..(n + 1) /\ e <= a /\ (~(e > n) => e = a)
        BY <2>1, <2>2 DEF Lower
    <2>4. e - overlap <= e
        BY <1>2
    <2>5. ~(e > n) => e - overlap \in (d + 1)..n
        BY <2>1, <2>3, <2>4
    <2>6. End(d) = e
        BY <2>1, <2>2
    <2> HIDE DEF End
    <2> QED
        BY <2>1, <2>3, <2>5, <2>6
<1>4. Fixed(1) = windows[1]
    BY <1>1, <1>2 DEF Fixed
<1>5. ASSUME NEW d \in 1..n
      PROVE  /\ IsList(One(d)) /\ \A k \in 1..Len(One(d)) : IsFragment(One(d)[k], size)
             /\ \A x \in d..(End(d) - 1) : ~BlankAt(x) => HeldBy(One(d), x)
    <2>1. PICK e \in Nat : e = End(d) /\ d < e /\ e <= d + size
        BY <1>3
    <2>2. PICK u : u = <<d, e - 1>>
        OBVIOUS
    <2>3. u[1] = d /\ u[2] = e - 1
        BY <2>2
    <2>4. d \in Int /\ e - 1 \in Int /\ d <= (e - 1) + 1
        BY <2>1
    <2>5. PICK s : s = Interval(u)
        OBVIOUS
    <2>6. IsList(s) /\ ToSet(s) = d..(e - 1) /\ Len(s) = (e - 1) - d + 1
        BY <2>3, <2>4, <2>5, IntervalList
    <2>7. PICK r : r = Strip(s)
        OBVIOUS
    <2>8. /\ IsList(r) /\ Len(r) <= Len(s)
          /\ \A x \in ToSet(s) : ~BlankAt(x) => x \in ToSet(r)
        BY <2>6, <2>7, StripHolds
    <2>9. PICK l \in Nat : l = Len(r)
        BY <2>8, ListLength
    <2>10. l <= size
        <3>1. (e - 1) - d + 1 <= size
            BY <2>1
        <3> QED
            BY <2>6, <2>8, <2>9, <3>1
    <2>11. PICK c : c = Chunk(r, d, e)
        OBVIOUS
    <2>12. IsFragment(c, size) /\ c.text = r
        BY <2>8, <2>9, <2>10, <2>11, ChunkText DEF IsFragment
    <2>13. One(d) = <<c>>
        BY <2>1, <2>2, <2>5, <2>7, <2>11
    <2> HIDE DEF One, End
    <2>14. /\ IsList(One(d)) /\ \A k \in 1..Len(One(d)) : IsFragment(One(d)[k], size)
           /\ \A x \in ToSet(r) : HeldBy(One(d), x)
        BY <2>12, <2>13, OneFragment
    <2>15. \A x \in d..(End(d) - 1) : ~BlankAt(x) => x \in ToSet(r)
        BY <2>1, <2>6, <2>8
    <2> QED
        BY <2>14, <2>15
<1> HIDE DEF End, One
<1>6. PICK stop : stop = [d \in 1..n |-> End(d) > n]
    OBVIOUS
<1>7. PICK head : head = [d \in 1..n |-> One(d)]
    OBVIOUS
<1>8. PICK next : next = [d \in 1..n |-> End(d) - overlap]
    OBVIOUS
<1>9. \A d \in 1..n : stop[d] <=> End(d) > n
    BY <1>6, Zenon
<1>10. Advances(1, n, stop, next)
    <2> SUFFICES ASSUME NEW d \in 1..n, ~stop[d] PROVE next[d] \in (d + 1)..n
        BY DEF Advances
    <2>1. ~(End(d) > n)
        BY <1>9, Zenon
    <2>2. End(d) - overlap \in (d + 1)..n
        BY <1>3, <2>1
    <2> QED
        BY <1>8, <2>2
<1>11. PICK h : Descends(h, 1, n, stop, head, next)
    <2>1. 1 \in Int /\ n \in Int
        OBVIOUS
    <2> QED
        BY <1>10, <2>1, DescentExists
<1>12. PICK g : g = [d \in 1..n |-> h[d]]
    OBVIOUS
<1>13. g = F(g)
    <2>1. ASSUME NEW d \in 1..n PROVE g[d] = F(g)[d]
        <3>1. h[d] = IF stop[d] THEN head[d] ELSE head[d] \o h[next[d]]
            BY <1>11 DEF Descends, Following
        <3>2. head[d] = One(d) /\ g[d] = h[d]
            BY <1>7, <1>12
        <3>3. CASE End(d) > n
            <4>1. h[d] = head[d]
                BY <1>9, <3>1, <3>3, Zenon
            <4>2. F(g)[d] = One(d)
                BY <3>3
            <4> QED
                BY <3>2, <4>1, <4>2
        <3>4. CASE ~(End(d) > n)
            <4>1. h[d] = head[d] \o h[next[d]]
                BY <1>9, <3>1, <3>4, Zenon
            <4>2. PICK b \in 1..n : b = End(d) - overlap
                BY <1>3, <3>4
            <4>3. next[d] = b /\ g[b] = h[b]
                BY <1>8, <1>12, <4>2
            <4>4. F(g)[d] = One(d) \o g[b]
                BY <3>4, <4>2
            <4> QED
                BY <3>2, <4>1, <4>3, <4>4
        <3> QED
            BY <3>3, <3>4
    <2> QED
        BY <1>12, <2>1
<1>14. windows = F(windows)
    <2>1. \E k : k = F(k)
        BY <1>13
    <2> QED
        BY <2>1, Zenon
<1> HIDE DEF windows
<1>15. \A d \in 1..n : windows[d] = IF End(d) > n THEN One(d)
                                    ELSE One(d) \o windows[End(d) - overlap]
    BY <1>14
<1>16. PICK Good : Good = {d \in 1..n : Fragmented(windows[d], d, n, size)}
    OBVIOUS
<1>17. ASSUME NEW d \in 1..n, \A e \in (d + 1)..n : e \in Good PROVE d \in Good
    <2>1. PICK p : p = One(d)
        OBVIOUS
    <2>2. PICK e \in (d + 1)..(n + 1) : e = End(d)
        BY <1>3
    <2>3. /\ IsList(p) /\ \A k \in 1..Len(p) : IsFragment(p[k], size)
          /\ \A x \in d..(e - 1) : ~BlankAt(x) => HeldBy(p, x)
        BY <1>5, <2>1, <2>2
    <2>4. CASE e > n
        <3>1. windows[d] = p
            BY <1>15, <2>1, <2>2, <2>4
        <3>2. \A x \in d..n : x \in d..(e - 1)
            BY <2>4
        <3>3. Fragmented(p, d, n, size)
            BY <2>3, <3>2 DEF Fragmented
        <3> QED
            BY <1>16, <3>1, <3>3
    <2>5. CASE ~(e > n)
        <3>1. PICK b \in (d + 1)..n : b = e - overlap
            BY <1>3, <2>2, <2>5
        <3>2. PICK q : q = windows[b]
            OBVIOUS
        <3>3. windows[d] = p \o q
            BY <1>15, <2>1, <2>2, <2>5, <3>1, <3>2
        <3>4. Fragmented(q, b, n, size)
            <4>1. b \in Good
                BY <1>17, <3>1
            <4> QED
                BY <1>16, <3>2, <4>1
        <3>5. IsList(p \o q) /\ \A k \in 1..Len(p \o q) : IsFragment((p \o q)[k], size)
            BY <2>3, <3>4, FragmentsLonger DEF Fragmented
        <3>6. ASSUME NEW x \in d..n, ~BlankAt(x) PROVE HeldBy(p \o q, x)
            <4>1. x \in d..(e - 1) \/ x \in b..n
                <5>1. d \in Nat /\ x \in Nat
                    OBVIOUS
                <5>2. e \in Nat
                    BY <2>2, <5>1
                <5>3. b <= e
                    BY <1>2, <3>1, <5>2
                <5> QED
                    BY <2>2, <3>1, <5>1, <5>2, <5>3
            <4>2. HeldBy(p, x) \/ HeldBy(q, x)
                BY <2>3, <3>4, <3>6, <4>1 DEF Fragmented
            <4> QED
                BY <2>3, <3>4, <4>2, HeldLonger DEF Fragmented
        <3>7. Fragmented(p \o q, d, n, size)
            BY <3>5, <3>6 DEF Fragmented
        <3> QED
            BY <1>16, <3>3, <3>7
    <2> QED
        BY <2>4, <2>5
<1>18. 1 \in Good
    <2>1. 1 \in Int /\ n \in Int /\ 1 \in 1..n
        OBVIOUS
    <2>2. \A d \in 1..n : d \in Good
        BY <1>17, <2>1, DescentInduction
    <2> QED
        BY <2>1, <2>2
<1> QED
    BY <1>1, <1>4, <1>16, <1>18

\* The text between two marks of slides.
LEMMA PairList == \A x, y : IsList(<<x, y>>) /\ ToSet(<<x, y>>) = {x, y}
<1> SUFFICES ASSUME NEW x, NEW y PROVE IsList(<<x, y>>) /\ ToSet(<<x, y>>) = {x, y}
    OBVIOUS
<1>1. PICK s : s = <<x, y>>
    OBVIOUS
<1>2. s \in Seq({x, y}) /\ DOMAIN s = 1..2 /\ s[1] = x /\ s[2] = y
    BY <1>1
<1>3. ToSet(s) = {x, y}
    BY <1>2 DEF ToSet
<1> QED
    BY <1>1, <1>2, <1>3, SeqIsList

MarksOf(n) == Enumerates(Marks, {x \in 1..n : text[x].c = "#"})

LEMMA PartHolds ==
    ASSUME NEW n \in Nat, n = Len(text), MarksOf(n), NEW k \in 0..Len(Marks)
    PROVE  /\ IsList(Part(k))
           /\ \A x \in 1..n : /\ ~BlankAt(x)
                              /\ k > 0 => Marks[k] < x
                              /\ k < Len(Marks) => x < Marks[k + 1]
                 => x \in ToSet(Part(k))
<1>1. PICK L \in Nat : L = Len(Marks) /\ DOMAIN Marks = 1..L
    BY ListLength DEF MarksOf, Enumerates
<1>2. ASSUME NEW j \in 1..L PROVE Marks[j] \in 1..n
    BY <1>1 DEF MarksOf, Enumerates, ToSet
<1>3. PICK a \in Nat : a = IF k = 0 THEN 1 ELSE Marks[k] + 1
    <2>1. k > 0 => k \in 1..L
        BY <1>1
    <2>2. k > 0 => Marks[k] + 1 \in Nat
        BY <1>2, <2>1
    <2> QED
        BY <1>1, <2>2
<1>4. PICK b \in Int : b = IF k = L THEN n ELSE Marks[k + 1] - 1
    <2>1. k # L => k + 1 \in 1..L
        BY <1>1
    <2>2. k # L => Marks[k + 1] - 1 \in Int
        BY <1>2, <2>1
    <2> QED
        BY <1>1, <2>2
<1>5. a <= b + 1
    <2>1. CASE k = 0 /\ k = L
        BY <1>3, <1>4, <2>1
    <2>2. CASE k = 0 /\ k # L
        <3>1. k + 1 \in 1..L
            BY <1>1, <2>2
        <3>2. Marks[k + 1] \in 1..n
            BY <1>2, <3>1
        <3> QED
            BY <1>3, <1>4, <2>2, <3>2
    <2>3. CASE k # 0 /\ k = L
        <3>1. Marks[k] \in 1..n
            BY <1>1, <1>2, <2>3
        <3> QED
            BY <1>3, <1>4, <2>3, <3>1
    <2>4. CASE k # 0 /\ k # L
        <3>1. k \in 1..L /\ k + 1 \in 1..L /\ k < k + 1
            BY <1>1, <2>4
        <3>2. Marks[k] < Marks[k + 1]
            BY <1>1, <3>1 DEF MarksOf, Enumerates
        <3>3. Marks[k] \in 1..n /\ Marks[k + 1] \in 1..n
            BY <1>2, <3>1
        <3> QED
            BY <1>3, <1>4, <2>4, <3>2, <3>3
    <2> QED
        BY <2>1, <2>2, <2>3, <2>4
<1>6. PICK u : u = <<a, b>>
    OBVIOUS
<1>7. PICK s : s = Interval(u)
    OBVIOUS
<1>8. Part(k) = Strip(s)
    BY <1>1, <1>3, <1>4, <1>6, <1>7 DEF Part
<1>9. IsList(s) /\ ToSet(s) = a..b
    <2>1. u[1] = a /\ u[2] = b /\ a \in Int
        BY <1>6
    <2> QED
        BY <1>5, <1>7, <2>1, IntervalList
<1>10. IsList(Strip(s)) /\ \A x \in ToSet(s) : ~BlankAt(x) => x \in ToSet(Strip(s))
    BY <1>9, StripHolds
<1>11. ASSUME NEW x \in 1..n, k > 0 => Marks[k] < x, k < L => x < Marks[k + 1]
       PROVE  x \in a..b
    <2>1. a <= x
        <3>1. CASE k = 0
            BY <1>3, <3>1
        <3>2. CASE k # 0
            <4>1. k \in 1..L /\ k > 0
                BY <1>1, <3>2
            <4>2. Marks[k] \in 1..n /\ Marks[k] < x
                BY <1>2, <1>11, <4>1
            <4> QED
                BY <1>3, <3>2, <4>2
        <3> QED
            BY <3>1, <3>2
    <2>2. x <= b
        <3>1. CASE k = L
            BY <1>4, <3>1
        <3>2. CASE k # L
            <4>1. k + 1 \in 1..L /\ k < L
                BY <1>1, <3>2
            <4>2. Marks[k + 1] \in 1..n /\ x < Marks[k + 1]
                BY <1>2, <1>11, <4>1
            <4> QED
                BY <1>4, <3>2, <4>2
        <3> QED
            BY <3>1, <3>2
    <2> QED
        BY <2>1, <2>2
<1> QED
    BY <1>1, <1>8, <1>9, <1>10, <1>11

SlideList == Among([k \in 1..(Len(Marks) + 1) |-> k - 1], {k \in 0..Len(Marks) : Part(k) # <<>>})
SlideChunks == [k \in DOMAIN SlideList |-> Slide(SlideList[k])]

\* _chunk_by_slide: what is no mark is in the fragment of its slide.
LEMMA SlidesHold ==
    ASSUME NEW n \in Nat, n = Len(text), DOMAIN text = 1..n, ~Cuts, NEW most
    PROVE  /\ IsList(SlideChunks) /\ \A k \in 1..Len(SlideChunks) : IsFragment(SlideChunks[k], most)
           /\ \A x \in 1..n : ~BlankAt(x) /\ text[x].c # "#" => HeldBy(SlideChunks, x)
           /\ SlideList = <<>> => \A x \in 1..n : ~BlankAt(x) => text[x].c = "#"
<1>1. PICK M : M = {x \in 1..n : text[x].c = "#"}
    OBVIOUS
<1>2. MarksOf(n)
    <2>1. Marks = Ascending(M)
        BY <1>1 DEF Marks
    <2>2. M \in SUBSET (1..n)
        BY <1>1
    <2> QED
        BY <1>1, <2>1, <2>2, AscendingEnumerates DEF MarksOf
<1>3. PICK L \in Nat : L = Len(Marks) /\ DOMAIN Marks = 1..L
    BY <1>2, ListLength DEF MarksOf, Enumerates
<1>4. PICK told : told = {k \in 0..L : Part(k) # <<>>}
    OBVIOUS
<1>5. PICK all : all = [k \in 1..(L + 1) |-> k - 1]
    OBVIOUS
<1>6. IsList(all) /\ ToSet(all) = 0..L
    <2>1. all = [k \in 1..(L + 1) |-> all[k]] /\ L + 1 \in Nat
        BY <1>5
    <2>2. IsList(all) /\ DOMAIN all = 1..(L + 1)
        BY <2>1, ListedBy
    <2>3. ASSUME NEW k \in 0..L PROVE k \in ToSet(all)
        <3>1. k + 1 \in 1..(L + 1) /\ all[k + 1] = k
            BY <1>5
        <3> QED
            BY <2>2, <3>1 DEF ToSet
    <2>4. \A k \in 1..(L + 1) : all[k] \in 0..L
        BY <1>5
    <2> QED
        BY <2>2, <2>3, <2>4 DEF ToSet
<1>7. PICK s : s = SlideList
    OBVIOUS
<1>8. s = Among(all, told)
    BY <1>3, <1>4, <1>5, <1>7 DEF SlideList
<1>9. IsList(s) /\ ToSet(s) = told
    <2>1. ToSet(s) = (0..L) \cap told /\ IsList(s)
        BY <1>6, <1>8, AmongElements
    <2> QED
        BY <1>4, <2>1
<1>10. PICK l \in Nat : l = Len(s) /\ DOMAIN s = 1..l
    BY <1>9, ListLength
<1>11. PICK cs : cs = [k \in 1..l |-> Slide(s[k])]
    OBVIOUS
<1>12. SlideChunks = cs
    BY <1>7, <1>10, <1>11 DEF SlideChunks
<1>13. IsList(cs) /\ Len(cs) = l
    <2>1. cs = [k \in 1..l |-> cs[k]]
        BY <1>11
    <2> QED
        BY <2>1, ListedBy
<1>14. ASSUME NEW k \in 0..L
       PROVE  IsFragment(Slide(k), most) /\ ToSet(Part(k)) \subseteq ToSet(Slide(k).text)
    <2>1. PICK p : p = Part(k) /\ IsList(p)
        BY <1>2, <1>3, PartHolds
    <2>2. PICK q : q = <<Marks[k], 0>> /\ IsList(q)
        BY PairList
    <2>3. PICK r : r = IF k = 0 THEN p ELSE q \o p
        OBVIOUS
    <2>4. IsList(r) /\ ToSet(p) \subseteq ToSet(r)
        <3>1. IsList(q \o p) /\ ToSet(q \o p) = ToSet(q) \cup ToSet(p)
            BY <2>1, <2>2, JoinedList
        <3> QED
            BY <2>1, <2>3, <3>1
    <2>5. Slide(k) = Chunk(r, Counted(k) + 1, Counted(k) + 1 + Len(r))
        BY <2>1, <2>2, <2>3 DEF Slide
    <2>6. Slide(k).text = r /\ "text" \in DOMAIN Slide(k) /\ Headed(Slide(k))
        BY <2>5, ChunkText
    <2> QED
        BY <2>1, <2>4, <2>6 DEF IsFragment
<1>15. ASSUME NEW k \in 1..l PROVE IsFragment(cs[k], most)
    <2>1. s[k] \in told
        BY <1>9, <1>10 DEF ToSet
    <2>2. s[k] \in 0..L
        BY <1>4, <2>1
    <2> QED
        BY <1>11, <1>14, <2>2
<1>16. ASSUME NEW x \in 1..n, ~BlankAt(x), text[x].c # "#"
       PROVE  HeldBy(cs, x) /\ s # <<>>
    <2>1. M \in SUBSET (1..n) /\ Enumerates(Marks, M) /\ x \in Nat /\ x \notin M
        BY <1>1, <1>2, <1>16 DEF MarksOf
    <2>2. PICK k \in 0..Len(Marks) : /\ k > 0 => Marks[k] < x
                                     /\ k < Len(Marks) => x < Marks[k + 1]
        BY <2>1, PlaceAmong
    <2>3. x \in ToSet(Part(k))
        BY <1>2, <1>16, <2>2, PartHolds
    <2>4. Part(k) # <<>>
        <3>1. PICK e : e = <<>>
            OBVIOUS
        <3>2. ToSet(e) = {}
            BY <3>1, EmptyList DEF NoElement
        <3> QED
            BY <2>3, <3>1, <3>2
    <2>5. k \in told
        BY <1>3, <1>4, <2>4
    <2>6. PICK j \in 1..l : s[j] = k
        BY <1>9, <1>10, <2>5 DEF ToSet
    <2>7. x \in ToSet(cs[j].text)
        <3>1. cs[j] = Slide(k)
            BY <1>11, <2>6
        <3>2. k \in 0..L
            BY <1>3
        <3> QED
            BY <1>14, <2>3, <3>1, <3>2
    <2>8. s # <<>>
        BY <1>10, <2>6
    <2> QED
        BY <1>13, <2>7, <2>8 DEF HeldBy
<1> QED
    BY <1>7, <1>12, <1>13, <1>15, <1>16

-----------------------------------------------------------------------------
\* The lines of a text, and the header of a mail.

LineOf(l, n) == l[1] \in 1..(n + 1) /\ l[2] \in 0..n /\ l[1] <= l[2] + 1

\* Every character but the newlines is in a line, and the lines are apart.
LEMMA LinesOfText ==
    ASSUME NEW n \in Nat, n = Len(text), DOMAIN text = 1..n
    PROVE  /\ IsList(Lines) /\ \A k \in 1..Len(Lines) : LineOf(Lines[k], n)
           /\ \A j, k \in 1..Len(Lines) : j < k => Lines[j][2] + 2 <= Lines[k][1]
           /\ \A x \in 1..n : ~BlankAt(x) => \E k \in 1..Len(Lines) : x \in Lines[k][1]..Lines[k][2]
<1>1. PICK breaks : breaks = {x \in 1..n : text[x].c = "/"} \cup {n + 1}
    OBVIOUS
<1>2. breaks \in SUBSET (1..(n + 1)) /\ n + 1 \in breaks
    BY <1>1
<1>3. PICK S : S = {1} \cup {x + 1 : x \in breaks \ {n + 1}}
    OBVIOUS
<1>4. S \in SUBSET (1..(n + 1)) /\ 1 \in S
    BY <1>1, <1>3
<1>5. \A y \in S : y # 1 => y - 1 \in breaks
    BY <1>2, <1>3
<1>6. PICK from : from = Ascending(S)
    OBVIOUS
<1>7. n + 1 \in Nat
    OBVIOUS
<1>8. Enumerates(from, S)
    BY <1>4, <1>6, <1>7, AscendingEnumerates
<1>9. PICK L \in Nat : L = Len(from) /\ DOMAIN from = 1..L
    BY <1>8, ListLength DEF Enumerates
<1>10. ASSUME NEW k \in 1..L PROVE from[k] \in S /\ from[k] \in 1..(n + 1)
    BY <1>4, <1>8, <1>9 DEF Enumerates, ToSet
<1> DEFINE End(x) == Min({y \in breaks : y >= x})
<1>11. ASSUME NEW x \in 1..(n + 1)
       PROVE  End(x) \in breaks /\ End(x) >= x /\ \A y \in breaks : y >= x => End(x) <= y
    <2>1. PICK T : T = {y \in breaks : y >= x}
        OBVIOUS
    <2>2. T \in SUBSET Nat /\ n + 1 \in T
        <3>1. T \subseteq breaks /\ n + 1 \in T
            BY <1>2, <2>1
        <3>2. breaks \subseteq Nat
            BY <1>2
        <3> QED
            BY <3>1, <3>2
    <2>3. Min(T) \in T /\ \A y \in T : Min(T) <= y
        BY <2>2, LeastOf
    <2>4. End(x) = Min(T)
        BY <2>1
    <2> HIDE DEF End
    <2> QED
        BY <2>1, <2>3, <2>4
<1>12. PICK s : s = [k \in 1..L |-> <<from[k], End(from[k]) - 1>>]
    OBVIOUS
<1>13. Lines = s
    BY <1>1, <1>3, <1>6, <1>9, <1>12 DEF Lines
<1> HIDE DEF End
<1>14. s = [k \in 1..L |-> s[k]] /\ \A k \in 1..L : s[k][1] = from[k] /\ s[k][2] = End(from[k]) - 1
    BY <1>12
<1>15. IsList(s) /\ Len(s) = L
    BY <1>14, ListedBy
<1>16. ASSUME NEW k \in 1..L PROVE LineOf(s[k], n)
    <2>1. PICK a \in 1..(n + 1) : a = from[k]
        BY <1>10
    <2>2. PICK e \in 1..(n + 1) : e = End(a) /\ a <= e
        BY <1>2, <1>11
    <2>3. s[k][1] = a /\ s[k][2] = e - 1
        BY <1>14, <2>1, <2>2
    <2>4. e - 1 \in 0..n /\ a <= (e - 1) + 1
        BY <2>2
    <2> QED
        BY <2>3, <2>4 DEF LineOf
<1>17. ASSUME NEW j \in 1..L, NEW k \in 1..L, j < k PROVE s[j][2] + 2 <= s[k][1]
    <2>1. PICK a \in 1..(n + 1) : a = from[j]
        BY <1>10
    <2>2. PICK b \in 1..(n + 1) : b = from[k] /\ b \in S
        BY <1>10
    <2>3. a < b
        BY <1>8, <1>9, <1>17, <2>1, <2>2 DEF Enumerates
    <2>4. b - 1 \in breaks /\ b - 1 >= a
        BY <1>5, <2>2, <2>3
    <2>5. PICK e \in 1..(n + 1) : e = End(a) /\ e <= b - 1
        BY <1>2, <1>11, <2>4
    <2>6. s[j][2] = e - 1 /\ s[k][1] = b
        BY <1>14, <2>1, <2>2, <2>5
    <2>7. (e - 1) + 2 <= b
        BY <2>5
    <2> QED
        BY <2>6, <2>7
<1>18. ASSUME NEW x \in 1..n, ~BlankAt(x) PROVE \E k \in 1..L : x \in s[k][1]..s[k][2]
    <2>1. x \notin breaks
        <3>1. text[x].c # "/"
            BY <1>18 DEF BlankAt, Blanks
        <3> QED
            BY <1>1, <3>1
    <2>2. PICK T : T = {y \in S : y <= x}
        OBVIOUS
    <2>3. T \in SUBSET (0..(n + 1)) /\ 1 \in T
        <3>1. T \subseteq S /\ 1 \in T
            BY <1>4, <2>2
        <3> QED
            BY <1>4, <3>1
    <2>4. PICK a : a = Max(T)
        OBVIOUS
    <2>5. a \in T /\ \A y \in T : a >= y
        BY <1>7, <2>3, <2>4, NatGreatest
    <2>6. a \in S /\ a <= x /\ a \in 1..(n + 1)
        BY <1>4, <2>2, <2>5
    <2>7. PICK e \in 1..(n + 1) : e = End(a) /\ e \in breaks /\ a <= e
        BY <1>2, <1>11, <2>6
    <2>8. x < e
        <3> SUFFICES ASSUME ~(x < e) PROVE FALSE
            OBVIOUS
        <3>1. e < x /\ e # n + 1
            BY <2>1, <2>7
        <3>2. e + 1 \in S /\ e + 1 <= x
            BY <1>3, <2>7, <3>1
        <3>3. e + 1 \in T
            BY <2>2, <3>2
        <3> QED
            BY <2>5, <2>6, <2>7, <3>3
    <2>9. PICK k \in 1..L : from[k] = a
        BY <1>8, <1>9, <2>6 DEF Enumerates, ToSet
    <2>10. s[k][1] = a /\ s[k][2] = e - 1
        BY <1>14, <2>7, <2>9
    <2>11. x \in a..(e - 1)
        BY <2>6, <2>7, <2>8
    <2> QED
        BY <2>10, <2>11
<1> QED
    BY <1>13, <1>15, <1>16, <1>17, <1>18

\* What a line has left when it is stripped.
LEMMA ContentHolds ==
    ASSUME NEW n \in Nat, NEW l, LineOf(l, n)
    PROVE  IsList(Content(l)) /\ \A x \in l[1]..l[2] : ~BlankAt(x) => x \in ToSet(Content(l))
<1>1. PICK f \in 1..(n + 1) : f = l[1]
    BY DEF LineOf
<1>2. PICK t \in 0..n : t = l[2]
    BY DEF LineOf
<1>3. f \in Int /\ t \in Int /\ f <= t + 1
    BY <1>1, <1>2 DEF LineOf
<1>4. PICK s : s = Interval(l)
    OBVIOUS
<1>5. IsList(s) /\ ToSet(s) = f..t
    BY <1>1, <1>2, <1>3, <1>4, IntervalList
<1>6. IsList(Strip(s)) /\ \A x \in ToSet(s) : ~BlankAt(x) => x \in ToSet(Strip(s))
    BY <1>5, StripHolds
<1> QED
    BY <1>1, <1>2, <1>4, <1>5, <1>6 DEF Content

\* One more line of the header.
Further(v, c) == IF v = <<>> THEN c ELSE v \o <<0>> \o c

LEMMA HeadUnfolds ==
    ASSUME NEW n \in Nat, n = Len(text), DOMAIN text = 1..n,
           NEW kept, kept = Ascending(HeaderLines), IsList(kept), NEW L \in Nat, L = Len(kept),
           \A k \in 1..L : IsList(Content(Lines[kept[k]]))
    PROVE  \E f : /\ EmailHead = f[L] /\ f[0] = <<>>
                  /\ \A k \in 1..L : f[k] = Further(f[k - 1], Content(Lines[kept[k]]))
<1>1. PICK C : C = [k \in 1..L |-> Content(Lines[kept[k]])]
    OBVIOUS
<1>2. PICK U : U = {0} \cup UNION {ToSet(C[k]) : k \in 1..L}
    OBVIOUS
<1>3. PICK T : T = Seq(U)
    OBVIOUS
<1>4. PICK e : e = <<>>
    OBVIOUS
<1>5. e \in T
    BY <1>3, <1>4, EmptySeq
<1>6. ASSUME NEW k \in 1..L PROVE C[k] \in T
    <2>1. IsList(C[k])
        BY <1>1
    <2>2. ToSet(C[k]) \subseteq U
        BY <1>2
    <2> QED
        BY <1>3, <2>1, <2>2, SeqMonotonic DEF IsList
<1>7. PICK zero : zero = <<0>>
    OBVIOUS
<1>8. zero \in T
    BY <1>2, <1>3, <1>7
<1>9. ASSUME NEW v \in T, NEW c \in T PROVE Further(v, c) \in T
    <2>1. v \o zero \in T
        BY <1>3, <1>8, ConcatProperties
    <2>2. (v \o zero) \o c \in T
        BY <1>3, <2>1, ConcatProperties
    <2> QED
        BY <1>7, <2>2 DEF Further
<1>10. PICK step : step = [k \in 1..L |-> [v \in T |-> Further(v, C[k])]]
    OBVIOUS
<1>11. step \in [1..L -> [T -> T]]
    BY <1>6, <1>9, <1>10
<1>12. \E f \in [0..L -> T] : Recursive(f, e, L, step)
    BY <1>5, <1>11, RecursionExists, Zenon
<1>13. PICK f \in [0..L -> T] : f[0] = e /\ \A k \in 1..L : f[k] = step[k][f[k - 1]]
    BY <1>12 DEF Recursive
<1>14. ASSUME NEW k \in 1..L PROVE f[k] = Further(f[k - 1], C[k])
    <2>1. f[k - 1] \in T
        OBVIOUS
    <2> QED
        BY <1>10, <1>13, <2>1
<1> DEFINE F(g) == [k \in 0..L |-> IF k = 0 THEN e
                                   ELSE IF g[k - 1] = <<>> THEN Content(Lines[kept[k]])
                                   ELSE g[k - 1] \o <<0>> \o Content(Lines[kept[k]])]
           upto == CHOOSE g : g = F(g)
<1>15. f = F(f)
    <2>1. ASSUME NEW k \in 0..L PROVE f[k] = F(f)[k]
        <3>1. CASE k = 0
            BY <1>13, <3>1
        <3>2. CASE k # 0
            <4>1. k \in 1..L
                BY <3>2
            <4>2. C[k] = Content(Lines[kept[k]])
                BY <1>1, <4>1
            <4> QED
                BY <1>14, <3>2, <4>1, <4>2 DEF Further
        <3> QED
            BY <3>1, <3>2
    <2> QED
        BY <2>1
<1>16. upto = F(upto)
    <2>1. \E k : k = F(k)
        BY <1>15
    <2> QED
        BY <2>1, Zenon
<1>17. EmailHead = upto[L]
    BY <1>4 DEF EmailHead
<1> HIDE DEF upto
<1>18. \A k \in 0..L : upto[k] = IF k = 0 THEN e ELSE Further(upto[k - 1], Content(Lines[kept[k]]))
    BY <1>16 DEF Further
<1>19. upto[0] = <<>>
    BY <1>4, <1>18
<1>20. \A k \in 1..L : upto[k] = Further(upto[k - 1], Content(Lines[kept[k]]))
    BY <1>18
<1> QED
    BY <1>17, <1>19, <1>20

LEMMA FurtherHolds ==
    ASSUME NEW v, NEW c, IsList(v), IsList(c)
    PROVE  /\ IsList(Further(v, c))
           /\ ToSet(v) \subseteq ToSet(Further(v, c)) /\ ToSet(c) \subseteq ToSet(Further(v, c))
<1>1. CASE v = <<>>
    <2>1. ToSet(v) = {}
        BY <1>1, EmptyList DEF NoElement
    <2>2. Further(v, c) = c
        BY <1>1 DEF Further
    <2> QED
        BY <2>1, <2>2
<1>2. CASE v # <<>>
    <2>1. PICK z : z = <<0>> /\ IsList(z)
        BY Single
    <2>2. PICK a : a = v \o z
        OBVIOUS
    <2>3. IsList(a) /\ ToSet(a) = ToSet(v) \cup ToSet(z)
        BY <2>1, <2>2, JoinedList
    <2>4. PICK b : b = a \o c
        OBVIOUS
    <2>5. IsList(b) /\ ToSet(b) = ToSet(a) \cup ToSet(c)
        BY <2>3, <2>4, JoinedList
    <2>6. Further(v, c) = b
        BY <1>2, <2>1, <2>2, <2>4 DEF Further
    <2> QED
        BY <2>3, <2>5, <2>6
<1> QED
    BY <1>1, <1>2

\* The header of a mail holds its lines.
LEMMA HeadHolds ==
    ASSUME NEW n \in Nat, n = Len(text), DOMAIN text = 1..n
    PROVE  /\ IsList(EmailHead)
           /\ \A k \in HeaderLines : ToSet(Content(Lines[k])) \subseteq ToSet(EmailHead)
<1>1. PICK m \in Nat : m = Len(Lines) /\ DOMAIN Lines = 1..m
    BY LinesOfText, ListLength
<1>2. \A k \in 1..m : LineOf(Lines[k], n)
    BY <1>1, LinesOfText
<1>3. HeaderLines \in SUBSET (1..m)
    BY <1>1 DEF HeaderLines, Metas
<1>4. PICK kept : kept = Ascending(HeaderLines)
    OBVIOUS
<1>5. IsList(kept) /\ ToSet(kept) = HeaderLines
    BY <1>3, <1>4, AscendingEnumerates DEF Enumerates
<1>6. PICK L \in Nat : L = Len(kept) /\ DOMAIN kept = 1..L
    BY <1>5, ListLength
<1>7. PICK C : C = [k \in 1..L |-> Content(Lines[kept[k]])]
    OBVIOUS
<1>8. ASSUME NEW k \in 1..L PROVE IsList(Content(Lines[kept[k]])) /\ C[k] = Content(Lines[kept[k]])
    <2>1. kept[k] \in 1..m
        BY <1>3, <1>5, <1>6 DEF ToSet
    <2>2. LineOf(Lines[kept[k]], n)
        BY <1>2, <2>1
    <2> QED
        BY <1>7, <2>2, ContentHolds
<1>9. PICK f : /\ EmailHead = f[L] /\ f[0] = <<>>
               /\ \A k \in 1..L : f[k] = Further(f[k - 1], Content(Lines[kept[k]]))
    <2>1. \A k \in 1..L : IsList(Content(Lines[kept[k]]))
        BY <1>8
    <2> QED
        BY <1>4, <1>5, <1>6, <2>1, HeadUnfolds
<1>10. PICK Good : Good = {k \in Nat : k <= L => /\ IsList(f[k])
                                                  /\ \A j \in 1..k : ToSet(C[j]) \subseteq ToSet(f[k])}
    OBVIOUS
<1>11. 0 \in Good
    <2>1. IsList(f[0])
        BY <1>9, EmptyList DEF NoElement
    <2> QED
        BY <1>10, <2>1
<1>12. ASSUME NEW k \in Nat, k \in Good PROVE k + 1 \in Good
    <2> SUFFICES ASSUME k + 1 <= L
                 PROVE  /\ IsList(f[k + 1])
                        /\ \A j \in 1..(k + 1) : ToSet(C[j]) \subseteq ToSet(f[k + 1])
        BY <1>10
    <2>1. IsList(f[k]) /\ \A j \in 1..k : ToSet(C[j]) \subseteq ToSet(f[k])
        BY <1>10, <1>12
    <2>2. k + 1 \in 1..L /\ (k + 1) - 1 = k
        OBVIOUS
    <2>3. f[k + 1] = Further(f[k], C[k + 1]) /\ IsList(C[k + 1])
        BY <1>8, <1>9, <2>2
    <2>4. /\ IsList(f[k + 1])
          /\ ToSet(f[k]) \subseteq ToSet(f[k + 1]) /\ ToSet(C[k + 1]) \subseteq ToSet(f[k + 1])
        BY <2>1, <2>3, FurtherHolds
    <2>5. ASSUME NEW j \in 1..(k + 1) PROVE ToSet(C[j]) \subseteq ToSet(f[k + 1])
        <3>1. j \in 1..k \/ j = k + 1
            OBVIOUS
        <3> QED
            BY <2>1, <2>4, <3>1
    <2> QED
        BY <2>4, <2>5
<1>13. L \in Good
    BY <1>11, <1>12, NatSetInduction
<1>14. IsList(EmailHead) /\ \A j \in 1..L : ToSet(C[j]) \subseteq ToSet(EmailHead)
    BY <1>9, <1>10, <1>13
<1>15. ASSUME NEW k \in HeaderLines PROVE ToSet(Content(Lines[k])) \subseteq ToSet(EmailHead)
    <2>1. PICK j \in 1..L : kept[j] = k
        BY <1>5, <1>6 DEF ToSet
    <2>2. C[j] = Content(Lines[k])
        BY <1>8, <2>1
    <2> QED
        BY <1>14, <2>2
<1> QED
    BY <1>14, <1>15

\* Where the body of a mail begins, and what is above it when the header comes first.
LEMMA MailCovers ==
    ASSUME NEW n \in Nat, n = Len(text), DOMAIN text = 1..n
    PROVE  /\ BodyFrom \in Nat /\ BodyFrom # 0
           /\ file.strategy = "email" /\ StartsWithHeader =>
                 \A x \in 1..n : ~BlankAt(x) /\ x < BodyFrom => x \in ToSet(EmailHead)
<1>1. PICK m \in Nat : m = Len(Lines) /\ DOMAIN Lines = 1..m
    BY LinesOfText, ListLength
<1>2. \A k \in 1..m : LineOf(Lines[k], n)
    BY <1>1, LinesOfText
<1>3. \A j, k \in 1..m : j < k => Lines[j][2] + 2 <= Lines[k][1]
    BY <1>1, LinesOfText
<1>4. \A x \in 1..n : ~BlankAt(x) => \E k \in 1..m : x \in Lines[k][1]..Lines[k][2]
    BY <1>1, LinesOfText
<1>5. Metas \in SUBSET (0..m) /\ Metas \in SUBSET (1..m)
    BY <1>1 DEF Metas
<1>6. PICK E : E = Ends
    OBVIOUS
<1>7. E \in SUBSET Nat /\ E \in SUBSET (1..m) /\ \A k \in E : Content(Lines[k]) = <<>>
    BY <1>1, <1>6 DEF Ends
<1>8. Ends # {} => Metas # {}
    BY DEF Ends
<1>9. \E b : /\ BodyFrom = IF b = 0 THEN 1 ELSE Lines[b][2] + 2
             /\ b \in 0..m /\ (Ends # {} => b = Min(Ends) /\ b # 0)
             /\ (Ends = {} /\ Metas # {} => b = Max(Metas) /\ b # 0)
             /\ (Metas = {} => b = 0)
    <2>1. CASE Ends # {}
        <3>1. PICK b : b = Min(Ends)
            OBVIOUS
        <3>2. b \in E
            BY <1>6, <1>7, <2>1, <3>1, LeastOf
        <3>3. b \in 1..m
            BY <1>7, <3>2
        <3>4. BodyFrom = Lines[b][2] + 2
            BY <2>1, <3>1 DEF BodyFrom
        <3> QED
            BY <1>8, <2>1, <3>1, <3>3, <3>4
    <2>2. CASE Ends = {} /\ Metas # {}
        <3>1. PICK b : b = Max(Metas)
            OBVIOUS
        <3>2. b \in Metas
            BY <1>5, <2>2, <3>1, NatGreatest
        <3>3. b \in 1..m
            BY <1>5, <3>2
        <3>4. BodyFrom = Lines[b][2] + 2
            BY <2>2, <3>1 DEF BodyFrom
        <3> QED
            BY <2>2, <3>1, <3>3, <3>4
    <2>3. CASE Metas = {}
        <3>1. Ends = {}
            BY <1>8, <2>3
        <3>2. BodyFrom = 1
            BY <2>3, <3>1 DEF BodyFrom
        <3>3. 0 \in 0..m
            OBVIOUS
        <3> QED
            BY <2>3, <3>1, <3>2, <3>3
    <2> QED
        BY <2>1, <2>2, <2>3
<1>10. PICK b \in 0..m : /\ BodyFrom = IF b = 0 THEN 1 ELSE Lines[b][2] + 2
                         /\ (Ends # {} => b = Min(Ends) /\ b # 0)
                         /\ (Ends = {} /\ Metas # {} => b = Max(Metas) /\ b # 0)
                         /\ (Metas = {} => b = 0)
    BY <1>9
<1>11. BodyFrom \in Nat /\ BodyFrom # 0
    <2>1. b # 0 => Lines[b][2] \in 0..n
        <3>1. b # 0 => b \in 1..m
            OBVIOUS
        <3> QED
            BY <1>2, <3>1 DEF LineOf
    <2> QED
        BY <1>10, <2>1
<1>12. ASSUME file.strategy = "email", StartsWithHeader, NEW x \in 1..n, ~BlankAt(x), x < BodyFrom
       PROVE  x \in ToSet(EmailHead)
    <2>1. PICK N : N = Cardinality(HeaderLines) /\ HeaderLines = 1..N /\ (Ends = {} \/ Min(Ends) = N + 1)
        BY <1>12 DEF StartsWithHeader
    <2>2. HeaderLines \subseteq 1..m
        BY <1>1 DEF HeaderLines, Metas
    <2>3. N \in Nat
        <3>1. IsFiniteSet(1..m)
            BY FS_Interval
        <3>2. IsFiniteSet(HeaderLines)
            BY <2>2, <3>1, FS_Subset
        <3> QED
            BY <2>1, <3>2, FS_CardinalityType
    <2>4. PICK k \in 1..m : x \in Lines[k][1]..Lines[k][2]
        BY <1>4, <1>12
    <2>5. x \in ToSet(Content(Lines[k]))
        BY <1>2, <1>12, <2>4, ContentHolds
    <2>6. b # 0
        BY <1>10, <1>12
    <2>7. k <= b
        <3> SUFFICES ASSUME b < k PROVE FALSE
            OBVIOUS
        <3>1. b \in 1..m
            BY <2>6
        <3>2. Lines[b][2] + 2 <= Lines[k][1]
            BY <1>3, <3>1
        <3>3. Lines[b][2] \in 0..n /\ Lines[k][1] \in 1..(n + 1) /\ Lines[k][2] \in 0..n
            BY <1>2, <3>1 DEF LineOf
        <3>4. x < Lines[b][2] + 2
            BY <1>10, <1>12, <2>6
        <3> QED
            BY <2>4, <3>2, <3>3, <3>4
    <2>8. k \in HeaderLines
        <3>1. CASE Ends # {}
            <4>1. b = N + 1 /\ b = Min(Ends)
                BY <1>10, <2>1, <3>1
            <4>2. b \in E
                BY <1>6, <1>7, <3>1, <4>1, LeastOf
            <4>3. Content(Lines[b]) = <<>>
                BY <1>7, <4>2
            <4>4. k # b
                <5>1. PICK e : e = <<>> /\ ToSet(e) = {}
                    BY EmptyList DEF NoElement
                <5> QED
                    BY <2>5, <4>3, <5>1
            <4>5. k \in 1..N
                BY <2>3, <2>7, <4>1, <4>4
            <4> QED
                BY <2>1, <4>5
        <3>2. CASE Ends = {}
            <4>1. Metas # {} /\ b = Max(Metas)
                BY <1>10, <2>6, <3>2
            <4>2. HeaderLines = Metas
                BY <3>2 DEF HeaderLines
            <4>3. b \in Metas
                BY <1>5, <4>1, NatGreatest
            <4>4. b \in 1..N
                BY <2>1, <4>2, <4>3
            <4>5. k \in 1..N
                BY <2>3, <2>7, <4>4
            <4> QED
                BY <2>1, <4>5
        <3> QED
            BY <3>1, <3>2
    <2>9. ToSet(Content(Lines[k])) \subseteq ToSet(EmailHead)
        BY <2>8, HeadHolds
    <2> QED
        BY <2>5, <2>9
<1> QED
    BY <1>11, <1>12

-----------------------------------------------------------------------------
\* What the readers of every format make is a text.

Numbering(s, D) == IsList(s) /\ ToSet(s) \subseteq D

LEMMA NumbersAmong ==
    ASSUME NEW s, NEW D, Numbering(s, D), NEW set
    PROVE  Numbering(Among(s, set), D)
BY AmongElements DEF Numbering

LEMMA NumberOf ==
    ASSUME NEW s, NEW D, Numbering(s, D), NEW j \in DOMAIN s
    PROVE  s[j] \in D
BY DEF Numbering, ToSet

\* A list of texts, one for each number.
LEMMA TextsListed ==
    ASSUME NEW s, IsList(s), NEW f, f = [j \in DOMAIN s |-> f[j]],
           \A j \in DOMAIN s : IsList(f[j])
    PROVE  ListOfLists(f)
<1>1. PICK L \in Nat : L = Len(s) /\ DOMAIN s = 1..L
    BY ListLength
<1>2. IsList(f) /\ Len(f) = L
    BY <1>1, ListedBy
<1> QED
    BY <1>1, <1>2 DEF ListOfLists

LEMMA AddedList == \A s : IsList(s) => IsList(Added(s))
    BY PrintedList DEF Added

LEMMA FlatList == \A ss : ListOfLists(ss) => IsList(FlattenSeq(ss))
    BY FlattenList

LEMMA JoinedIsList == \A s, t : IsList(s) /\ IsList(t) => IsList(s \o t)
    BY JoinedList

LEMMA GluedList ==
    ASSUME NEW texts, ListOfLists(texts), NEW separator, IsList(separator)
    PROVE  IsList(Glued(texts, separator))
<1>1. PICK L \in Nat : L = Len(texts) /\ DOMAIN texts = 1..L
    BY ListLength DEF ListOfLists
<1>2. PICK e : e = <<>> /\ IsList(e)
    BY EmptyList DEF NoElement
<1>3. PICK gap : gap = Added(separator) /\ IsList(gap)
    BY AddedList
<1>4. PICK f : f = [k \in DOMAIN texts |-> (IF k = 1 THEN e ELSE gap) \o texts[k]]
    OBVIOUS
<1>5. ASSUME NEW k \in DOMAIN texts PROVE IsList(f[k])
    <2>1. PICK a : a = (IF k = 1 THEN e ELSE gap) /\ IsList(a)
        BY <1>2, <1>3
    <2>2. IsList(texts[k])
        BY <1>1 DEF ListOfLists
    <2>3. IsList(a \o texts[k])
        BY <2>1, <2>2, JoinedIsList
    <2> QED
        BY <1>4, <2>1, <2>3
<1>6. f = [k \in DOMAIN texts |-> f[k]] /\ IsList(texts)
    BY <1>4 DEF ListOfLists
<1>7. ListOfLists(f)
    BY <1>5, <1>6, TextsListed
<1>8. Glued(texts, separator) = FlattenSeq(f)
    BY <1>2, <1>3, <1>4 DEF Glued
<1> QED
    BY <1>7, <1>8, FlatList

LEMMA StrippedList ==
    ASSUME NEW chars, IsList(chars)
    PROVE  IsList(StripChars(chars))
<1>1. PICK n \in Nat : n = Len(chars) /\ DOMAIN chars = 1..n
    BY ListLength
<1>2. PICK I : I = Ink(chars)
    OBVIOUS
<1>3. I \in SUBSET (0..n) /\ I \in SUBSET Nat /\ I \in SUBSET (1..n)
    BY <1>1, <1>2 DEF Ink
<1>4. CASE I = {}
    BY <1>2, <1>4, EmptyList DEF StripChars, NoElement
<1>5. CASE I # {}
    <2>1. PICK a : a = Min(I)
        OBVIOUS
    <2>2. PICK b : b = Max(I)
        OBVIOUS
    <2>3. a \in I /\ \A y \in I : a <= y
        BY <1>3, <1>5, <2>1, LeastOf
    <2>4. b \in I
        BY <1>3, <1>5, <2>2, NatGreatest
    <2>5. a \in 1..n /\ b \in 1..n /\ a <= b
        BY <1>3, <2>3, <2>4
    <2>6. IsList(SubSeq(chars, a, b))
        BY <1>1, <2>5, PartOfList
    <2>7. StripChars(chars) = SubSeq(chars, a, b)
        BY <1>2, <1>5, <2>1, <2>2 DEF StripChars
    <2> QED
        BY <2>6, <2>7
<1> QED
    BY <1>4, <1>5

TupleList(s) == IsList(s)
LEMMA Tuples ==
    /\ TupleList(<<"/">>) /\ TupleList(<<"/", "/">>) /\ TupleList(<<"#", "/">>) /\ TupleList(<<"h">>)
    /\ TupleList(<<"t">>) /\ TupleList(<<"|">>) /\ TupleList(<<"@", "/">>) /\ TupleList(<<"A~", "(c)">>)
    /\ TupleList(<<"t", "/", "/", "|", "h", "/", "|", "-", "/">>)
    /\ TupleList(<<"/", "/", "-", "-", "/", "/">>) /\ TupleList(<<>>)
<1>1. PICK s : s = <<"t", "/", "/", "|", "h", "/", "|", "-", "/">>
    OBVIOUS
<1>2. s \in Seq({"t", "/", "|", "h", "-"})
    BY <1>1
<1>3. PICK t : t = <<"/", "/", "-", "-", "/", "/">>
    OBVIOUS
<1>4. t \in Seq({"/", "-"})
    BY <1>3
<1>5. TupleList(s) /\ TupleList(t)
    BY <1>2, <1>4, SeqIsList DEF TupleList
<1>6. \A x, y : TupleList(<<x>>) /\ TupleList(<<x, y>>)
    BY Single, PairList DEF TupleList
<1>7. TupleList(<<>>)
    BY EmptyList DEF TupleList, NoElement
<1> QED
    BY <1>1, <1>3, <1>5, <1>6, <1>7

HasText(d) == IsList(d.text)

LEMMA GivesText == \A t : IsList(t) => HasText(Gives(t))
    BY DEF Gives, HasText
LEMMA FailsText == HasText(Fails)
    BY EmptyList DEF Fails, HasText, NoElement

LEMMA FirstOfTwo ==
    ASSUME NEW a, NEW b, HasText(a), HasText(b)
    PROVE  HasText(FirstOf(<<a, b>>))
<1>1. PICK s : s = <<a, b>>
    OBVIOUS
<1>2. DOMAIN s = 1..2 /\ s[1] = a /\ s[2] = b
    BY <1>1
<1>3. PICK good : good = {k \in DOMAIN s : s[k].ok}
    OBVIOUS
<1>4. FirstOf(s) = IF good = {} THEN Fails ELSE s[Min(good)]
    BY <1>3 DEF FirstOf
<1>5. CASE good = {}
    BY <1>1, <1>4, <1>5, FailsText
<1>6. CASE good # {}
    <2>1. good \subseteq 1..2 /\ good \in SUBSET Nat
        BY <1>2, <1>3
    <2>2. PICK m : m = Min(good)
        OBVIOUS
    <2>3. m \in good
        BY <1>6, <2>1, <2>2, LeastOf
    <2>4. m = 1 \/ m = 2
        BY <2>1, <2>3
    <2> QED
        BY <1>1, <1>2, <1>4, <1>6, <2>2, <2>4
<1> QED
    BY <1>5, <1>6

LEMMA ListsLonger ==
    ASSUME NEW ss, NEW ts, ListOfLists(ss), ListOfLists(ts)
    PROVE  ListOfLists(ss \o ts)
<1>1. PICK m \in Nat : m = Len(ss)
    BY ListLength DEF ListOfLists
<1>2. PICK n \in Nat : n = Len(ts)
    BY ListLength DEF ListOfLists
<1>3. PICK r : r = ss \o ts
    OBVIOUS
<1>4. /\ IsList(r) /\ Len(r) = m + n
      /\ (\A k \in 1..m : r[k] = ss[k]) /\ (\A k \in 1..n : r[m + k] = ts[k])
    BY <1>1, <1>2, <1>3, JoinedList DEF ListOfLists
<1>5. ASSUME NEW k \in 1..(m + n) PROVE IsList(r[k])
    <2>1. CASE k \in 1..m
        BY <1>1, <1>4, <2>1 DEF ListOfLists
    <2>2. CASE k \notin 1..m
        <3>1. PICK z \in 1..n : k = m + z
            <4>1. k - m \in 1..n /\ k = m + (k - m)
                BY <2>2
            <4> QED
                BY <4>1
        <3> QED
            BY <1>2, <1>4, <3>1 DEF ListOfLists
    <2> QED
        BY <2>1, <2>2
<1> QED
    BY <1>3, <1>4, <1>5 DEF ListOfLists

\* A document by its parts.
IsParts(d) == IsList(d.parts) /\ \A k \in DOMAIN d.parts : IsList(d.parts[k].chars)
OfParts(d, s) == Numbering(s, DOMAIN d.parts)

LEMMA NumberedParts ==
    ASSUME NEW d, IsParts(d)
    PROVE  OfParts(d, PartNumbers(d))
<1>1. PICK L \in Nat : L = Len(d.parts) /\ DOMAIN d.parts = 1..L
    BY ListLength DEF IsParts
<1>2. PICK s : s = [k \in 1..L |-> k]
    OBVIOUS
<1>3. PartNumbers(d) = s
    BY <1>1, <1>2 DEF PartNumbers
<1>4. s = [k \in 1..L |-> s[k]] /\ \A k \in 1..L : s[k] = k
    BY <1>2
<1>5. IsList(s) /\ DOMAIN s = 1..L
    BY <1>4, ListedBy
<1>6. ToSet(s) \subseteq 1..L
    BY <1>4, <1>5 DEF ToSet
<1> QED
    BY <1>1, <1>3, <1>5, <1>6 DEF OfParts, Numbering

LEMMA PartsAmong ==
    ASSUME NEW d, IsParts(d)
    PROVE  /\ \A kind : OfParts(d, Of(d, kind)) /\ OfParts(d, Inside(d, kind))
           /\ \A s, n : OfParts(d, s) => OfParts(d, OfSlide(d, s, n))
           /\ \A s, set : OfParts(d, s) => OfParts(d, Among(s, set))
           /\ \A short : OfParts(d, LinesAbove(d, short))
<1>1. ASSUME NEW s, NEW set, OfParts(d, s) PROVE OfParts(d, Among(s, set))
    BY <1>1, NumbersAmong DEF OfParts
<1>2. \A kind : OfParts(d, Of(d, kind))
    BY <1>1, NumberedParts DEF Of
<1>3. \A kind : OfParts(d, Inside(d, kind))
    BY <1>1, <1>2 DEF Inside
<1>4. \A s, n : OfParts(d, s) => OfParts(d, OfSlide(d, s, n))
    BY <1>1 DEF OfSlide
<1>5. \A short : OfParts(d, LinesAbove(d, short))
    BY <1>1, <1>3 DEF LinesAbove
<1> QED
    BY <1>1, <1>2, <1>3, <1>4, <1>5

LEMMA ShownLists ==
    ASSUME NEW d, IsParts(d), NEW s, OfParts(d, s)
    PROVE  /\ \A j \in DOMAIN s : IsList(Shown(d, s[j]))
           /\ ListOfLists(ShownAll(d, s))
<1>1. IsList(s)
    BY DEF OfParts, Numbering
<1>2. ASSUME NEW j \in DOMAIN s PROVE IsList(Shown(d, s[j]))
    <2>1. s[j] \in DOMAIN d.parts
        BY NumberOf DEF OfParts
    <2>2. IsList(d.parts[s[j]].chars)
        BY <2>1 DEF IsParts
    <2> QED
        BY <2>2, PrintedList DEF Shown
<1>3. PICK f : f = [j \in DOMAIN s |-> Shown(d, s[j])]
    OBVIOUS
<1>4. f = [j \in DOMAIN s |-> f[j]] /\ \A j \in DOMAIN s : IsList(f[j])
    BY <1>2, <1>3
<1>5. ListOfLists(f)
    BY <1>1, <1>4, TextsListed
<1> QED
    BY <1>2, <1>3, <1>5 DEF ShownAll

\* Word, PowerPoint and OpenDocument.
LEMMA LinesText ==
    ASSUME NEW d, IsParts(d), NEW s, OfParts(d, s)
    PROVE  HasText(LinesOf(d, s))
<1>1. IsList(s)
    BY DEF OfParts, Numbering
<1>2. PICK f : f = [j \in DOMAIN s |-> Printed(StripChars(d.parts[s[j]].chars), s[j])]
    OBVIOUS
<1>3. ASSUME NEW j \in DOMAIN s PROVE IsList(f[j])
    <2>1. s[j] \in DOMAIN d.parts
        BY NumberOf DEF OfParts
    <2>2. PICK c : c = StripChars(d.parts[s[j]].chars) /\ IsList(c)
        BY <2>1, StrippedList DEF IsParts
    <2>3. IsList(Printed(c, s[j]))
        BY <2>2, PrintedList
    <2> QED
        BY <1>2, <2>2, <2>3
<1>4. f = [j \in DOMAIN s |-> f[j]]
    BY <1>2
<1>5. ListOfLists(f)
    BY <1>1, <1>3, <1>4, TextsListed
<1>6. PICK gap : gap = <<"/">> /\ IsList(gap)
    BY Tuples DEF TupleList
<1>7. IsList(Glued(f, gap))
    BY <1>5, <1>6, GluedList
<1> QED
    BY <1>2, <1>6, <1>7, GivesText DEF LinesOf

LEMMA DocText ==
    ASSUME NEW d, IsParts(d)
    PROVE  HasText(Doc(d)) /\ HasText(Ppt(d))
<1>1. HasText(OleDoc(d))
    BY PartsAmong, LinesText, FailsText DEF OleDoc
<1>2. HasText(TikaDoc(d))
    BY PartsAmong, LinesText, FailsText DEF TikaDoc
<1>3. HasText(OlePpt(d))
    BY PartsAmong, LinesText, FailsText DEF OlePpt
<1>4. HasText(TikaPpt(d))
    BY PartsAmong, LinesText, FailsText DEF TikaPpt
<1> QED
    BY <1>1, <1>2, <1>3, <1>4, FirstOfTwo DEF Doc, Ppt

\* Texts put one after the other, each with something before it.
LEMMA EachFlat ==
    ASSUME NEW s, IsList(s), NEW f, f = [j \in DOMAIN s |-> f[j]],
           \A j \in DOMAIN s : IsList(f[j])
    PROVE  IsList(FlattenSeq(f))
BY TextsListed, FlatList

LEMMA DocxText ==
    ASSUME NEW d, IsParts(d)
    PROVE  HasText(DocxOrDoc(d))
<1>1. PICK rows : rows = ShownAll(d, Of(d, "row")) /\ ListOfLists(rows)
    BY PartsAmong, ShownLists
<1>2. PICK f : f = [j \in DOMAIN rows |-> Added(<<"/">>) \o rows[j]]
    OBVIOUS
<1>3. IsList(rows)
    BY <1>1 DEF ListOfLists
<1>4. ASSUME NEW j \in DOMAIN rows PROVE IsList(f[j])
    <2>1. j \in 1..Len(rows)
        BY <1>3, ListLength
    <2>2. IsList(rows[j])
        BY <1>1, <2>1 DEF ListOfLists
    <2>3. PICK a : a = Added(<<"/">>) /\ IsList(a)
        BY Tuples, AddedList DEF TupleList
    <2>4. IsList(a \o rows[j])
        BY <2>2, <2>3, JoinedIsList
    <2> QED
        BY <1>2, <2>3, <2>4
<1>5. f = [j \in DOMAIN rows |-> f[j]]
    BY <1>2
<1>6. IsList(FlattenSeq(f))
    BY <1>3, <1>4, <1>5, EachFlat
<1>7. PICK paras : paras = ShownAll(d, Inside(d, "para")) /\ ListOfLists(paras)
    BY PartsAmong, ShownLists
<1>8. PICK gap : gap = <<"/", "/">> /\ IsList(gap)
    BY Tuples DEF TupleList
<1>9. IsList(Glued(paras, gap))
    BY <1>7, <1>8, GluedList
<1>10. IsList(Glued(paras, gap) \o FlattenSeq(f))
    BY <1>6, <1>9, JoinedIsList
<1>11. Docx(d) = IF ~d.native THEN Fails ELSE Gives(Glued(paras, gap) \o FlattenSeq(f))
    BY <1>1, <1>2, <1>7, <1>8 DEF Docx
<1>12. HasText(Docx(d))
    BY <1>10, <1>11, GivesText, FailsText
<1> QED
    BY <1>12, DocText, FirstOfTwo DEF DocxOrDoc

WithSlides(d) == d.slides \in Nat
LEMMA NumberedSlides ==
    ASSUME NEW d, WithSlides(d)
    PROVE  /\ IsList(Ordinals(d)) /\ DOMAIN Ordinals(d) = 1..d.slides
           /\ Numbering(Ordinals(d), 1..d.slides)
<1>1. PICK L \in Nat : L = d.slides
    BY DEF WithSlides
<1>2. PICK s : s = [k \in 1..L |-> k]
    OBVIOUS
<1>3. Ordinals(d) = s
    BY <1>1, <1>2 DEF Ordinals
<1>4. s = [k \in 1..L |-> s[k]] /\ \A k \in 1..L : s[k] = k
    BY <1>2
<1>5. IsList(s) /\ DOMAIN s = 1..L
    BY <1>4, ListedBy
<1>6. ToSet(s) \subseteq 1..L
    BY <1>4, <1>5 DEF ToSet
<1> QED
    BY <1>1, <1>3, <1>5, <1>6 DEF Numbering

LEMMA PptxText ==
    ASSUME NEW d, IsParts(d), WithSlides(d)
    PROVE  HasText(PptxOrPpt(d))
<1>1. ASSUME NEW n PROVE IsList(SlideText(d, n))
    <2>1. PICK s : s = Shapes(d, n) /\ OfParts(d, s)
        BY PartsAmong DEF Shapes
    <2>2. PICK f : f = [j \in DOMAIN s |-> Shown(d, s[j]) \o Added(<<"/">>)]
        OBVIOUS
    <2>3. PICK a : a = Added(<<"/">>) /\ IsList(a)
        BY Tuples, AddedList DEF TupleList
    <2>4. ASSUME NEW j \in DOMAIN s PROVE IsList(f[j])
        <3>1. IsList(Shown(d, s[j]))
            BY <2>1, ShownLists
        <3>2. IsList(Shown(d, s[j]) \o a)
            BY <2>3, <3>1, JoinedIsList
        <3> QED
            BY <2>2, <2>3, <3>2
    <2>5. f = [j \in DOMAIN s |-> f[j]] /\ IsList(s)
        BY <2>1, <2>2 DEF OfParts, Numbering
    <2>6. IsList(FlattenSeq(f))
        BY <2>4, <2>5, EachFlat
    <2>7. PICK b : b = Added(<<"#", "/">>) /\ IsList(b)
        BY Tuples, AddedList DEF TupleList
    <2>8. IsList(b \o FlattenSeq(f))
        BY <2>6, <2>7, JoinedIsList
    <2> QED
        BY <2>1, <2>2, <2>7, <2>8 DEF SlideText
<1>2. PICK o : o = Ordinals(d) /\ IsList(o)
    BY NumberedSlides
<1>3. PICK f : f = [n \in DOMAIN o |-> SlideText(d, n)]
    OBVIOUS
<1>4. f = [n \in DOMAIN o |-> f[n]] /\ \A n \in DOMAIN o : IsList(f[n])
    BY <1>1, <1>3
<1>5. ListOfLists(f)
    BY <1>2, <1>4, TextsListed
<1>6. PICK gap : gap = <<"/", "/">> /\ IsList(gap)
    BY Tuples DEF TupleList
<1>7. IsList(Glued(f, gap))
    BY <1>5, <1>6, GluedList
<1>8. Pptx(d) = IF ~d.native THEN Fails ELSE Gives(Glued(f, gap))
    BY <1>2, <1>3, <1>6 DEF Pptx
<1>9. HasText(Pptx(d))
    BY <1>7, <1>8, GivesText, FailsText
<1> QED
    BY <1>9, DocText, FirstOfTwo DEF PptxOrPpt

LEMMA OdtText ==
    ASSUME NEW d, IsParts(d)
    PROVE  HasText(Odt(d)) /\ HasText(Odp(d))
<1>1. PICK paras : paras = ShownAll(d, Inside(d, "para")) /\ ListOfLists(paras)
    BY PartsAmong, ShownLists
<1>2. PICK gap : gap = <<"/", "/">> /\ IsList(gap)
    BY Tuples DEF TupleList
<1>3. HasText(Odt(d))
    <2>1. PICK headings : headings = Inside(d, "heading") /\ OfParts(d, headings)
        BY PartsAmong
    <2>2. PICK a : a = Added(<<"h">>) /\ IsList(a)
        BY Tuples, AddedList DEF TupleList
    <2>3. PICK f : f = [j \in DOMAIN headings |-> a \o Shown(d, headings[j])]
        OBVIOUS
    <2>4. ASSUME NEW j \in DOMAIN headings PROVE IsList(f[j])
        <3>1. IsList(Shown(d, headings[j]))
            BY <2>1, ShownLists
        <3>2. IsList(a \o Shown(d, headings[j]))
            BY <2>2, <3>1, JoinedIsList
        <3> QED
            BY <2>3, <3>2
    <2>5. f = [j \in DOMAIN headings |-> f[j]] /\ IsList(headings)
        BY <2>1, <2>3 DEF OfParts, Numbering
    <2>6. ListOfLists(f)
        BY <2>4, <2>5, TextsListed
    <2>7. ListOfLists(paras \o f)
        BY <1>1, <2>6, ListsLonger
    <2>8. IsList(Glued(paras \o f, gap))
        BY <1>2, <2>7, GluedList
    <2>9. Odt(d) = Gives(Glued(paras \o f, gap))
        BY <1>1, <1>2, <2>1, <2>2, <2>3 DEF Odt
    <2> QED
        BY <2>8, <2>9, GivesText
<1>4. HasText(Odp(d))
    <2>1. PICK frames : frames = Inside(d, "frame") /\ OfParts(d, frames)
        BY PartsAmong
    <2>2. PICK a : a = Added(<<"#", "/">>) /\ IsList(a)
        BY Tuples, AddedList DEF TupleList
    <2>3. PICK f : f = [j \in DOMAIN frames |-> a \o Shown(d, frames[j])]
        OBVIOUS
    <2>4. ASSUME NEW j \in DOMAIN frames PROVE IsList(f[j])
        <3>1. IsList(Shown(d, frames[j]))
            BY <2>1, ShownLists
        <3>2. IsList(a \o Shown(d, frames[j]))
            BY <2>2, <3>1, JoinedIsList
        <3> QED
            BY <2>3, <3>2
    <2>5. f = [j \in DOMAIN frames |-> f[j]] /\ IsList(frames)
        BY <2>1, <2>3 DEF OfParts, Numbering
    <2>6. ListOfLists(f)
        BY <2>4, <2>5, TextsListed
    <2>7. IsList(Glued(f, gap)) /\ IsList(Glued(paras, gap))
        BY <1>1, <1>2, <2>6, GluedList
    <2>8. Odp(d) = IF frames # <<>> THEN Gives(Glued(f, gap)) ELSE Gives(Glued(paras, gap))
        BY <1>1, <1>2, <2>1, <2>2, <2>3 DEF Odp
    <2> QED
        BY <2>7, <2>8, GivesText
<1> QED
    BY <1>3, <1>4

LEMMA OdsText ==
    ASSUME NEW d, IsParts(d), WithSlides(d)
    PROVE  HasText(Ods(d))
<1>1. ASSUME NEW n PROVE ListOfLists(OdsTable(d, n))
    <2>1. PICK s : s = Among(OfSlide(d, Of(d, "row"), n), {k \in DOMAIN d.parts : d.parts[k].chars # <<>>})
                   /\ OfParts(d, s)
        BY PartsAmong
    <2>2. PICK f : f = ShownAll(d, s) /\ ListOfLists(f)
        BY <2>1, ShownLists
    <2>3. PICK a : a = Added(<<"t">>) /\ IsList(a)
        BY Tuples, AddedList DEF TupleList
    <2>4. PICK one : one = <<a>> /\ ListOfLists(one)
        <3>1. PICK one : one = <<a>>
            OBVIOUS
        <3>2. IsList(one) /\ Len(one) = 1 /\ one[1] = a
            BY <3>1, Single
        <3>3. ListOfLists(one)
            BY <2>3, <3>2 DEF ListOfLists
        <3> QED
            BY <3>1, <3>3
    <2>5. ListOfLists(one \o f)
        BY <2>2, <2>4, ListsLonger
    <2> QED
        BY <2>1, <2>2, <2>3, <2>4, <2>5 DEF OdsTable
<1>2. PICK o : o = Ordinals(d) /\ IsList(o) /\ DOMAIN o = 1..d.slides
    BY NumberedSlides
<1>3. PICK f : f = [n \in 1..d.slides |-> OdsTable(d, n)]
    OBVIOUS
<1>4. f = [n \in 1..d.slides |-> f[n]] /\ \A n \in 1..d.slides : ListOfLists(f[n])
    BY <1>1, <1>3
<1>5. PICK L \in Nat : L = d.slides
    BY DEF WithSlides
<1>6. IsList(f) /\ Len(f) = L
    BY <1>4, <1>5, ListedBy
<1>7. ListOfLists(f) /\ \A n \in 1..L : ListOfLists(f[n])
    BY <1>4, <1>5, <1>6 DEF ListOfLists
<1>8. ListOfLists(FlattenSeq(f))
    <2>1. PICK g : g = FlattenSeq(f)
        OBVIOUS
    <2>2. IsList(g) /\ ToSet(g) = Everything(f)
        BY <1>7, <2>1, FlattenList
    <2>3. ASSUME NEW t \in ToSet(g) PROVE IsList(t)
        <3>1. PICK n \in 1..L : t \in ToSet(f[n])
            BY <1>6, <2>2, <2>3 DEF Everything
        <3>2. ListOfLists(f[n])
            BY <1>7
        <3>3. PICK k \in 1..Len(f[n]) : t = f[n][k]
            BY <3>1, <3>2, ListLength DEF ListOfLists, ToSet
        <3> QED
            BY <3>2, <3>3 DEF ListOfLists
    <2>4. ASSUME NEW k \in 1..Len(g) PROVE IsList(g[k])
        <3>1. g[k] \in ToSet(g)
            BY <2>2, ListLength DEF ToSet
        <3> QED
            BY <2>3, <3>1
    <2> QED
        BY <2>1, <2>2, <2>4 DEF ListOfLists
<1>9. PICK gap : gap = <<"/">> /\ IsList(gap)
    BY Tuples DEF TupleList
<1>10. IsList(Glued(FlattenSeq(f), gap))
    BY <1>8, <1>9, GluedList
<1> QED
    BY <1>3, <1>9, <1>10, GivesText DEF Ods

\* Workbooks.
LEMMA SheetList ==
    ASSUME NEW d, IsParts(d), NEW rows, OfParts(d, rows)
    PROVE  IsList(SheetText(d, rows))
<1>1. IsList(rows)
    BY DEF OfParts, Numbering
<1>2. PICK n \in Nat : n = Len(rows) /\ DOMAIN rows = 1..n
    BY <1>1, ListLength
<1>3. PICK most \in Nat : most = MaxRows
    BY ReadersAssumption
<1>4. PICK l : l = Min({n, most})
    OBVIOUS
<1>5. l \in Nat /\ l <= n
    <2>1. {n, most} \in SUBSET Nat /\ {n, most} # {}
        OBVIOUS
    <2>2. Min({n, most}) \in {n, most} /\ \A y \in {n, most} : Min({n, most}) <= y
        BY <2>1, LeastOf
    <2> QED
        BY <1>4, <2>2
<1>6. PICK head : head = Added(<<"t", "/", "/", "|", "h", "/", "|", "-", "/">>) /\ IsList(head)
    BY Tuples, AddedList DEF TupleList
<1>7. PICK a : a = Added(<<"|">>) /\ IsList(a)
    BY Tuples, AddedList DEF TupleList
<1>8. PICK z : z = Added(<<"/">>) /\ IsList(z)
    BY Tuples, AddedList DEF TupleList
<1>9. PICK f : f = [j \in 1..l |-> a \o Shown(d, rows[j]) \o z]
    OBVIOUS
<1>10. ASSUME NEW j \in 1..l PROVE IsList(f[j])
    <2>1. j \in DOMAIN rows
        BY <1>2, <1>5
    <2>2. IsList(Shown(d, rows[j]))
        BY <2>1, ShownLists
    <2>3. IsList(a \o Shown(d, rows[j]))
        BY <1>7, <2>2, JoinedIsList
    <2>4. IsList((a \o Shown(d, rows[j])) \o z)
        BY <1>8, <2>3, JoinedIsList
    <2> QED
        BY <1>9, <2>4
<1>11. f = [j \in 1..l |-> f[j]]
    BY <1>9
<1>12. IsList(f) /\ Len(f) = l
    BY <1>5, <1>11, ListedBy
<1>13. ListOfLists(f)
    BY <1>10, <1>12 DEF ListOfLists
<1>14. IsList(head \o FlattenSeq(f))
    BY <1>6, <1>13, FlatList, JoinedIsList
<1>15. PICK rest : rest = IF n <= most THEN <<>>
                          ELSE Added(<<"/">> \o [j \in 1..(n - most) |-> "+"])
    OBVIOUS
<1>16. IsList(rest)
    <2>1. CASE n <= most
        BY <1>15, <2>1, Tuples DEF TupleList
    <2>2. CASE ~(n <= most)
        <3>1. PICK m \in Nat : m = n - most
            BY <2>2
        <3>2. PICK plus : plus = [j \in 1..m |-> "+"]
            OBVIOUS
        <3>3. plus = [j \in 1..m |-> plus[j]]
            BY <3>2
        <3>4. IsList(plus)
            BY <3>3, ListedBy
        <3>5. IsList(<<"/">> \o plus)
            BY <3>4, Tuples, JoinedIsList DEF TupleList
        <3> QED
            BY <1>15, <2>2, <3>1, <3>2, <3>5, AddedList
    <2> QED
        BY <2>1, <2>2
<1>17. SheetText(d, rows) = (head \o FlattenSeq(f)) \o rest
    BY <1>2, <1>3, <1>4, <1>6, <1>7, <1>8, <1>9, <1>15 DEF SheetText
<1> QED
    BY <1>14, <1>16, <1>17, JoinedIsList

LEMMA XlsxText ==
    ASSUME NEW d, IsParts(d), WithSlides(d)
    PROVE  HasText(Xlsx(d))
<1>1. PICK gap : gap = <<"/", "/", "-", "-", "/", "/">> /\ IsList(gap)
    BY Tuples DEF TupleList
<1>2. \A n : OfParts(d, RowsOf(d, n)) /\ OfParts(d, Filled(d, RowsOf(d, n)))
    BY PartsAmong DEF RowsOf, Filled
<1>3. \A set : IsList(Among(Ordinals(d), set))
    BY NumberedSlides, AmongElements
<1>4. HasText(Advanced(d))
    <2>1. PICK told : told = SheetsTold(d) /\ IsList(told)
        BY <1>3 DEF SheetsTold
    <2>2. PICK f : f = [j \in DOMAIN told |-> SheetText(d, Filled(d, RowsOf(d, told[j])))]
        OBVIOUS
    <2>3. f = [j \in DOMAIN told |-> f[j]] /\ \A j \in DOMAIN told : IsList(f[j])
        BY <1>2, <2>2, SheetList
    <2>4. ListOfLists(f)
        BY <2>1, <2>3, TextsListed
    <2>5. IsList(Glued(f, gap))
        BY <1>1, <2>4, GluedList
    <2> QED
        BY <1>1, <2>1, <2>2, <2>5, GivesText DEF Advanced
<1>5. HasText(Basic(d))
    <2>1. PICK told : told = Among(Ordinals(d), {n \in 1..d.slides : RowsOf(d, n) # <<>>}) /\ IsList(told)
        BY <1>3
    <2>2. PICK f : f = [j \in DOMAIN told |-> SheetText(d, RowsOf(d, told[j]))]
        OBVIOUS
    <2>3. f = [j \in DOMAIN told |-> f[j]] /\ \A j \in DOMAIN told : IsList(f[j])
        BY <1>2, <2>2, SheetList
    <2>4. ListOfLists(f)
        BY <2>1, <2>3, TextsListed
    <2>5. IsList(Glued(f, gap))
        BY <1>1, <2>4, GluedList
    <2> QED
        BY <1>1, <2>1, <2>2, <2>5, GivesText DEF Basic
<1> QED
    BY <1>4, <1>5, FailsText DEF Xlsx

\* Mails.
LEMMA HeaderList == \A n \in Nat : IsList(Header(n))
<1> SUFFICES ASSUME NEW n \in Nat PROVE IsList(Header(n))
    OBVIOUS
<1>1. PICK a : a = <<"@", "/">> /\ IsList(a)
    BY Tuples DEF TupleList
<1>2. PICK f : f = [k \in 1..n |-> a]
    OBVIOUS
<1>3. f = [k \in 1..n |-> f[k]] /\ \A k \in 1..n : IsList(f[k])
    BY <1>1, <1>2
<1>4. IsList(f) /\ Len(f) = n
    BY <1>3, ListedBy
<1>5. ListOfLists(f)
    BY <1>3, <1>4 DEF ListOfLists
<1> QED
    BY <1>1, <1>2, <1>5, FlatList DEF Header

LEMMA MailText ==
    ASSUME NEW d, IsParts(d)
    PROVE  HasText(Msg(d)) /\ HasText(Eml(d))
<1>1. PICK e : e = <<>> /\ IsList(e)
    BY EmptyList DEF NoElement
<1>2. PICK z : z = <<"/">> /\ IsList(z)
    BY Tuples DEF TupleList
<1>3. ASSUME NEW n \in Nat PROVE IsList(Added(Header(n) \o z))
    BY <1>2, HeaderList, JoinedIsList, AddedList
<1>4. PICK plain : plain = Glued(ShownAll(d, Of(d, "plain")), e) /\ IsList(plain)
    BY <1>1, PartsAmong, ShownLists, GluedList
<1>5. PICK whole : whole = Glued(ShownAll(d, PartNumbers(d)), e) /\ IsList(whole)
    BY <1>1, NumberedParts, ShownLists, GluedList
<1>6. HasText(Msg(d))
    <2>1. PICK h : h = Added(Header(4) \o z) /\ IsList(h)
        BY <1>3
    <2>2. IsList(h \o plain)
        BY <1>4, <2>1, JoinedIsList
    <2>3. Msg(d) = IF ~d.native THEN Fails ELSE Gives(h \o plain)
        BY <1>1, <1>2, <1>4, <2>1 DEF Msg
    <2> QED
        BY <2>2, <2>3, GivesText, FailsText
<1>7. HasText(Eml(d))
    <2>1. PICK h : h = Added(Header(3) \o z) /\ IsList(h)
        BY <1>3
    <2>2. PICK best : best = Glued(ShownAll(d, Preferred(d)), z) /\ IsList(best)
        <3>1. OfParts(d, Preferred(d))
            BY PartsAmong DEF Preferred
        <3> QED
            BY <1>2, <3>1, ShownLists, GluedList
    <2>3. IsList(h \o plain) /\ IsList(h \o whole)
        BY <1>4, <1>5, <2>1, JoinedIsList
    <2>4. Eml(d) = IF "unstructured" \in d.libs THEN Gives(best)
                   ELSE Gives(h \o IF Len(d.parts) > 1 THEN plain ELSE whole)
        BY <1>1, <1>2, <1>4, <1>5, <2>1, <2>2 DEF Eml
    <2>5. PICK r : r = h \o IF Len(d.parts) > 1 THEN plain ELSE whole
        OBVIOUS
    <2>6. IsList(r)
        BY <2>3, <2>5
    <2> QED
        BY <2>2, <2>4, <2>5, <2>6, GivesText
<1> QED
    BY <1>6, <1>7

\* Files of characters.
LEMMA MisreadList ==
    ASSUME NEW chars, IsList(chars)
    PROVE  IsList(Decode(chars, "utf-8", "latin-1").text) /\ IsList(Ignoring(chars))
<1>1. PICK n \in Nat : n = Len(chars) /\ DOMAIN chars = 1..n
    BY ListLength
<1>2. PICK two : two = <<"A~", "(c)">> /\ IsList(two)
    BY Tuples DEF TupleList
<1>3. PICK f : f = [j \in DOMAIN chars |-> IF chars[j] = "e'" THEN two ELSE <<chars[j]>>]
    OBVIOUS
<1>4. \A j \in DOMAIN chars : IsList(f[j])
    BY <1>2, <1>3, Single
<1>5. f = [j \in DOMAIN chars |-> f[j]]
    BY <1>3
<1>6. IsList(FlattenSeq(f))
    BY <1>4, <1>5, EachFlat
<1>7. IsList(Decode(chars, "utf-8", "latin-1").text)
    <2>1. Decode(chars, "utf-8", "latin-1") = IF ~Accented(chars) THEN Gives(chars) ELSE Gives(FlattenSeq(f))
        BY <1>2, <1>3 DEF Decode
    <2> QED
        BY <1>6, <2>1 DEF Gives
<1>8. IsList(Ignoring(chars))
    <2>1. PICK kept : kept = [j \in DOMAIN chars |-> chars[j] # "e'"]
        OBVIOUS
    <2>2. PICK t : t = Selected(chars, kept)
        OBVIOUS
    <2>3. t \in Seq(ToSet(chars))
        BY <2>2, SelectedElements DEF IsList
    <2> QED
        BY <2>1, <2>2, <2>3, SeqIsList DEF Ignoring
<1> QED
    BY <1>7, <1>8

LEMMA DecodedLists ==
    ASSUME NEW d, IsParts(d), NEW k \in DOMAIN d.parts
    PROVE  IsList(Decoded(d, k)) /\ IsList(Tolerant(d, k))
<1>1. PICK c : c = d.parts[k].chars /\ IsList(c)
    BY DEF IsParts
<1>2. IsList(Decode(c, "utf-8", "latin-1").text) /\ IsList(Ignoring(c))
    BY <1>1, MisreadList
<1>3. PICK a : a = (IF DecodedWhole(d) = AllChars(d) THEN c ELSE Decode(c, "utf-8", "latin-1").text)
               /\ IsList(a)
    BY <1>1, <1>2
<1>4. PICK b : b = (IF d.written = "utf-8" THEN c ELSE Ignoring(c)) /\ IsList(b)
    BY <1>1, <1>2
<1>5. IsList(Printed(a, k)) /\ IsList(Printed(b, k))
    BY <1>3, <1>4, PrintedList
<1>6. Decoded(d, k) = Printed(a, k)
    BY <1>1, <1>3 DEF Decoded
<1>7. Tolerant(d, k) = Printed(b, k)
    BY <1>1, <1>4 DEF Tolerant
<1> QED
    BY <1>5, <1>6, <1>7

LEMMA CharsText ==
    ASSUME NEW d, IsParts(d)
    PROVE  HasText(Txt(d)) /\ HasText(Md(d)) /\ HasText(Html(d)) /\ HasText(Rtf(d))
<1>1. ASSUME NEW s, OfParts(d, s) PROVE IsList(Whole(d, s))
    <2>1. PICK f : f = [j \in DOMAIN s |-> Decoded(d, s[j])]
        OBVIOUS
    <2>2. ASSUME NEW j \in DOMAIN s PROVE IsList(f[j])
        <3>1. s[j] \in DOMAIN d.parts
            BY <1>1, NumberOf DEF OfParts
        <3> QED
            BY <2>1, <3>1, DecodedLists
    <2>3. f = [j \in DOMAIN s |-> f[j]] /\ IsList(s)
        BY <1>1, <2>1 DEF OfParts, Numbering
    <2>4. IsList(FlattenSeq(f))
        BY <2>2, <2>3, EachFlat
    <2> QED
        BY <2>1, <2>4 DEF Whole
<1>2. HasText(Txt(d))
    BY <1>1, NumberedParts, GivesText DEF Txt
<1>3. HasText(Md(d))
    BY <1>1, NumberedParts, PartsAmong, GivesText DEF Md
<1>4. HasText(Html(d))
    <2>1. PICK s : s = Among(Inside(d, "text"), {k \in DOMAIN d.parts : Tolerant(d, k) # <<>>})
                   /\ OfParts(d, s)
        BY PartsAmong
    <2>2. PICK f : f = [j \in DOMAIN s |-> Tolerant(d, s[j])]
        OBVIOUS
    <2>3. ASSUME NEW j \in DOMAIN s PROVE IsList(f[j])
        <3>1. s[j] \in DOMAIN d.parts
            BY <2>1, NumberOf DEF OfParts
        <3> QED
            BY <2>2, <3>1, DecodedLists
    <2>4. f = [j \in DOMAIN s |-> f[j]] /\ IsList(s)
        BY <2>1, <2>2 DEF OfParts, Numbering
    <2>5. ListOfLists(f)
        BY <2>3, <2>4, TextsListed
    <2>6. PICK gap : gap = <<"/">> /\ IsList(gap)
        BY Tuples DEF TupleList
    <2>7. IsList(Glued(f, gap))
        BY <2>5, <2>6, GluedList
    <2> QED
        BY <2>1, <2>2, <2>6, <2>7, GivesText DEF Html
<1>5. HasText(Rtf(d))
    <2>1. PICK f : f = [k \in DOMAIN d.parts |-> Tolerant(d, k)]
        OBVIOUS
    <2>2. f = [k \in DOMAIN d.parts |-> f[k]] /\ \A k \in DOMAIN d.parts : IsList(f[k])
        BY <2>1, DecodedLists
    <2>3. IsList(FlattenSeq(f))
        BY <2>2, EachFlat DEF IsParts
    <2> QED
        BY <2>1, <2>3, GivesText DEF Rtf
<1> QED
    BY <1>2, <1>3, <1>4, <1>5

\* DocumentParser.parse
LEMMA DocumentText ==
    ASSUME NEW d \in Files
    PROVE  d.kind = "pdf" \/ HasText(ReadParts(d))
<1> SUFFICES ASSUME d.kind # "pdf" PROVE HasText(ReadParts(d))
    OBVIOUS
<1>1. IsParts(d) /\ (d.kind \in {"pptx", "xlsx", "ods"} => WithSlides(d))
    BY ChunkingAssumption DEF IsParts, WithSlides
<1>2. HasText(Doc(d)) /\ HasText(Ppt(d)) /\ HasText(DocxOrDoc(d))
    BY <1>1, DocText, DocxText
<1>3. d.kind = "pptx" => HasText(PptxOrPpt(d))
    BY <1>1, PptxText
<1>4. d.kind = "xlsx" => HasText(Xlsx(d))
    BY <1>1, XlsxText
<1>5. HasText(Msg(d)) /\ HasText(Eml(d))
    BY <1>1, MailText
<1>6. HasText(Txt(d)) /\ HasText(Md(d)) /\ HasText(Html(d)) /\ HasText(Rtf(d))
    BY <1>1, CharsText
<1>7. d.kind \in {"odt", "ods", "odp"} => HasText(Odf(d))
    <2>1. HasText(Odt(d)) /\ HasText(Odp(d)) /\ (d.kind = "ods" => HasText(Ods(d)))
        BY <1>1, OdtText, OdsText
    <2> QED
        BY <2>1, FailsText DEF Odf
<1> QED
    BY <1>2, <1>3, <1>4, <1>5, <1>6, <1>7, FailsText DEF ReadParts

-----------------------------------------------------------------------------
\* While the text stays, so do the lines of a mail.
LEMMA SameText ==
    ASSUME text' = text
    PROVE  /\ \A x : BlankAt(x)' <=> BlankAt(x)
           /\ Metas' = Metas /\ Ends' = Ends /\ BodyFrom' = BodyFrom /\ HeaderLines' = HeaderLines
<1>1. \A x : BlankAt(x)' <=> BlankAt(x)
    BY DEF BlankAt
<1>2. \A s : Inked(s)' = Inked(s)
    BY <1>1 DEF Inked
<1>3. \A s : Strip(s)' = Strip(s)
    BY <1>2 DEF Strip
<1>4. Lines' = Lines
    BY DEF Lines
<1>5. \A l : Content(l)' = Content(l)
    BY <1>3 DEF Content
<1>6. \A l : IsMeta(l)' <=> IsMeta(l)
    BY <1>5 DEF IsMeta
<1>7. Metas' = Metas
    BY <1>4, <1>6 DEF Metas
<1>8. Ends' = Ends
    BY <1>4, <1>5, <1>7 DEF Ends
<1>9. HeaderLines' = HeaderLines
    BY <1>7, <1>8 DEF HeaderLines
<1>10. BodyFrom' = BodyFrom
    BY <1>4, <1>7, <1>8 DEF BodyFrom
<1> QED
    BY <1>1, <1>7, <1>8, <1>9, <1>10

LEMMA SameTables ==
    ASSUME text' = text
    PROVE  Tables' = Tables /\ \A c : Headed(c)' <=> Headed(c)
<1>1. \A x : BlankAt(x)' <=> BlankAt(x)
    BY DEF BlankAt
<1>2. \A s : Inked(s)' = Inked(s)
    BY <1>1 DEF Inked
<1>3. \A s : Strip(s)' = Strip(s)
    BY <1>2 DEF Strip
<1>4. Lines' = Lines
    BY DEF Lines
<1>5. \A l : Content(l)' = Content(l)
    BY <1>3 DEF Content
<1>6. \A l : IsRow(l)' <=> IsRow(l)
    BY <1>5 DEF IsRow
<1>7. \A l : IsRule(l)' <=> IsRule(l)
    BY <1>5, <1>6 DEF IsRule
<1>8. Tables' = Tables
    BY <1>4, <1>6, <1>7 DEF Tables
<1> QED
    BY <1>8 DEF Headed

LEMMA SameMail ==
    ASSUME text' = text, file' = file
    PROVE  StartsWithHeader' <=> StartsWithHeader
    BY SameText DEF StartsWithHeader

\* Every unit is within the text; what is being filled is at most a fragment long, the
\* joint at its end apart; every character is in a unit to come, in what is being
\* filled, in a fragment, or above the body of a mail.
Most == file.size + file.overlap
UnitRoom == IF file.strategy = "email" THEN Len(text) ELSE file.size
Core(s, m) == \A k \in 1..Len(s) : k > m => s[k] = 0
Ahead(us, j, x) == \E k \in (j + 1)..Len(us) : x \in us[k].real[1]..us[k].real[2]
Accounted(us, j, s, cs, x) ==
    \/ Ahead(us, j, x) \/ x \in ToSet(s) \/ HeldBy(cs, x)
    \/ file.strategy = "email" /\ x < BodyFrom
Filling(us, j, s, cs) ==
    /\ file.strategy \in {"sentence", "paragraph", "email"}
    /\ \A k \in 1..Len(us) : Lodged(us[k].real, 1, Len(text), UnitRoom)
    /\ \E m \in 0..Len(s) : Core(s, m) /\ (Cuts => m <= Most)
    /\ j > 0 => s # <<>>
    /\ Len(us) = 0 => \A x \in 1..Len(text) : BlankAt(x)
    /\ \A x \in 1..Len(text) : ~BlankAt(x) => Accounted(us, j, s, cs, x)
AllHeld(cs) ==
    \A x \in 1..Len(text) : ~BlankAt(x) /\ text[x].c # "#" /\ StartsWithHeader => HeldBy(cs, x)
HoldsInv ==
    /\ file \in Files
    /\ IsList(text) /\ IsList(units) /\ IsList(chunks) /\ IsList(current) /\ i \in 0..Len(units)
    /\ stage \in {"file", "text"} => units = <<>> /\ i = 0 /\ current = <<>> /\ chunks = <<>>
    /\ \A k \in 1..Len(chunks) : IsFragment(chunks[k], Most)
    /\ stage = "units" => Filling(units, i, current, chunks)
    /\ stage = "done" => AllHeld(chunks)

LEMMA FileSizes == file \in Files => Sizes(file)
    BY ChunkingAssumption DEF Sizes

\* A fragment that is closed holds what was being filled, and the header of its mail.
LEMMA ClosedHolds ==
    ASSUME NEW n \in Nat, n = Len(text), DOMAIN text = 1..n, IsList(current), NEW most \in Nat,
           NEW m \in 0..Len(current), Core(current, m), Cuts => m <= most
    PROVE  /\ IsFragment(Closed, most)
           /\ \A x \in ToSet(current) : ~BlankAt(x) => x \in ToSet(Closed.text)
           /\ file.strategy = "email" => ToSet(EmailHead) \subseteq ToSet(Closed.text)
<1>1. PICK L \in Nat : L = Len(current) /\ DOMAIN current = 1..L
    BY ListLength
<1>2. m \in Nat /\ m <= L
    BY <1>1
<1>3. PICK r : r = Strip(current)
    OBVIOUS
<1>4. BlankAt(0)
    BY DEF BlankAt
<1>5. \A k \in 1..Len(current) : k > m => BlankAt(current[k])
    BY <1>4 DEF Core
<1>6. Bared(r, current, m)
    BY <1>1, <1>2, <1>3, <1>5, StripBares
<1>7. CASE file.strategy = "email"
    <2>1. ~Cuts
        BY <1>7 DEF Cuts
    <2>2. IsList(EmailHead)
        BY HeadHolds
    <2>3. PICK z : z = <<0, 0>> /\ IsList(z)
        BY PairList
    <2>4. PICK a : a = EmailHead \o z
        OBVIOUS
    <2>5. IsList(a) /\ ToSet(a) = ToSet(EmailHead) \cup ToSet(z)
        BY <2>2, <2>3, <2>4, JoinedList
    <2>6. IsList(a \o r) /\ ToSet(a \o r) = ToSet(a) \cup ToSet(r)
        BY <1>6, <2>5, JoinedList DEF Bared
    <2>7. PICK full : full = IF EmailHead = <<>> THEN r ELSE a \o r
        OBVIOUS
    <2>8. EmailHead = <<>> => ToSet(EmailHead) = {}
        BY EmptyList DEF NoElement
    <2>9. IsList(full) /\ ToSet(EmailHead) \subseteq ToSet(full) /\ ToSet(r) \subseteq ToSet(full)
        BY <1>6, <2>5, <2>6, <2>7, <2>8 DEF Bared
    <2>10. Closed = Chunk(full, 1, Len(full) + 1)
        BY <1>3, <1>7, <2>3, <2>4, <2>7 DEF Closed, ClosedMail
    <2>11. Closed.text = full /\ "text" \in DOMAIN Closed /\ Headed(Closed)
        BY <2>10, ChunkText
    <2> QED
        BY <1>6, <2>1, <2>9, <2>11 DEF IsFragment, Bared
<1>8. CASE file.strategy # "email"
    <2>1. Closed = Chunk(r, start, fin)
        BY <1>3, <1>8 DEF Closed
    <2>2. Closed.text = r /\ "text" \in DOMAIN Closed /\ Headed(Closed)
        BY <2>1, ChunkText
    <2>3. Cuts => Len(r) <= most
        <3>1. Len(r) \in Nat /\ Len(r) <= m
            BY <1>6, ListLength DEF Bared
        <3> QED
            BY <1>2, <3>1
    <2> QED
        BY <1>6, <1>8, <2>2, <2>3 DEF IsFragment, Bared
<1> QED
    BY <1>7, <1>8

\* What becomes of the fragment in which the next unit does not fit.
KeptWell(kept, u) ==
    /\ IsList(kept.current) /\ IsList(kept.closed)
    /\ \A k \in 1..Len(kept.closed) : IsFragment(kept.closed[k], Most)
    /\ Cuts => Len(kept.current) + Length(u.real) <= Most
    /\ \A x \in ToSet(current) : ~BlankAt(x) => x \in ToSet(kept.current) \/ HeldBy(kept.closed, x)

\* Nothing is closed, or the fragment is and the next begins with at most the overlap.
LEMMA KeptOrClosed ==
    ASSUME HoldsInv, stage = "units", NEW k \in 1..Len(units), NEW u, u = units[k],
           NEW kept,
           \/ /\ current = <<>> \/ Len(current) + Length(u.real) <= file.size
              /\ kept.current = current /\ kept.closed = <<>>
           \/ /\ IsList(kept.current) /\ Len(kept.current) <= file.overlap
              /\ kept.closed = <<Closed>>
    PROVE  KeptWell(kept, u)
<1>1. PICK n \in Nat : n = Len(text) /\ DOMAIN text = 1..n
    BY ListLength DEF HoldsInv
<1>2. PICK size \in Nat : size = file.size
    BY FileSizes DEF HoldsInv, Sizes
<1>3. PICK overlap \in Nat : overlap = file.overlap
    BY FileSizes DEF HoldsInv, Sizes
<1>4. PICK L \in Nat : L = Len(current)
    BY ListLength DEF HoldsInv
<1>5. Filling(units, i, current, chunks)
    BY DEF HoldsInv
<1>6. PICK f \in 1..n : f = u.real[1]
    BY <1>1, <1>5 DEF Filling, Lodged
<1>7. PICK t \in 1..n : t = u.real[2]
    BY <1>1, <1>5 DEF Filling, Lodged
<1>8. PICK l \in Int : l = Length(u.real) /\ (Cuts => l <= size)
    <2>1. (t - f) + 1 <= UnitRoom
        BY <1>5, <1>6, <1>7 DEF Filling, Lodged
    <2>2. Cuts => UnitRoom = size
        BY <1>2 DEF UnitRoom, Cuts
    <2>3. Length(u.real) = t - f + 1
        BY <1>6, <1>7 DEF Length
    <2> QED
        BY <1>2, <2>1, <2>2, <2>3
<1>9. Most = size + overlap
    BY <1>2, <1>3 DEF Most
<1>10. CASE /\ current = <<>> \/ Len(current) + Length(u.real) <= file.size
            /\ kept.current = current /\ kept.closed = <<>>
    <2>1. IsList(kept.closed) /\ Len(kept.closed) = 0
        BY <1>10, EmptyList DEF NoElement
    <2>2. IsList(kept.current)
        BY <1>10 DEF HoldsInv
    <2>3. Cuts => L + l <= size + overlap
        <3>1. CASE current = <<>>
            <4>1. L = 0
                BY <1>4, <3>1, EmptyList DEF NoElement
            <4> QED
                BY <1>8, <4>1
        <3>2. CASE L + l <= size
            BY <3>2
        <3> QED
            BY <1>2, <1>4, <1>8, <1>10, <3>1, <3>2
    <2> QED
        BY <1>4, <1>8, <1>9, <1>10, <2>1, <2>2, <2>3 DEF KeptWell
<1>11. CASE /\ IsList(kept.current) /\ Len(kept.current) <= file.overlap
            /\ kept.closed = <<Closed>>
    <2>1. PICK m \in 0..Len(current) : Core(current, m) /\ (Cuts => m <= Most)
        BY <1>5 DEF Filling
    <2>2. PICK most \in Nat : most = Most
        BY <1>9
    <2>3. IsList(current)
        BY DEF HoldsInv
    <2>4. PICK c : c = Closed
        OBVIOUS
    <2>5. /\ IsFragment(c, most)
          /\ \A x \in ToSet(current) : ~BlankAt(x) => x \in ToSet(c.text)
        BY <1>1, <2>1, <2>2, <2>3, <2>4, ClosedHolds
    <2>6. /\ IsList(<<c>>) /\ \A z \in 1..Len(<<c>>) : IsFragment(<<c>>[z], most)
          /\ \A x \in ToSet(c.text) : HeldBy(<<c>>, x)
        BY <2>5, OneFragment
    <2>7. PICK w \in Nat : w = Len(kept.current) /\ w <= overlap
        BY <1>3, <1>11, ListLength
    <2>8. Cuts => w + l <= size + overlap
        BY <1>8, <2>7
    <2> QED
        BY <1>8, <1>9, <1>11, <2>2, <2>4, <2>5, <2>6, <2>7, <2>8 DEF KeptWell
<1> QED
    BY <1>10, <1>11

\* What the invariant asks of the next state, while the text stays.
LEMMA NewState ==
    ASSUME file \in Files, IsList(text), text' = text, file' = file, stage' \in {"units", "done"},
           NEW us, units' = us, NEW j, i' = j, NEW s, current' = s, NEW cs, chunks' = cs,
           IsList(us), IsList(s), IsList(cs), j \in 0..Len(us),
           \A k \in 1..Len(cs) : IsFragment(cs[k], Most),
           stage' = "units" => Filling(us, j, s, cs),
           stage' = "done" => AllHeld(cs)
    PROVE  HoldsInv'
<1>1. BodyFrom' = BodyFrom /\ (StartsWithHeader' <=> StartsWithHeader)
    BY SameText, SameMail
<1>2. (\A k \in 1..Len(chunks) : IsFragment(chunks[k], Most))'
    BY SameTables DEF IsFragment, Most, Cuts
<1>3. (stage = "units" => Filling(units, i, current, chunks))'
    <2> SUFFICES ASSUME stage' = "units" PROVE Filling(units, i, current, chunks)'
        OBVIOUS
    <2>1. Filling(us, j, s, cs)
        OBVIOUS
    <2>2. (file.strategy \in {"sentence", "paragraph", "email"})'
        BY <2>1 DEF Filling
    <2>3. (\A k \in 1..Len(units) : Lodged(units[k].real, 1, Len(text), UnitRoom))'
        BY <2>1 DEF Filling, Lodged, UnitRoom, BlankAt
    <2>4. (\E m \in 0..Len(current) : Core(current, m) /\ (Cuts => m <= Most))'
        BY <2>1 DEF Filling, Core, Cuts, Most
    <2>5. (i > 0 => current # <<>>)'
        BY <2>1 DEF Filling
    <2>6. (Len(units) = 0 => \A x \in 1..Len(text) : BlankAt(x))'
        BY <2>1 DEF Filling, BlankAt
    <2>7. (\A x \in 1..Len(text) : ~BlankAt(x) => Accounted(units, i, current, chunks, x))'
        BY <1>1, <2>1 DEF Filling, Accounted, Ahead, HeldBy, BlankAt
    <2> QED
        BY <2>2, <2>3, <2>4, <2>5, <2>6, <2>7 DEF Filling
<1>4. (stage = "done" => AllHeld(chunks))'
    BY <1>1 DEF AllHeld, HeldBy, BlankAt
<1> QED
    BY <1>2, <1>3, <1>4 DEF HoldsInv

LEMMA HoldsInit == Init => HoldsInv
<1> SUFFICES ASSUME Init PROVE HoldsInv
    OBVIOUS
<1>1. PICK f \in Files : Begin(f)
    BY DEF Init
<1>2. NoElement(text) /\ NoElement(units) /\ NoElement(chunks) /\ NoElement(current)
    BY <1>1, EmptyList DEF Begin
<1> QED
    BY <1>1, <1>2 DEF HoldsInv, Begin, NoElement

\* Whatever reads the document, its text is a list of characters.
LEMMA HoldsParse ==
    ASSUME HoldsInv, Parse
    PROVE  HoldsInv'
<1>1. IsList(text')
    <2>1. CASE file.kind = "pdf"
        <3>1. IsPdf(file)
            BY <2>1, ChunkingAssumption DEF HoldsInv, IsPdf
        <3>2. PagesTold(ParsePdf(file), file)
            BY <3>1, PdfTold
        <3> QED
            BY <2>1, <3>2 DEF Parse, PagesTold
    <2>2. CASE file.kind # "pdf"
        <3>1. PICK d : d = ReadParts(file) /\ text' = d.text
            BY <2>2 DEF Parse
        <3>2. HasText(d)
            BY <2>2, <3>1, DocumentText DEF HoldsInv
        <3> QED
            BY <3>1, <3>2 DEF HasText
    <2> QED
        BY <2>1, <2>2
<1>2. stage' \in {"text", "failed"}
    BY DEF Parse
<1>3. units = <<>> /\ i = 0 /\ current = <<>> /\ chunks = <<>>
    BY DEF HoldsInv, Parse
<1>4. NoElement(units) /\ NoElement(chunks)
    BY <1>3, EmptyList
<1> QED
    BY <1>1, <1>2, <1>3, <1>4 DEF HoldsInv, Parse, NoElement

\* Sentences and paragraphs: every character that is not blank is in a unit, and no
\* unit is longer than the size.
LEMMA HoldsCutInto ==
    ASSUME HoldsInv, NEW strategy \in {"sentence", "paragraph"}, CutInto(strategy)
    PROVE  HoldsInv'
<1>1. PICK n \in Nat : n = Len(text) /\ DOMAIN text = 1..n
    BY ListLength DEF HoldsInv
<1>2. PICK size \in Nat : size = file.size /\ Sizes(file)
    BY FileSizes DEF HoldsInv, Sizes
<1>3. file.strategy = strategy /\ file' = file /\ text' = text /\ stage' = "units"
    BY DEF CutInto
<1>4. UnitRoom = size /\ Cuts
    BY <1>2, <1>3 DEF UnitRoom, Cuts
<1>5. PICK us : us = units' /\ IsList(us)
                /\ (\A k \in 1..Len(us) : Lodged(us[k].real, 1, n, size))
                /\ (\A x \in 1..n : ~BlankAt(x) => Ahead(us, 0, x))
                /\ (Len(us) = 0 => \A x \in 1..n : BlankAt(x))
    <2>1. CASE NonBlanks = {}
        <3>1. units' = <<>> /\ NoElement(units')
            BY <2>1, EmptyList DEF CutInto
        <3>2. \A x \in 1..n : BlankAt(x)
            BY <1>1, <2>1 DEF NonBlanks
        <3> QED
            BY <3>1, <3>2 DEF NoElement
    <2>2. CASE NonBlanks # {}
        <3>1. CutsUp(All, 1, n, n)
            BY <1>1, RawCuts DEF All
        <3>2. PICK p : p = Sized(All) /\ CutsUp(p, 1, n, size)
            BY <1>2, <3>1, SizedCuts
        <3>3. PICK us : us = Located(p)
            OBVIOUS
        <3>4. IsList(us) /\ Len(us) = Len(p) /\ \A k \in 1..Len(p) : us[k].real = p[k]
            BY <3>2, <3>3, LocatedUnits DEF CutsUp
        <3>5. \A k \in 1..Len(us) : Lodged(us[k].real, 1, n, size)
            BY <3>2, <3>4 DEF CutsUp
        <3>6. \A x \in 1..n : ~BlankAt(x) => Ahead(us, 0, x)
            BY <3>2, <3>4 DEF CutsUp, Holds, Ahead
        <3>7. Len(us) = 0 => \A x \in 1..n : BlankAt(x)
            BY <3>6 DEF Ahead
        <3>8. units' = us
            BY <2>2, <3>2, <3>3 DEF CutInto
        <3> QED
            BY <3>4, <3>5, <3>6, <3>7, <3>8
    <2> QED
        BY <2>1, <2>2
<1>6. i = 0 /\ current = <<>> /\ chunks = <<>>
    BY DEF HoldsInv, CutInto
<1>7. NoElement(chunks) /\ NoElement(current)
    BY <1>6, EmptyList
<1>8. Most \in Nat
    BY <1>2 DEF Most, Sizes
<1>9. Filling(us, 0, current, chunks)
    BY <1>1, <1>3, <1>4, <1>5, <1>7, <1>8 DEF Filling, Accounted, Core, NoElement
<1>10. Len(us) \in Nat
    BY <1>5, ListLength
<1>11. \A k \in 1..Len(chunks) : IsFragment(chunks[k], Most)
    BY DEF HoldsInv
<1>12. i' = 0 /\ current' = current /\ chunks' = chunks
    BY <1>6 DEF CutInto
<1>13. file \in Files /\ IsList(text) /\ IsList(current) /\ IsList(chunks) /\ 0 \in 0..Len(us)
    BY <1>10 DEF HoldsInv
<1> QED
    BY <1>3, <1>5, <1>9, <1>11, <1>12, <1>13, NewState

\* _chunk_fixed: every window is a fragment.
LEMMA HoldsCutFixed ==
    ASSUME HoldsInv, CutFixed
    PROVE  HoldsInv'
<1>1. PICK n \in Nat : n = Len(text) /\ DOMAIN text = 1..n
    BY ListLength DEF HoldsInv
<1>2. PICK size \in Nat : size = file.size /\ Sizes(file)
    BY FileSizes DEF HoldsInv, Sizes
<1>3. PICK cs : cs = chunks' /\ IsList(cs)
                /\ (\A k \in 1..Len(cs) : IsFragment(cs[k], size))
                /\ (\A x \in 1..n : ~BlankAt(x) => HeldBy(cs, x))
    <2>1. CASE NonBlanks = {}
        <3>1. chunks' = <<>> /\ NoElement(chunks')
            BY <2>1, EmptyList DEF CutFixed
        <3>2. \A x \in 1..n : BlankAt(x)
            BY <1>1, <2>1 DEF NonBlanks
        <3> QED
            BY <3>1, <3>2 DEF NoElement
    <2>2. CASE NonBlanks # {}
        <3>1. n # 0
            BY <1>1, <2>2 DEF NonBlanks
        <3>2. Fragmented(Fixed(1), 1, n, size)
            BY <1>1, <1>2, <3>1, FixedHolds
        <3>3. chunks' = Fixed(1)
            BY <2>2 DEF CutFixed
        <3> QED
            BY <3>2, <3>3 DEF Fragmented
    <2> QED
        BY <2>1, <2>2
<1>4. PICK most \in Nat : most = Most /\ size <= most
    BY <1>2 DEF Most, Sizes
<1>5. \A k \in 1..Len(cs) : IsFragment(cs[k], Most)
    <2> SUFFICES ASSUME NEW k \in 1..Len(cs) PROVE IsFragment(cs[k], most)
        BY <1>4
    <2>1. IsFragment(cs[k], size)
        BY <1>3
    <2>2. Len(cs[k].text) \in Nat
        BY <2>1, ListLength DEF IsFragment
    <2> QED
        BY <1>4, <2>1, <2>2 DEF IsFragment
<1>6. AllHeld(cs)
    BY <1>1, <1>3 DEF AllHeld
<1>7. /\ file' = file /\ text' = text /\ stage' = "done"
      /\ units' = units /\ i' = i /\ current' = current
    BY DEF CutFixed
<1>8. file \in Files /\ IsList(text) /\ IsList(current) /\ IsList(units) /\ i \in 0..Len(units)
    BY DEF HoldsInv
<1> QED
    BY <1>3, <1>5, <1>6, <1>7, <1>8, NewState

\* _chunk_by_slide
LEMMA HoldsCutSlides ==
    ASSUME HoldsInv, CutSlides
    PROVE  HoldsInv'
<1>1. PICK n \in Nat : n = Len(text) /\ DOMAIN text = 1..n
    BY ListLength DEF HoldsInv
<1>2. PICK most : most = Most
    OBVIOUS
<1>3. ~Cuts
    BY DEF CutSlides, Cuts
<1>4. /\ IsList(SlideChunks) /\ \A k \in 1..Len(SlideChunks) : IsFragment(SlideChunks[k], most)
      /\ \A x \in 1..n : ~BlankAt(x) /\ text[x].c # "#" => HeldBy(SlideChunks, x)
      /\ SlideList = <<>> => \A x \in 1..n : ~BlankAt(x) => text[x].c = "#"
    BY <1>1, <1>3, SlidesHold
<1>5. PICK cs : cs = chunks' /\ IsList(cs)
                /\ (\A k \in 1..Len(cs) : IsFragment(cs[k], most))
                /\ (\A x \in 1..n : ~BlankAt(x) /\ text[x].c # "#" => HeldBy(cs, x))
    <2>1. CASE NonBlanks = {}
        <3>1. chunks' = <<>> /\ NoElement(chunks')
            BY <2>1, EmptyList DEF CutSlides
        <3>2. \A x \in 1..n : BlankAt(x)
            BY <1>1, <2>1 DEF NonBlanks
        <3> QED
            BY <3>1, <3>2 DEF NoElement
    <2>2. CASE NonBlanks # {} /\ SlideList = <<>>
        <3>1. PICK u : u = <<1, n>>
            OBVIOUS
        <3>2. IsList(Interval(u))
            <4>1. u[1] = 1 /\ u[2] = n
                BY <3>1
            <4> QED
                BY <4>1, IntervalList
        <3>3. PICK s : s = Strip(Interval(u)) /\ IsList(s)
            BY <3>2, StripHolds
        <3>4. PICK c : c = Chunk(s, 1, n + 1)
            OBVIOUS
        <3>5. IsFragment(c, most)
            BY <1>3, <3>3, <3>4, ChunkText DEF IsFragment
        <3>6. /\ IsList(<<c>>) /\ \A k \in 1..Len(<<c>>) : IsFragment(<<c>>[k], most)
            BY <3>5, OneFragment
        <3>7. chunks' = <<c>>
            BY <1>1, <2>2, <3>1, <3>3, <3>4 DEF CutSlides, SlideList
        <3> QED
            BY <1>4, <2>2, <3>6, <3>7
    <2>3. CASE NonBlanks # {} /\ SlideList # <<>>
        <3>1. chunks' = SlideChunks
            BY <2>3 DEF CutSlides, SlideList, SlideChunks
        <3> QED
            BY <1>4, <3>1
    <2> QED
        BY <2>1, <2>2, <2>3
<1>6. AllHeld(cs)
    BY <1>1, <1>5 DEF AllHeld
<1>7. /\ file' = file /\ text' = text /\ stage' = "done"
      /\ units' = units /\ i' = i /\ current' = current
    BY DEF CutSlides
<1>8. file \in Files /\ IsList(text) /\ IsList(current) /\ IsList(units) /\ i \in 0..Len(units)
    BY DEF HoldsInv
<1> QED
    BY <1>2, <1>5, <1>6, <1>7, <1>8, NewState

\* _chunk_email: what is above the body is in the header, where the mail starts with
\* its header.
LEMMA HoldsCutMail ==
    ASSUME HoldsInv, CutMail
    PROVE  HoldsInv'
<1>1. PICK n \in Nat : n = Len(text) /\ DOMAIN text = 1..n
    BY ListLength DEF HoldsInv
<1>2. file.strategy = "email" /\ ~Cuts /\ file' = file /\ text' = text /\ i' = i /\ current' = current
    BY DEF CutMail, Cuts
<1>3. PICK most : most = Most
    OBVIOUS
<1>4. PICK lo \in Nat : lo = BodyFrom /\ lo # 0
    BY <1>1, MailCovers
<1>5. i = 0 /\ NoElement(current) /\ NoElement(chunks) /\ NoElement(units)
    <2>1. i = 0 /\ current = <<>> /\ chunks = <<>> /\ units = <<>>
        BY DEF HoldsInv, CutMail
    <2> QED
        BY <2>1, EmptyList
<1>6. PICK body : /\ body = IF NonBlanks = {} THEN <<>> ELSE Raw(BodyFrom, Len(text))
                  /\ IsList(body) /\ (\A k \in 1..Len(body) : Lodged(body[k], 1, n, n))
                  /\ (\A x \in lo..n : ~BlankAt(x) => Holds(body, x))
    <2>1. CASE NonBlanks = {}
        <3>1. \A x \in 1..n : BlankAt(x)
            BY <1>1, <2>1 DEF NonBlanks
        <3>2. \A e : e = <<>> => IsList(e) /\ Len(e) = 0
            BY EmptyList DEF NoElement
        <3>3. \A x \in lo..n : BlankAt(x)
            BY <1>4, <3>1
        <3> QED
            BY <2>1, <3>2, <3>3
    <2>2. CASE NonBlanks # {}
        <3>1. PICK body : body = Raw(lo, n) /\ CutsUp(body, lo, n, n)
            BY <1>1, <1>4, RawCuts
        <3>2. \A k \in 1..Len(body) : Lodged(body[k], lo, n, n)
            BY <3>1 DEF CutsUp
        <3>3. \A k \in 1..Len(body) : Lodged(body[k], 1, n, n)
            BY <1>4, <3>2, LodgedWider
        <3> QED
            BY <1>1, <1>4, <2>2, <3>1, <3>3 DEF CutsUp
    <2> QED
        BY <2>1, <2>2
<1>7. file \in Files /\ IsList(text) /\ IsList(current) /\ IsList(units) /\ IsList(chunks)
    BY DEF HoldsInv
<1>8. CASE body = <<>> /\ NonBlanks # {}
    <2>1. PICK alone : alone = IF EmailHead # <<>> THEN EmailHead
                               ELSE Strip(Interval(<<1, Len(text)>>))
        OBVIOUS
    <2>2. PICK u : u = <<1, Len(text)>>
        OBVIOUS
    <2>3. IsList(Interval(u)) /\ ToSet(Interval(u)) = 1..n
        <3>1. u[1] = 1 /\ u[2] = n
            BY <1>1, <2>2
        <3> QED
            BY <3>1, IntervalList
    <2>4. /\ IsList(Strip(Interval(u)))
          /\ \A x \in ToSet(Interval(u)) : ~BlankAt(x) => x \in ToSet(Strip(Interval(u)))
        BY <2>3, StripHolds
    <2>5. IsList(EmailHead)
        BY <1>1, HeadHolds
    <2>6. IsList(alone)
        BY <2>1, <2>2, <2>4, <2>5
    <2>7. PICK c : c = Chunk(alone, 1, Len(text) + 1)
        OBVIOUS
    <2>8. c.text = alone /\ IsFragment(c, most)
        BY <1>2, <2>6, <2>7, ChunkText DEF IsFragment
    <2>9. PICK cs : cs = <<c>> /\ IsList(cs) /\ (\A k \in 1..Len(cs) : IsFragment(cs[k], most))
                    /\ (\A x \in ToSet(alone) : HeldBy(cs, x))
        BY <2>8, OneFragment
    <2>10. chunks' = cs /\ stage' = "done" /\ units' = units
        BY <1>6, <1>8, <2>1, <2>7, <2>9 DEF CutMail
    <2>11. Len(body) = 0
        BY <1>8, EmptyList DEF NoElement
    <2>12. \A x \in lo..n : BlankAt(x)
        BY <1>6, <2>11 DEF Holds
    <2>13. AllHeld(cs)
        <3> SUFFICES ASSUME NEW x \in 1..n, ~BlankAt(x), StartsWithHeader PROVE x \in ToSet(alone)
            BY <1>1, <2>9 DEF AllHeld
        <3>1. x < lo
            BY <2>12
        <3>2. x \in ToSet(EmailHead)
            BY <1>1, <1>2, <1>4, <3>1, MailCovers
        <3>3. EmailHead # <<>>
            BY <3>2, EmptyList DEF NoElement
        <3> QED
            BY <2>1, <3>2, <3>3
    <2>14. 0 \in 0..Len(units)
        BY <1>5 DEF NoElement
    <2> QED
        BY <1>2, <1>3, <1>5, <1>7, <2>9, <2>10, <2>13, <2>14, NewState
<1>9. CASE ~(body = <<>> /\ NonBlanks # {})
    <2>1. PICK us : us = [k \in DOMAIN body |-> [at |-> 0, real |-> body[k]]]
        OBVIOUS
    <2>2. PICK L \in Nat : L = Len(body) /\ DOMAIN body = 1..L
        BY <1>6, ListLength
    <2>3. us = [k \in 1..L |-> us[k]] /\ \A k \in 1..L : us[k].real = body[k]
        BY <2>1, <2>2
    <2>4. IsList(us) /\ Len(us) = L
        BY <2>3, ListedBy
    <2>5. units' = us /\ stage' = "units" /\ chunks' = chunks
        BY <1>6, <1>9, <2>1 DEF CutMail
    <2>6. \A k \in 1..Len(us) : Lodged(us[k].real, 1, n, n)
        BY <1>6, <2>2, <2>3, <2>4
    <2>7. \A x \in 1..n : ~BlankAt(x) => Ahead(us, 0, x) \/ x < lo
        <3> SUFFICES ASSUME NEW x \in 1..n, ~BlankAt(x), x >= lo PROVE Ahead(us, 0, x)
            BY <1>4
        <3>1. PICK k \in 1..L : x \in body[k][1]..body[k][2]
            BY <1>6, <2>2 DEF Holds
        <3> QED
            BY <2>3, <2>4, <3>1 DEF Ahead
    <2>8. L = 0 => \A x \in 1..n : BlankAt(x)
        <3>1. L = 0 => body = <<>>
            BY <1>6, <2>2, EmptySeq DEF IsList
        <3>2. NonBlanks = {} => \A x \in 1..n : BlankAt(x)
            BY <1>1 DEF NonBlanks
        <3> QED
            BY <1>9, <3>1, <3>2
    <2>9. Filling(us, 0, current, chunks)
        <3>1. \A k \in 1..Len(us) : Lodged(us[k].real, 1, Len(text), UnitRoom)
            BY <1>1, <1>2, <2>6 DEF UnitRoom
        <3>2. \E m \in 0..Len(current) : Core(current, m) /\ (Cuts => m <= Most)
            BY <1>2, <1>5 DEF Core, NoElement
        <3>3. \A x \in 1..Len(text) : ~BlankAt(x) => Accounted(us, 0, current, chunks, x)
            BY <1>1, <1>2, <1>4, <2>7 DEF Accounted
        <3> QED
            BY <1>1, <1>2, <2>4, <2>8, <3>1, <3>2, <3>3 DEF Filling
    <2>10. \A k \in 1..Len(chunks) : IsFragment(chunks[k], Most)
        BY DEF HoldsInv
    <2>11. 0 \in 0..Len(us)
        BY <2>4
    <2> QED
        BY <1>2, <1>5, <1>7, <2>4, <2>5, <2>9, <2>10, <2>11, NewState
<1> QED
    BY <1>8, <1>9

\* One more unit: what was being filled is kept or closed, then the unit and the joint
\* follow.
LEMMA AddFills ==
    ASSUME HoldsInv, stage = "units", i < Len(units), NEW u, u = units[i + 1],
           NEW kept, KeptWell(kept, u), NEW joint, IsList(joint), joint # <<>>,
           \A k \in 1..Len(joint) : joint[k] = 0, Add(u, kept, joint)
    PROVE  HoldsInv'
<1>1. PICK n \in Nat : n = Len(text) /\ DOMAIN text = 1..n
    BY ListLength DEF HoldsInv
<1>2. PICK L \in Nat : L = Len(units)
    BY ListLength DEF HoldsInv
<1>3. PICK j \in 1..L : j = i + 1
    BY <1>2 DEF HoldsInv
<1>4. Filling(units, i, current, chunks)
    BY DEF HoldsInv
<1>5. PICK f \in 1..n : f = u.real[1]
    BY <1>1, <1>2, <1>3, <1>4 DEF Filling, Lodged
<1>6. PICK t \in 1..n : t = u.real[2] /\ f <= t
    BY <1>1, <1>2, <1>3, <1>4, <1>5 DEF Filling, Lodged
<1>7. PICK v : v = Interval(u.real)
    OBVIOUS
<1>8. IsList(v) /\ ToSet(v) = f..t /\ Len(v) = t - f + 1 /\ Length(u.real) = t - f + 1
    <2>1. PICK r : r = u.real /\ r[1] = f /\ r[2] = t
        BY <1>5, <1>6
    <2>2. PICK p \in Int : p = f
        BY <1>5
    <2>3. PICK q \in Int : q = t /\ p <= q + 1
        BY <1>5, <1>6, <2>2
    <2>4. r[1] = p /\ r[2] = q
        BY <2>1, <2>2, <2>3
    <2>5. IsList(Interval(r)) /\ ToSet(Interval(r)) = p..q /\ Len(Interval(r)) = q - p + 1
        BY <2>3, <2>4, IntervalList
    <2> QED
        BY <1>7, <2>1, <2>2, <2>3, <2>5 DEF Length
<1>9. PICK a : a = kept.current \o v
    OBVIOUS
<1>10. /\ IsList(a) /\ ToSet(a) = ToSet(kept.current) \cup (f..t)
       /\ Len(a) \in Nat /\ Len(a) = Len(kept.current) + Length(u.real) /\ Len(a) > 0
    <2>1. IsList(kept.current)
        BY DEF KeptWell
    <2>2. /\ IsList(a) /\ ToSet(a) = ToSet(kept.current) \cup ToSet(v)
          /\ Len(kept.current) \in Nat /\ Len(a) = Len(kept.current) + Len(v)
        BY <1>8, <1>9, <2>1, JoinedList
    <2>3. PICK l \in Nat : l = Len(kept.current)
        BY <2>2
    <2>4. PICK w \in Nat : w = t - f + 1 /\ w > 0
        BY <1>5, <1>6
    <2>5. Len(a) = l + w
        BY <1>8, <2>2, <2>3, <2>4
    <2>6. Len(a) \in Nat /\ Len(a) > 0
        <3>1. PICK z \in Nat : z = l + w /\ z > 0
            BY <2>4
        <3> QED
            BY <2>5, <3>1
    <2>7. Len(a) = Len(kept.current) + Length(u.real)
        BY <1>8, <2>3, <2>4, <2>5
    <2>8. IsList(a) /\ ToSet(a) = ToSet(kept.current) \cup (f..t)
        BY <1>8, <2>2
    <2> QED
        BY <2>6, <2>7, <2>8
<1>11. PICK s : s = a \o joint
    OBVIOUS
<1>12. /\ IsList(s) /\ ToSet(s) = ToSet(a) \cup ToSet(joint) /\ Len(s) \in Nat
       /\ Len(s) = Len(a) + Len(joint) /\ Len(joint) \in Nat
       /\ \A k \in 1..Len(joint) : s[Len(a) + k] = joint[k]
    BY <1>10, <1>11, JoinedList
<1>13. current' = s
    BY <1>7, <1>9, <1>11 DEF Add
<1>14. PICK m \in Nat : m = Len(a)
    BY <1>10
<1>15. Core(s, m)
    <2> SUFFICES ASSUME NEW k \in 1..Len(s), k > m PROVE s[k] = 0
        BY DEF Core
    <2>1. PICK z \in 1..Len(joint) : k = Len(a) + z
        <3>1. PICK q \in Nat : q = Len(joint)
            BY <1>12
        <3>2. k \in 1..(m + q)
            BY <1>12, <1>14, <3>1
        <3>3. k - m \in 1..q /\ k = m + (k - m)
            BY <3>2
        <3> QED
            BY <1>14, <3>1, <3>3
    <2> QED
        BY <1>12, <2>1
<1>16. m \in 0..Len(s) /\ (Cuts => m <= Most)
    BY <1>10, <1>12, <1>14 DEF KeptWell
<1>17. PICK cs : cs = chunks \o kept.closed
    OBVIOUS
<1>18. IsList(chunks) /\ IsList(kept.closed)
    BY DEF HoldsInv, KeptWell
<1>19. IsList(cs) /\ \A k \in 1..Len(cs) : IsFragment(cs[k], Most)
    <2>1. PICK most : most = Most
        OBVIOUS
    <2>2. \A k \in 1..Len(chunks) : IsFragment(chunks[k], most)
        BY <2>1 DEF HoldsInv
    <2>3. \A k \in 1..Len(kept.closed) : IsFragment(kept.closed[k], most)
        BY <2>1 DEF KeptWell
    <2> QED
        BY <1>17, <1>18, <2>1, <2>2, <2>3, FragmentsLonger
<1>20. \A x : HeldBy(chunks, x) \/ HeldBy(kept.closed, x) => HeldBy(cs, x)
    BY <1>17, <1>18, HeldLonger
<1>21. ASSUME NEW x \in 1..n, ~BlankAt(x) PROVE Accounted(units, j, s, cs, x)
    <2>1. Accounted(units, i, current, chunks, x)
        BY <1>1, <1>4, <1>21 DEF Filling
    <2>2. CASE Ahead(units, i, x)
        <3>1. PICK k \in (i + 1)..Len(units) : x \in units[k].real[1]..units[k].real[2]
            BY <2>2 DEF Ahead
        <3>2. CASE k = i + 1
            <4>1. x \in f..t
                BY <1>5, <1>6, <3>1, <3>2
            <4> QED
                BY <1>10, <1>12, <4>1 DEF Accounted
        <3>3. CASE k # i + 1
            <4>1. k \in (j + 1)..Len(units)
                BY <1>2, <1>3, <3>1, <3>3
            <4> QED
                BY <3>1, <4>1 DEF Accounted, Ahead
        <3> QED
            BY <3>2, <3>3
    <2>3. CASE x \in ToSet(current)
        <3>1. x \in ToSet(kept.current) \/ HeldBy(kept.closed, x)
            BY <1>21, <2>3 DEF KeptWell
        <3> QED
            BY <1>10, <1>12, <1>20, <3>1 DEF Accounted
    <2>4. CASE HeldBy(chunks, x)
        BY <1>20, <2>4 DEF Accounted
    <2>5. CASE file.strategy = "email" /\ x < BodyFrom
        BY <2>5 DEF Accounted
    <2> QED
        BY <2>1, <2>2, <2>3, <2>4, <2>5 DEF Accounted
<1>22. s # <<>>
    <2>1. Len(s) # 0
        BY <1>10, <1>12
    <2> QED
        BY <2>1, EmptyList DEF NoElement
<1>23. Filling(units, j, s, cs)
    <2>1. /\ file.strategy \in {"sentence", "paragraph", "email"}
          /\ \A k \in 1..Len(units) : Lodged(units[k].real, 1, Len(text), UnitRoom)
        BY <1>4 DEF Filling
    <2>2. \E z \in 0..Len(s) : Core(s, z) /\ (Cuts => z <= Most)
        BY <1>15, <1>16
    <2>3. Len(units) # 0
        BY <1>2, <1>3
    <2> QED
        BY <1>1, <1>21, <1>22, <2>1, <2>2, <2>3 DEF Filling
<1>24. /\ file' = file /\ text' = text /\ stage' = "units" /\ units' = units
       /\ i' = j /\ chunks' = cs
    BY <1>3, <1>17 DEF Add
<1>25. file \in Files /\ IsList(text) /\ IsList(units) /\ j \in 0..Len(units)
    BY <1>2, <1>3 DEF HoldsInv
<1> QED
    BY <1>12, <1>13, <1>19, <1>23, <1>24, <1>25, NewState

\* The joints.
Joint(s) == IsList(s) /\ s # <<>> /\ \A k \in 1..Len(s) : s[k] = 0
LEMMA Joints == Joint(<<0>>) /\ Joint(<<0, 0>>)
<1>1. PICK z : z = <<0>>
    OBVIOUS
<1>2. IsList(z) /\ Len(z) = 1 /\ z[1] = 0
    BY <1>1, Single
<1>3. Joint(z)
    BY <1>2, EmptyList DEF Joint, NoElement
<1>4. PICK y : y = <<0, 0>>
    OBVIOUS
<1>5. IsList(y)
    BY <1>4, PairList
<1>6. Len(y) = 2 /\ y[1] = 0 /\ y[2] = 0
    BY <1>4
<1>7. Joint(y)
    BY <1>5, <1>6, EmptyList DEF Joint, NoElement
<1> QED
    BY <1>1, <1>3, <1>4, <1>7

LEMMA HoldsAddSentence ==
    ASSUME HoldsInv, AddSentence
    PROVE  HoldsInv'
<1>1. PICK k \in 1..Len(units) : k = i + 1
    <2>1. Len(units) \in Nat
        BY ListLength DEF HoldsInv
    <2> QED
        BY <2>1 DEF HoldsInv, AddSentence
<1>2. PICK u : u = units[k]
    OBVIOUS
<1>3. PICK kept : kept = Kept(u)
    OBVIOUS
<1>4. PICK tail : tail = OverlapTail(current) /\ IsList(tail) /\ Len(tail) <= file.overlap
    <2>1. file.overlap \in Nat /\ IsList(current)
        BY FileSizes DEF HoldsInv, Sizes
    <2> QED
        BY <2>1, OverlapTailList
<1>5. \/ /\ current = <<>> \/ Len(current) + Length(u.real) <= file.size
         /\ kept.current = current /\ kept.closed = <<>>
      \/ /\ kept.current = tail /\ kept.closed = <<Closed>>
    BY <1>3, <1>4 DEF Kept
<1>6. KeptWell(kept, u)
    <2>1. stage = "units"
        BY DEF AddSentence
    <2>2. \/ /\ current = <<>> \/ Len(current) + Length(u.real) <= file.size
             /\ kept.current = current /\ kept.closed = <<>>
          \/ /\ IsList(kept.current) /\ Len(kept.current) <= file.overlap
             /\ kept.closed = <<Closed>>
        BY <1>4, <1>5
    <2> QED
        BY <1>2, <2>1, <2>2, KeptOrClosed
<1>7. PICK joint : joint = <<0>> /\ Joint(joint)
    BY Joints
<1>8. Add(u, kept, joint) /\ stage = "units" /\ i < Len(units) /\ u = units[i + 1]
    BY <1>1, <1>2, <1>3, <1>7 DEF AddSentence
<1> QED
    BY <1>6, <1>7, <1>8, AddFills DEF Joint

LEMMA HoldsAddWhole ==
    ASSUME HoldsInv, AddParagraph \/ AddLine
    PROVE  HoldsInv'
<1>1. PICK k \in 1..Len(units) : k = i + 1
    <2>1. Len(units) \in Nat
        BY ListLength DEF HoldsInv
    <2> QED
        BY <2>1 DEF HoldsInv, AddParagraph, AddLine
<1>2. PICK u : u = units[k]
    OBVIOUS
<1>3. PICK kept : kept = KeptWhole(u)
    OBVIOUS
<1>4. KeptWell(kept, u)
    <2>1. stage = "units"
        BY DEF AddParagraph, AddLine
    <2>2. PICK e : e = <<>> /\ IsList(e) /\ Len(e) = 0
        BY EmptyList DEF NoElement
    <2>3. \/ /\ current = <<>> \/ Len(current) + Length(u.real) <= file.size
             /\ kept.current = current /\ kept.closed = <<>>
          \/ /\ kept.current = e /\ kept.closed = <<Closed>>
        BY <1>3, <2>2 DEF KeptWhole
    <2>4. file.overlap \in Nat
        BY FileSizes DEF HoldsInv, Sizes
    <2>5. Len(e) <= file.overlap
        BY <2>2, <2>4
    <2>6. \/ /\ current = <<>> \/ Len(current) + Length(u.real) <= file.size
             /\ kept.current = current /\ kept.closed = <<>>
          \/ /\ IsList(kept.current) /\ Len(kept.current) <= file.overlap
             /\ kept.closed = <<Closed>>
        BY <2>2, <2>3, <2>5
    <2> QED
        BY <1>2, <2>1, <2>6, KeptOrClosed
<1>5. PICK joint : Joint(joint) /\ Add(u, kept, joint)
    BY <1>1, <1>2, <1>3, Joints DEF AddParagraph, AddLine
<1>6. stage = "units" /\ i < Len(units) /\ u = units[i + 1]
    BY <1>1, <1>2 DEF AddParagraph, AddLine
<1> QED
    BY <1>4, <1>5, <1>6, AddFills DEF Joint

\* The table header shown with a fragment changes none of its characters.
LEMMA WithHeadersText ==
    ASSUME NEW c, "text" \in DOMAIN c, Headed(c)
    PROVE  /\ WithHeaders(c).text = c.text /\ "text" \in DOMAIN WithHeaders(c)
           /\ Headed(WithHeaders(c))
<1>1. PICK inside : inside = {t \in Tables : c.start \in t.from..(t.to + 1) /\ c.start > t.head + 1}
    OBVIOUS
<1>2. CASE inside = {}
    <2>1. WithHeaders(c) = c
        BY <1>1, <1>2 DEF WithHeaders
    <2> QED
        BY <2>1
<1>3. CASE inside # {}
    <2>1. PICK t : t = CHOOSE u \in inside : TRUE
        OBVIOUS
    <2>2. t \in inside
        BY <1>3, <2>1
    <2>3. WithHeaders(c) = [c EXCEPT !.head = Heading(t)]
        BY <1>1, <1>3, <2>1 DEF WithHeaders
    <2>4. /\ WithHeaders(c).text = c.text /\ "text" \in DOMAIN WithHeaders(c)
          /\ "head" \in DOMAIN WithHeaders(c)
        BY <2>3 DEF Headed
    <2>5. WithHeaders(c).head = Heading(t)
        BY <2>3 DEF Headed
    <2> QED
        BY <1>1, <2>2, <2>4, <2>5 DEF Headed
<1> QED
    BY <1>2, <1>3

LEMMA HoldsLastFragment ==
    ASSUME HoldsInv, LastFragment
    PROVE  HoldsInv'
<1>1. PICK n \in Nat : n = Len(text) /\ DOMAIN text = 1..n
    BY ListLength DEF HoldsInv
<1>2. PICK L \in Nat : L = Len(units) /\ L = i
    BY ListLength DEF HoldsInv, LastFragment
<1>3. Filling(units, i, current, chunks)
    BY DEF HoldsInv, LastFragment
<1>4. PICK most \in Nat : most = Most
    BY FileSizes DEF HoldsInv, Sizes, Most
<1>5. IsList(chunks) /\ IsList(current) /\ \A k \in 1..Len(chunks) : IsFragment(chunks[k], most)
    BY <1>4 DEF HoldsInv
<1>6. PICK c : c = Closed
    OBVIOUS
<1>7. /\ IsFragment(c, most)
      /\ \A x \in ToSet(current) : ~BlankAt(x) => x \in ToSet(c.text)
      /\ file.strategy = "email" => ToSet(EmailHead) \subseteq ToSet(c.text)
    <2>1. PICK m \in 0..Len(current) : Core(current, m) /\ (Cuts => m <= Most)
        BY <1>3 DEF Filling
    <2> QED
        BY <1>1, <1>4, <1>5, <1>6, <2>1, ClosedHolds
<1>8. PICK all : /\ all = IF current = <<>> THEN chunks ELSE Append(chunks, c)
                 /\ IsList(all) /\ (\A k \in 1..Len(all) : IsFragment(all[k], most))
                 /\ (\A x : HeldBy(chunks, x) => HeldBy(all, x))
                 /\ (current # <<>> => \A x \in ToSet(c.text) : HeldBy(all, x))
    <2>1. CASE current = <<>>
        BY <1>5, <2>1
    <2>2. CASE current # <<>>
        <3>1. PICK d : d = <<c>> /\ IsList(d) /\ (\A k \in 1..Len(d) : IsFragment(d[k], most))
                       /\ (\A x \in ToSet(c.text) : HeldBy(d, x))
            BY <1>7, OneFragment
        <3>2. Append(chunks, c) = chunks \o d
            <4>1. chunks \in Seq(ToSet(chunks) \cup {c}) /\ c \in ToSet(chunks) \cup {c}
                <5>1. chunks \in Seq(ToSet(chunks))
                    BY <1>5 DEF IsList
                <5> QED
                    BY <5>1
            <4> QED
                BY <3>1, <4>1, AppendIsConcat
        <3>3. IsList(chunks \o d) /\ \A k \in 1..Len(chunks \o d) : IsFragment((chunks \o d)[k], most)
            BY <1>5, <3>1, FragmentsLonger
        <3>4. \A x : HeldBy(chunks, x) \/ HeldBy(d, x) => HeldBy(chunks \o d, x)
            BY <1>5, <3>1, HeldLonger
        <3> QED
            BY <2>2, <3>1, <3>2, <3>3, <3>4
    <2> QED
        BY <2>1, <2>2
<1>9. PICK cs : /\ cs = chunks'
                /\ IsList(cs) /\ (\A k \in 1..Len(cs) : IsFragment(cs[k], most))
                /\ (\A x : HeldBy(all, x) => HeldBy(cs, x))
    <2>1. CASE file.strategy = "sentence"
        <3>1. PICK A \in Nat : A = Len(all) /\ DOMAIN all = 1..A
            BY <1>8, ListLength
        <3>2. PICK cs : cs = [k \in 1..A |-> WithHeaders(all[k])]
            OBVIOUS
        <3>3. cs = [k \in 1..A |-> cs[k]]
            BY <3>2
        <3>4. IsList(cs) /\ Len(cs) = A
            BY <3>3, ListedBy
        <3>5. \A k \in 1..A : cs[k].text = all[k].text /\ "text" \in DOMAIN cs[k] /\ Headed(cs[k])
            <4> SUFFICES ASSUME NEW k \in 1..A
                         PROVE  cs[k].text = all[k].text /\ "text" \in DOMAIN cs[k] /\ Headed(cs[k])
                OBVIOUS
            <4>1. PICK d : d = all[k] /\ "text" \in DOMAIN d /\ Headed(d)
                BY <1>8, <3>1 DEF IsFragment
            <4>2. cs[k] = WithHeaders(d)
                BY <3>2, <4>1
            <4> QED
                BY <4>1, <4>2, WithHeadersText
        <3>6. \A k \in 1..A : IsFragment(cs[k], most)
            BY <1>8, <3>1, <3>5 DEF IsFragment
        <3>7. \A x : HeldBy(all, x) => HeldBy(cs, x)
            BY <3>1, <3>4, <3>5 DEF HeldBy
        <3>8. chunks' = cs
            BY <1>6, <1>8, <2>1, <3>1, <3>2 DEF LastFragment
        <3> QED
            BY <3>4, <3>6, <3>7, <3>8
    <2>2. CASE file.strategy # "sentence"
        <3>1. chunks' = all
            BY <1>6, <1>8, <2>2 DEF LastFragment
        <3> QED
            BY <1>8, <3>1
    <2> QED
        BY <2>1, <2>2
<1>10. AllHeld(cs)
    <2> SUFFICES ASSUME NEW x \in 1..n, ~BlankAt(x), StartsWithHeader PROVE HeldBy(cs, x)
        BY <1>1 DEF AllHeld
    <2>1. Accounted(units, i, current, chunks, x)
        BY <1>1, <1>3 DEF Filling
    <2>2. CASE Ahead(units, i, x)
        BY <1>2, <2>2 DEF Ahead
    <2>3. CASE x \in ToSet(current)
        <3>1. current # <<>>
            BY <2>3, EmptyList DEF NoElement
        <3> QED
            BY <1>7, <1>8, <1>9, <2>3, <3>1
    <2>4. CASE HeldBy(chunks, x)
        BY <1>8, <1>9, <2>4
    <2>5. CASE file.strategy = "email" /\ x < BodyFrom
        <3>1. x \in ToSet(EmailHead)
            BY <1>1, <2>5, MailCovers
        <3>2. i > 0
            BY <1>1, <1>2, <1>3 DEF Filling
        <3>3. current # <<>>
            BY <1>3, <3>2 DEF Filling
        <3> QED
            BY <1>7, <1>8, <1>9, <2>5, <3>1, <3>3
    <2> QED
        BY <2>1, <2>2, <2>3, <2>4, <2>5 DEF Accounted
<1>11. \A k \in 1..Len(cs) : IsFragment(cs[k], Most)
    BY <1>4, <1>9
<1>12. /\ file' = file /\ text' = text /\ stage' = "done"
       /\ units' = units /\ i' = i /\ current' = current
    BY DEF LastFragment
<1>13. file \in Files /\ IsList(text) /\ IsList(current) /\ IsList(units) /\ i \in 0..Len(units)
    BY DEF HoldsInv
<1> QED
    BY <1>9, <1>10, <1>11, <1>12, <1>13, NewState

LEMMA HoldsInvNext == HoldsInv /\ [Next]_vars => HoldsInv'
<1> SUFFICES ASSUME HoldsInv, [Next]_vars PROVE HoldsInv'
    OBVIOUS
<1>1. CASE Parse
    BY <1>1, HoldsParse
<1>2. CASE CutSentences \/ CutParagraphs
    BY <1>2, HoldsCutInto DEF CutSentences, CutParagraphs
<1>3. CASE CutFixed
    BY <1>3, HoldsCutFixed
<1>4. CASE CutSlides
    BY <1>4, HoldsCutSlides
<1>5. CASE CutMail
    BY <1>5, HoldsCutMail
<1>6. CASE AddSentence
    BY <1>6, HoldsAddSentence
<1>7. CASE AddParagraph \/ AddLine
    BY <1>7, HoldsAddWhole
<1>8. CASE LastFragment
    BY <1>8, HoldsLastFragment
<1>9. CASE UNCHANGED vars
    <2>1. CASE stage \in {"units", "done"}
        <3>1. /\ file' = file /\ text' = text /\ stage' = stage /\ units' = units
              /\ i' = i /\ current' = current /\ chunks' = chunks
            BY <1>9 DEF vars
        <3>2. /\ file \in Files /\ IsList(text) /\ IsList(units) /\ IsList(chunks)
              /\ IsList(current) /\ i \in 0..Len(units)
              /\ \A k \in 1..Len(chunks) : IsFragment(chunks[k], Most)
              /\ stage = "units" => Filling(units, i, current, chunks)
              /\ stage = "done" => AllHeld(chunks)
            BY DEF HoldsInv
        <3> QED
            BY <2>1, <3>1, <3>2, NewState
    <2>2. CASE stage \notin {"units", "done"}
        <3>1. text' = text
            BY <1>9 DEF vars
        <3> QED
            BY <1>9, <2>2, <3>1, SameTables DEF vars, HoldsInv, IsFragment, Most, Cuts
    <2> QED
        BY <2>1, <2>2
<1> QED
    BY <1>1, <1>2, <1>3, <1>4, <1>5, <1>6, <1>7, <1>8, <1>9 DEF Next

\* The header of a table is a list of offsets.
LEMMA HeadingList ==
    ASSUME NEW n \in Nat, n = Len(text), DOMAIN text = 1..n, NEW t \in Tables
    PROVE  IsList(Heading(t))
<1>1. /\ IsList(Lines) /\ \A k \in 1..Len(Lines) : LineOf(Lines[k], n)
      /\ \A j, k \in 1..Len(Lines) : j < k => Lines[j][2] + 2 <= Lines[k][1]
    BY LinesOfText
<1>2. PICK L \in Nat : L = Len(Lines) /\ DOMAIN Lines = 1..L
    BY <1>1, ListLength
<1> DEFINE after(k) == {j \in DOMAIN Lines : j > k /\ ~IsRow(Lines[j])}
           last(k) == IF after(k) = {} THEN Len(Lines) ELSE Min(after(k)) - 1
           below(k) == last(k) > k /\ IsRule(Lines[k + 1])
           head(k) == IF below(k) THEN Lines[k + 1][2] ELSE Lines[k][2]
           first == {k \in DOMAIN Lines : IsRow(Lines[k]) /\ (k = 1 \/ ~IsRow(Lines[k - 1]))}
<1>3. PICK k \in 1..L : /\ t.from = Lines[k][1]
                        /\ t.head = IF below(k) THEN Lines[k + 1][2] ELSE Lines[k][2]
    <2>1. Tables = {[from |-> Lines[k][1], to |-> Lines[last(k)][2], head |-> head(k)] : k \in first}
        BY DEF Tables
    <2>2. first \subseteq 1..L
        BY <1>2
    <2> HIDE DEF last, below, head, first
    <2>3. PICK k \in first : t = [from |-> Lines[k][1], to |-> Lines[last(k)][2], head |-> head(k)]
        BY <2>1
    <2>4. t.from = Lines[k][1] /\ t.head = head(k) /\ k \in 1..L
        BY <2>2, <2>3
    <2> QED
        BY <2>4 DEF head
<1> HIDE DEF head, first
<1>4. below(k) => k + 1 \in 1..L
    <2> SUFFICES ASSUME last(k) > k PROVE k + 1 <= L
        OBVIOUS
    <2>1. CASE after(k) = {}
        BY <1>2, <2>1
    <2>2. CASE after(k) # {}
        <3>1. PICK T : T = after(k)
            OBVIOUS
        <3>2. T \in SUBSET Nat /\ T \subseteq 1..L /\ T # {}
            BY <1>2, <2>2, <3>1
        <3>3. PICK m \in 1..L : m = Min(T)
            BY <3>2, LeastOf
        <3>4. last(k) = m - 1
            BY <2>2, <3>1, <3>3
        <3> QED
            BY <3>3, <3>4
    <2> QED
        BY <2>1, <2>2
<1> HIDE DEF after, last, below
<1>5. LineOf(Lines[k], n) /\ (below(k) => LineOf(Lines[k + 1], n) /\ Lines[k][2] + 2 <= Lines[k + 1][1])
    <2>1. below(k) => k + 1 \in 1..L /\ k < k + 1
        BY <1>4
    <2> QED
        BY <1>1, <1>2, <2>1
<1>6. t.from \in Int /\ t.head \in Int /\ t.from <= t.head + 1
    <2>1. PICK a \in Nat : a = Lines[k][1] /\ a <= n + 1
        BY <1>5 DEF LineOf
    <2>2. PICK b \in Nat : b = Lines[k][2] /\ a <= b + 1
        BY <1>5, <2>1 DEF LineOf
    <2>3. CASE below(k)
        <3>1. PICK d \in Nat : d = Lines[k + 1][1] /\ b + 2 <= d
            BY <1>5, <2>2, <2>3 DEF LineOf
        <3>2. PICK e \in Nat : e = Lines[k + 1][2] /\ d <= e + 1
            BY <1>5, <2>3, <3>1 DEF LineOf
        <3>3. a <= e + 1
            <4>1. a <= b + 1 /\ b + 2 <= d /\ d <= e + 1
                BY <2>2, <3>1, <3>2
            <4> QED
                BY <4>1
        <3>4. t.from = a /\ t.head = e
            BY <1>3, <2>1, <2>3, <3>2
        <3> QED
            BY <3>3, <3>4
    <2>4. CASE ~below(k)
        <3>1. t.from = a /\ t.head = b
            BY <1>3, <2>1, <2>2, <2>4
        <3> QED
            BY <2>2, <3>1
    <2> QED
        BY <2>3, <2>4
<1>7. PICK u : u = <<t.from, t.head>>
    OBVIOUS
<1>8. u[1] = t.from /\ u[2] = t.head
    BY <1>7
<1>9. IsList(Interval(u))
    BY <1>6, <1>8, IntervalList
<1> QED
    BY <1>7, <1>9 DEF Heading

LEMMA HoldsInvTrue == HoldsInv => FragmentsHoldTheText
<1> SUFFICES ASSUME HoldsInv PROVE FragmentsHoldTheText
    OBVIOUS
<1>1. PICK n \in Nat : n = Len(text) /\ DOMAIN text = 1..n
    BY ListLength DEF HoldsInv
<1>2. PICK L \in Nat : L = Len(chunks) /\ DOMAIN chunks = 1..L
    BY ListLength DEF HoldsInv
<1>3. NothingLost
    <2> SUFFICES ASSUME stage = "done", StartsWithHeader, NEW x \in NonBlanks, text[x].c # "#"
                 PROVE  \E c \in Fragments : x \in Range(c.text)
        BY DEF NothingLost
    <2>1. AllHeld(chunks) /\ x \in 1..n /\ ~BlankAt(x)
        BY <1>1 DEF HoldsInv, NonBlanks
    <2>2. PICK k \in 1..L : x \in ToSet(chunks[k].text)
        BY <1>1, <1>2, <2>1 DEF AllHeld, HeldBy
    <2>3. PICK c : c = chunks[k] /\ c \in Fragments
        BY <1>2 DEF Fragments
    <2> QED
        BY <2>2, <2>3, RangeIsSet
<1>4. FragmentsAreBounded
    <2> SUFFICES ASSUME Cuts, NEW c \in Fragments
                 PROVE  \/ c.head = <<>> /\ Len(FullText(c)) <= file.size + file.overlap
                        \/ \E t \in Tables :
                             /\ c.head = Heading(t)
                             /\ Len(FullText(c)) <= file.size + file.overlap + Len(Heading(t)) + 1
        BY DEF FragmentsAreBounded
    <2>1. IsFragment(c, Most)
        BY <1>2 DEF Fragments, HoldsInv
    <2>2. IsList(c.text) /\ Len(c.text) <= file.size + file.overlap
        BY <2>1 DEF IsFragment, Most
    <2>3. PICK most \in Nat : most = file.size + file.overlap
        BY FileSizes DEF HoldsInv, Sizes
    <2>4. PICK l \in Nat : l = Len(c.text)
        BY <2>2, ListLength
    <2>5. CASE c.head = <<>>
        BY <2>2, <2>5 DEF FullText
    <2>6. CASE c.head # <<>>
        <3>1. PICK t \in Tables : c.head = Heading(t)
            BY <2>1, <2>6 DEF IsFragment, Headed
        <3>2. IsList(Heading(t))
            BY <1>1, <3>1, HeadingList
        <3>3. PICK h \in Nat : h = Len(Heading(t))
            BY <3>2, ListLength
        <3>4. PICK head : head = Heading(t)
            OBVIOUS
        <3>5. PICK one : one = <<0>> /\ IsList(one) /\ Len(one) = 1
            BY Single
        <3>6. PICK top : top = head \o one
            OBVIOUS
        <3>7. IsList(top) /\ Len(top) = Len(head) + Len(one)
            <4>1. IsList(head) /\ IsList(one)
                BY <3>2, <3>4, <3>5
            <4> QED
                BY <3>6, <4>1, JoinedList
        <3>8. Len(top) = h + 1
            BY <3>3, <3>4, <3>5, <3>7
        <3>9. PICK kept : kept = c.text /\ IsList(kept) /\ Len(kept) = l
            BY <2>2, <2>4
        <3>10. Len(top \o kept) = Len(top) + Len(kept)
            BY <3>7, <3>9, JoinedList
        <3>11. Len(top \o kept) = (h + 1) + l
            BY <3>8, <3>9, <3>10
        <3>12. FullText(c) = top \o kept
            BY <2>6, <3>1, <3>4, <3>5, <3>6, <3>9 DEF FullText
        <3>13. l <= most
            BY <2>2, <2>3, <2>4
        <3>14. (h + 1) + l <= (most + h) + 1
            BY <3>13
        <3>15. Len(FullText(c)) <= (most + h) + 1
            BY <3>11, <3>12, <3>14
        <3> QED
            BY <2>3, <3>1, <3>3, <3>15
    <2> QED
        BY <2>5, <2>6
<1> QED
    BY <1>3, <1>4 DEF FragmentsHoldTheText

\* Chunker, whatever the format, the strategy, the size, the overlap and the text:
\* every character that is not blank is in a fragment - above the body of a mail, those
\* of its header, which every fragment repeats - and where the code cuts what is too
\* long no fragment is longer than the size and the overlap together, the header of the
\* table that it starts in, and the newline below it, apart.
THEOREM FragmentsHold == Spec => []FragmentsHoldTheText
<1>1. Spec => []HoldsInv
    BY HoldsInit, HoldsInvNext, PTL DEF Spec
<1> QED
    BY <1>1, HoldsInvTrue, PTL
=============================================================================
