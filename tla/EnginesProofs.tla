----------------------------- MODULE EnginesProofs -----------------------------
(***************************************************************************)
(* What the search finds in the two engines, for any number of files,      *)
(* fragments, versions and scenarios, and any names, rankings and weights. *)
(*                                                                         *)
(* The properties of the engines are not inductive.  IInv adds to them     *)
(* what the interleaving of the worker and the console can disturb:        *)
(*                                                                         *)
(*   Shape        an epoch never runs ahead; a job that erases has a row   *)
(*                to erase, one that creates has nothing to clean.         *)
(*   Unknown      a file that was never indexed has no fragment in any     *)
(*                index and in any backup, so that the first job of a      *)
(*                file may leave the cleaning out.                         *)
(*   Progress     what the engines hold of a file at each stage of its     *)
(*                job.  It is needed between the writes, where no row      *)
(*                speaks of the file yet.                                  *)
(*   RowIsTrue    what they hold once the row is written.                  *)
(*   InLowerCase  OpenSearch and the backups made of it know no capitals.  *)
(*   Deleting     a delete that no job came across has erased what it      *)
(*                said, half by half.                                      *)
(*                                                                         *)
(* Progress and RowIsTrue speak of the files whose names agree, and of     *)
(* those that the console has not touched since: without either, the       *)
(* properties are false, and Engines says so next to each.                 *)
(*                                                                         *)
(* The retrieval of a question is a function of its rankings: Asked says   *)
(* only that, and the lemmas on the fusion and on the lot do the rest, by  *)
(* induction over the rankings.                                            *)
(***************************************************************************)
EXTENDS Engines, FiniteSetTheorems, SequenceTheorems, WellFoundedInduction, TLAPS

(* Induction. *)

\* Induction over the natural numbers, stated with a set so that the provers can
\* use it: a least number outside S would have its predecessor in S.
LEMMA NatSetInduction ==
    ASSUME NEW S, 0 \in S, \A n \in Nat : n \in S => n + 1 \in S
    PROVE  Nat \subseteq S
<1> DEFINE T == Nat \ S
<1> SUFFICES ASSUME T # {} PROVE FALSE
    OBVIOUS
<1>1. IsWellFoundedOn(OpToRel(<, Nat), Nat)
    BY NatLessThanWellFounded
<1>2. \E x \in T : \A y \in T : ~(<<y, x>> \in OpToRel(<, Nat))
    BY <1>1, WFMin, Zenon
<1>3. \A x, y \in Nat : y < x => <<y, x>> \in OpToRel(<, Nat)
    BY DEF OpToRel
<1>4. PICK x \in T : \A y \in T : ~(y < x)
    BY <1>2, <1>3
<1>5. x # 0 /\ x - 1 \in Nat
    BY <1>4
<1>6. x - 1 \in S
    BY <1>4, <1>5
<1>7. QED
    BY <1>4, <1>5, <1>6

\* f begins with c and follows the step functions up to L.
Recursive(f, c, L, step) == f[0] = c /\ \A n \in 1..L : f[n] = step[n][f[n - 1]]

\* A function can be defined by recursion on an interval, one step function for each
\* number of the interval.
LEMMA RecursionExists ==
    ASSUME NEW T, NEW c \in T, NEW L \in Nat, NEW step \in [1..L -> [T -> T]]
    PROVE  \E f \in [0..L -> T] : Recursive(f, c, L, step)
<1> DEFINE Fits(g, n) == g[0] = c /\ \A i \in 1..n : g[i] = step[i][g[i - 1]]
           Good == {n \in Nat : n <= L => \E g \in [0..n -> T] : Fits(g, n)}
<1>1. 0 \in Good
    <2> DEFINE g == [i \in 0..0 |-> c]
    <2>1. g \in [0..0 -> T] /\ Fits(g, 0)
        OBVIOUS
    <2>2. QED
        BY <2>1
<1>2. ASSUME NEW n \in Nat, n \in Good PROVE n + 1 \in Good
    <2> SUFFICES ASSUME n + 1 <= L PROVE \E g \in [0..(n + 1) -> T] : Fits(g, n + 1)
        OBVIOUS
    <2>1. PICK g \in [0..n -> T] : Fits(g, n)
        <3>1. n <= L
            OBVIOUS
        <3>2. QED
            BY <1>2, <3>1
    <2> DEFINE h == [i \in 0..(n + 1) |-> IF i = n + 1 THEN step[n + 1][g[n]] ELSE g[i]]
    <2>2. h \in [0..(n + 1) -> T]
        OBVIOUS
    <2>3. Fits(h, n + 1)
        BY <2>1
    <2>4. QED
        BY <2>2, <2>3
<1>3. L \in Good
    <2> HIDE DEF Good
    <2>1. QED
        BY <1>1, <1>2, NatSetInduction
<1>4. QED
    BY <1>3 DEF Recursive

-----------------------------------------------------------------------------
(* Names. *)

\* A name that the treatments leave as it is: in lower case, of characters that are
\* kept, not too long, and not begun by a digit or a dash.
Plain(n) ==
    /\ n \in Seq(Kept \ Capitals)
    /\ Len(n) \in 1..MaxName
    /\ n[1] \notin Numerals \cup {"-"}

\* Filtering a name of kept characters changes nothing.
LEMMA FilteredKeeps ==
    ASSUME NEW n \in Seq(Kept)
    PROVE  Filtered(n) = n
<1>1. PICK L \in Nat : L = Len(n) /\ DOMAIN n = 1..L
    BY LenProperties
<1>2. \A m \in 1..L : n[m] \in Kept
    BY <1>1, ElementOfSeq
<1>3. PICK e \in Seq(Kept) : e = <<>>
    BY EmptySeq
<1> DEFINE F(g) == [m \in 0..L |->
                       IF m = 0 THEN e
                       ELSE IF n[m] \in Kept THEN Append(g[m - 1], n[m]) ELSE g[m - 1]]
           upto == CHOOSE g : g = F(g)
<1>4. PICK f : f = [m \in 0..L |-> SubSeq(n, 1, m)]
    OBVIOUS
<1>5. f[0] = e /\ \A m \in 1..L : f[m] = Append(f[m - 1], n[m])
    <2>1. SubSeq(n, 1, 0) = e
        BY <1>3, SubSeqEmpty
    <2>2. ASSUME NEW m \in 1..L PROVE SubSeq(n, 1, m) = Append(SubSeq(n, 1, m - 1), n[m])
        <3>1. PICK a, b : a = SubSeq(n, 1, m) /\ b = SubSeq(n, 1, m - 1)
            OBVIOUS
        <3>2. a \in Seq(Kept) /\ Len(a) = m /\ \A i \in 1..m : a[i] = n[i]
            BY <1>1, <1>2, <3>1, SubSeqProperties
        <3>3. b \in Seq(Kept) /\ Len(b) = m - 1 /\ \A i \in 1..(m - 1) : b[i] = n[i]
            BY <1>1, <1>2, <3>1, SubSeqProperties
        <3>4. PICK c \in Seq(Kept) : c = Append(b, n[m])
            BY <1>2, <3>3, AppendProperties
        <3>5. Len(c) = m /\ \A i \in 1..m : c[i] = a[i]
            BY <1>2, <3>2, <3>3, <3>4, AppendProperties
        <3>6. a = c
            BY <3>2, <3>4, <3>5, SeqEqual
        <3>7. QED
            BY <3>1, <3>4, <3>6
    <2>3. f[0] = e
        BY <1>4, <2>1
    <2>4. ASSUME NEW m \in 1..L PROVE f[m] = Append(f[m - 1], n[m])
        <3>1. m \in 0..L /\ m - 1 \in 0..L
            OBVIOUS
        <3>2. f[m] = SubSeq(n, 1, m) /\ f[m - 1] = SubSeq(n, 1, m - 1)
            BY <1>4, <3>1, Zenon
        <3>3. QED
            BY <2>2, <3>2, Zenon
    <2>5. QED
        BY <2>3, <2>4
<1>6. f = F(f)
    <2>1. ASSUME NEW m \in 0..L PROVE f[m] = F(f)[m]
        <3>1. CASE m = 0
            BY <1>5, <3>1
        <3>2. CASE m # 0
            <4>1. m \in 1..L
                BY <3>2
            <4>2. f[m] = Append(f[m - 1], n[m]) /\ n[m] \in Kept
                BY <1>2, <1>5, <4>1
            <4>3. QED
                BY <3>2, <4>2
        <3>3. QED
            BY <3>1, <3>2
    <2>2. QED
        BY <1>4, <2>1
<1>7. upto = F(upto)
    BY <1>6
<1>8. Filtered(n) = upto[L]
    BY <1>1, <1>3 DEF Filtered
<1> HIDE DEF upto
<1>9. /\ upto[0] = e
      /\ \A m \in 1..L : upto[m] = Append(upto[m - 1], n[m])
    <2>1. upto[0] = e
        BY <1>7
    <2>2. ASSUME NEW m \in 1..L PROVE upto[m] = Append(upto[m - 1], n[m])
        <3>1. m \in 0..L /\ m # 0 /\ n[m] \in Kept
            BY <1>2
        <3>2. QED
            BY <1>7, <3>1
    <2>3. QED
        BY <2>1, <2>2
<1>10. PICK Agree : Agree = {m \in Nat : m <= L => upto[m] = f[m]}
    OBVIOUS
<1>11. 0 \in Agree
    BY <1>5, <1>9, <1>10
<1>12. ASSUME NEW m \in Nat, m \in Agree PROVE m + 1 \in Agree
    <2> SUFFICES ASSUME m + 1 <= L PROVE upto[m + 1] = f[m + 1]
        BY <1>10
    <2>1. upto[m] = f[m] /\ m + 1 \in 1..L /\ (m + 1) - 1 = m
        BY <1>10, <1>12
    <2>2. QED
        BY <1>5, <1>9, <2>1
<1>13. L \in Agree
    BY <1>11, <1>12, NatSetInduction
<1>14. SubSeq(n, 1, L) = n
    BY <1>1, SubSeqFull
<1>15. QED
    BY <1>4, <1>8, <1>10, <1>13, <1>14

\* The treatments leave a plain name as it is.
LEMMA PlainIsKept ==
    ASSUME NEW n, Plain(n)
    PROVE  Cleared(n) = n /\ LowerName(n) = n /\ n # <<>>
<1>1. n \in Seq(Kept)
    BY SeqMonotonic DEF Plain
<1>2. DOMAIN n = 1..Len(n) /\ Len(n) \in Nat /\ n[1] \in Kept /\ \A i \in DOMAIN n : n[i] \in Kept \ Capitals
    BY ElementOfSeq, LenProperties DEF Plain
<1>3. "space" \notin Kept
    BY DEF Kept, Capitals, Numerals
<1>4. [i \in DOMAIN n |-> IF n[i] = "space" THEN "_" ELSE n[i]] = n
    <2>1. \A i \in DOMAIN n : (IF n[i] = "space" THEN "_" ELSE n[i]) = n[i]
        BY <1>2, <1>3
    <2>2. n = [i \in DOMAIN n |-> n[i]]
        BY <1>1
    <2>3. QED
        BY <2>1, <2>2
<1>5. SubSeq(n, 1, Len(n)) = n
    BY <1>1, SubSeqFull
<1>6. n # <<>> /\ Len(n) <= MaxName /\ ~(Len(n) > MaxName) /\ Head(n) = n[1]
    BY <1>1, <1>2, NameAssumption DEF Plain
<1>7. Cleared(n) = n
    BY <1>1, <1>4, <1>5, <1>6, FilteredKeeps DEF Cleared, Plain
<1>8. LowerName(n) = n
    BY <1>1, <1>2 DEF LowerName, LowerChar
<1>9. QED
    BY <1>6, <1>7, <1>8

\* Of an instance with such a name that watches its own folder, all names are one.
LEMMA PlainIsHome ==
    ASSUME NEW instance, ~instance.multi, Plain(instance.name), NEW folder
    PROVE  /\ Derived(instance, folder) = instance.name
           /\ WriteQdrant(instance, folder) = instance.name
           /\ WriteOpenSearch(instance, folder) = instance.name
           /\ ReadQdrant(instance) = instance.name
           /\ ReadOpenSearch(instance) = instance.name
<1>1. /\ Cleared(instance.name) = instance.name /\ LowerName(instance.name) = instance.name
      /\ instance.name # <<>>
    BY PlainIsKept
<1>2. Derived(instance, folder) = instance.name
    BY <1>1 DEF Derived, OrDefault, Routed, Default
<1>3. QED
    BY <1>1, <1>2 DEF WriteQdrant, WriteOpenSearch, Stored, ReadQdrant, ReadOpenSearch

-----------------------------------------------------------------------------
(* The inductive invariant. *)

\* The domains. The engines are functions from names, and need no more.
TypeOK ==
    /\ scenario \in Scenarios
    /\ \A n \in DOMAIN opensearch :
          DOMAIN opensearch[n] = {"made", "docs"} /\ opensearch[n].made \in BOOLEAN
    /\ version \in [Docs -> Nat] /\ row \in [Docs -> [version: Nat, epoch: Nat]]
    /\ epoch \in Nat
    /\ job = NoJob \/ job \in Job
    /\ call # NoCall => DOMAIN call = {"kind", "name", "stage", "ok", "alone"}

\* Dates do not run ahead; a job that erases has a row to erase and a file that is
\* gone for good, one that creates has nothing to clean.
Shape ==
    /\ \A d \in Docs : row[d].epoch <= epoch
    /\ job # NoJob =>
          /\ row[job.doc].epoch <= job.epoch /\ job.epoch <= epoch
          /\ job.version = 0 =>
               /\ version[job.doc] = 0 /\ row[job.doc].version # 0
               /\ job.stage \in {"clean_qdrant", "clean_opensearch", "row"}
          /\ row[job.doc].version = 0 => job.stage \notin {"clean_qdrant", "clean_opensearch"}

\* A file that was never indexed is nowhere.
Nowhere(d) ==
    /\ \A n \in DOMAIN qdrant : Of(d, qdrant[n]) = {}
    /\ \A n \in DOMAIN opensearch : Of(d, opensearch[n].docs) = {}
    /\ \A b \in backups : Of(d, b.points) = {}
\* The job of the file writes its fragments, or has written them.
Writing(d) == Touched(d) /\ job.stage \in {"write_opensearch", "row"}
\* A file without a row is nowhere, before its first job has written; one that
\* was removed does not come back.
Unknown ==
    \A d \in Docs :
        row[d].version = 0 /\ (version[d] # 0 \/ Touched(d)) /\ ~Writing(d) => Nowhere(d)

\* What each engine holds of a file, where the pipeline writes it.
GoneQ(d) == CollectionOf(d) \in DOMAIN qdrant => Of(d, qdrant[CollectionOf(d)]) = {}
GoneO(d) ==
    IndexOf(d) \in DOMAIN opensearch /\ opensearch[IndexOf(d)].made
        => Of(d, opensearch[IndexOf(d)].docs) = {}
\* Both halves of the index of a file exist.
Opened(d) == CollectionOf(d) \in DOMAIN qdrant /\ IndexOf(d) \in DOMAIN opensearch
\* They hold its version v and nothing else of it; an index that an import made
\* has other mappings, and is not spoken of.
ThereQ(d, v) == Versions(qdrant[CollectionOf(d)], d) = Fragments(d, v)
ThereO(d, v) ==
    opensearch[IndexOf(d)].made => Versions(opensearch[IndexOf(d)].docs, d) = Fragments(d, v)

\* What the engines hold of the file of a job j, by the stage that comes next.
Far(j) ==
    LET d == j.doc IN
    /\ j.stage = "clean_opensearch" => GoneQ(d)
    /\ j.stage \in {"open", "write_qdrant"} => GoneQ(d) /\ GoneO(d)
    /\ j.stage = "write_qdrant" => Opened(d)
    /\ j.stage = "write_opensearch" => Opened(d) /\ ThereQ(d, j.version) /\ GoneO(d)
    /\ j.stage = "row" =>
         IF j.version = 0 THEN GoneQ(d) /\ GoneO(d)
         ELSE Opened(d) /\ ThereQ(d, j.version) /\ ThereO(d, j.version)

\* How far the job is, unless the console came in between.
Progress == job # NoJob /\ job.epoch = epoch /\ Agreed(job.doc) => Far(job)

\* What the row of a file says, unless the console came in between.
RowTrue(d) ==
    Agreed(d) /\ row[d].epoch = epoch =>
        /\ row[d].version # 0 => Opened(d)
        /\ ~Touched(d) =>
             IF row[d].version = 0 THEN GoneQ(d) /\ GoneO(d)
             ELSE ThereQ(d, row[d].version) /\ ThereO(d, row[d].version)
RowIsTrue == \A d \in Docs : RowTrue(d)

\* OpenSearch knows lower case only.
InLowerCase ==
    /\ \A n \in DOMAIN opensearch : LowerName(n) = n
    /\ \A b \in backups : b.engine # "qdrant" => LowerName(b.name) = b.name

\* A delete that no job came across: what it has erased so far stays erased.
Deleting ==
    call # NoCall /\ call.alone =>
        /\ job = NoJob
        /\ call.kind = "delete" /\ call.ok =>
             /\ call.stage \in {"opensearch", "done"} => call.name \notin DOMAIN qdrant
             /\ call.stage = "done" => {call.name, LowerName(call.name)} \cap DOMAIN opensearch = {}

\* The inductive invariant.
IInv == TypeOK /\ Shape /\ Unknown /\ Progress /\ RowIsTrue /\ InLowerCase /\ Deleting

-----------------------------------------------------------------------------
(* Points. *)

\* Writing the fragments of one file leaves those of the others, and makes the
\* file whole when it had none.
LEMMA OverPoints ==
    ASSUME NEW f, NEW d, NEW e, NEW v
    PROVE  /\ d # e => /\ Of(d, Over(f, Fragments(e, v))) = Of(d, f)
                       /\ Versions(Over(f, Fragments(e, v)), d) = Versions(f, d)
           /\ Of(d, f) = {} => Versions(Over(f, Fragments(d, v)), d) = Fragments(d, v)
<1> DEFINE F == Fragments(e, v)
           g == Over(f, F)
<1>1. \A x \in DOMAIN F : x[1] = e
    BY DEF Fragments
<1>2. DOMAIN g = DOMAIN f \cup DOMAIN F /\ \A x \in DOMAIN g : g[x] = IF x \in DOMAIN F THEN F[x] ELSE f[x]
    BY DEF Over
<1>3. ASSUME d # e PROVE Of(d, g) = Of(d, f) /\ \A x \in Of(d, f) : g[x] = f[x]
    BY <1>1, <1>2, <1>3 DEF Of
<1>4. ASSUME d # e PROVE Versions(g, d) = Versions(f, d)
    BY <1>3, <1>4 DEF Versions
<1>5. ASSUME Of(d, f) = {} PROVE Versions(Over(f, Fragments(d, v)), d) = Fragments(d, v)
    <2> DEFINE D == Fragments(d, v)
               h == Over(f, D)
    <2>1. D = [x \in DOMAIN D |-> D[x]] /\ \A x \in DOMAIN D : x[1] = d
        BY DEF Fragments
    <2>2. DOMAIN h = DOMAIN f \cup DOMAIN D /\ \A x \in DOMAIN D : h[x] = D[x]
        BY DEF Over
    <2> HIDE DEF D, h
    <2>3. Of(d, h) = DOMAIN D
        BY <1>5, <2>1, <2>2 DEF Of
    <2>4. Versions(h, d) = [x \in DOMAIN D |-> D[x]]
        BY <2>2, <2>3 DEF Versions
    <2>5. QED
        BY <2>1, <2>4 DEF D, h
<1>6. QED
    BY <1>3, <1>4, <1>5

\* Erasing the fragments of one file leaves those of the others.
LEMMA WithoutPoints ==
    ASSUME NEW f, NEW d, NEW e
    PROVE  /\ d # e => /\ Of(d, Without(f, Of(e, f))) = Of(d, f)
                       /\ Versions(Without(f, Of(e, f)), d) = Versions(f, d)
           /\ Of(d, Without(f, Of(d, f))) = {}
<1>1. ASSUME d # e PROVE /\ Of(d, Without(f, Of(e, f))) = Of(d, f)
                         /\ \A x \in Of(d, f) : Without(f, Of(e, f))[x] = f[x]
    BY <1>1 DEF Of, Without
<1>2. Of(d, Without(f, Of(d, f))) = {}
    BY DEF Of, Without
<1>3. QED
    BY <1>1, <1>2 DEF Versions

\* An empty index has no fragment of anything.
LEMMA NoPoints == \A d : Of(d, NoFragments) = {}
    BY DEF Of, NoFragments

\* Lower case twice is lower case once.
LEMMA LowerTwice == \A n : LowerName(LowerName(n)) = LowerName(n)
<1> SUFFICES ASSUME NEW n PROVE LowerName(LowerName(n)) = LowerName(n)
    OBVIOUS
<1>1. \A c : LowerChar(LowerChar(c)) = LowerChar(c)
    BY DEF LowerChar, Capitals
<1>2. DOMAIN LowerName(n) = DOMAIN n /\ \A i \in DOMAIN n : LowerName(n)[i] = LowerChar(n[i])
    BY DEF LowerName
<1>3. LowerName(LowerName(n)) = [i \in DOMAIN n |-> LowerChar(LowerName(n)[i])]
    BY <1>2 DEF LowerName
<1>4. LowerName(LowerName(n)) = [i \in DOMAIN n |-> LowerChar(n[i])]
    BY <1>1, <1>2, <1>3
<1>5. QED
    BY <1>4 DEF LowerName

\* No file is indexed, and both engines are empty.
LEMMA InitInv == Init => IInv
<1> SUFFICES ASSUME Init PROVE IInv
    OBVIOUS
<1>1. /\ DOMAIN opensearch = {ReadOpenSearch(Instance)} /\ DOMAIN qdrant = {ReadQdrant(Instance)}
      /\ \A n \in DOMAIN opensearch : opensearch[n] = [made |-> TRUE, docs |-> NoFragments]
      /\ \A n \in DOMAIN qdrant : qdrant[n] = NoFragments
    BY DEF Init
<1>2. \A n \in DOMAIN opensearch : opensearch[n].docs = NoFragments /\ opensearch[n].made = TRUE
    BY <1>1
<1>3. \A d \in Docs : GoneQ(d) /\ GoneO(d) /\ Nowhere(d)
    BY <1>1, <1>2, NoPoints DEF Init, GoneQ, GoneO, Nowhere
<1>4. TypeOK
    BY <1>1, <1>2 DEF Init, TypeOK
<1>5. Shape /\ Unknown /\ Progress /\ RowIsTrue /\ Deleting
    BY <1>3 DEF Init, Shape, Unknown, Progress, RowIsTrue, RowTrue, Deleting
<1>6. InLowerCase
    BY <1>1, LowerTwice DEF Init, InLowerCase, ReadOpenSearch
<1>7. QED
    BY <1>4, <1>5, <1>6 DEF IInv
-----------------------------------------------------------------------------
\* A scenario does not change the names it gives.
LEMMA NamesSame ==
    ASSUME scenario' = scenario
    PROVE  \A d : /\ CollectionOf(d)' = CollectionOf(d) /\ IndexOf(d)' = IndexOf(d)
                  /\ Index(d)' = Index(d) /\ Agreed(d)' = Agreed(d)
    BY DEF CollectionOf, IndexOf, Index, Agreed, Instance

\* A job is never taken for the absence of one.
LEMMA JobIsNoNoJob == NoJob \notin Job
    BY EnginesAssumption

\* The domains of the fields.
LEMMA FieldsTyped ==
    TypeOK =>
        /\ \A d \in Docs : row[d].version \in Nat /\ row[d].epoch \in Nat /\ version[d] \in Nat
        /\ job # NoJob => /\ job.doc \in Docs /\ job.version \in Nat /\ job.epoch \in Nat
                          /\ job.stage \in Stages
    BY DEF TypeOK, Job

\* What a write to an index leaves there.
Written(new, name, docs) ==
    /\ DOMAIN new = DOMAIN opensearch \cup {name}
    /\ name \in DOMAIN opensearch =>
          new[name].made = opensearch[name].made /\ new[name].docs = Over(opensearch[name].docs, docs)
    /\ name \notin DOMAIN opensearch => ~new[name].made /\ new[name].docs = Over(NoFragments, docs)
    /\ \A n \in DOMAIN opensearch : n # name => new[n] = opensearch[n]
    /\ \A n \in DOMAIN new : DOMAIN new[n] = {"made", "docs"} /\ new[n].made \in BOOLEAN

\* A write keeps the mapping of the index, and makes one without it otherwise.
LEMMA IndexedTyped ==
    ASSUME TypeOK, NEW name, NEW docs
    PROVE  Written(Indexed(name, docs), name, docs)
<1> DEFINE x == Over(Found(name).docs, docs)
           r == [Found(name) EXCEPT !.docs = x]
<1>1. DOMAIN Found(name) = {"made", "docs"} /\ Found(name).made \in BOOLEAN
    BY DEF Found, Index0, TypeOK
<1>2. DOMAIN r = {"made", "docs"} /\ r.made = Found(name).made /\ r.docs = x
    BY <1>1
<1>3. Indexed(name, docs) = With(opensearch, name, r)
    BY DEF Indexed
<1> HIDE DEF r
<1>4. QED
    BY <1>1, <1>2, <1>3 DEF With, Found, Index0, TypeOK, Written

\* The worker keeps the domains.
LEMMA WorkerTyped == TypeOK /\ Worker => TypeOK'
<1> SUFFICES ASSUME TypeOK, Worker PROVE TypeOK'
    OBVIOUS
<1> USE DEF TypeOK, Job, Stages
<1>1. ASSUME NEW d \in Docs, Start(d) PROVE TypeOK'
    BY <1>1 DEF Start, files, engines
<1>2. CASE CleanQdrant
    BY <1>2 DEF CleanQdrant, Stage, Fails, files, engines
<1>3. CASE CleanOpenSearch
    <2>1. \A n \in DOMAIN opensearch' :
            DOMAIN opensearch'[n] = {"made", "docs"} /\ opensearch'[n].made \in BOOLEAN
        <3>1. CASE UNCHANGED opensearch
            BY <3>1
        <3>2. ASSUME NEW k \in DOMAIN opensearch, NEW x,
                     opensearch' = [opensearch EXCEPT ![k].docs = x]
              PROVE  \A n \in DOMAIN opensearch' :
                        DOMAIN opensearch'[n] = {"made", "docs"} /\ opensearch'[n].made \in BOOLEAN
            BY <3>2
        <3>3. QED
            BY <1>3, <3>1, <3>2 DEF CleanOpenSearch
    <2>2. QED
        BY <1>3, <2>1 DEF CleanOpenSearch, Stage, Fails, files, engines
<1>4. CASE Open
    <2>1. \A n \in DOMAIN opensearch' :
            DOMAIN opensearch'[n] = {"made", "docs"} /\ opensearch'[n].made \in BOOLEAN
        BY <1>4 DEF Open, InitOpenSearch, With
    <2>2. QED
        BY <1>4, <2>1 DEF Open, Stage, Fails, files, engines
<1>5. CASE UpsertQdrant
    BY <1>5 DEF UpsertQdrant, Stage, Fails, files, engines
<1>6. CASE BulkOpenSearch
    <2>1. \A n \in DOMAIN opensearch' :
            DOMAIN opensearch'[n] = {"made", "docs"} /\ opensearch'[n].made \in BOOLEAN
        <3>1. Written(opensearch', IndexOf(job.doc), Fragments(job.doc, job.version))
            BY <1>6, IndexedTyped DEF BulkOpenSearch
        <3>2. QED
            BY <3>1 DEF Written
    <2>2. QED
        BY <1>6, <2>1 DEF BulkOpenSearch, Stage, Fails, files, engines
<1>7. CASE WriteRow
    BY <1>7 DEF WriteRow, files, engines
<1>8. QED
    BY <1>1, <1>2, <1>3, <1>4, <1>5, <1>6, <1>7 DEF Worker

\* So does the console.
LEMMA ConsoleTyped == TypeOK /\ Console => TypeOK'
<1> SUFFICES ASSUME TypeOK, Console PROVE TypeOK'
    OBVIOUS
<1> USE DEF TypeOK
<1>1. ASSUME NEW kind, NEW name, AskConsole(kind, name) PROVE TypeOK'
    BY <1>1 DEF AskConsole, Begin, files, engines
<1>2. CASE DeleteFromQdrant
    <2>1. DOMAIN call' = DOMAIN call /\ call # NoCall
        BY <1>2 DEF DeleteFromQdrant, Then
    <2>2. QED
        BY <1>2, <2>1 DEF DeleteFromQdrant, files, engines
<1>3. CASE DeleteFromOpenSearch
    <2>1. DOMAIN call' = DOMAIN call /\ call # NoCall
        BY <1>3 DEF DeleteFromOpenSearch, Done
    <2>2. \A n \in DOMAIN opensearch' : n \in DOMAIN opensearch /\ opensearch'[n] = opensearch[n]
        BY <1>3 DEF DeleteFromOpenSearch, Without
    <2>3. QED
        BY <1>3, <2>1, <2>2 DEF DeleteFromOpenSearch, files, engines
<1>4. CASE ExportQdrant
    BY <1>4 DEF ExportQdrant, Then, files, engines
<1>5. CASE ExportOpenSearch
    BY <1>5 DEF ExportOpenSearch, Done, files, engines
<1>6. ASSUME NEW b \in backups, Import(b) PROVE TypeOK'
    <2>1. \A n \in DOMAIN opensearch' :
            DOMAIN opensearch'[n] = {"made", "docs"} /\ opensearch'[n].made \in BOOLEAN
        <3>1. Written(opensearch', b.name, b.points) \/ opensearch' = opensearch
            BY <1>6, IndexedTyped DEF Import
        <3>2. QED
            BY <3>1 DEF Written
    <2>2. QED
        BY <1>6, <2>1 DEF Import, files, engines
<1>7. QED
    BY <1>1, <1>2, <1>3, <1>4, <1>5, <1>6 DEF Console

\* So does every step.
LEMMA StepTyped == TypeOK /\ [Next]_vars => TypeOK'
<1> SUFFICES ASSUME TypeOK, [Next]_vars PROVE TypeOK'
    OBVIOUS
<1>1. ASSUME NEW d \in Docs, NEW v \in 0..scenario.changes, Change(d, v) PROVE TypeOK'
    <2>1. v \in Nat
        BY EnginesAssumption DEF TypeOK
    <2>2. version' \in [Docs -> Nat]
        BY <1>1, <2>1 DEF Change, TypeOK
    <2>3. QED
        BY <1>1, <2>2 DEF Change, TypeOK, files, engines
<1>2. CASE Query \/ Rerank
    BY <1>2 DEF Query, Rerank, TypeOK, files, engines
<1>3. CASE UNCHANGED vars
    BY <1>3 DEF vars, files, engines, TypeOK
<1>4. QED
    BY <1>1, <1>2, <1>3, WorkerTyped, ConsoleTyped DEF Next

\* A job that goes on keeps its file, its version and its date.
GoesOn ==
    /\ job # NoJob /\ job' # NoJob
    /\ job'.doc = job.doc /\ job'.version = job.version /\ job'.epoch = job.epoch

\* A change of stage keeps the file, the version and the epoch of the job.
LEMMA StageKeeps ==
    ASSUME TypeOK, job # NoJob, NEW s \in Stages, Stage(s)
    PROVE  GoesOn /\ job'.stage = s
<1>1. job \in Job
    BY DEF TypeOK
<1>2. /\ job' \in Job /\ job'.doc = job.doc /\ job'.version = job.version
      /\ job'.epoch = job.epoch /\ job'.stage = s
    BY <1>1 DEF Stage, Job
<1>3. QED
    BY <1>2, JobIsNoNoJob DEF GoesOn

\* From one stage to the next, or the job fails.
LEMMA WorkerMoves ==
    ASSUME TypeOK, CleanQdrant \/ CleanOpenSearch \/ Open \/ UpsertQdrant \/ BulkOpenSearch
    PROVE  /\ UNCHANGED <<scenario, version, row, epoch, call, backups>>
           /\ job # NoJob
           /\ \/ job' = NoJob
              \/ /\ GoesOn
                 /\ CleanQdrant => job.stage = "clean_qdrant" /\ job'.stage = "clean_opensearch"
                 /\ CleanOpenSearch =>
                      /\ job.stage = "clean_opensearch"
                      /\ job'.stage = IF job.version = 0 THEN "row" ELSE "open"
                 /\ Open =>
                      /\ job.stage = "open"
                      /\ job'.stage = IF PartCount[job.doc][job.version] = 0 THEN "row" ELSE "write_qdrant"
                 /\ UpsertQdrant => job.stage = "write_qdrant" /\ job'.stage = "write_opensearch"
                 /\ BulkOpenSearch => job.stage = "write_opensearch" /\ job'.stage = "row"
<1> USE DEF Stages
<1>1. CASE CleanQdrant
    BY <1>1, StageKeeps DEF CleanQdrant, Fails, CleanOpenSearch, Open, UpsertQdrant, BulkOpenSearch, files, engines
<1>2. CASE CleanOpenSearch
    BY <1>2, StageKeeps DEF CleanQdrant, Fails, CleanOpenSearch, Open, UpsertQdrant, BulkOpenSearch, files, engines
<1>3. CASE Open
    BY <1>3, StageKeeps DEF CleanQdrant, Fails, CleanOpenSearch, Open, UpsertQdrant, BulkOpenSearch, files, engines
<1>4. CASE UpsertQdrant
    BY <1>4, StageKeeps DEF CleanQdrant, Fails, CleanOpenSearch, Open, UpsertQdrant, BulkOpenSearch, files, engines
<1>5. CASE BulkOpenSearch
    BY <1>5, StageKeeps DEF CleanQdrant, Fails, CleanOpenSearch, Open, UpsertQdrant, BulkOpenSearch, files, engines
<1>6. QED
    BY <1>1, <1>2, <1>3, <1>4, <1>5

\* Shape is kept: Start is given what it says by the row, WriteRow gives the row
\* what the job says.
LEMMA ShapeStep == TypeOK /\ Shape /\ [Next]_vars => Shape'
<1> SUFFICES ASSUME TypeOK, Shape, [Next]_vars PROVE Shape'
    OBVIOUS
<1>0. /\ \A d \in Docs : row[d].version \in Nat /\ row[d].epoch \in Nat /\ version[d] \in Nat
      /\ epoch \in Nat
      /\ job # NoJob => /\ job.doc \in Docs /\ job.version \in Nat /\ job.epoch \in Nat
                        /\ job.stage \in Stages
    BY FieldsTyped DEF TypeOK
<1> USE <1>0 DEF Shape
<1>1. ASSUME NEW d \in Docs, Start(d) PROVE Shape'
    <2>1. /\ job'.doc = d /\ job'.version = version[d] /\ job'.epoch = epoch
          /\ job'.stage = IF row[d].version # 0 THEN "clean_qdrant" ELSE "open"
          /\ UNCHANGED <<row, epoch, version>>
        BY <1>1 DEF Start, files
    <2>2. version[d] = 0 => row[d].version # 0
        <3>1. ~(version[d] > 0) \/ version[d] # 0
            OBVIOUS
        <3>2. \/ row[d].version # version[d]
              \/ version[d] > 0
            BY <1>1 DEF Start
        <3>3. QED
            BY <3>1, <3>2
    <2>4. QED
        BY <2>1, <2>2
<1>2. CASE CleanQdrant \/ CleanOpenSearch \/ Open \/ UpsertQdrant \/ BulkOpenSearch
    <2>1. /\ UNCHANGED <<version, row, epoch>> /\ job # NoJob
          /\ \/ job' = NoJob
             \/ /\ GoesOn
                /\ job.version = 0 => job'.stage \in {"clean_qdrant", "clean_opensearch", "row"}
                /\ row[job.doc].version = 0 => job'.stage \notin {"clean_qdrant", "clean_opensearch"}
        BY <1>2, WorkerMoves
    <2>2. QED
        BY <2>1 DEF GoesOn
<1>7. CASE WriteRow
    <2>1. /\ job # NoJob /\ job.doc \in Docs /\ job.epoch <= epoch /\ job' = NoJob
          /\ UNCHANGED <<version, epoch>>
          /\ row' = [row EXCEPT ![job.doc] = [version |-> job.version, epoch |-> job.epoch]]
        BY <1>7 DEF WriteRow
    <2>2. row \in [Docs -> [version: Nat, epoch: Nat]]
        BY DEF TypeOK
    <2>3. QED
        BY <2>1, <2>2
<1>8. ASSUME NEW d \in Docs, NEW v \in 0..scenario.changes, Change(d, v) PROVE Shape'
    <2>1. ASSUME job # NoJob, job.version = 0 PROVE version'[job.doc] = 0
        <3>1. /\ version[job.doc] = 0 /\ version[d] \in Nat /\ v \in Int /\ job.doc \in Docs
              /\ version \in [Docs -> Nat]
            BY <2>1 DEF TypeOK
        <3>2. CASE job.doc = d
            <4>1. version[d] = 0 /\ version' = [version EXCEPT ![d] = v] /\ (v = 0 \/ version[d] > 0)
                BY <1>8, <3>1, <3>2 DEF Change
            <4>2. QED
                BY <4>1, <3>1, <3>2
        <3>3. CASE job.doc # d
            BY <1>8, <3>1, <3>3 DEF Change
        <3>4. QED
            BY <3>2, <3>3
    <2>2. UNCHANGED <<row, epoch, job>>
        BY <1>8 DEF Change, engines
    <2>3. QED
        BY <2>1, <2>2
<1>9. CASE Query \/ Rerank \/ UNCHANGED vars
    <2>1. UNCHANGED <<version, row, epoch, job>>
        BY <1>9 DEF Query, Rerank, files, engines, vars
    <2>2. QED
        BY <2>1
<1>10. CASE Console
    <2>1. /\ UNCHANGED <<version, row, job>>
          /\ epoch' \in {epoch, epoch + 1}
        BY <1>10 DEF Console, AskConsole, DeleteFromQdrant, DeleteFromOpenSearch, ExportQdrant,
           ExportOpenSearch, Import, files, engines
    <2>2. \A n \in Nat : n <= epoch => n <= epoch'
        BY <2>1
    <2>3. QED
        BY <2>1, <2>2
<1>11. QED
    BY <1>1, <1>2, <1>7, <1>8, <1>9, <1>10 DEF Next, Worker

\* Names.
LEMMA LowerStep == TypeOK /\ InLowerCase /\ [Next]_vars => InLowerCase'
<1> SUFFICES ASSUME TypeOK, InLowerCase, [Next]_vars PROVE InLowerCase'
    OBVIOUS
<1> USE LowerTwice DEF InLowerCase
<1>1. ASSUME NEW d \in Docs, Start(d) PROVE InLowerCase'
    BY <1>1 DEF Start, files, engines
<1>2. CASE CleanQdrant \/ UpsertQdrant \/ WriteRow
    BY <1>2 DEF CleanQdrant, UpsertQdrant, WriteRow, files, engines
<1>3. CASE CleanOpenSearch
    BY <1>3 DEF CleanOpenSearch, files, engines
<1>4. CASE Open
    BY <1>4 DEF Open, InitOpenSearch, With, IndexOf, WriteOpenSearch
<1>5. CASE BulkOpenSearch
    BY <1>5 DEF BulkOpenSearch, Indexed, With, IndexOf, WriteOpenSearch
<1>6. ASSUME NEW d \in Docs, NEW v \in 0..scenario.changes, Change(d, v) PROVE InLowerCase'
    BY <1>6 DEF Change, engines
<1>7. CASE Query \/ Rerank \/ UNCHANGED vars
    BY <1>7 DEF Query, Rerank, files, engines, vars
<1>8. ASSUME NEW kind, NEW name, AskConsole(kind, name) PROVE InLowerCase'
    BY <1>8 DEF AskConsole, engines
<1>9. CASE DeleteFromQdrant \/ DeleteFromOpenSearch
    BY <1>9 DEF DeleteFromQdrant, DeleteFromOpenSearch, Without
<1>10. CASE ExportQdrant
    BY <1>10 DEF ExportQdrant, engines, Backup
<1>11. CASE ExportOpenSearch
    BY <1>11 DEF ExportOpenSearch, engines, Backup
<1>12. ASSUME NEW b \in backups, Import(b) PROVE InLowerCase'
    BY <1>12 DEF Import, Indexed, With
<1>13. QED
    BY <1>1, <1>2, <1>3, <1>4, <1>5, <1>6, <1>7, <1>8, <1>9, <1>10, <1>11, <1>12
       DEF Next, Worker, Console

\* Deleting is kept: a job that starts ends it, and only the delete moves it on.
LEMMA DeletingStep == TypeOK /\ Deleting /\ [Next]_vars => Deleting'
<1> SUFFICES ASSUME TypeOK, Deleting, [Next]_vars PROVE Deleting'
    OBVIOUS
<1> USE DEF Deleting
<1>1. ASSUME NEW d \in Docs, Start(d) PROVE Deleting'
    BY <1>1 DEF Start, TypeOK
<1>2. CASE CleanQdrant \/ CleanOpenSearch \/ Open \/ UpsertQdrant \/ BulkOpenSearch \/ WriteRow
    BY <1>2 DEF CleanQdrant, CleanOpenSearch, Open, UpsertQdrant, BulkOpenSearch, WriteRow
<1>3. ASSUME NEW d \in Docs, NEW v \in 0..scenario.changes, Change(d, v) PROVE Deleting'
    BY <1>3 DEF Change, engines
<1>4. CASE Query \/ Rerank \/ UNCHANGED vars
    BY <1>4 DEF Query, Rerank, files, engines, vars
<1>5. ASSUME NEW kind, NEW name, AskConsole(kind, name) PROVE Deleting'
    BY <1>5 DEF AskConsole, Begin, engines
<1>6. CASE DeleteFromQdrant
    BY <1>6 DEF DeleteFromQdrant, Without, Then, TypeOK
<1>7. CASE DeleteFromOpenSearch
    BY <1>7 DEF DeleteFromOpenSearch, Without, Done, TypeOK
<1>8. CASE ExportQdrant
    BY <1>8 DEF ExportQdrant, Then, engines, TypeOK
<1>9. CASE ExportOpenSearch
    BY <1>9 DEF ExportOpenSearch, Done, engines, TypeOK
<1>10. ASSUME NEW b \in backups, Import(b) PROVE Deleting'
    BY <1>10 DEF Import
<1>11. QED
    BY <1>1, <1>2, <1>3, <1>4, <1>5, <1>6, <1>7, <1>8, <1>9, <1>10
       DEF Next, Worker, Console

-----------------------------------------------------------------------------
(* What a step leaves as it is. *)

\* Two collections without a fragment of a file make one without.
LEMMA OverNothing ==
    ASSUME NEW f, NEW g, NEW d, Of(d, f) = {}, Of(d, g) = {}
    PROVE  Of(d, Over(f, g)) = {}
    BY DEF Of, Over

\* The points of a file are the same in every collection, new ones have none of it.
KeepsQ(d) ==
    /\ DOMAIN qdrant \subseteq DOMAIN qdrant'
    /\ \A n \in DOMAIN qdrant :
          Of(d, qdrant'[n]) = Of(d, qdrant[n]) /\ Versions(qdrant'[n], d) = Versions(qdrant[n], d)
    /\ \A n \in DOMAIN qdrant' : n \notin DOMAIN qdrant => Of(d, qdrant'[n]) = {}
\* The same of OpenSearch, with the mapping.
KeepsO(d) ==
    /\ DOMAIN opensearch \subseteq DOMAIN opensearch'
    /\ \A n \in DOMAIN opensearch :
          /\ opensearch'[n].made = opensearch[n].made
          /\ Of(d, opensearch'[n].docs) = Of(d, opensearch[n].docs)
          /\ Versions(opensearch'[n].docs, d) = Versions(opensearch[n].docs, d)
    /\ \A n \in DOMAIN opensearch' : n \notin DOMAIN opensearch => Of(d, opensearch'[n].docs) = {}

\* An engine that does not move keeps everything.
LEMMA SameKeeps ==
    ASSUME NEW d
    PROVE  (UNCHANGED qdrant => KeepsQ(d)) /\ (UNCHANGED opensearch => KeepsO(d))
    BY DEF KeepsQ, KeepsO

\* What was said of a file is still true when both engines keep it.
LEMMA KeptIsKept ==
    ASSUME UNCHANGED scenario, NEW d
    PROVE  /\ KeepsQ(d) => (GoneQ(d) => GoneQ(d)')
           /\ KeepsO(d) => (GoneO(d) => GoneO(d)')
           /\ KeepsQ(d) /\ KeepsO(d) => (Opened(d) => Opened(d)')
           /\ KeepsQ(d) /\ Opened(d) => (\A v : ThereQ(d, v) => ThereQ(d, v)')
           /\ KeepsO(d) /\ Opened(d) => (\A v : ThereO(d, v) => ThereO(d, v)')
           /\ KeepsQ(d) /\ KeepsO(d) /\ UNCHANGED backups => (Nowhere(d) => Nowhere(d)')
<1>1. CollectionOf(d)' = CollectionOf(d) /\ IndexOf(d)' = IndexOf(d)
    BY NamesSame
<1> USE <1>1
<1>2. KeepsQ(d) => (GoneQ(d) => GoneQ(d)')
    BY DEF KeepsQ, GoneQ
<1>3. KeepsO(d) => (GoneO(d) => GoneO(d)')
    BY DEF KeepsO, GoneO
<1>4. KeepsQ(d) /\ KeepsO(d) => (Opened(d) => Opened(d)')
    BY DEF KeepsQ, KeepsO, Opened
<1>5. ASSUME KeepsQ(d), Opened(d), NEW v, ThereQ(d, v) PROVE ThereQ(d, v)'
    <2>1. Versions(qdrant'[CollectionOf(d)], d) = Versions(qdrant[CollectionOf(d)], d)
        BY <1>5 DEF KeepsQ, Opened
    <2>2. Versions(qdrant[CollectionOf(d)], d)' = Versions(qdrant'[CollectionOf(d)], d)
        BY DEF Versions, Of
    <2>3. Fragments(d, v)' = Fragments(d, v)
        BY DEF Fragments
    <2>4. QED
        BY <1>5, <2>1, <2>2, <2>3 DEF ThereQ
<1>6. ASSUME KeepsO(d), Opened(d), NEW v, ThereO(d, v) PROVE ThereO(d, v)'
    <2>1. /\ Versions(opensearch'[IndexOf(d)].docs, d) = Versions(opensearch[IndexOf(d)].docs, d)
          /\ opensearch'[IndexOf(d)].made = opensearch[IndexOf(d)].made
        BY <1>6 DEF KeepsO, Opened
    <2>2. Versions(opensearch[IndexOf(d)].docs, d)' = Versions(opensearch'[IndexOf(d)].docs, d)
        BY DEF Versions, Of
    <2>3. Fragments(d, v)' = Fragments(d, v)
        BY DEF Fragments
    <2>4. QED
        BY <1>6, <2>1, <2>2, <2>3 DEF ThereO
<1>7. KeepsQ(d) /\ KeepsO(d) /\ UNCHANGED backups => (Nowhere(d) => Nowhere(d)')
    BY DEF KeepsQ, KeepsO, Nowhere
<1>8. QED
    BY <1>2, <1>3, <1>4, <1>5, <1>6, <1>7

\* Opening the index makes what is missing, empty.
LEMMA OpenKeeps ==
    ASSUME TypeOK, Open, NEW d
    PROVE  KeepsQ(d) /\ KeepsO(d)
<1>1. KeepsQ(d)
    <2>1. /\ DOMAIN qdrant' = DOMAIN qdrant \cup {CollectionOf(job.doc)}
          /\ \A n \in DOMAIN qdrant : qdrant'[n] = qdrant[n]
          /\ \A n \in DOMAIN qdrant' : n \notin DOMAIN qdrant => qdrant'[n] = NoFragments
        BY DEF Open, InitQdrant, With
    <2>2. QED
        BY <2>1, NoPoints DEF KeepsQ
<1>2. KeepsO(d)
    <2>1. /\ DOMAIN opensearch' = DOMAIN opensearch \cup {IndexOf(job.doc)}
          /\ \A n \in DOMAIN opensearch : opensearch'[n] = opensearch[n]
          /\ \A n \in DOMAIN opensearch' : n \notin DOMAIN opensearch => opensearch'[n].docs = NoFragments
        BY DEF Open, InitOpenSearch, With
    <2>2. QED
        BY <2>1, NoPoints DEF KeepsO
<1>3. QED
    BY <1>1, <1>2

\* The cleaner touches the fragments of the file of the job only.
LEMMA CleanQdrantKeeps ==
    ASSUME TypeOK, CleanQdrant, NEW d
    PROVE  /\ KeepsO(d) /\ DOMAIN qdrant' = DOMAIN qdrant
           /\ d # job.doc => KeepsQ(d)
<1> DEFINE k == Index(job.doc)
<1>1. /\ DOMAIN qdrant' = DOMAIN qdrant
      /\ \A n \in DOMAIN qdrant : qdrant'[n] = qdrant[n] \/ qdrant'[n] = Without(qdrant[n], Of(job.doc, qdrant[n]))
      /\ UNCHANGED opensearch
    BY DEF CleanQdrant
<1>2. ASSUME d # job.doc, NEW n \in DOMAIN qdrant
      PROVE Of(d, qdrant'[n]) = Of(d, qdrant[n]) /\ Versions(qdrant'[n], d) = Versions(qdrant[n], d)
    BY <1>1, <1>2, WithoutPoints
<1>3. QED
    BY <1>1, <1>2, SameKeeps DEF KeepsQ

\* So does its second half.
LEMMA CleanOpenSearchKeeps ==
    ASSUME TypeOK, CleanOpenSearch, NEW d
    PROVE  /\ KeepsQ(d) /\ DOMAIN opensearch' = DOMAIN opensearch
           /\ d # job.doc => KeepsO(d)
<1>1. /\ DOMAIN opensearch' = DOMAIN opensearch
      /\ \A n \in DOMAIN opensearch :
            /\ opensearch'[n].made = opensearch[n].made
            /\ \/ opensearch'[n].docs = opensearch[n].docs
               \/ opensearch'[n].docs = Without(opensearch[n].docs, Of(job.doc, opensearch[n].docs))
      /\ UNCHANGED qdrant
    <2>1. CASE Index(job.doc) \in DOMAIN opensearch
        <3> DEFINE k == Index(job.doc)
                   x == IF Matches(opensearch[k], job.doc)
                        THEN Without(opensearch[k].docs, Of(job.doc, opensearch[k].docs))
                        ELSE opensearch[k].docs
        <3>1. opensearch' = [opensearch EXCEPT ![k].docs = x] /\ UNCHANGED qdrant
            BY <2>1 DEF CleanOpenSearch
        <3>2. x \in {opensearch[k].docs, Without(opensearch[k].docs, Of(job.doc, opensearch[k].docs))}
            OBVIOUS
        <3>3. \A n \in DOMAIN opensearch : DOMAIN opensearch[n] = {"made", "docs"}
            BY DEF TypeOK
        <3> HIDE DEF x, k
        <3>4. QED
            BY <3>1, <3>2, <3>3
    <2>2. CASE Index(job.doc) \notin DOMAIN opensearch
        BY <2>2 DEF CleanOpenSearch
    <2>3. QED
        BY <2>1, <2>2
<1>2. ASSUME d # job.doc, NEW n \in DOMAIN opensearch
      PROVE /\ Of(d, opensearch'[n].docs) = Of(d, opensearch[n].docs)
            /\ Versions(opensearch'[n].docs, d) = Versions(opensearch[n].docs, d)
    BY <1>1, <1>2, WithoutPoints
<1>3. QED
    BY <1>1, <1>2, SameKeeps DEF KeepsO

\* The pipeline writes the fragments of the file of the job only.
LEMMA UpsertKeeps ==
    ASSUME TypeOK, UpsertQdrant, NEW d
    PROVE  /\ KeepsO(d) /\ DOMAIN qdrant' = DOMAIN qdrant
           /\ d # job.doc => KeepsQ(d)
<1>1. /\ DOMAIN qdrant' = DOMAIN qdrant
      /\ \A n \in DOMAIN qdrant :
            \/ qdrant'[n] = qdrant[n]
            \/ qdrant'[n] = Over(qdrant[n], Fragments(job.doc, job.version))
      /\ UNCHANGED opensearch
    BY DEF UpsertQdrant
<1>2. ASSUME d # job.doc, NEW n \in DOMAIN qdrant
      PROVE Of(d, qdrant'[n]) = Of(d, qdrant[n]) /\ Versions(qdrant'[n], d) = Versions(qdrant[n], d)
    BY <1>1, <1>2, OverPoints
<1>3. QED
    BY <1>1, <1>2, SameKeeps DEF KeepsQ

\* So does its second half, whether the index is there or not.
LEMMA BulkKeeps ==
    ASSUME TypeOK, BulkOpenSearch, NEW d
    PROVE  /\ KeepsQ(d) /\ DOMAIN opensearch \subseteq DOMAIN opensearch'
           /\ d # job.doc => KeepsO(d)
<1> DEFINE F == Fragments(job.doc, job.version)
           k == IndexOf(job.doc)
<1>1. /\ DOMAIN opensearch' = DOMAIN opensearch \cup {k}
      /\ k \in DOMAIN opensearch =>
            opensearch'[k].made = opensearch[k].made /\ opensearch'[k].docs = Over(opensearch[k].docs, F)
      /\ k \notin DOMAIN opensearch =>
            ~opensearch'[k].made /\ opensearch'[k].docs = Over(NoFragments, F)
      /\ \A n \in DOMAIN opensearch : n # k => opensearch'[n] = opensearch[n]
    <2>1. Written(opensearch', k, F)
        BY IndexedTyped DEF BulkOpenSearch
    <2> HIDE DEF k, F
    <2>2. QED
        BY <2>1 DEF Written
<1>2. UNCHANGED qdrant
    BY DEF BulkOpenSearch
<1>3. \A n \in DOMAIN opensearch : opensearch[n].made \in BOOLEAN
    BY DEF TypeOK
<1>4. ASSUME d # job.doc, NEW f
      PROVE Of(d, Over(f, F)) = Of(d, f) /\ Versions(Over(f, F), d) = Versions(f, d)
    BY <1>4, OverPoints
<1> HIDE DEF k, F
<1>5. ASSUME d # job.doc PROVE KeepsO(d)
    <2>1. ASSUME NEW n \in DOMAIN opensearch
          PROVE  /\ opensearch'[n].made = opensearch[n].made
                 /\ Of(d, opensearch'[n].docs) = Of(d, opensearch[n].docs)
                 /\ Versions(opensearch'[n].docs, d) = Versions(opensearch[n].docs, d)
        <3>1. CASE n = k
            <4>1. opensearch'[n].docs = Over(opensearch[n].docs, F) /\ opensearch'[n].made = opensearch[n].made
                BY <1>1, <1>3, <3>1
            <4>2. QED
                BY <4>1, <1>4, <1>5
        <3>2. CASE n # k
            BY <1>1, <3>2
        <3>3. QED
            BY <3>1, <3>2
    <2>2. ASSUME NEW n \in DOMAIN opensearch', n \notin DOMAIN opensearch
          PROVE Of(d, opensearch'[n].docs) = {}
        <3>1. n = k /\ opensearch'[n].docs = Over(NoFragments, F)
            BY <1>1, <2>2
        <3>2. QED
            BY <3>1, <1>4, <1>5, NoPoints
    <2>3. QED
        BY <1>1, <2>1, <2>2 DEF KeepsO
<1>6. QED
    BY <1>1, <1>2, <1>5, SameKeeps

-----------------------------------------------------------------------------
(* A file that was never indexed is nowhere. *)

\* A file that is nowhere is not where the pipeline writes.
LEMMA NowhereMeansGone == \A d : Nowhere(d) => GoneQ(d) /\ GoneO(d)
    BY DEF Nowhere, GoneQ, GoneO

\* Only the writes of its own job put a file somewhere.
LEMMA NowhereByWorker ==
    ASSUME TypeOK, Worker, NEW d \in Docs, Nowhere(d)
    PROVE  Nowhere(d)' \/ Writing(d)'
<1>1. ASSUME NEW e \in Docs, Start(e) PROVE Nowhere(d)'
    BY <1>1, SameKeeps, KeptIsKept DEF Start, engines
<1>2. ASSUME CleanQdrant PROVE Nowhere(d)'
    <2>1. ASSUME NEW n \in DOMAIN qdrant' PROVE n \in DOMAIN qdrant /\ Of(d, qdrant'[n]) = {}
        <3>1. n \in DOMAIN qdrant /\ Of(d, qdrant[n]) = {}
            BY <2>1, <1>2, CleanQdrantKeeps DEF Nowhere
        <3>2. qdrant'[n] = qdrant[n] \/ \E S : qdrant'[n] = Without(qdrant[n], S)
            BY <1>2, <3>1 DEF CleanQdrant
        <3>3. QED
            BY <3>1, <3>2 DEF Without, Of
    <2>2. QED
        BY <1>2, <2>1 DEF CleanQdrant, Nowhere
<1>3. ASSUME CleanOpenSearch PROVE Nowhere(d)'
    <2>1. CASE d # job.doc
        BY <1>3, <2>1, CleanOpenSearchKeeps, KeptIsKept DEF CleanOpenSearch
    <2>2. CASE d = job.doc
        <3>1. ASSUME NEW n \in DOMAIN opensearch'
              PROVE n \in DOMAIN opensearch /\ Of(d, opensearch'[n].docs) = {}
            <4>1. /\ n \in DOMAIN opensearch /\ Of(d, opensearch[n].docs) = {}
                  /\ \A m \in DOMAIN opensearch : DOMAIN opensearch[m] = {"made", "docs"}
                BY <3>1, <1>3, CleanOpenSearchKeeps DEF Nowhere, TypeOK
            <4>2. opensearch'[n].docs = opensearch[n].docs
                  \/ \E S : opensearch'[n].docs = Without(opensearch[n].docs, S)
                <5>1. ASSUME NEW k \in DOMAIN opensearch, NEW S, NEW x \in {opensearch[k].docs, Without(opensearch[k].docs, S)},
                             opensearch' = [opensearch EXCEPT ![k].docs = x]
                      PROVE <4>2!1 \/ <4>2!2
                    BY <4>1, <5>1
                <5>2. QED
                    BY <1>3, <5>1 DEF CleanOpenSearch
            <4>3. QED
                BY <4>1, <4>2 DEF Without, Of
        <3>2. QED
            BY <1>3, <3>1 DEF CleanOpenSearch, Nowhere
    <2>3. QED
        BY <2>1, <2>2
<1>4. ASSUME Open PROVE Nowhere(d)'
    BY <1>4, OpenKeeps, KeptIsKept DEF Open
<1>5. ASSUME UpsertQdrant PROVE Nowhere(d)' \/ Writing(d)'
    <2>1. CASE d # job.doc
        BY <1>5, <2>1, UpsertKeeps, KeptIsKept DEF UpsertQdrant
    <2>2. CASE d = job.doc /\ GoesOn
        BY <1>5, <2>2, WorkerMoves DEF Writing, Touched, GoesOn
    <2>3. CASE d = job.doc /\ ~GoesOn
        <3>1. UNCHANGED <<qdrant, opensearch, scenario, backups>>
            BY <1>5, <2>3, StageKeeps DEF UpsertQdrant, Stages
        <3>2. QED
            BY <3>1, SameKeeps, KeptIsKept
    <2>4. QED
        BY <2>1, <2>2, <2>3
<1>6. ASSUME BulkOpenSearch PROVE Nowhere(d)' \/ Writing(d)'
    <2>1. CASE d # job.doc
        BY <1>6, <2>1, BulkKeeps, KeptIsKept DEF BulkOpenSearch
    <2>2. CASE d = job.doc
        <3>1. GoesOn /\ job'.stage = "row"
            BY <1>6, StageKeeps DEF BulkOpenSearch, Stages
        <3>2. QED
            BY <2>2, <3>1 DEF Writing, Touched, GoesOn
    <2>3. QED
        BY <2>1, <2>2
<1>7. ASSUME WriteRow PROVE Nowhere(d)'
    BY <1>7, SameKeeps, KeptIsKept DEF WriteRow, engines
<1>8. QED
    BY <1>1, <1>2, <1>3, <1>4, <1>5, <1>6, <1>7 DEF Worker

\* The console puts back what a backup holds, and a backup holds what an engine
\* held.
LEMMA NowhereByConsole ==
    ASSUME TypeOK, Console, NEW d, Nowhere(d)
    PROVE  Nowhere(d)'
<1>1. ASSUME NEW kind, NEW name, AskConsole(kind, name) PROVE Nowhere(d)'
    BY <1>1, SameKeeps, KeptIsKept DEF AskConsole, engines
<1>2. CASE DeleteFromQdrant
    <2>1. \A n \in DOMAIN qdrant' : n \in DOMAIN qdrant /\ qdrant'[n] = qdrant[n]
        BY <1>2 DEF DeleteFromQdrant, Without
    <2>2. QED
        BY <1>2, <2>1 DEF DeleteFromQdrant, Nowhere
<1>3. CASE DeleteFromOpenSearch
    <2>1. \A n \in DOMAIN opensearch' : n \in DOMAIN opensearch /\ opensearch'[n] = opensearch[n]
        BY <1>3 DEF DeleteFromOpenSearch, Without
    <2>2. QED
        BY <1>3, <2>1 DEF DeleteFromOpenSearch, Nowhere
<1>4. CASE ExportQdrant
    <2>1. \A b \in backups' :
            b \in backups \/ (call.name \in DOMAIN qdrant /\ b.points = qdrant[call.name])
        BY <1>4 DEF ExportQdrant, Backup
    <2>2. QED
        BY <1>4, <2>1 DEF ExportQdrant, engines, Nowhere
<1>5. CASE ExportOpenSearch
    <2> DEFINE name == LowerName(call.name)
    <2>1. ASSUME NEW b \in backups' PROVE Of(d, b.points) = {}
        <3>1. CASE b \in backups
            BY <3>1 DEF Nowhere
        <3>2. CASE b \notin backups
            <4>1. PICK S \in SUBSET DOMAIN opensearch[name].docs :
                    name \in DOMAIN opensearch /\ b.points = [x \in S |-> opensearch[name].docs[x]]
                BY <1>5, <2>1, <3>2 DEF ExportOpenSearch, Backup, Hits
            <4>2. Of(d, opensearch[name].docs) = {}
                BY <4>1 DEF Nowhere
            <4> HIDE DEF name
            <4>3. QED
                BY <4>1, <4>2 DEF Of
        <3>3. QED
            BY <3>1, <3>2
    <2>2. UNCHANGED <<qdrant, opensearch>>
        BY <1>5 DEF ExportOpenSearch, engines
    <2>3. QED
        BY <2>1, <2>2 DEF Nowhere
<1>6. ASSUME NEW b \in backups, Import(b) PROVE Nowhere(d)'
    <2>0. Of(d, b.points) = {} /\ UNCHANGED backups
        BY <1>6 DEF Import, Nowhere
    <2>1. CASE b.engine = "qdrant"
        <3> DEFINE old == IF b.name \in DOMAIN qdrant THEN qdrant[b.name] ELSE NoFragments
        <3>1. /\ DOMAIN qdrant' = DOMAIN qdrant \cup {b.name} /\ UNCHANGED opensearch
              /\ qdrant'[b.name] = Over(old, b.points)
              /\ \A n \in DOMAIN qdrant : n # b.name => qdrant'[n] = qdrant[n]
            BY <1>6, <2>1 DEF Import, With
        <3>2. Of(d, old) = {}
            BY NoPoints DEF Nowhere
        <3> HIDE DEF old
        <3>3. Of(d, Over(old, b.points)) = {}
            BY <2>0, <3>2, OverNothing
        <3>4. QED
            BY <2>0, <3>1, <3>3 DEF Nowhere
    <2>2. CASE b.engine # "qdrant"
        <3> DEFINE old == IF b.name \in DOMAIN opensearch THEN opensearch[b.name].docs ELSE NoFragments
        <3>1. Written(opensearch', b.name, b.points) /\ UNCHANGED qdrant
            BY <1>6, <2>2, IndexedTyped DEF Import
        <3>2. /\ DOMAIN opensearch' = DOMAIN opensearch \cup {b.name}
              /\ opensearch'[b.name].docs = Over(old, b.points)
              /\ \A n \in DOMAIN opensearch : n # b.name => opensearch'[n] = opensearch[n]
            BY <3>1 DEF Written
        <3>3. Of(d, old) = {}
            BY NoPoints DEF Nowhere
        <3> HIDE DEF old
        <3>4. Of(d, Over(old, b.points)) = {}
            BY <2>0, <3>3, OverNothing
        <3>5. QED
            BY <2>0, <3>1, <3>2, <3>4 DEF Nowhere
    <2>3. QED
        BY <2>1, <2>2
<1>7. QED
    BY <1>1, <1>2, <1>3, <1>4, <1>5, <1>6 DEF Console

\* Unknown is kept: only a job that writes makes a file known, and its row follows.
LEMMA UnknownStep ==
    TypeOK /\ Shape /\ Unknown /\ [Next]_vars => Unknown'
<1> SUFFICES ASSUME TypeOK, Shape, Unknown, [Next]_vars, NEW d \in Docs,
                    row'[d].version = 0, version'[d] # 0 \/ Touched(d)', ~Writing(d)'
             PROVE  Nowhere(d)'
    BY DEF Unknown
<1>1. ASSUME row[d].version = 0, version[d] # 0 \/ Touched(d), ~Writing(d) PROVE Nowhere(d)
    BY <1>1 DEF Unknown
<1>2. ASSUME NEW e \in Docs, Start(e) PROVE Nowhere(d)'
    <2>1. /\ job = NoJob /\ UNCHANGED <<row, version>> /\ job'.doc = e
          /\ row[e].version = 0 => version[e] # 0
        <3>1. version[e] \in Nat
            BY FieldsTyped
        <3>2. QED
            BY <1>2, <3>1 DEF Start, files
    <2>2. version[d] # 0
        BY <2>1 DEF Touched
    <2>3. Nowhere(d)
        BY <1>1, <2>1, <2>2 DEF Writing, Touched
    <2>4. QED
        BY <1>2, <2>3, NowhereByWorker DEF Worker
<1>3. CASE CleanQdrant \/ CleanOpenSearch \/ Open \/ UpsertQdrant \/ BulkOpenSearch
    <2>1. /\ UNCHANGED <<version, row>> /\ job # NoJob
          /\ job' = NoJob \/ (GoesOn /\ (job.stage \in {"write_opensearch", "row"} =>
                                            job'.stage \in {"write_opensearch", "row"}))
          /\ BulkOpenSearch => job' # NoJob
          /\ ~BulkOpenSearch => job.stage \notin {"write_opensearch", "row"}
        <3>1. BulkOpenSearch => job' # NoJob
            BY StageKeeps DEF BulkOpenSearch, Stages, GoesOn
        <3>2. ~BulkOpenSearch => job.stage \notin {"write_opensearch", "row"}
            BY <1>3 DEF CleanQdrant, CleanOpenSearch, Open, UpsertQdrant
        <3>3. QED
            BY <1>3, <3>1, <3>2, WorkerMoves
    <2>2. version[d] # 0 \/ Touched(d)
        BY <2>1 DEF Touched, GoesOn
    <2>3. ~Writing(d)
        BY <2>1 DEF Touched, Writing, GoesOn
    <2>4. QED
        BY <1>1, <1>3, <2>1, <2>2, <2>3, NowhereByWorker DEF Worker
<1>4. CASE WriteRow
    <2>1. /\ job # NoJob /\ job.doc \in Docs /\ job' = NoJob /\ UNCHANGED version
          /\ row' = [row EXCEPT ![job.doc] = [version |-> job.version, epoch |-> job.epoch]]
        BY <1>4, FieldsTyped DEF WriteRow
    <2>2. version[d] # 0
        BY <2>1 DEF Touched
    <2>3. d # job.doc
        BY <2>1, <2>2 DEF Shape, TypeOK
    <2>4. row[d].version = 0
        BY <2>1, <2>3 DEF TypeOK
    <2>5. QED
        BY <1>1, <1>4, <2>2, <2>3, <2>4, NowhereByWorker DEF Touched, Writing, Worker
<1>5. ASSUME NEW e \in Docs, NEW v \in 0..scenario.changes, Change(e, v) PROVE Nowhere(d)'
    <2>1. UNCHANGED <<scenario, engines, row, job, backups>>
        BY <1>5 DEF Change
    <2>2. version'[d] # 0 => version[d] # 0
        <3>1. version \in [Docs -> Nat] /\ version' = [version EXCEPT ![e] = v] /\ (v = 0 \/ version[e] > 0)
            BY <1>5 DEF Change, TypeOK
        <3>2. QED
            BY <3>1
    <2>3. Nowhere(d)
        BY <1>1, <2>1, <2>2 DEF Touched, Writing
    <2>4. QED
        BY <2>1, <2>3, SameKeeps, KeptIsKept DEF engines
<1>6. CASE Query \/ Rerank \/ UNCHANGED vars
    <2>1. UNCHANGED <<scenario, engines, row, version, job, backups>>
        BY <1>6 DEF Query, Rerank, vars, files
    <2>2. Nowhere(d)
        BY <1>1, <2>1 DEF Touched, Writing
    <2>3. QED
        BY <2>1, <2>2, SameKeeps, KeptIsKept DEF engines
<1>7. CASE Console
    <2>1. UNCHANGED <<row, version, job>>
        BY <1>7 DEF Console, AskConsole, DeleteFromQdrant, DeleteFromOpenSearch, ExportQdrant,
           ExportOpenSearch, Import, files
    <2>2. Nowhere(d)
        BY <1>1, <2>1 DEF Touched, Writing
    <2>3. QED
        BY <1>7, <2>2, NowhereByConsole
<1>8. QED
    BY <1>2, <1>3, <1>4, <1>5, <1>6, <1>7 DEF Next, Worker

-----------------------------------------------------------------------------
(* How far a job is. *)

\* The console leaves the engines alone, or the date moves.
LEMMA ConsoleDates ==
    ASSUME TypeOK, Console
    PROVE  /\ UNCHANGED <<scenario, row, job, version>>
           /\ (UNCHANGED engines /\ epoch' = epoch) \/ epoch' = epoch + 1
    BY DEF Console, AskConsole, DeleteFromQdrant, DeleteFromOpenSearch, ExportQdrant,
       ExportOpenSearch, Import, files, engines

\* When nothing of the engines moves, nothing that is said of a file does.
LEMMA EnginesSame ==
    ASSUME UNCHANGED <<scenario, engines>>, NEW d
    PROVE  /\ Agreed(d)' = Agreed(d)
           /\ GoneQ(d)' = GoneQ(d) /\ GoneO(d)' = GoneO(d) /\ Opened(d)' = Opened(d)
           /\ \A v : ThereQ(d, v)' = ThereQ(d, v) /\ ThereO(d, v)' = ThereO(d, v)
    BY DEF engines, Agreed, Index, CollectionOf, IndexOf, Instance, GoneQ, GoneO, Opened, ThereQ, ThereO,
       Versions, Of, Fragments

\* What is said of a file after a step, in terms of the engines after it.
LEMMA SaidAfter ==
    ASSUME UNCHANGED scenario, NEW d, NEW v
    PROVE  /\ GoneQ(d)' <=> (CollectionOf(d) \in DOMAIN qdrant' => Of(d, qdrant'[CollectionOf(d)]) = {})
           /\ GoneO(d)' <=> (IndexOf(d) \in DOMAIN opensearch' /\ opensearch'[IndexOf(d)].made
                               => Of(d, opensearch'[IndexOf(d)].docs) = {})
           /\ Opened(d)' <=> (CollectionOf(d) \in DOMAIN qdrant' /\ IndexOf(d) \in DOMAIN opensearch')
           /\ ThereQ(d, v)' <=> Versions(qdrant'[CollectionOf(d)], d) = Fragments(d, v)
           /\ ThereO(d, v)' <=> (opensearch'[IndexOf(d)].made
                                    => Versions(opensearch'[IndexOf(d)].docs, d) = Fragments(d, v))
<1>1. CollectionOf(d)' = CollectionOf(d) /\ IndexOf(d)' = IndexOf(d) /\ Fragments(d, v)' = Fragments(d, v)
    BY NamesSame DEF Fragments
<1>2. GoneQ(d)' <=> (CollectionOf(d) \in DOMAIN qdrant' => Of(d, qdrant'[CollectionOf(d)]) = {})
    BY <1>1 DEF GoneQ, Of
<1>3. GoneO(d)' <=> (IndexOf(d) \in DOMAIN opensearch' /\ opensearch'[IndexOf(d)].made
                               => Of(d, opensearch'[IndexOf(d)].docs) = {})
    BY <1>1 DEF GoneO, Of
<1>4. Opened(d)' <=> (CollectionOf(d) \in DOMAIN qdrant' /\ IndexOf(d) \in DOMAIN opensearch')
    BY <1>1 DEF Opened
<1>5. ThereQ(d, v)' <=> Versions(qdrant'[CollectionOf(d)], d) = Fragments(d, v)
    <2>1. Versions(qdrant[CollectionOf(d)], d)' = Versions(qdrant'[CollectionOf(d)], d)
        BY <1>1 DEF Versions, Of
    <2>2. QED
        BY <1>1, <2>1 DEF ThereQ
<1>6. ThereO(d, v)' <=> (opensearch'[IndexOf(d)].made
                            => Versions(opensearch'[IndexOf(d)].docs, d) = Fragments(d, v))
    <2>1. Versions(opensearch[IndexOf(d)].docs, d)' = Versions(opensearch'[IndexOf(d)].docs, d)
        BY <1>1 DEF Versions, Of
    <2>2. QED
        BY <1>1, <2>1 DEF ThereO
<1>7. QED
    BY <1>2, <1>3, <1>4, <1>5, <1>6

\* Progress is kept: each stage finds what the one before it left, and the other
\* files are left alone.
LEMMA ProgressStep ==
    TypeOK /\ Shape /\ Unknown /\ Progress /\ [Next]_vars => Progress'
<1> SUFFICES ASSUME TypeOK, Shape, Unknown, Progress, [Next]_vars,
                    job' # NoJob, job'.epoch = epoch', Agreed(job.doc)'
             PROVE  Far(job)'
    BY DEF Progress
<1>1. ASSUME NEW d \in Docs, Start(d) PROVE Far(job)'
    <2>1. /\ job = NoJob /\ UNCHANGED <<scenario, engines>> /\ job'.doc = d
          /\ job'.stage = IF row[d].version # 0 THEN "clean_qdrant" ELSE "open"
          /\ row[d].version = 0 => version[d] # 0
        <3>1. version[d] \in Nat
            BY FieldsTyped
        <3>2. QED
            BY <1>1, <3>1 DEF Start
    <2>2. CASE row[d].version # 0
        BY <2>1, <2>2 DEF Far
    <2>3. CASE row[d].version = 0
        <3>1. Nowhere(d)
            BY <2>1, <2>3 DEF Unknown, Writing, Touched
        <3>2. GoneQ(d)' /\ GoneO(d)'
            BY <2>1, <3>1, NowhereMeansGone, EnginesSame
        <3>3. QED
            BY <2>1, <2>3, <3>2 DEF Far
    <2>4. QED
        BY <2>2, <2>3
<1>2. CASE CleanQdrant \/ CleanOpenSearch \/ Open \/ UpsertQdrant \/ BulkOpenSearch
    <2>0. PICK d, v : d = job.doc /\ v = job.version
        OBVIOUS
    <2>1. /\ UNCHANGED <<scenario, epoch>> /\ GoesOn /\ Agreed(d) /\ Far(job)
          /\ job.doc = d /\ job'.doc = d /\ job.version = v /\ job'.version = v
          /\ Index(d) = CollectionOf(d) /\ Index(d) = IndexOf(d)
        <3>1. UNCHANGED <<scenario, epoch>> /\ GoesOn
            BY <1>2, WorkerMoves
        <3>2. Agreed(d) /\ job.epoch = epoch
            BY <2>0, <3>1, NamesSame DEF GoesOn
        <3>3. QED
            BY <2>0, <3>1, <3>2 DEF Progress, GoesOn, Agreed
    <2>2. CASE CleanQdrant
        <3>1. /\ job'.stage = "clean_opensearch" /\ Index(d) \in DOMAIN qdrant
              /\ qdrant' = [qdrant EXCEPT ![Index(d)] = Without(@, Of(d, @))]
            BY <2>2, <2>1, WorkerMoves DEF CleanQdrant, Fails, GoesOn
        <3>2. GoneQ(d)'
            <4>1. Of(d, qdrant'[CollectionOf(d)]) = {}
                BY <2>1, <3>1, WithoutPoints
            <4>2. QED
                BY <4>1, <2>1, SaidAfter
        <3>3. QED
            BY <3>1, <3>2, <2>1 DEF Far
    <2>3. CASE CleanOpenSearch
        <3> DEFINE k == Index(d)
                   x == IF Matches(opensearch[k], d)
                        THEN Without(opensearch[k].docs, Of(d, opensearch[k].docs))
                        ELSE opensearch[k].docs
        <3>1. /\ job'.stage = IF v = 0 THEN "row" ELSE "open"
              /\ job.stage = "clean_opensearch"
              /\ k \in DOMAIN opensearch
              /\ opensearch' = [opensearch EXCEPT ![k].docs = x]
            BY <2>3, <2>1, WorkerMoves DEF CleanOpenSearch, Fails, GoesOn
        <3>2. GoneQ(d)'
            BY <3>1, <2>1, <2>3, CleanOpenSearchKeeps, KeptIsKept DEF Far
        <3>3. GoneO(d)'
            <4>1. opensearch[k].made => Of(d, x) = {}
                BY WithoutPoints DEF Matches
            <4>2. DOMAIN opensearch[k] = {"made", "docs"}
                BY <3>1 DEF TypeOK
            <4>3. opensearch'[k].made = opensearch[k].made /\ opensearch'[k].docs = x
                <5> HIDE DEF x, k
                <5>1. QED
                    BY <3>1, <4>2
            <4>4. IndexOf(d) = k
                BY <2>1
            <4> HIDE DEF x, k
            <4>5. QED
                BY <4>1, <4>3, <4>4, <2>1, SaidAfter
        <3>4. QED
            BY <3>1, <3>2, <3>3, <2>1 DEF Far
    <2>4. CASE Open
        <3>1. /\ job'.stage = IF PartCount[d][v] = 0 THEN "row" ELSE "write_qdrant"
              /\ job.stage = "open"
            BY <2>4, <2>1, WorkerMoves DEF GoesOn
        <3>2. v # 0
            BY <3>1, <2>1 DEF Shape, GoesOn
        <3>3. GoneQ(d)' /\ GoneO(d)'
            BY <3>1, <2>1, <2>4, OpenKeeps, KeptIsKept DEF Far
        <3>4. Opened(d)'
            <4>1. CollectionOf(d) \in DOMAIN qdrant' /\ IndexOf(d) \in DOMAIN opensearch'
                BY <2>0, <2>4 DEF Open, InitQdrant, InitOpenSearch, With
            <4>2. QED
                BY <4>1, <2>1, SaidAfter
        <3>5. ASSUME PartCount[d][v] = 0 PROVE ThereQ(d, v)' /\ ThereO(d, v)'
            <4>1. ASSUME NEW f, Of(d, f) = {} PROVE Versions(f, d) = Fragments(d, v)
                <5>1. 1..PartCount[d][v] = {}
                    BY <3>5
                <5>2. {<<d, p>> : p \in 1..PartCount[d][v]} = {}
                    BY <5>1
                <5>3. QED
                    BY <5>2, <4>1 DEF Versions, Fragments
            <4>2. /\ Of(d, qdrant'[CollectionOf(d)]) = {}
                  /\ opensearch'[IndexOf(d)].made => Of(d, opensearch'[IndexOf(d)].docs) = {}
                BY <3>3, <3>4, <2>1, SaidAfter
            <4>3. QED
                BY <4>1, <4>2, <2>1, SaidAfter, ZenonT(40)
        <3>6. QED
            BY <3>1, <3>2, <3>3, <3>4, <3>5, <2>1 DEF Far
    <2>5. CASE UpsertQdrant
        <3>1. /\ job'.stage = "write_opensearch" /\ job.stage = "write_qdrant"
              /\ CollectionOf(d) \in DOMAIN qdrant
              /\ qdrant' = [qdrant EXCEPT ![CollectionOf(d)] = Over(@, Fragments(d, v))]
            BY <2>5, <2>1, WorkerMoves DEF UpsertQdrant, Fails, GoesOn
        <3>2. Of(d, qdrant[CollectionOf(d)]) = {} /\ Opened(d) /\ GoneO(d)
            BY <3>1, <2>1 DEF Far, GoneQ
        <3>3. Versions(qdrant'[CollectionOf(d)], d) = Fragments(d, v)
            BY <3>1, <3>2, OverPoints
        <3>4. ThereQ(d, v)'
            BY <3>3, <2>1, SaidAfter
        <3>5. GoneO(d)'
            BY <3>2, <2>1, <2>5, UpsertKeeps, KeptIsKept
        <3>6. Opened(d)'
            BY <3>1, <3>2, <2>1, <2>5, SaidAfter DEF Opened, UpsertQdrant
        <3>7. QED
            BY <3>1, <3>4, <3>5, <3>6, <2>1 DEF Far
    <2>6. CASE BulkOpenSearch
        <3> DEFINE F == Fragments(d, v)
                   k == IndexOf(d)
        <3>1. /\ job'.stage = "row" /\ job.stage = "write_opensearch"
              /\ Opened(d) /\ ThereQ(d, v) /\ GoneO(d)
            BY <2>6, <2>1, WorkerMoves DEF GoesOn, Far
        <3>2. Written(opensearch', k, F) /\ UNCHANGED qdrant
            BY <2>0, <2>6, IndexedTyped DEF BulkOpenSearch
        <3>3. /\ k \in DOMAIN opensearch
              /\ opensearch'[k].made = opensearch[k].made /\ opensearch'[k].docs = Over(opensearch[k].docs, F)
              /\ DOMAIN opensearch \subseteq DOMAIN opensearch'
            BY <3>1, <3>2 DEF Written, Opened
        <3>4. opensearch'[k].made => Versions(opensearch'[k].docs, d) = F
            <4>1. opensearch[k].made => Of(d, opensearch[k].docs) = {}
                BY <3>1, <3>3 DEF GoneO
            <4>2. QED
                BY <4>1, <3>3, OverPoints
        <3>5. ThereO(d, v)'
            BY <3>4, <2>1, SaidAfter
        <3>6. Opened(d)' /\ ThereQ(d, v)'
            BY <3>1, <3>2, <3>3, <2>1, SaidAfter DEF Opened, ThereQ
        <3>7. v # 0
            BY <3>1, <2>1 DEF Shape, GoesOn
        <3>8. QED
            BY <3>1, <3>5, <3>6, <3>7, <2>1 DEF Far
    <2>7. QED
        BY <1>2, <2>2, <2>3, <2>4, <2>5, <2>6
<1>3. CASE WriteRow
    BY <1>3 DEF WriteRow
<1>4. ASSUME UNCHANGED <<scenario, engines, job, epoch>> PROVE Far(job)'
    <2>1. Far(job)
        BY <1>4, EnginesSame DEF Progress
    <2>2. Far(job)'
        BY <1>4, <2>1, EnginesSame DEF Far
    <2>3. QED
        BY <1>4, <2>2
<1>5. CASE Console
    <2>1. CASE UNCHANGED engines /\ epoch' = epoch
        BY <1>4, <1>5, <2>1, ConsoleDates
    <2>2. CASE epoch' = epoch + 1
        <3>1. UNCHANGED job /\ job.epoch <= epoch /\ job.epoch \in Nat /\ epoch \in Nat
            BY <1>5, ConsoleDates, FieldsTyped DEF Shape, TypeOK
        <3>2. QED
            BY <2>2, <3>1
    <2>3. QED
        BY <1>5, <2>1, <2>2, ConsoleDates
<1>6. ASSUME NEW d \in Docs, NEW v \in 0..scenario.changes, Change(d, v) PROVE Far(job)'
    BY <1>4, <1>6 DEF Change
<1>7. CASE Query \/ Rerank \/ UNCHANGED vars
    <2>1. UNCHANGED <<scenario, engines, job, epoch>>
        BY <1>7 DEF Query, Rerank, vars
    <2>2. QED
        BY <2>1, <1>4
<1>8. QED
    BY <1>1, <1>2, <1>3, <1>5, <1>6, <1>7 DEF Next, Worker

-----------------------------------------------------------------------------
(* What a row says. *)

\* What is needed of a row after a step.
LEMMA RowTrueAfter ==
    ASSUME NEW d, NEW v, row'[d].version = v,
           Agreed(d)' /\ row'[d].epoch = epoch' =>
               /\ v # 0 => Opened(d)'
               /\ ~Touched(d)' =>
                    IF v = 0 THEN GoneQ(d)' /\ GoneO(d)' ELSE ThereQ(d, v)' /\ ThereO(d, v)'
    PROVE  RowTrue(d)'
<1>1. ThereQ(d, row[d].version)' <=> ThereQ(d, v)'
    BY DEF ThereQ, Versions, Of, Fragments
<1>2. ThereO(d, row[d].version)' <=> ThereO(d, v)'
    BY DEF ThereO, Versions, Of, Fragments
<1>3. QED
    BY <1>1, <1>2 DEF RowTrue

\* A step that keeps the points of a file, its row and the job.
LEMMA RowTrueIsKept ==
    ASSUME UNCHANGED <<scenario, epoch>>, NEW d, row'[d] = row[d], Touched(d) => Touched(d)',
           KeepsQ(d), KeepsO(d), RowTrue(d)
    PROVE  RowTrue(d)'
<1>1. PICK v : v = row[d].version
    OBVIOUS
<1>2. Agreed(d)' = Agreed(d)
    BY NamesSame
<1>3. ASSUME Agreed(d), row[d].epoch = epoch
      PROVE  /\ v # 0 => Opened(d)'
             /\ ~Touched(d)' => IF v = 0 THEN GoneQ(d)' /\ GoneO(d)' ELSE ThereQ(d, v)' /\ ThereO(d, v)'
    <2>1. /\ v # 0 => Opened(d)
          /\ ~Touched(d) => IF v = 0 THEN GoneQ(d) /\ GoneO(d) ELSE ThereQ(d, v) /\ ThereO(d, v)
        BY <1>1, <1>3 DEF RowTrue
    <2>2. QED
        BY <2>1, KeptIsKept
<1>4. QED
    BY <1>1, <1>2, <1>3, RowTrueAfter

\* A job whose file has a true row does not lose it: it fails only where nothing
\* was written.
LEMMA RowIsTrueByWorker ==
    ASSUME TypeOK, Shape, Unknown, Progress, RowIsTrue, NEW d \in Docs,
           CleanQdrant \/ CleanOpenSearch \/ Open \/ UpsertQdrant \/ BulkOpenSearch
    PROVE  RowTrue(d)'
<1>1. RowTrue(d)
    BY DEF RowIsTrue
<1>2. UNCHANGED <<scenario, version, row, epoch, call, backups>> /\ job # NoJob
    BY WorkerMoves
<1>3. CASE d # job.doc
    <2>1. Touched(d) => Touched(d)'
        BY <1>3 DEF Touched
    <2>2. KeepsQ(d) /\ KeepsO(d)
        BY <1>3, CleanQdrantKeeps, CleanOpenSearchKeeps, OpenKeeps, UpsertKeeps, BulkKeeps
    <2>3. QED
        BY <1>1, <1>2, <2>1, <2>2, RowTrueIsKept
<1>4. CASE d = job.doc
    <2>1. PICK v : v = row[d].version
        OBVIOUS
    <2>2. SUFFICES ASSUME Agreed(d), row[d].epoch = epoch
                   PROVE  /\ v # 0 => Opened(d)'
                          /\ ~Touched(d)' => IF v = 0 THEN GoneQ(d)' /\ GoneO(d)'
                                             ELSE ThereQ(d, v)' /\ ThereO(d, v)'
        BY <1>2, <2>1, NamesSame, RowTrueAfter
    <2>3. v # 0 => Opened(d)
        BY <1>1, <2>1, <2>2 DEF RowTrue
    <2>4. v # 0 => Opened(d)'
        <3>1. DOMAIN qdrant \subseteq DOMAIN qdrant' /\ DOMAIN opensearch \subseteq DOMAIN opensearch'
            BY CleanQdrantKeeps, CleanOpenSearchKeeps, OpenKeeps, UpsertKeeps, BulkKeeps DEF KeepsQ, KeepsO
        <3>2. QED
            BY <2>3, <3>1, <1>2, SaidAfter DEF Opened
    <2>5. ASSUME ~Touched(d)' PROVE v = 0 /\ GoneQ(d)' /\ GoneO(d)'
        <3>1. ~GoesOn
            BY <1>4, <2>5 DEF GoesOn, Touched
        <3>2. Index(d) = CollectionOf(d) /\ Index(d) = IndexOf(d)
            BY <2>2 DEF Agreed
        <3>3. ~CleanQdrant
            <4>1. CleanQdrant => v # 0 /\ Index(d) \notin DOMAIN qdrant
                BY <1>4, <2>1, <3>1, StageKeeps DEF CleanQdrant, Shape, Stages
            <4>2. QED
                BY <4>1, <2>3, <3>2 DEF Opened
        <3>4. ~CleanOpenSearch
            <4>1. CleanOpenSearch => v # 0 /\ Index(d) \notin DOMAIN opensearch
                BY <1>4, <2>1, <3>1, StageKeeps DEF CleanOpenSearch, Shape, Stages
            <4>2. QED
                BY <4>1, <2>3, <3>2 DEF Opened
        <3>5. ~Open /\ ~BulkOpenSearch
            BY <3>1, StageKeeps DEF Open, BulkOpenSearch, Stages
        <3>6. /\ job.stage = "write_qdrant" /\ UNCHANGED engines
              /\ CollectionOf(d) \notin DOMAIN qdrant
            BY <1>4, <3>1, <3>3, <3>4, <3>5, StageKeeps DEF UpsertQdrant, Stages, engines
        <3>7. v = 0
            BY <3>6, <2>3 DEF Opened
        <3>8. Nowhere(d)
            BY <1>2, <1>4, <2>1, <3>6, <3>7 DEF Unknown, Touched, Writing
        <3>9. QED
            BY <1>2, <3>6, <3>7, <3>8, NowhereMeansGone, EnginesSame
    <2>6. QED
        BY <2>4, <2>5
<1>5. QED
    BY <1>3, <1>4

\* RowIsTrue is kept: a row is written by the last stage of its job, and stays
\* true until the next one begins.
LEMMA RowIsTrueStep ==
    TypeOK /\ Shape /\ Unknown /\ Progress /\ RowIsTrue /\ [Next]_vars => RowIsTrue'
<1> SUFFICES ASSUME TypeOK, Shape, Unknown, Progress, RowIsTrue, [Next]_vars, NEW d \in Docs
             PROVE  RowTrue(d)'
    BY DEF RowIsTrue
<1>1. RowTrue(d)
    BY DEF RowIsTrue
<1>2. ASSUME UNCHANGED <<scenario, engines, row, epoch>>, Touched(d) => Touched(d)'
      PROVE RowTrue(d)'
    BY <1>1, <1>2, SameKeeps, RowTrueIsKept DEF engines
<1>3. ASSUME NEW e \in Docs, Start(e) PROVE RowTrue(d)'
    BY <1>2, <1>3 DEF Start, files, Touched
<1>4. CASE CleanQdrant \/ CleanOpenSearch \/ Open \/ UpsertQdrant \/ BulkOpenSearch
    BY <1>4, RowIsTrueByWorker
<1>5. CASE WriteRow
    <2>1. /\ job # NoJob /\ job.doc \in Docs /\ job' = NoJob /\ job.stage = "row"
          /\ UNCHANGED <<scenario, engines, epoch>>
          /\ row' = [row EXCEPT ![job.doc] = [version |-> job.version, epoch |-> job.epoch]]
          /\ row \in [Docs -> [version: Nat, epoch: Nat]]
        BY <1>5, FieldsTyped DEF WriteRow, TypeOK
    <2>2. CASE d # job.doc
        BY <1>1, <2>1, <2>2, SameKeeps, RowTrueIsKept DEF engines, Touched
    <2>3. CASE d = job.doc
        <3>1. PICK v : v = job.version
            OBVIOUS
        <3>2. row'[d].version = v /\ row'[d].epoch = job.epoch
            BY <2>1, <2>3, <3>1
        <3>3. ASSUME Agreed(d), job.epoch = epoch
              PROVE  /\ v # 0 => Opened(d)'
                     /\ IF v = 0 THEN GoneQ(d)' /\ GoneO(d)' ELSE ThereQ(d, v)' /\ ThereO(d, v)'
            <4>1. IF v = 0 THEN GoneQ(d) /\ GoneO(d) ELSE Opened(d) /\ ThereQ(d, v) /\ ThereO(d, v)
                BY <2>1, <2>3, <3>1, <3>3 DEF Progress, Far
            <4>2. QED
                BY <4>1, <2>1, EnginesSame
        <3>4. QED
            BY <2>1, <3>2, <3>3, NamesSame, RowTrueAfter
    <2>4. QED
        BY <2>2, <2>3
<1>6. ASSUME NEW e \in Docs, NEW v \in 0..scenario.changes, Change(e, v) PROVE RowTrue(d)'
    BY <1>2, <1>6 DEF Change, Touched
<1>7. CASE Query \/ Rerank \/ UNCHANGED vars
    <2>1. UNCHANGED <<scenario, engines, row, job, epoch>>
        BY <1>7 DEF Query, Rerank, vars, files
    <2>2. QED
        BY <2>1, <1>2 DEF Touched
<1>8. CASE Console
    <2>1. CASE UNCHANGED engines /\ epoch' = epoch
        BY <1>2, <1>8, <2>1, ConsoleDates DEF Touched
    <2>2. CASE epoch' = epoch + 1
        <3>1. row'[d].epoch <= epoch /\ row'[d].epoch \in Nat /\ epoch \in Nat
            BY <1>8, ConsoleDates, FieldsTyped DEF Shape, TypeOK
        <3>2. row'[d].epoch # epoch'
            BY <2>2, <3>1
        <3>3. QED
            BY <3>2 DEF RowTrue
    <2>3. QED
        BY <1>8, <2>1, <2>2, ConsoleDates
<1>9. QED
    BY <1>3, <1>4, <1>5, <1>6, <1>7, <1>8 DEF Next, Worker

\* Every step of the worker, the disk, the console and the search keeps IInv.
LEMMA InvStep == IInv /\ [Next]_vars => IInv'
    BY StepTyped, ShapeStep, UnknownStep, ProgressStep, RowIsTrueStep, LowerStep, DeletingStep DEF IInv

-----------------------------------------------------------------------------
(* What is indexed is found, what is erased is gone. *)

\* IInv is an invariant: between the calls of the worker (ChunkCleaner, the pipeline,
\* the row) and those of the console, what the engines hold of a file is known.
THEOREM EnginesInvariant == Spec => []IInv
<1>1. QED
    BY InitInv, InvStep, PTL DEF Spec

\* IndexedIsFound: what the state store says is indexed is found by both halves of
\* the search, in that version and no other, for any number of files, and whatever
\* fails between the cleaner and the row (PipelineRunner, ChunkCleaner, HybridSearch).
THEOREM EnginesIndexedIsFound == Spec => []IndexedIsFound
<1>1. IInv => IndexedIsFound
    <2> SUFFICES ASSUME IInv, NEW d \in Docs, AtHome(d), row[d].version # 0, row[d].epoch = epoch, ~Touched(d)
                 PROVE  /\ ReadQdrant(Instance) \in DOMAIN qdrant
                        /\ ReadOpenSearch(Instance) \in DOMAIN opensearch
                        /\ Versions(qdrant[ReadQdrant(Instance)], d) = Fragments(d, row[d].version)
                        /\ opensearch[ReadOpenSearch(Instance)].made =>
                              Versions(opensearch[ReadOpenSearch(Instance)].docs, d) =
                                  Fragments(d, row[d].version)
        BY DEF IndexedIsFound
    <2>1. CollectionOf(d) = ReadQdrant(Instance) /\ IndexOf(d) = ReadOpenSearch(Instance)
        BY DEF AtHome, Agreed
    <2>2. Opened(d) /\ ThereQ(d, row[d].version) /\ ThereO(d, row[d].version)
        BY DEF IInv, RowIsTrue, RowTrue, AtHome
    <2>3. QED
        BY <2>1, <2>2 DEF Opened, ThereQ, ThereO
<1>2. QED
    BY EnginesInvariant, <1>1, PTL

\* ErasedIsGone: a file whose row is erased has no fragment left, and an entry that
\* delete_index says is deleted is gone, for any number of files and indexes
\* (ChunkCleaner.delete, delete_index of the console).
THEOREM EnginesErasedIsGone == Spec => []ErasedIsGone
<1>1. IInv => CleanedIsGone
    BY DEF IInv, RowIsTrue, RowTrue, CleanedIsGone, GoneQ, GoneO
<1>2. IInv => DeletedIsGone
    <2> SUFFICES ASSUME IInv, call # NoCall, call.kind = "delete", call.stage = "done", call.ok, call.alone,
                        NEW n \in Listed, LowerName(n) = LowerName(call.name)
                 PROVE  n # call.name /\ n \in DOMAIN qdrant
        BY DEF DeletedIsGone
    <2>1. /\ call.name \notin DOMAIN qdrant
          /\ call.name \notin DOMAIN opensearch /\ LowerName(call.name) \notin DOMAIN opensearch
        BY DEF IInv, Deleting
    <2>2. n \in DOMAIN qdrant \/ n \in DOMAIN opensearch
        BY DEF Listed
    <2>3. n \in DOMAIN opensearch => LowerName(n) = n
        BY DEF IInv, InLowerCase
    <2>4. QED
        BY <2>1, <2>2, <2>3
<1>3. QED
    BY EnginesInvariant, <1>1, <1>2, PTL DEF ErasedIsGone

-----------------------------------------------------------------------------
(* An instance whose name needs no treatment. *)

\* Until the console writes, the indexes are those that the pipeline made.
Made ==
    epoch = 0 /\ (\A d \in Docs : Agreed(d)) =>
        \A n \in DOMAIN opensearch : opensearch[n].made

\* Erasing the fragments of a file leaves the mapping of the index.
LEMMA CleanOpenSearchMade ==
    ASSUME TypeOK, CleanOpenSearch
    PROVE  \A n \in DOMAIN opensearch' :
              n \in DOMAIN opensearch /\ opensearch'[n].made = opensearch[n].made
<1>1. CASE Index(job.doc) \in DOMAIN opensearch
    <2>1. \E k \in DOMAIN opensearch : \E x : opensearch' = [opensearch EXCEPT ![k].docs = x]
        BY <1>1 DEF CleanOpenSearch
    <2>2. \A n \in DOMAIN opensearch : DOMAIN opensearch[n] = {"made", "docs"}
        BY DEF TypeOK
    <2>3. QED
        BY <2>1, <2>2
<1>2. CASE Index(job.doc) \notin DOMAIN opensearch
    BY <1>2 DEF CleanOpenSearch
<1>3. QED
    BY <1>1, <1>2

\* The worker writes only where the pipeline has opened an index.
LEMMA MadeStep == IInv /\ Made /\ [Next]_vars => Made'
<1> SUFFICES ASSUME IInv, Made, [Next]_vars, epoch' = 0, \A d \in Docs : Agreed(d)'
             PROVE  \A n \in DOMAIN opensearch' : opensearch'[n].made
    BY DEF Made
<1> USE DEF IInv
<1>1. epoch = 0 /\ UNCHANGED scenario /\ (Console => UNCHANGED opensearch)
    <2>1. epoch \in Nat
        BY DEF TypeOK
    <2>2. Console => UNCHANGED <<scenario, opensearch, epoch>>
        BY <2>1, ConsoleDates DEF engines
    <2>3. CASE Worker
        BY <2>2, <2>3, WorkerMoves DEF Worker, Start, WriteRow
    <2>4. CASE ~Worker
        BY <2>2, <2>4 DEF Next, Change, Query, Rerank, vars
    <2>5. QED
        BY <2>2, <2>3, <2>4
<1>2. \A d \in Docs : Agreed(d)
    BY <1>1, NamesSame
<1>3. \A n \in DOMAIN opensearch : opensearch[n].made
    BY <1>1, <1>2 DEF Made
<1>4. CASE UNCHANGED opensearch
    BY <1>3, <1>4
<1>5. CASE CleanOpenSearch
    <2>1. \A n \in DOMAIN opensearch' : n \in DOMAIN opensearch /\ opensearch'[n].made = opensearch[n].made
        BY <1>5, CleanOpenSearchMade
    <2>2. QED
        BY <1>3, <2>1
<1>6. CASE Open
    BY <1>3, <1>6 DEF Open, InitOpenSearch, With
<1>7. CASE BulkOpenSearch
    <2>1. PICK k, F : Written(opensearch', k, F) /\ k = IndexOf(job.doc)
        BY <1>7, IndexedTyped DEF BulkOpenSearch
    <2>2. job # NoJob /\ job.doc \in Docs /\ job.stage = "write_opensearch" /\ job.epoch = epoch
        BY <1>1, <1>7, FieldsTyped DEF BulkOpenSearch, Shape
    <2>3. k \in DOMAIN opensearch
        BY <1>2, <2>1, <2>2 DEF Progress, Far, Opened
    <2>4. QED
        BY <1>3, <2>1, <2>3 DEF Written
<1>8. QED
    BY <1>1, <1>4, <1>5, <1>6, <1>7 DEF Next, Worker, Start, CleanQdrant, UpsertQdrant, WriteRow,
       Change, Query, Rerank, vars, engines

\* "1 instance = 1 metier = 1 index force par INSTANCE_NAME" is true of the instances
\* whose name needs no treatment: lower case, kept characters, MaxName of them at
\* most, no digit and no dash first.
THEOREM EnginesPlainInstance ==
    ASSUME \A s \in Scenarios : Plain(s.instance.name)
    PROVE  Spec => []InstanceIsItsIndex
<1>1. Init => Made
    BY DEF Init, Made
<1>2. IInv /\ Made => InstanceIsItsIndex
    <2> SUFFICES ASSUME IInv, Made, ~Instance.multi, epoch = 0, NEW d \in Docs,
                        row[d].version # 0, ~Touched(d)
                 PROVE  DOMAIN Fragments(d, row[d].version) \subseteq InQdrant \cap InOpenSearch
        BY DEF InstanceIsItsIndex
    <2>1. \A e \in Docs : AtHome(e)
        <3>1. Plain(Instance.name)
            BY DEF IInv, TypeOK, Instance
        <3>2. QED
            BY <3>1, PlainIsHome DEF AtHome, Agreed, Index, CollectionOf, IndexOf
    <2>2. PICK q, o : q = ReadQdrant(Instance) /\ o = ReadOpenSearch(Instance)
        OBVIOUS
    <2>3. CollectionOf(d) = q /\ IndexOf(d) = o
        BY <2>1, <2>2 DEF AtHome, Agreed
    <2>4. row[d].epoch = epoch
        BY FieldsTyped DEF IInv, Shape
    <2>5. Opened(d) /\ ThereQ(d, row[d].version) /\ ThereO(d, row[d].version)
        BY <2>1, <2>4 DEF IInv, RowIsTrue, RowTrue, AtHome
    <2>6. PICK f : f = Fragments(d, row[d].version)
        OBVIOUS
    <2>7. /\ q \in DOMAIN qdrant /\ o \in DOMAIN opensearch
          /\ Versions(qdrant[q], d) = f
          /\ Versions(opensearch[o].docs, d) = f
        BY <2>1, <2>3, <2>5, <2>6 DEF Opened, ThereQ, ThereO, Made, AtHome
    <2>8. DOMAIN f \subseteq DOMAIN qdrant[q] /\ DOMAIN f \subseteq DOMAIN opensearch[o].docs
        BY <2>7 DEF Versions, Of
    <2>9. QED
        BY <2>2, <2>6, <2>7, <2>8 DEF InQdrant, InOpenSearch, Found
<1>3. QED
    BY <1>1, <1>2, EnginesInvariant, InitInv, InvStep, MadeStep, PTL DEF Spec

-----------------------------------------------------------------------------
(* The fusion. *)

\* A ranking names each fragment once.
Ranking(s, n) ==
    /\ \E S : s \in Seq(S)
    /\ Len(s) \in 0..n /\ DOMAIN s = 1..Len(s) /\ IsInjective(s)

\* What an engine answers is a ranking.
LEMMA RankedIsRanking ==
    ASSUME NEW S, NEW n \in Nat, NEW s \in Ranked(S, n)
    PROVE  Ranking(s, n) /\ Range(s) \subseteq S
<1>1. PICK m \in 0..n : s \in [1..m -> S]
    BY DEF Ranked, SeqOf
<1>2. s \in Seq(S)
    BY <1>1, IsASeq
<1>3. Len(s) = m /\ IsInjective(s)
    BY <1>1, <1>2, LenProperties DEF Ranked
<1>4. QED
    BY <1>1, <1>2, <1>3 DEF Ranking, Range

\* A fragment of a ranking has one rank.
LEMMA RankIs ==
    ASSUME NEW n \in Nat, NEW s, Ranking(s, n)
    PROVE  /\ Len(s) \in Nat /\ Len(s) <= n
           /\ \A c \in Range(s) : Rank(s, c) \in 1..Len(s) /\ s[Rank(s, c)] = c
           /\ \A i \in 1..Len(s) : s[i] \in Range(s) /\ Rank(s, s[i]) = i
<1>1. \A c \in Range(s) : Rank(s, c) \in DOMAIN s /\ s[Rank(s, c)] = c
    BY DEF Range, Rank
<1>2. QED
    BY <1>1 DEF Ranking, Range, IsInjective

\* The common multiple is a number, however deep the rankings are.
LEMMA MultipleIsNatural == Multiple \in Nat
<1>1. Bm25TopK \in Nat /\ DenseTopK \in Nat /\ RrfK \in Nat
    BY RetrievalAssumption
<1>2. Deepest \in Nat
    BY <1>1 DEF Deepest
<1>3. \A x, n \in Nat : x * (RrfK + n) \in Nat
    BY <1>1
<1>4. PICK step : step = [n \in 1..Deepest |-> [x \in Nat |-> x * (RrfK + n)]]
    OBVIOUS
<1>5. /\ step \in [1..Deepest -> [Nat -> Nat]]
      /\ \A n \in 1..Deepest, x \in Nat : step[n][x] = x * (RrfK + n)
    <2>1. ASSUME NEW n \in 1..Deepest
          PROVE step[n] \in [Nat -> Nat] /\ \A x \in Nat : step[n][x] = x * (RrfK + n)
        <3>1. n \in Nat
            BY <1>2
        <3>2. step[n] = [x \in Nat |-> x * (RrfK + n)]
            BY <1>4
        <3>3. QED
            BY <1>3, <3>1, <3>2
    <2>2. QED
        BY <1>4, <2>1
<1>6. \E f \in [0..Deepest -> Nat] : Recursive(f, 1, Deepest, step)
    <2>1. 1 \in Nat
        OBVIOUS
    <2>2. QED
        BY <1>2, <1>5, <2>1, RecursionExists, Zenon
<1>7. PICK f \in [0..Deepest -> Nat] : f[0] = 1 /\ \A n \in 1..Deepest : f[n] = step[n][f[n - 1]]
    BY <1>6 DEF Recursive
<1>8. f = [n \in 0..Deepest |-> IF n = 0 THEN 1 ELSE f[n - 1] * (RrfK + n)]
    <2>1. ASSUME NEW n \in 0..Deepest
          PROVE f[n] = IF n = 0 THEN 1 ELSE f[n - 1] * (RrfK + n)
        <3>1. n # 0 => n \in 1..Deepest /\ n - 1 \in 0..Deepest
            BY <1>2
        <3>2. n # 0 => f[n - 1] \in Nat
            BY <3>1
        <3>3. QED
            BY <1>5, <1>7, <3>1, <3>2
    <2>2. QED
        BY <2>1
<1>9. Product = [n \in 0..Deepest |-> IF n = 0 THEN 1 ELSE Product[n - 1] * (RrfK + n)]
    BY <1>8 DEF Product
<1> DEFINE Good == {n \in Nat : n <= Deepest => Product[n] \in Nat}
<1>10. 0 \in Good
    BY <1>2, <1>9
<1>11. ASSUME NEW n \in Nat, n \in Good PROVE n + 1 \in Good
    <2>1. SUFFICES ASSUME n + 1 <= Deepest PROVE Product[n + 1] \in Nat
        OBVIOUS
    <2>2. n + 1 \in 0..Deepest /\ n + 1 # 0 /\ (n + 1) - 1 = n /\ n + 1 \in Nat
        BY <1>2, <2>1
    <2>3. Product[n] \in Nat
        BY <1>2, <1>11, <2>1
    <2>4. Product[n + 1] = Product[n] * (RrfK + (n + 1))
        BY <1>9, <2>2
    <2>5. QED
        BY <1>3, <2>2, <2>3, <2>4
<1>12. Deepest \in Good
    <2> HIDE DEF Good
    <2>1. QED
        BY <1>2, <1>10, <1>11, NatSetInduction
<1>13. QED
    BY <1>2, <1>12 DEF Multiple

\* A better rank is worth no less.
LEMMA TermDecreases ==
    ASSUME NEW M \in Nat, NEW k \in Nat \ {0}, NEW w \in Nat, NEW i \in Nat, NEW j \in Nat, i <= j
    PROVE  /\ w * (M \div (k + j)) <= w * (M \div (k + i))
           /\ w * (M \div (k + i)) \in Nat
<1>1. \A a, b \in Nat \ {0} : a <= b => M \div b <= M \div a
    <2> SUFFICES ASSUME NEW a \in Nat \ {0}, NEW b \in Nat \ {0}, a <= b PROVE M \div b <= M \div a
        OBVIOUS
    <2>1. PICK p, q \in Nat : p = M \div a /\ q = M \div b
        OBVIOUS
    <2>2. M < (p + 1) * a /\ q * b <= M
        BY <2>1
    <2>3. q * a <= q * b
        OBVIOUS
    <2>4. ASSUME p + 1 <= q PROVE (p + 1) * a <= q * a
        BY <2>4
    <2>5. QED
        BY <2>1, <2>2, <2>3, <2>4
<1>2. PICK x, y \in Nat : x = M \div (k + i) /\ y = M \div (k + j)
    OBVIOUS
<1>3. y <= x
    <2>1. k + i \in Nat \ {0} /\ k + j \in Nat \ {0} /\ k + i <= k + j
        OBVIOUS
    <2>2. QED
        BY <1>1, <1>2, <2>1
<1>4. w * y <= w * x /\ w * x \in Nat
    BY <1>3
<1>5. QED
    BY <1>2, <1>4

\* A share of a fragment that a ranking names, and of the others.
LEMMA ShareIs ==
    ASSUME NEW n \in Nat, NEW s, Ranking(s, n), NEW w \in Nat
    PROVE  /\ \A c : Share(w, s, c) \in Nat
           /\ \A a, b \in Range(s) : Rank(s, a) <= Rank(s, b) => Share(w, s, b) <= Share(w, s, a)
           /\ \A b : b \notin Range(s) => Share(w, s, b) = 0
<1>1. PICK M \in Nat, k \in Nat \ {0} : M = Multiple /\ k = RrfK
    BY MultipleIsNatural, RetrievalAssumption
<1>2. \A c \in Range(s) : Rank(s, c) \in Nat
    BY RankIs
<1>3. \A c \in Range(s) : Share(w, s, c) = w * (M \div (k + Rank(s, c)))
    BY <1>1 DEF Share
<1>4. \A b : b \notin Range(s) => Share(w, s, b) = 0
    BY DEF Share
<1>5. ASSUME NEW a \in Range(s), NEW b \in Range(s), Rank(s, a) <= Rank(s, b)
      PROVE Share(w, s, b) <= Share(w, s, a)
    <2>1. PICK i, j \in Nat : i = Rank(s, a) /\ j = Rank(s, b)
        BY <1>2
    <2>2. w * (M \div (k + j)) <= w * (M \div (k + i))
        BY <1>5, <2>1, TermDecreases
    <2>3. QED
        BY <1>3, <2>1, <2>2
<1>6. ASSUME NEW c PROVE Share(w, s, c) \in Nat
    <2>1. CASE c \in Range(s)
        <3>1. PICK i \in Nat : i = Rank(s, c)
            BY <1>2, <2>1
        <3>2. w * (M \div (k + i)) \in Nat
            BY <3>1, TermDecreases
        <3>3. QED
            BY <1>3, <2>1, <3>1, <3>2
    <2>2. CASE c \notin Range(s)
        BY <1>4, <2>2
    <2>3. QED
        BY <2>1, <2>2
<1>7. QED
    BY <1>4, <1>5, <1>6

\* The two rankings of a question.
Rankings(bm25, dense) == Ranking(bm25, Bm25TopK) /\ Ranking(dense, DenseTopK)

\* No two fragments have the same turn.
LEMMA TurnIs ==
    ASSUME NEW bm25, NEW dense, Rankings(bm25, dense)
    PROVE  /\ \A c \in Seen(bm25, dense) : Turn(bm25, dense, c) \in Nat
           /\ \A a, b \in Seen(bm25, dense) :
                 Turn(bm25, dense, a) = Turn(bm25, dense, b) => a = b
           /\ \A a, b \in Seen(bm25, dense) :
                 Dominates(bm25, dense, a, b) => Turn(bm25, dense, a) < Turn(bm25, dense, b)
<1>1. Bm25TopK \in Nat /\ DenseTopK \in Nat
    BY RetrievalAssumption
<1>2. /\ Len(bm25) \in Nat /\ Len(bm25) <= Bm25TopK
      /\ \A c \in Range(bm25) : Rank(bm25, c) \in 1..Len(bm25) /\ bm25[Rank(bm25, c)] = c
    BY <1>1, RankIs DEF Rankings
<1>3. /\ Len(dense) \in Nat /\ Len(dense) <= DenseTopK
      /\ \A c \in Range(dense) : Rank(dense, c) \in 1..Len(dense) /\ dense[Rank(dense, c)] = c
    BY <1>1, RankIs DEF Rankings
<1>4. \A c \in Seen(bm25, dense) :
        /\ c \in Range(bm25) => Turn(bm25, dense, c) = Rank(bm25, c)
        /\ c \notin Range(bm25) => c \in Range(dense) /\ Turn(bm25, dense, c) = Len(bm25) + Rank(dense, c)
    BY DEF Turn, Seen
<1>5. \A a, b \in Seen(bm25, dense) : Turn(bm25, dense, a) = Turn(bm25, dense, b) => a = b
    BY <1>2, <1>3, <1>4
<1>6. ASSUME NEW a \in Seen(bm25, dense), NEW b \in Seen(bm25, dense), Dominates(bm25, dense, a, b)
      PROVE  Turn(bm25, dense, a) < Turn(bm25, dense, b)
    <2>1. /\ Place(bm25, a) <= Place(bm25, b) /\ Place(dense, a) <= Place(dense, b) /\ a # b
        BY <1>6 DEF Dominates
    <2>2. CASE a \in Range(bm25) /\ b \in Range(bm25)
        BY <1>2, <1>4, <2>1, <2>2 DEF Place
    <2>3. CASE a \in Range(bm25) /\ b \notin Range(bm25)
        BY <1>2, <1>3, <1>4, <2>3
    <2>4. CASE a \notin Range(bm25) /\ b \in Range(bm25)
        BY <1>1, <1>2, <2>1, <2>4 DEF Place, Infinite
    <2>5. CASE a \notin Range(bm25) /\ b \notin Range(bm25)
        BY <1>2, <1>3, <1>4, <2>1, <2>5 DEF Place
    <2>6. QED
        BY <2>2, <2>3, <2>4, <2>5
<1>7. QED
    BY <1>2, <1>3, <1>4, <1>5, <1>6

\* The order of the fusion: strict, total, and it follows the engines when they agree.
LEMMA PrecedesIs ==
    ASSUME NEW bm25, NEW dense, Rankings(bm25, dense)
    PROVE  /\ \A a, b \in Seen(bm25, dense) :
                 Dominates(bm25, dense, a, b) => Precedes(bm25, dense, a, b)
           /\ \A a \in Seen(bm25, dense) : ~Precedes(bm25, dense, a, a)
           /\ \A a, b \in Seen(bm25, dense) :
                 a # b => Precedes(bm25, dense, a, b) \/ Precedes(bm25, dense, b, a)
           /\ \A a, b, c \in Seen(bm25, dense) :
                 Precedes(bm25, dense, a, b) /\ Precedes(bm25, dense, b, c)
                    => Precedes(bm25, dense, a, c)
<1>1. /\ Bm25TopK \in Nat /\ DenseTopK \in Nat /\ Bm25Weight \in Nat /\ DenseWeight \in Nat
    BY RetrievalAssumption
<1>2. /\ \A c : Share(Bm25Weight, bm25, c) \in Nat /\ Share(DenseWeight, dense, c) \in Nat
      /\ \A a, b \in Range(bm25) : Rank(bm25, a) <= Rank(bm25, b)
               => Share(Bm25Weight, bm25, b) <= Share(Bm25Weight, bm25, a)
      /\ \A b : b \notin Range(bm25) => Share(Bm25Weight, bm25, b) = 0
    BY <1>1, ShareIs DEF Rankings
<1>3. /\ \A a, b \in Range(dense) : Rank(dense, a) <= Rank(dense, b)
               => Share(DenseWeight, dense, b) <= Share(DenseWeight, dense, a)
      /\ \A b : b \notin Range(dense) => Share(DenseWeight, dense, b) = 0
    BY <1>1, ShareIs DEF Rankings
<1>4. \A c : Score(bm25, dense, c) \in Nat
    BY <1>2 DEF Score
<1>5. ASSUME NEW a \in Seen(bm25, dense), NEW b \in Seen(bm25, dense), Dominates(bm25, dense, a, b)
      PROVE  Precedes(bm25, dense, a, b)
    <2>1. Place(bm25, a) <= Place(bm25, b) /\ Place(dense, a) <= Place(dense, b)
        BY <1>5 DEF Dominates
    <2>2. \A c \in Range(bm25) : Rank(bm25, c) \in Nat /\ Rank(bm25, c) < Infinite
        BY <1>1, RankIs DEF Rankings, Infinite
    <2>3. \A c \in Range(dense) : Rank(dense, c) \in Nat /\ Rank(dense, c) < Infinite
        BY <1>1, RankIs DEF Rankings, Infinite
    <2>4. Infinite \in Nat
        BY <1>1 DEF Infinite
    <2>5. Share(Bm25Weight, bm25, b) <= Share(Bm25Weight, bm25, a)
        BY <1>2, <2>1, <2>2, <2>4 DEF Place
    <2>6. Share(DenseWeight, dense, b) <= Share(DenseWeight, dense, a)
        BY <1>2, <1>3, <2>1, <2>3, <2>4 DEF Place
    <2>7. Score(bm25, dense, b) <= Score(bm25, dense, a)
        BY <1>2, <2>5, <2>6 DEF Score
    <2>8. QED
        BY <1>4, <1>5, <2>7, TurnIs DEF Precedes
<1>6. QED
    BY <1>4, <1>5, TurnIs DEF Precedes

\* Two rankings show finitely many fragments.
LEMMA SeenIsFinite ==
    ASSUME NEW bm25, NEW dense, Rankings(bm25, dense)
    PROVE  IsFiniteSet(Seen(bm25, dense))
<1>1. ASSUME NEW s, NEW n, Ranking(s, n) PROVE IsFiniteSet(Range(s))
    <2>1. DOMAIN s = 1..Len(s) /\ Len(s) \in Int /\ \E S : s \in Seq(S)
        BY <1>1 DEF Ranking
    <2>2. IsFiniteSet(1..Len(s))
        <3>1. 1 \in Int
            OBVIOUS
        <3>2. QED
            BY <2>1, <3>1, FS_Interval
    <2>3. s \in Surjection(1..Len(s), Range(s))
        BY <2>1 DEF Range, Surjection
    <2>4. QED
        BY <2>2, <2>3, FS_Surjection
<1>2. IsFiniteSet(Range(bm25)) /\ IsFiniteSet(Range(dense))
    BY <1>1 DEF Rankings
<1>3. QED
    BY <1>2, FS_Union DEF Seen

\* The position is one more than the number of those before: all positions are
\* taken, each one once, in the order.
LEMMA PositionIs ==
    ASSUME NEW bm25, NEW dense, Rankings(bm25, dense), NEW N, N = Cardinality(Seen(bm25, dense))
    PROVE  /\ N \in Nat
           /\ \A c \in Seen(bm25, dense) : Position(bm25, dense, c) \in 1..N
           /\ \A a, b \in Seen(bm25, dense) : Precedes(bm25, dense, a, b) =>
                 Position(bm25, dense, a) < Position(bm25, dense, b)
           /\ \A a, b \in Seen(bm25, dense) :
                 Position(bm25, dense, a) = Position(bm25, dense, b) => a = b
           /\ \A p \in 1..N : \E c \in Seen(bm25, dense) : Position(bm25, dense, c) = p
<1> DEFINE T == Seen(bm25, dense)
           B(c) == {b \in T : Precedes(bm25, dense, b, c)}
           P(c) == Position(bm25, dense, c)
<1>1. IsFiniteSet(T)
    BY SeenIsFinite
<1>2. N \in Nat
    BY <1>1, FS_CardinalityType
<1>3. ASSUME NEW c \in T
      PROVE  /\ IsFiniteSet(B(c)) /\ Cardinality(B(c)) \in Nat
             /\ P(c) = 1 + Cardinality(B(c)) /\ Cardinality(B(c)) < N
    <2> DEFINE S == B(c)
    <2>1. S \in SUBSET T /\ c \notin S
        BY PrecedesIs
    <2>2. S # T
        BY <2>1
    <2>3. P(c) = 1 + Cardinality(S)
        BY DEF Position
    <2> HIDE DEF S, T
    <2>4. IsFiniteSet(S) /\ Cardinality(S) <= N /\ Cardinality(S) # N
        BY <1>1, <2>1, <2>2, FS_Subset DEF T
    <2>5. Cardinality(S) \in Nat
        BY <2>4, FS_CardinalityType
    <2>6. QED
        BY <1>2, <2>3, <2>4, <2>5 DEF S
<1>4. ASSUME NEW c \in T PROVE P(c) \in 1..N
    <2>1. PICK n : n = Cardinality(B(c))
        OBVIOUS
    <2>2. n \in Nat /\ P(c) = 1 + n /\ n < N
        BY <1>3, <2>1
    <2>3. QED
        BY <1>2, <2>2
<1>5. ASSUME NEW a \in T, NEW b \in T, Precedes(bm25, dense, a, b) PROVE P(a) < P(b)
    <2>1. PICK A, C : A = B(a) /\ C = B(b)
        OBVIOUS
    <2>2. A \in SUBSET C /\ a \in C /\ a \notin A
        BY <1>5, <2>1, PrecedesIs
    <2>3. IsFiniteSet(C)
        BY <1>3, <2>1
    <2>4. Cardinality(A) <= Cardinality(C) /\ Cardinality(A) # Cardinality(C)
        BY <2>2, <2>3, FS_Subset
    <2>5. Cardinality(A) \in Nat /\ Cardinality(C) \in Nat /\ P(a) = 1 + Cardinality(A) /\ P(b) = 1 + Cardinality(C)
        BY <1>3, <2>1
    <2>6. QED
        BY <2>4, <2>5
<1>6. ASSUME NEW a \in T, NEW b \in T, P(a) = P(b) PROVE a = b
    <2>1. P(a) \in Nat /\ P(b) \in Nat
        BY <1>2, <1>4
    <2>2. ~(P(a) < P(b)) /\ ~(P(b) < P(a))
        BY <1>6, <2>1
    <2>3. QED
        BY <1>5, <2>2, PrecedesIs
<1>7. \A p \in 1..N : \E c \in T : P(c) = p
    <2>1. PICK f : f = [c \in T |-> P(c)]
        OBVIOUS
    <2>2. PICK U, I : U = T /\ I = 1..N
        OBVIOUS
    <2>3. f \in [U -> I] /\ \A c \in U : f[c] = P(c)
        BY <1>4, <2>1, <2>2
    <2>4. f \in Injection(U, I)
        BY <1>6, <2>2, <2>3 DEF Injection, IsInjective
    <2>5. IsFiniteSet(I) /\ Cardinality(I) = N
        BY <1>2, <2>2, FS_Interval
    <2>6. Cardinality(U) = Cardinality(I)
        BY <2>2, <2>5
    <2>7. f \in Surjection(U, I)
        BY <2>4, <2>5, <2>6, FS_Injection
    <2>8. QED
        BY <2>2, <2>3, <2>7 DEF Surjection
<1>8. QED
    BY <1>2, <1>4, <1>5, <1>6, <1>7

\* The fusion lists the fragments by position, those that fit.
LEMMA FusedIs ==
    ASSUME NEW bm25, NEW dense, Rankings(bm25, dense), NEW L,
           L = Least(Cardinality(Seen(bm25, dense)), SearchTopK)
    PROVE  LET fused == Fused(bm25, dense) IN
           /\ L \in Nat /\ fused \in [1..L -> Seen(bm25, dense)]
           /\ \A p \in 1..L : Position(bm25, dense, fused[p]) = p
           /\ \A c \in Seen(bm25, dense) :
                 Position(bm25, dense, c) \in 1..L => fused[Position(bm25, dense, c)] = c
<1>1. PICK N : N = Cardinality(Seen(bm25, dense))
    OBVIOUS
<1>2. /\ N \in Nat
      /\ \A a, b \in Seen(bm25, dense) :
            Position(bm25, dense, a) = Position(bm25, dense, b) => a = b
      /\ \A p \in 1..N : \E c \in Seen(bm25, dense) : Position(bm25, dense, c) = p
    BY <1>1, PositionIs
<1>3. L \in Nat /\ L <= N
    BY <1>1, <1>2, RetrievalAssumption DEF Least
<1>4. Fused(bm25, dense) =
        [p \in 1..L |-> CHOOSE c \in Seen(bm25, dense) : Position(bm25, dense, c) = p]
    BY DEF Fused
<1>5. ASSUME NEW p \in 1..L
      PROVE  /\ Fused(bm25, dense)[p] \in Seen(bm25, dense)
             /\ Position(bm25, dense, Fused(bm25, dense)[p]) = p
    <2>1. \E c \in Seen(bm25, dense) : Position(bm25, dense, c) = p
        BY <1>2, <1>3
    <2>2. Fused(bm25, dense)[p] = CHOOSE c \in Seen(bm25, dense) : Position(bm25, dense, c) = p
        BY <1>4
    <2>3. QED
        BY <2>1, <2>2
<1>6. QED
    BY <1>2, <1>3, <1>4, <1>5

\* _rrf_fusion never places a fragment below one that neither engine prefers to it.
LEMMA FusedRespects ==
    ASSUME NEW bm25, NEW dense, Rankings(bm25, dense)
    PROVE  FusionRespects(bm25, dense, Fused(bm25, dense))
<1>1. PICK N, L : N = Cardinality(Seen(bm25, dense)) /\ L = Least(N, SearchTopK)
    OBVIOUS
<1>2. PICK f : f = Fused(bm25, dense)
    OBVIOUS
<1>3. /\ L \in Nat /\ f \in [1..L -> Seen(bm25, dense)]
      /\ \A p \in 1..L : Position(bm25, dense, f[p]) = p
      /\ \A c \in Seen(bm25, dense) : Position(bm25, dense, c) \in 1..L => f[Position(bm25, dense, c)] = c
    BY <1>1, <1>2, FusedIs
<1>4. IsInjective(f)
    BY <1>3 DEF IsInjective
<1>5. /\ \A c \in Range(f) : c \in Seen(bm25, dense) /\ Position(bm25, dense, c) \in 1..L
                             /\ Rank(f, c) = Position(bm25, dense, c)
      /\ \A c \in Seen(bm25, dense) : Position(bm25, dense, c) \in 1..L => c \in Range(f)
    BY <1>3 DEF Range, Rank
<1>6. ASSUME NEW a \in Range(bm25) \cup Range(dense), NEW b \in Range(bm25) \cup Range(dense),
             Dominates(bm25, dense, a, b), b \in Range(f)
      PROVE  a \in Range(f) /\ Rank(f, a) < Rank(f, b)
    <2>1. a \in Seen(bm25, dense) /\ b \in Seen(bm25, dense)
        BY DEF Seen
    <2>2. Precedes(bm25, dense, a, b)
        BY <1>6, <2>1, PrecedesIs
    <2>3. Position(bm25, dense, a) < Position(bm25, dense, b) /\ Position(bm25, dense, a) \in 1..N /\ N \in Nat
        BY <1>1, <2>1, <2>2, PositionIs
    <2>4. Position(bm25, dense, b) \in 1..L
        BY <1>5, <1>6
    <2>5. Position(bm25, dense, a) \in 1..L
        BY <1>3, <2>3, <2>4
    <2>6. QED
        BY <1>5, <1>6, <2>1, <2>3, <2>5
<1>7. QED
    BY <1>2, <1>4, <1>6 DEF FusionRespects

\* When the order is that of one ranking, so is the fusion.
LEMMA FusedFollows ==
    ASSUME NEW bm25, NEW dense, Rankings(bm25, dense), NEW n \in Nat, NEW s, Ranking(s, n),
           Range(s) = Seen(bm25, dense),
           \A i, j \in 1..Len(s) : i < j => Precedes(bm25, dense, s[i], s[j])
    PROVE  IsPrefix(Fused(bm25, dense), s)
<1>1. PICK N, L : N = Cardinality(Seen(bm25, dense)) /\ L = Least(N, SearchTopK)
    OBVIOUS
<1>2. PICK f : f = Fused(bm25, dense)
    OBVIOUS
<1>3. /\ L \in Nat /\ f \in [1..L -> Seen(bm25, dense)]
      /\ \A p \in 1..L : Position(bm25, dense, f[p]) = p
    BY <1>1, <1>2, FusedIs
<1>4. /\ Len(s) \in Nat /\ DOMAIN s = 1..Len(s) /\ IsInjective(s)
      /\ \A i \in 1..Len(s) : s[i] \in Seen(bm25, dense)
      /\ \A c \in Seen(bm25, dense) : \E i \in 1..Len(s) : s[i] = c
    BY RankIs DEF Ranking, Range
<1>5. ASSUME NEW B, NEW m \in 0..Len(s), B = {s[j] : j \in 1..m} PROVE Cardinality(B) = m
    <2>1. PICK g, I : I = 1..m /\ g = [j \in I |-> s[j]]
        OBVIOUS
    <2>2. m \in Nat /\ I \subseteq 1..Len(s)
        BY <1>4, <2>1
    <2>3. g \in Bijection(I, B)
        BY <1>4, <1>5, <2>1, <2>2 DEF Bijection, Injection, Surjection, IsInjective
    <2>4. IsFiniteSet(I) /\ Cardinality(I) = m
        BY <2>1, <2>2, FS_Interval
    <2>5. ExistsBijection(I, B)
        BY <2>3 DEF ExistsBijection
    <2>6. Cardinality(B) = Cardinality(I)
        BY <2>4, <2>5, FS_Bijection
    <2>7. QED
        BY <2>4, <2>6
<1>6. N = Len(s)
    <2>1. Seen(bm25, dense) = {s[j] : j \in 1..Len(s)}
        BY <1>4 DEF Range
    <2>2. Len(s) \in 0..Len(s)
        BY <1>4
    <2>3. QED
        BY <1>1, <1>5, <2>1, <2>2
<1>7. ASSUME NEW i \in 1..Len(s) PROVE Position(bm25, dense, s[i]) = i
    <2>1. PICK B : B = {b \in Seen(bm25, dense) : Precedes(bm25, dense, b, s[i])}
        OBVIOUS
    <2>2. ASSUME NEW j \in 1..Len(s) PROVE Precedes(bm25, dense, s[j], s[i]) <=> j < i
        <3>1. s[i] \in Seen(bm25, dense) /\ s[j] \in Seen(bm25, dense)
            BY <1>4
        <3>2. i < j => ~Precedes(bm25, dense, s[j], s[i])
            BY <3>1, PrecedesIs
        <3>3. i = j => ~Precedes(bm25, dense, s[j], s[i])
            BY <3>1, PrecedesIs
        <3>4. QED
            BY <1>4, <3>2, <3>3
    <2>3. B = {s[j] : j \in 1..(i - 1)}
        <3>1. \A j \in 1..Len(s) : j < i <=> j \in 1..(i - 1)
            BY <1>4
        <3>2. \A j \in 1..(i - 1) : j \in 1..Len(s)
            BY <1>4
        <3>3. QED
            BY <1>4, <2>1, <2>2, <3>1, <3>2
    <2>4. i - 1 \in 0..Len(s) /\ 1 + (i - 1) = i
        BY <1>4
    <2>5. Cardinality(B) = i - 1
        BY <1>5, <2>3, <2>4
    <2>6. QED
        BY <2>1, <2>4, <2>5 DEF Position
<1>8. L <= Len(s)
    BY <1>1, <1>4, <1>6, RetrievalAssumption DEF Least
<1>9. \A p \in 1..L : f[p] = s[p]
    <2>1. \A a, b \in Seen(bm25, dense) : Position(bm25, dense, a) = Position(bm25, dense, b) => a = b
        BY PositionIs
    <2>2. QED
        BY <1>3, <1>4, <1>7, <1>8, <2>1
<1>10. IsPrefix(f, s)
    <2>1. PICK S : s \in Seq(S)
        BY DEF Ranking
    <2>2. f \in Seq(Seen(bm25, dense)) /\ Len(f) = L
        BY <1>3, IsASeq, LenProperties
    <2>3. SubSeq(f, 1, L) = SubSeq(s, 1, L)
        BY <1>3, <1>8, <1>9, <2>1, <2>2
    <2>4. QED
        BY <1>8, <2>2, <2>3 DEF IsPrefix
<1>11. QED
    BY <1>2, <1>10

\* With one engine alone, _rrf_fusion keeps its order.
LEMMA FusedOfOne ==
    ASSUME NEW bm25, NEW dense, Rankings(bm25, dense)
    PROVE  OneIsEnough(bm25, dense, Fused(bm25, dense))
<1>1. Bm25TopK \in Nat /\ DenseTopK \in Nat /\ Infinite \in Nat
    BY RetrievalAssumption DEF Infinite
<1>2. Range(<<>>) = {}
    BY DEF Range
<1>3. ASSUME NEW n \in Nat, NEW s, Ranking(s, n), Range(s) = Seen(bm25, dense),
             \A i, j \in 1..Len(s) : i < j => Dominates(bm25, dense, s[i], s[j])
      PROVE  IsPrefix(Fused(bm25, dense), s)
    <2>1. \A i \in 1..Len(s) : s[i] \in Seen(bm25, dense)
        BY <1>3, RankIs
    <2>2. \A i, j \in 1..Len(s) : i < j => Precedes(bm25, dense, s[i], s[j])
        BY <1>3, <2>1, PrecedesIs
    <2>3. QED
        BY <1>3, <2>2, FusedFollows
<1>4. ASSUME dense = <<>> PROVE IsPrefix(Fused(bm25, dense), bm25)
    <2>1. Range(dense) = {} /\ Range(bm25) = Seen(bm25, dense)
        BY <1>2, <1>4 DEF Seen
    <2>2. ASSUME NEW i \in 1..Len(bm25), NEW j \in 1..Len(bm25), i < j
          PROVE Dominates(bm25, dense, bm25[i], bm25[j])
        <3>1. /\ bm25[i] \in Range(bm25) /\ bm25[j] \in Range(bm25)
              /\ Rank(bm25, bm25[i]) = i /\ Rank(bm25, bm25[j]) = j /\ Len(bm25) \in Nat
            BY <1>1, RankIs DEF Rankings
        <3>2. QED
            BY <1>1, <2>1, <2>2, <3>1 DEF Dominates, Place
    <2>3. QED
        BY <1>1, <1>3, <2>1, <2>2 DEF Rankings
<1>5. ASSUME bm25 = <<>> PROVE IsPrefix(Fused(bm25, dense), dense)
    <2>1. Range(bm25) = {} /\ Range(dense) = Seen(bm25, dense)
        BY <1>2, <1>5 DEF Seen
    <2>2. ASSUME NEW i \in 1..Len(dense), NEW j \in 1..Len(dense), i < j
          PROVE Dominates(bm25, dense, dense[i], dense[j])
        <3>1. /\ dense[i] \in Range(dense) /\ dense[j] \in Range(dense)
              /\ Rank(dense, dense[i]) = i /\ Rank(dense, dense[j]) = j /\ Len(dense) \in Nat
            BY <1>1, RankIs DEF Rankings
        <3>2. QED
            BY <1>1, <2>1, <2>2, <3>1 DEF Dominates, Place
    <2>3. QED
        BY <1>1, <1>3, <2>1, <2>2 DEF Rankings
<1>6. QED
    BY <1>4, <1>5 DEF OneIsEnough

-----------------------------------------------------------------------------
(* The lot. *)

\* What plafonner_secondaires does with one fragment.
Treated(kept, c) == IF PassedOver(kept, c) THEN kept ELSE Append(kept, c)

\* f gives the lot after each fragment of s.
Treats(f, s, L, e) ==
    /\ WithinCeiling(s) = f[L] /\ f[0] = e
    /\ \A n \in 1..L : f[n] = Treated(f[n - 1], s[n])

\* plafonner_secondaires treats the fragments one after the other.
LEMMA CappedUnfolds ==
    ASSUME NEW S, NEW s \in Seq(S), NEW L \in Nat, L = Len(s), NEW e, e = <<>>
    PROVE  \E f \in [0..L -> Seq(S)] : Treats(f, s, L, e)
<1>1. e \in Seq(S)
    BY EmptySeq
<1>2. \A n \in 1..L : s[n] \in S
    BY ElementOfSeq
<1>3. \A t \in Seq(S), n \in 1..L : Treated(t, s[n]) \in Seq(S)
    BY <1>2, AppendProperties DEF Treated
<1>4. PICK step : step = [n \in 1..L |-> [t \in Seq(S) |-> Treated(t, s[n])]]
    OBVIOUS
<1>5. step \in [1..L -> [Seq(S) -> Seq(S)]]
    BY <1>3, <1>4
<1>6. \E f \in [0..L -> Seq(S)] : Recursive(f, e, L, step)
    BY <1>1, <1>5, RecursionExists, Zenon
<1>7. PICK f \in [0..L -> Seq(S)] : f[0] = e /\ \A n \in 1..L : f[n] = step[n][f[n - 1]]
    BY <1>6 DEF Recursive
<1>8. ASSUME NEW n \in 1..L PROVE f[n] = Treated(f[n - 1], s[n])
    <2>1. f[n - 1] \in Seq(S)
        OBVIOUS
    <2>2. QED
        BY <1>4, <1>7, <2>1
<1> DEFINE F(g) == [n \in 0..L |->
                       IF n = 0 THEN e
                       ELSE IF PassedOver(g[n - 1], s[n]) THEN g[n - 1]
                       ELSE Append(g[n - 1], s[n])]
           kept == CHOOSE g : g = F(g)
<1>9. f = F(f)
    <2>1. ASSUME NEW n \in 0..L PROVE f[n] = F(f)[n]
        <3>1. CASE n = 0
            BY <1>7, <3>1
        <3>2. CASE n # 0
            <4>1. n \in 1..L
                BY <3>2
            <4>2. f[n] = IF PassedOver(f[n - 1], s[n]) THEN f[n - 1] ELSE Append(f[n - 1], s[n])
                BY <1>8, <4>1 DEF Treated
            <4>3. QED
                BY <3>2, <4>2
        <3>3. QED
            BY <3>1, <3>2
    <2>2. QED
        BY <2>1
<1>10. kept = F(kept)
    BY <1>9
<1>11. WithinCeiling(s) = kept[L]
    BY DEF WithinCeiling
<1> HIDE DEF kept
<1>12. \A n \in 0..L : kept[n] = IF n = 0 THEN e ELSE Treated(kept[n - 1], s[n])
    BY <1>10 DEF Treated
<1>13. PICK Agree : Agree = {n \in Nat : n <= L => kept[n] = f[n]}
    OBVIOUS
<1>14. 0 \in Agree
    BY <1>7, <1>12, <1>13
<1>15. ASSUME NEW n \in Nat, n \in Agree PROVE n + 1 \in Agree
    <2> SUFFICES ASSUME n + 1 <= L PROVE kept[n + 1] = f[n + 1]
        BY <1>13
    <2>1. kept[n] = f[n] /\ n + 1 \in 1..L /\ n + 1 \in 0..L /\ (n + 1) - 1 = n /\ n + 1 # 0
        BY <1>13, <1>15
    <2>2. kept[n + 1] = Treated(kept[n], s[n + 1])
        BY <1>12, <2>1
    <2>3. f[n + 1] = Treated(f[n], s[n + 1])
        BY <1>8, <2>1
    <2>4. QED
        BY <2>1, <2>2, <2>3
<1>16. L \in Agree
    BY <1>14, <1>15, NatSetInduction
<1>17. kept[L] = f[L]
    BY <1>13, <1>16
<1>18. Treats(f, s, L, e)
    BY <1>7, <1>8, <1>11, <1>17 DEF Treats
<1>19. QED
    BY <1>18

\* A fragment more counts for one when it is of a summary document.
LEMMA CountIs ==
    ASSUME NEW S, NEW t \in Seq(S), NEW c \in S
    PROVE  /\ Count(t) \in Nat
           /\ Count(Append(t, c)) = IF Secondary(c) THEN Count(t) + 1 ELSE Count(t)
<1>1. PICK T, U : T = {i \in DOMAIN t : Secondary(t[i])}
                  /\ U = {i \in DOMAIN Append(t, c) : Secondary(Append(t, c)[i])}
    OBVIOUS
<1>2. PICK n \in Nat : n = Len(t) /\ DOMAIN t = 1..n
    BY LenProperties
<1>3. /\ DOMAIN Append(t, c) = 1..(n + 1) /\ Append(t, c)[n + 1] = c
      /\ \A i \in 1..n : Append(t, c)[i] = t[i]
    BY <1>2, AppendProperties
<1>4. IsFiniteSet(T)
    <2>1. IsFiniteSet(1..n)
        <3>1. 1 \in Int /\ n \in Int
            OBVIOUS
        <3>2. QED
            BY <3>1, FS_Interval
    <2>2. T \in SUBSET (1..n)
        BY <1>1, <1>2
    <2>3. QED
        BY <2>1, <2>2, FS_Subset
<1>5. Cardinality(T) \in Nat
    BY <1>4, FS_CardinalityType
<1>6. U = IF Secondary(c) THEN T \cup {n + 1} ELSE T
    BY <1>1, <1>2, <1>3
<1>7. n + 1 \notin T
    BY <1>1, <1>2
<1>8. Cardinality(T \cup {n + 1}) = Cardinality(T) + 1
    BY <1>4, <1>7, FS_AddElement
<1>9. Count(t) = Cardinality(T) /\ Count(Append(t, c)) = Cardinality(U)
    BY <1>1 DEF Count
<1>10. QED
    BY <1>5, <1>6, <1>8, <1>9

\* What holds of the lot after n fragments.
Room(s, n, k) ==
    /\ Len(k) <= RerankTopN
    /\ Ceiling > 0 => Count(k) <= Ceiling
    /\ \A i \in 1..Len(k) : ~IsToc(k[i]) /\ k[i] \in Range(s) /\ Rank(s, k[i]) \in 1..n
    /\ \A i, j \in 1..Len(k) : i < j => Rank(s, k[i]) < Rank(s, k[j])
    /\ \A m \in 1..n :
          \/ \E i \in 1..Len(k) : k[i] = s[m]
          \/ IsToc(s[m])
          \/ Secondary(s[m]) /\ Ceiling > 0 /\ Count(k) = Ceiling
          \/ Len(k) = RerankTopN /\ Rank(s, Last(k)) < m

\* One fragment more keeps Room.
LEMMA RoomStep ==
    ASSUME NEW S, NEW s \in Seq(S), NEW N \in Nat, Ranking(s, N),
           NEW n \in Nat, n + 1 <= Len(s), NEW k \in Seq(S), Room(s, n, k)
    PROVE  Room(s, n + 1, Treated(k, s[n + 1]))
<1>1. PICK c \in S : c = s[n + 1]
    BY LenProperties, ElementOfSeq
<1>2. Rank(s, c) = n + 1 /\ c \in Range(s)
    BY <1>1, RankIs
<1>3. RerankTopN \in Nat \ {0} /\ Ceiling \in Nat
    BY RetrievalAssumption
<1>4. PICK l \in Nat : l = Len(k)
    BY LenProperties
<1>5. Count(k) \in Nat
    BY CountIs
<1>6. CASE PassedOver(k, c)
    <2>1. Treated(k, c) = k
        BY <1>6 DEF Treated
    <2>2. \/ IsToc(c)
          \/ Secondary(c) /\ Ceiling > 0 /\ Count(k) = Ceiling
          \/ l = RerankTopN /\ Rank(s, k[l]) < n + 1
        <3>1. CASE l >= RerankTopN
            <4>1. l = RerankTopN /\ l \in 1..l
                BY <1>3, <1>4, <3>1 DEF Room
            <4>2. QED
                BY <1>4, <4>1 DEF Room
        <3>2. CASE ~(l >= RerankTopN)
            BY <1>3, <1>4, <1>5, <1>6, <3>2 DEF PassedOver, Room
        <3>3. QED
            BY <3>1, <3>2
    <2>3. ASSUME NEW m \in 1..(n + 1)
          PROVE  \/ \E i \in 1..Len(k) : k[i] = s[m]
                 \/ IsToc(s[m])
                 \/ Secondary(s[m]) /\ Ceiling > 0 /\ Count(k) = Ceiling
                 \/ Len(k) = RerankTopN /\ Rank(s, Last(k)) < m
        <3>1. CASE m \in 1..n
            BY <3>1 DEF Room
        <3>2. CASE m = n + 1
            BY <1>1, <1>4, <2>2, <3>2 DEF Last
        <3>3. QED
            BY <3>1, <3>2
    <2>4. \A r \in 1..n : r \in 1..(n + 1)
        OBVIOUS
    <2>5. Room(s, n + 1, k)
        BY <2>3, <2>4 DEF Room
    <2>6. QED
        BY <1>1, <2>1, <2>5
<1>7. CASE ~PassedOver(k, c)
    <2>1. PICK t \in Seq(S) : t = Append(k, c)
        BY AppendProperties
    <2>2. /\ Treated(k, c) = t /\ Len(t) = l + 1 /\ t[l + 1] = c
          /\ \A i \in 1..l : t[i] = k[i]
        BY <1>4, <1>7, <2>1, AppendProperties DEF Treated
    <2>3. /\ l < RerankTopN /\ ~IsToc(c)
          /\ Ceiling > 0 /\ Secondary(c) => Count(k) < Ceiling
        BY <1>3, <1>4, <1>5, <1>7 DEF PassedOver
    <2>4. Count(t) = IF Secondary(c) THEN Count(k) + 1 ELSE Count(k)
        BY <2>1, CountIs
    <2>5. Ceiling > 0 => Count(t) <= Ceiling
        BY <1>3, <1>5, <2>3, <2>4 DEF Room
    <2>6. ASSUME NEW i \in 1..(l + 1)
          PROVE  ~IsToc(t[i]) /\ t[i] \in Range(s) /\ Rank(s, t[i]) \in 1..(n + 1)
        <3>1. CASE i \in 1..l
            <4>1. t[i] = k[i] /\ ~IsToc(k[i]) /\ k[i] \in Range(s) /\ Rank(s, k[i]) \in 1..n
                BY <1>4, <2>2, <3>1 DEF Room
            <4>2. QED
                BY <4>1
        <3>2. CASE i = l + 1
            <4>1. t[i] = c
                BY <2>2, <3>2
            <4>2. QED
                BY <1>2, <2>3, <4>1
        <3>3. QED
            BY <3>1, <3>2
    <2>7. ASSUME NEW i \in 1..(l + 1), NEW j \in 1..(l + 1), i < j
          PROVE  Rank(s, t[i]) < Rank(s, t[j])
        <3>1. i \in 1..l /\ t[i] = k[i] /\ Rank(s, k[i]) \in 1..n
            BY <1>4, <2>2, <2>7 DEF Room
        <3>2. CASE j = l + 1
            BY <1>2, <2>2, <3>1, <3>2
        <3>3. CASE j \in 1..l
            BY <1>4, <2>2, <2>7, <3>1, <3>3 DEF Room
        <3>4. QED
            BY <3>2, <3>3
    <2>8. ASSUME NEW m \in 1..(n + 1)
          PROVE  \/ \E i \in 1..(l + 1) : t[i] = s[m]
                 \/ IsToc(s[m])
                 \/ Secondary(s[m]) /\ Ceiling > 0 /\ Count(t) = Ceiling
        <3>1. CASE m = n + 1
            BY <1>1, <2>2, <3>1
        <3>2. CASE m \in 1..n
            <4>1. \/ \E i \in 1..l : k[i] = s[m]
                  \/ IsToc(s[m])
                  \/ Secondary(s[m]) /\ Ceiling > 0 /\ Count(k) = Ceiling
                BY <1>4, <2>3, <3>2 DEF Room
            <4>2. Ceiling > 0 /\ Count(k) = Ceiling => Count(t) = Ceiling
                BY <1>3, <1>5, <2>3, <2>4
            <4>3. \A i \in 1..l : i \in 1..(l + 1)
                OBVIOUS
            <4>4. QED
                BY <2>2, <4>1, <4>2, <4>3
        <3>3. QED
            BY <3>1, <3>2
    <2>9. l + 1 <= RerankTopN
        BY <1>3, <2>3
    <2>10. Room(s, n + 1, t)
        BY <2>2, <2>5, <2>6, <2>7, <2>8, <2>9 DEF Room
    <2>11. QED
        BY <1>1, <2>2, <2>10
<1>8. QED
    BY <1>6, <1>7

\* plafonner_secondaires leaves a fragment out only for a reason.
LEMMA CappedUsesRoom ==
    ASSUME NEW N \in Nat, NEW s, Ranking(s, N)
    PROVE  RoomIsUsed(s, WithinCeiling(s))
<1>1. PICK S : s \in Seq(S)
    BY DEF Ranking
<1>2. PICK L \in Nat : L = Len(s)
    BY RankIs
<1>3. PICK e \in Seq(S) : e = <<>>
    BY EmptySeq
<1>4. PICK f \in [0..L -> Seq(S)] : Treats(f, s, L, e)
    BY <1>1, <1>2, <1>3, CappedUnfolds
<1>5. PICK Good : Good = {n \in Nat : n <= L => Room(s, n, f[n])}
    OBVIOUS
<1>6. 0 \in Good
    <2>1. Len(e) = 0 /\ RerankTopN \in Nat /\ Ceiling \in Nat
        BY <1>3, RetrievalAssumption
    <2>2. Count(e) = 0
        <3>1. {i \in DOMAIN e : Secondary(e[i])} = {}
            BY <1>3
        <3>2. QED
            BY <3>1, FS_EmptySet DEF Count
    <2>3. Room(s, 0, e)
        BY <2>1, <2>2 DEF Room
    <2>4. QED
        BY <1>4, <1>5, <2>3 DEF Treats
<1>7. ASSUME NEW n \in Nat, n \in Good PROVE n + 1 \in Good
    <2>1. SUFFICES ASSUME n + 1 <= L PROVE Room(s, n + 1, f[n + 1])
        BY <1>5
    <2>2. n <= L /\ n \in 0..L /\ n + 1 \in 1..L /\ (n + 1) - 1 = n
        BY <2>1
    <2>3. f[n] \in Seq(S) /\ Room(s, n, f[n])
        BY <1>5, <1>7, <2>2
    <2>4. f[n + 1] = Treated(f[n], s[n + 1])
        BY <1>4, <2>2 DEF Treats
    <2>5. QED
        BY <1>1, <1>2, <2>1, <2>3, <2>4, RoomStep
<1>8. L \in Good
    BY <1>6, <1>7, NatSetInduction
<1>9. PICK k \in Seq(S) : k = WithinCeiling(s) /\ Room(s, L, k)
    BY <1>4, <1>5, <1>8 DEF Treats
<1>10. DOMAIN k = 1..Len(k) /\ Len(k) \in Nat
    BY LenProperties
<1>11. ASSUME NEW c \in Range(s) \ Range(k)
       PROVE  \/ IsToc(c)
              \/ Secondary(c) /\ Ceiling > 0 /\ Count(k) = Ceiling
              \/ Len(k) = RerankTopN /\ Rank(s, Last(k)) < Rank(s, c)
    <2>1. PICK m \in 1..L : m = Rank(s, c) /\ s[m] = c
        BY <1>2, RankIs
    <2>2. ~ \E i \in 1..Len(k) : k[i] = c
        BY <1>10, <1>11 DEF Range
    <2>3. QED
        BY <1>9, <2>1, <2>2 DEF Room
<1>12. RoomIsUsed(s, k)
    BY <1>9, <1>10, <1>11 DEF Room, RoomIsUsed
<1>13. QED
    BY <1>9, <1>12

-----------------------------------------------------------------------------
(* The retrieval of a question. *)

\* A question was asked of rankings, its fusion is theirs and its lot the fusion's.
Asked ==
    /\ DOMAIN asked = {"bm25", "dense", "fused", "classes", "kept"}
    /\ asked.fused # <<>> =>
          Rankings(asked.bm25, asked.dense) /\ asked.fused = Fused(asked.bm25, asked.dense)
    /\ asked.classes # <<>> =>
          (\E n \in Nat : Ranking(asked.classes, n)) /\ asked.kept = WithinCeiling(asked.classes)

\* Questions and lots come from rankings, and nothing else writes them.
LEMMA AskedStep == Asked /\ [Next]_vars => Asked'
<1> SUFFICES ASSUME Asked, [Next]_vars PROVE Asked'
    OBVIOUS
<1>1. CASE Query
    <2>1. PICK bm25 \in Bm25Rankings(InOpenSearch), dense \in DenseRankings(InQdrant) :
            asked' = HybridSearch(bm25, dense)
        BY <1>1 DEF Query
    <2>2. Bm25TopK \in Nat /\ DenseTopK \in Nat
        BY RetrievalAssumption
    <2>3. bm25 \in Ranked(InOpenSearch, Bm25TopK) /\ dense \in Ranked(InQdrant, DenseTopK)
        BY DEF Bm25Rankings, DenseRankings
    <2>4. Rankings(bm25, dense)
        BY <2>2, <2>3, RankedIsRanking DEF Rankings
    <2>5. /\ DOMAIN asked' = {"bm25", "dense", "fused", "classes", "kept"}
          /\ asked'.bm25 = bm25 /\ asked'.dense = dense
          /\ asked'.fused = Fused(bm25, dense) /\ asked'.classes = <<>>
        BY <2>1 DEF HybridSearch, NoQuestion
    <2>6. QED
        BY <2>4, <2>5 DEF Asked
<1>2. CASE Rerank
    <2>0. PICK S : S = Range(Candidates(asked.fused))
        OBVIOUS
    <2>1. PICK classes \in Ranked(S, FusionTopK) :
            asked' = [asked EXCEPT !.classes = classes, !.kept = WithinCeiling(classes)]
        BY <1>2, <2>0 DEF Rerank
    <2>2. FusionTopK \in Nat
        BY RetrievalAssumption
    <2>3. Ranking(classes, FusionTopK)
        BY <2>1, <2>2, RankedIsRanking
    <2>4. PICK lot : lot = WithinCeiling(classes)
        OBVIOUS
    <2>5. /\ DOMAIN asked' = DOMAIN asked
          /\ asked'.bm25 = asked.bm25 /\ asked'.dense = asked.dense /\ asked'.fused = asked.fused
          /\ asked'.classes = classes /\ asked'.kept = lot
        BY <2>1, <2>4 DEF Asked
    <2>6. QED
        BY <2>2, <2>3, <2>4, <2>5 DEF Asked
<1>3. CASE UNCHANGED asked
    BY <1>3 DEF Asked
<1>4. UNCHANGED asked \/ Query \/ Rerank
    BY DEF Next, Worker, Console, Start, CleanQdrant, CleanOpenSearch, Open, UpsertQdrant,
       BulkOpenSearch, WriteRow, Change, AskConsole, DeleteFromQdrant, DeleteFromOpenSearch,
       ExportQdrant, ExportOpenSearch, Import, vars
<1>5. QED
    BY <1>1, <1>2, <1>3, <1>4

\* RetrievalIsFair: from the answers of the engines to the lot, no fragment loses its
\* place for nothing, whatever the two rankings, the weights and the bounds are
\* (HybridSearch._rrf_fusion, plafonner_secondaires).
THEOREM EnginesRetrievalIsFair == Spec => []RetrievalIsFair
<1>1. Init => Asked
    BY DEF Init, Asked, NoQuestion
<1>2. Asked => RetrievalIsFair
    <2>1. ASSUME Asked, asked.fused # <<>>
          PROVE  /\ FusionRespects(asked.bm25, asked.dense, asked.fused)
                 /\ OneIsEnough(asked.bm25, asked.dense, asked.fused)
        BY <2>1, FusedRespects, FusedOfOne DEF Asked
    <2>2. ASSUME Asked, asked.classes # <<>> PROVE RoomIsUsed(asked.classes, asked.kept)
        BY <2>2, CappedUsesRoom DEF Asked
    <2>3. QED
        BY <2>1, <2>2 DEF RetrievalIsFair, FusionIsFair, LotIsUsed
<1>3. QED
    BY <1>1, <1>2, AskedStep, PTL DEF Spec
=============================================================================
