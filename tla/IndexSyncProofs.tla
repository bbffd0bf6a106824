---------------------------- MODULE IndexSyncProofs ----------------------------
(***************************************************************************)
(* The index follows the disk, for any number of files, versions, chunks,  *)
(* documents and requests, and for every set of faults.                    *)
(*                                                                         *)
(* None of the properties is inductive.  What they rest on, in the order   *)
(* of the file:                                                            *)
(*                                                                         *)
(*   TypeInv     the domains, and which stage of which request goes with   *)
(*               which document (Shape).                                   *)
(*   FoundInv    a path has one live row, the one the worker has looked up *)
(*               and that stays its row while the request lasts; without a *)
(*               move, paths and requests are those of the scenario.       *)
(*   HistoryInv  versions are not reused: a hash in a row is that of a     *)
(*               version the path has had, and the worker replaces a       *)
(*               document only when the content of its row is lost, that   *)
(*               is when no version to come has it.                        *)
(*   WholeInv    the chunks of a row's content are all in both engines,    *)
(*               unless that content is lost or a delete of the path is    *)
(*               being carried out or is pending.                          *)
(*   CleanInv    every chunk belongs to a row, to the request in hand, or  *)
(*               to a path that a request waits for.                       *)
(*                                                                         *)
(* The conditions of the theorems (no move, no homonym, no content that    *)
(* comes back, no failed engine) are those of the properties; IndexSync    *)
(* says next to each what happens without it.                              *)
(***************************************************************************)
EXTENDS IndexSync, SequenceTheorems, WellFoundedInduction, TLAPS

\* Induction over the natural numbers, stated with a set so that the provers can
\* use it: a least number outside S would have its predecessor in S.
LEMMA NatSetInduction ==
    ASSUME NEW S, 0 \in S, \A n \in Nat : n \in S => n + 1 \in S
    PROVE  Nat \subseteq S
<1> DEFINE T == Nat \ S
<1> SUFFICES ASSUME T # {} PROVE FALSE
    OBVIOUS
<1>1. IsWellFoundedOn(OpToRel(<, Nat), Nat)
    BY NatLessThanWellFounded
<1>2. \E x \in T : \A y \in T : ~(<<y, x>> \in OpToRel(<, Nat))
    BY <1>1, WFMin, Zenon
<1>3. \A x, y \in Nat : y < x => <<y, x>> \in OpToRel(<, Nat)
    BY DEF OpToRel
<1>4. PICK x \in T : \A y \in T : ~(y < x)
    BY <1>2, <1>3
<1>5. x # 0 /\ x - 1 \in Nat
    BY <1>4
<1>6. x - 1 \in S
    BY <1>4, <1>5
<1>7. QED
    BY <1>4, <1>5, <1>6

\* A set of natural numbers that is not empty has a least element.
LEMMA LeastNatural ==
    ASSUME NEW T, T \subseteq Nat, T # {}
    PROVE  \E x \in T : \A y \in T : x <= y
<1>1. IsWellFoundedOn(OpToRel(<, Nat), Nat)
    BY NatLessThanWellFounded
<1>2. \E x \in T : \A y \in T : ~(<<y, x>> \in OpToRel(<, Nat))
    BY <1>1, WFMin, Zenon
<1>3. \A x, y \in Nat : y < x => <<y, x>> \in OpToRel(<, Nat)
    BY DEF OpToRel
<1>4. PICK x \in T : \A y \in T : ~(y < x)
    BY <1>2, <1>3
<1>5. QED
    BY <1>4

-----------------------------------------------------------------------------
(* The rows that are left of a sequence. *)


\* A function can be defined by recursion on an interval.
Recursive(f, c, L, step) == f[0] = c /\ \A n \in 1..L : f[n] = step[n][f[n - 1]]

\* A function can be defined by recursion on an interval, one step function for each
\* number of the interval.
LEMMA RecursionExists ==
    ASSUME NEW T, NEW c \in T, NEW L \in Nat, NEW step \in [1..L -> [T -> T]]
    PROVE  \E f \in [0..L -> T] : Recursive(f, c, L, step)
<1> DEFINE Fits(g, n) == g[0] = c /\ \A i \in 1..n : g[i] = step[i][g[i - 1]]
           Good == {n \in Nat : n <= L => \E g \in [0..n -> T] : Fits(g, n)}
<1>1. 0 \in Good
    <2> DEFINE g == [i \in 0..0 |-> c]
    <2>1. g \in [0..0 -> T] /\ Fits(g, 0)
        OBVIOUS
    <2>2. QED
        BY <2>1
<1>2. ASSUME NEW n \in Nat, n \in Good PROVE n + 1 \in Good
    <2> SUFFICES ASSUME n + 1 <= L PROVE \E g \in [0..(n + 1) -> T] : Fits(g, n + 1)
        OBVIOUS
    <2>1. PICK g \in [0..n -> T] : Fits(g, n)
        <3>1. n <= L
            OBVIOUS
        <3>2. QED
            BY <1>2, <3>1
    <2> DEFINE h == [i \in 0..(n + 1) |-> IF i = n + 1 THEN step[n + 1][g[n]] ELSE g[i]]
    <2>2. h \in [0..(n + 1) -> T]
        OBVIOUS
    <2>3. Fits(h, n + 1)
        BY <2>1
    <2>4. QED
        BY <2>2, <2>3
<1>3. L \in Good
    <2> HIDE DEF Good
    <2>1. QED
        BY <1>1, <1>2, NatSetInduction
<1>4. QED
    BY <1>3 DEF Recursive

\* What Rows does at a place.
Step(q, K, t, n) == IF n \in K THEN Append(t, q[n]) ELSE t

Steps(f, q, K, L, e) ==
    /\ Rows(q, K) = f[L]
    /\ f[0] = e
    /\ \A n \in 1..L : f[n] = Step(q, K, f[n - 1], n)

\* Rows goes from place to place.
LEMMA RowsUnfold ==
    ASSUME NEW S, NEW q \in Seq(S), NEW K, NEW L \in Nat, L = Len(q), NEW e, e = <<>>
    PROVE  \E f \in [0..L -> Seq(S)] : Steps(f, q, K, L, e)
<1>2. \A n \in 1..L : q[n] \in S
    BY ElementOfSeq
<1>3. e \in Seq(S)
    BY EmptySeq
<1>4. \A t \in Seq(S), n \in 1..L : Step(q, K, t, n) \in Seq(S)
    BY <1>2, AppendProperties DEF Step
<1>5. PICK step : step = [n \in 1..L |-> [t \in Seq(S) |-> Step(q, K, t, n)]]
    OBVIOUS
<1>6. step \in [1..L -> [Seq(S) -> Seq(S)]]
    BY <1>4, <1>5
<1>19. \E f \in [0..L -> Seq(S)] : Recursive(f, e, L, step)
    BY <1>3, <1>6, RecursionExists, Zenon
<1>7. PICK f \in [0..L -> Seq(S)] : f[0] = e /\ \A n \in 1..L : f[n] = step[n][f[n - 1]]
    BY <1>19 DEF Recursive
<1>8. ASSUME NEW n \in 1..L PROVE f[n] = Step(q, K, f[n - 1], n)
    <2>1. f[n - 1] \in Seq(S)
        OBVIOUS
    <2>2. QED
        BY <1>5, <1>7, <2>1
<1> DEFINE F(g) == [n \in 0..L |->
                       IF n = 0 THEN e
                       ELSE IF n \in K THEN Append(g[n - 1], q[n]) ELSE g[n - 1]]
           among == CHOOSE g : g = F(g)
<1>9. f = F(f)
    <2>1. ASSUME NEW n \in 0..L PROVE f[n] = F(f)[n]
        <3>1. CASE n = 0
            BY <1>7, <3>1
        <3>2. CASE n # 0
            <4>1. n \in 1..L
                BY <3>2
            <4>2. f[n] = IF n \in K THEN Append(f[n - 1], q[n]) ELSE f[n - 1]
                BY <1>8, <4>1 DEF Step
            <4>3. QED
                BY <3>2, <4>2
        <3>3. QED
            BY <3>1, <3>2
    <2>2. QED
        BY <2>1
<1>10. among = F(among)
    BY <1>9
<1>11. Rows(q, K) = among[L]
    BY DEF Rows
<1> HIDE DEF among
<1>12. \A n \in 0..L : among[n] = IF n = 0 THEN e ELSE Step(q, K, among[n - 1], n)
    BY <1>10 DEF Step
<1>13. PICK Same : Same = {n \in Nat : n <= L => among[n] = f[n]}
    OBVIOUS
<1>14. 0 \in Same
    BY <1>7, <1>12, <1>13
<1>15. ASSUME NEW n \in Nat, n \in Same PROVE n + 1 \in Same
    <2> SUFFICES ASSUME n + 1 <= L PROVE among[n + 1] = f[n + 1]
        BY <1>13
    <2>1. among[n] = f[n] /\ n + 1 \in 1..L /\ n + 1 \in 0..L /\ (n + 1) - 1 = n /\ n + 1 # 0
        BY <1>13, <1>15
    <2>2. among[n + 1] = Step(q, K, among[n], n + 1)
        BY <1>12, <2>1
    <2>3. f[n + 1] = Step(q, K, f[n], n + 1)
        BY <1>8, <2>1
    <2>4. QED
        BY <2>1, <2>2, <2>3
<1>16. Nat \subseteq Same
    BY <1>14, <1>15, NatSetInduction
<1>17. among[L] = f[L]
    BY <1>13, <1>16
<1>18. QED
    BY <1>7, <1>8, <1>11, <1>17 DEF Steps

\* The rows of Rows(q, K) are those of q at the places of K.
LEMMA RowsProperties ==
    ASSUME NEW S, NEW q \in Seq(S), NEW K
    PROVE  /\ Rows(q, K) \in Seq(S)
           /\ \A i \in DOMAIN Rows(q, K) : \E k \in DOMAIN q \cap K : Rows(q, K)[i] = q[k]
           /\ \A k \in DOMAIN q \cap K : \E i \in DOMAIN Rows(q, K) : Rows(q, K)[i] = q[k]
<1>1. PICK L \in Nat : L = Len(q) /\ DOMAIN q = 1..L
    BY LenProperties
<1>10. PICK e : e = <<>>
    OBVIOUS
<1>11. \E f \in [0..L -> Seq(S)] : Steps(f, q, K, L, e)
    BY <1>1, <1>10, RowsUnfold, Zenon
<1>2. PICK f \in [0..L -> Seq(S)] : /\ Rows(q, K) = f[L]
                                    /\ f[0] = e
                                    /\ \A n \in 1..L : f[n] = Step(q, K, f[n - 1], n)
    BY <1>11 DEF Steps
<1> DEFINE Only(n) == \A i \in DOMAIN f[n] : \E k \in (1..n) \cap K : f[n][i] = q[k]
           All(n) == \A k \in (1..n) \cap K : \E i \in DOMAIN f[n] : f[n][i] = q[k]
<1> HIDE DEF Only, All
<1>9. PICK Good : Good = {n \in Nat : n <= L => Only(n) /\ All(n)}
    OBVIOUS
<1>3. 0 \in Good
    <2>1. DOMAIN f[0] = {}
        BY <1>2, <1>10
    <2>2. Only(0) /\ All(0)
        BY <2>1 DEF Only, All
    <2>3. QED
        BY <1>9, <2>2
<1>4. ASSUME NEW n \in Nat, n \in Good PROVE n + 1 \in Good
    <2> SUFFICES ASSUME n + 1 <= L PROVE Only(n + 1) /\ All(n + 1)
        BY <1>9
    <2>1. Only(n) /\ All(n)
        BY <1>4, <1>9
    <2>2. n + 1 \in 1..L /\ f[n] \in Seq(S) /\ q[n + 1] \in S
        BY <1>1, ElementOfSeq
    <2>3. f[n + 1] = Step(q, K, f[n], n + 1)
        BY <1>2, <2>2
    <2>4. CASE n + 1 \notin K
        <3>1. f[n + 1] = f[n]
            BY <2>3, <2>4 DEF Step
        <3>2. (1..(n + 1)) \cap K = (1..n) \cap K
            BY <2>4
        <3>3. QED
            BY <2>1, <3>1, <3>2, ZenonT(40) DEF Only, All
    <2>5. CASE n + 1 \in K
        <3> DEFINE t == f[n]
                   m == Len(t) + 1
        <3>1. f[n + 1] = Append(t, q[n + 1])
            BY <2>3, <2>5 DEF Step
        <3>2. /\ Len(t) \in Nat /\ DOMAIN t = 1..Len(t)
              /\ DOMAIN f[n + 1] = 1..m
              /\ \A i \in 1..Len(t) : f[n + 1][i] = t[i]
              /\ f[n + 1][m] = q[n + 1]
            BY <2>2, <3>1, AppendProperties, LenProperties
        <3>3. Only(n + 1)
            <4> SUFFICES ASSUME NEW i \in 1..m
                         PROVE  \E k \in (1..(n + 1)) \cap K : f[n + 1][i] = q[k]
                BY <3>2 DEF Only
            <4>1. CASE i = m
                BY <2>5, <3>2, <4>1
            <4>2. CASE i # m
                <5>1. i \in DOMAIN t /\ f[n + 1][i] = t[i]
                    BY <3>2, <4>2
                <5>2. PICK k \in (1..n) \cap K : t[i] = q[k]
                    BY <2>1, <5>1 DEF Only
                <5>3. QED
                    BY <5>1, <5>2
            <4>3. QED
                BY <4>1, <4>2
        <3>4. All(n + 1)
            <4> SUFFICES ASSUME NEW k \in (1..(n + 1)) \cap K
                         PROVE  \E i \in 1..m : f[n + 1][i] = q[k]
                BY <3>2 DEF All
            <4>1. CASE k = n + 1
                <5>1. m \in 1..m /\ f[n + 1][m] = q[k]
                    BY <3>2, <4>1
                <5>2. QED
                    BY <5>1
            <4>2. CASE k # n + 1
                <5>1. PICK i \in DOMAIN t : t[i] = q[k]
                    BY <2>1, <4>2 DEF All
                <5>2. QED
                    BY <3>2, <5>1
            <4>3. QED
                BY <4>1, <4>2
        <3>5. QED
            BY <3>3, <3>4
    <2>6. QED
        BY <2>4, <2>5
<1>5. Nat \subseteq Good
    BY <1>3, <1>4, NatSetInduction
<1>6. Only(L) /\ All(L)
    BY <1>5, <1>9
<1>7. Rows(q, K) \in Seq(S)
    BY <1>1, <1>2
<1>8. QED
    <2>1. Rows(q, K) = f[L] /\ DOMAIN q = 1..L
        BY <1>1, <1>2
    <2>2. \A i \in DOMAIN Rows(q, K) : \E k \in DOMAIN q \cap K : Rows(q, K)[i] = q[k]
        BY <1>6, <2>1 DEF Only
    <2>3. \A k \in DOMAIN q \cap K : \E i \in DOMAIN Rows(q, K) : Rows(q, K)[i] = q[k]
        BY <1>6, <2>1 DEF All
    <2>4. QED
        BY <1>7, <2>2, <2>3

-----------------------------------------------------------------------------
(* The queue. *)

Elements(q) == {q[i] : i \in DOMAIN q}
SameKey(x, r) == x.path = r.path /\ x.action = r.action

\* What is left of q, as a set.
LEMMA RowsElements ==
    ASSUME NEW S, NEW q \in Seq(S), NEW K
    PROVE  Rows(q, K) \in Seq(S) /\ Elements(Rows(q, K)) = {q[k] : k \in DOMAIN q \cap K}
    BY RowsProperties DEF Elements

\* A new request replaces those of its path and action, and nothing else.
LEMMA WithElements ==
    ASSUME NEW q \in Seq(Request), NEW r \in Request
    PROVE  /\ With(q, r) \in Seq(Request)
           /\ Elements(With(q, r)) = {r} \cup {x \in Elements(q) : ~SameKey(x, r)}
<1> DEFINE K == {i \in DOMAIN q : q[i].path # r.path \/ q[i].action # r.action}
           t == Rows(q, K)
<1>1. t \in Seq(Request) /\ Elements(t) = {q[k] : k \in DOMAIN q \cap K}
    BY RowsElements
<1>2. Elements(t) = {x \in Elements(q) : ~SameKey(x, r)}
    BY <1>1 DEF Elements, SameKey
<1>3. With(q, r) = Append(t, r)
    BY DEF With
<1> HIDE DEF t
<1>4. /\ Append(t, r) \in Seq(Request)
      /\ Len(t) \in Nat /\ DOMAIN t = 1..Len(t)
      /\ DOMAIN Append(t, r) = 1..(Len(t) + 1)
      /\ \A i \in 1..Len(t) : Append(t, r)[i] = t[i]
      /\ Append(t, r)[Len(t) + 1] = r
    BY <1>1, AppendProperties, LenProperties
<1>5. Elements(Append(t, r)) = {r} \cup Elements(t)
    BY <1>4 DEF Elements
<1>6. QED
    BY <1>2, <1>3, <1>4, <1>5

\* Take leaves all requests but the one it takes.
LEMMA WithoutElements ==
    ASSUME NEW q \in Seq(Request), NEW i \in DOMAIN q
    PROVE  /\ Without(q, i) \in Seq(Request)
           /\ q[i] \in Request
           /\ Elements(q) = {q[i]} \cup Elements(Without(q, i))
<1>1. /\ Without(q, i) \in Seq(Request)
      /\ Elements(Without(q, i)) = {q[k] : k \in DOMAIN q \cap (DOMAIN q \ {i})}
    BY RowsElements DEF Without
<1>2. q[i] \in Request
    BY ElementOfSeq, LenProperties
<1>3. QED
    BY <1>1, <1>2 DEF Elements

\* recover_in_progress adds the request that was in hand.
LEMMA PutBackElements ==
    ASSUME NEW q \in Seq(Request), NEW r \in Request
    PROVE  /\ <<r>> \o q \in Seq(Request)
           /\ Elements(<<r>> \o q) = {r} \cup Elements(q)
<1>8. PICK s : s = <<r>>
    OBVIOUS
<1>1. s \in Seq(Request) /\ Len(s) = 1 /\ s[1] = r
    BY <1>8
<1>2. /\ s \o q \in Seq(Request)
      /\ Len(s \o q) = 1 + Len(q)
      /\ \A i \in 1..(1 + Len(q)) : (s \o q)[i] = IF i <= 1 THEN s[i] ELSE q[i - 1]
    <2>1. s \in Seq(Request)
        BY <1>1
    <2>2. /\ s \o q \in Seq(Request)
          /\ Len(s \o q) = Len(s) + Len(q)
          /\ \A i \in 1..(Len(s) + Len(q)) :
                (s \o q)[i] = IF i <= Len(s) THEN s[i] ELSE q[i - Len(s)]
        BY <2>1, ConcatProperties, Zenon
    <2>3. QED
        BY <1>1, <2>2
<1>3. Len(q) \in Nat /\ DOMAIN q = 1..Len(q) /\ DOMAIN (s \o q) = 1..(1 + Len(q))
    BY <1>2, LenProperties
<1>4. Elements(s \o q) \subseteq {r} \cup Elements(q)
    BY <1>1, <1>2, <1>3 DEF Elements
<1>5. r \in Elements(s \o q)
    BY <1>1, <1>2, <1>3 DEF Elements
<1>6. ASSUME NEW i \in DOMAIN q PROVE q[i] \in Elements(s \o q)
    <2>1. i + 1 \in DOMAIN (s \o q) /\ (s \o q)[i + 1] = q[i]
        BY <1>2, <1>3
    <2>2. QED
        BY <2>1 DEF Elements
<1>7. QED
    BY <1>2, <1>4, <1>5, <1>6, <1>8, SMTT(20) DEF Elements

-----------------------------------------------------------------------------
(* The rows of `documents` and the constants. *)

\* get_document_by_path returns the oldest row of a path that has one.
LEMMA DocumentAtIsLive ==
    ASSUME NEW p, Known(p)
    PROVE  DocumentAt(p) \in At(p) /\ \A e \in At(p) : DocumentAt(p) <= e
<1>1. At(p) \subseteq Nat /\ At(p) # {}
    BY DEF Known, At, Live, Docs
<1>2. QED
    BY <1>1, LeastNatural DEF DocumentAt

\* A new row takes no place that is in use.
LEMMA NewDocumentIsUnborn ==
    ASSUME Unborn # {}
    PROVE  NewDocument \in Unborn /\ NewDocument \in Docs /\ doc[NewDocument] = None
<1>1. Unborn \subseteq Nat
    BY DEF Unborn, Docs
<1>2. NewDocument \in Unborn
    BY <1>1, LeastNatural DEF NewDocument
<1>3. QED
    BY <1>2 DEF Unborn, Live, Docs

\* MaxChunks bounds the chunks of every content.
LEMMA ChunkNumbers ==
    /\ \A c \in Contents : Chunks[c] \in Nat /\ Chunks[c] <= MaxChunks
    /\ MaxChunks \in Nat
<1>1. \E n \in {Chunks[c] : c \in Contents} : \A c \in Contents : Chunks[c] <= n
    BY SyncAssumption DEF Contents, Versions
<1>2. MaxChunks \in {Chunks[c] : c \in Contents} /\ \A c \in Contents : Chunks[c] <= MaxChunks
    BY <1>1 DEF MaxChunks
<1>3. \A c \in Contents : Chunks[c] \in Nat
    BY SyncAssumption DEF Contents, Versions
<1>4. QED
    BY <1>2, <1>3

Located == {"clean_qdrant", "clean_opensearch", "parse", "ingest_qdrant", "ingest_opensearch",
            "record", "tombstone"}
Ingesting == {"ingest_qdrant", "ingest_opensearch", "record"}

\* What the worker holds at each of its stages.
Shape ==
    /\ pc = "idle" <=> job.req = None
    /\ pc \in {"delete", "tombstone"} => job.req.action = "delete"
    /\ pc = "move" => job.req.action = "move"
    /\ pc \in {"upsert", "hash", "parse"} \cup Ingesting => job.req.action # "delete"
    /\ pc \in Located => job.index \in Indexes /\ job.name \in Names
    /\ pc \in Located /\ job.req.action # "delete" => job.ch \in Contents
    /\ pc \in Ingesting => job.read \in Contents

TypeInv == TypeOK /\ Shape

\* What the assumptions say, in the form the proofs use.
LEMMA Constants ==
    /\ \A p \in Paths : Name[p] \in Names /\ Index[p] \in Indexes
    /\ None \notin Paths /\ None \notin Names /\ None \notin Indexes /\ None \notin Contents
    /\ None \notin Request /\ None \notin Event /\ None \notin Doc
    /\ Versions \subseteq Nat /\ 0 \notin Versions
    /\ \A v \in Versions : Content[v] \in Contents
    /\ MaxDocs \in Nat /\ Docs = 1..MaxDocs
    /\ \A sc \in Scenarios : sc.paths \subseteq Paths /\ sc.versions \in Nat
    BY SyncAssumption, NoneAssumption DEF Versions, Contents, Docs

\* The worker and the reconciler at rest.
LEMMA NoJobTyped == NoJob \in Job /\ NoJob.req = None /\ NoScan \in Scan /\ NoHash \in Hash
    BY Constants DEF NoJob, Job, NoScan, Scan, NoHash, QuickHash, Hash

\* The initial states are well typed.
LEMMA InitTyped == Init => TypeInv
<1> SUFFICES ASSUME Init PROVE TypeInv
    OBVIOUS
<1>1. disk \in [Paths -> Versions \cup {0}] /\ slot \in [Paths -> Event \cup {None}]
    BY DEF Init
<1>2. queue \in Seq(Request) /\ doc \in [Docs -> Doc \cup {None}]
    BY EmptySeq DEF Init
<1>3. rows \in [Stores -> [Indexes \X Names -> [1..MaxChunks -> Contents \cup {None}]]]
    BY DEF Init, NoChunks
<1>4. pc \in Stages /\ job \in Job /\ scan \in Scan
    BY NoJobTyped DEF Init, Stages
<1>5. scenario \in Scenarios /\ next \in Nat /\ asks \in Nat /\ up \in BOOLEAN
    BY DEF Init
<1>6. Shape
    BY NoJobTyped DEF Init, Shape, Located, Ingesting
<1>7. QED
    BY <1>1, <1>2, <1>3, <1>4, <1>5, <1>6 DEF TypeInv, TypeOK

\* What TypeOK says of the worker.
LEMMA WorkerTyped ==
    ASSUME TypeInv, pc # "idle"
    PROVE  /\ job.req \in Request /\ job.req.path \in Paths
           /\ job.req.action \in Actions /\ job.req.old \in Paths \cup {None}
           /\ disk[job.req.path] \in Versions \cup {0}
           /\ disk[job.req.path] # 0 => Content[disk[job.req.path]] \in Contents
    BY Constants DEF TypeInv, TypeOK, Shape, Job, Request

\* Requests are made of paths and actions.
LEMMA AskTyped ==
    ASSUME NEW p \in Paths, NEW a \in Actions, NEW old \in Paths \cup {None}, NEW n \in {-1, 0, 1}
    PROVE  /\ Ask(p, a, old, n) \in Request
           /\ Ask(p, a, old, n).path = p /\ Ask(p, a, old, n).action = a
    BY DEF Ask, Request

\* The row of a known path.
LEMMA DocumentTyped ==
    ASSUME TypeOK, NEW p, Known(p)
    PROVE  /\ DocumentAt(p) \in Docs /\ DocumentAt(p) \in Live
           /\ doc[DocumentAt(p)] \in Doc /\ doc[DocumentAt(p)].path = p
    BY DocumentAtIsLive DEF At, Live, TypeOK

\* Type correctness, one action after the other.
LEMMA UsersTyped == TypeInv /\ Users => TypeInv'
<1> SUFFICES ASSUME TypeInv, NEW p \in scenario.paths, NEW q \in scenario.paths,
                    Write(p) \/ Remove(p) \/ Reindex(p) \/ Drop(p) \/ Move(p, q)
             PROVE  TypeInv'
    BY DEF Users
<1>1. p \in Paths /\ q \in Paths
    BY Constants DEF TypeInv, TypeOK
<1>2. ASSUME NEW x \in Paths, NEW a \in Actions, NEW o \in Paths \cup {None}, Seen(x, a, o)
      PROVE  slot' \in [Paths -> Event \cup {None}]
    BY <1>2 DEF Seen, Event, TypeInv, TypeOK
<1>3. "upsert" \in Actions /\ "delete" \in Actions /\ "move" \in Actions
    BY DEF Actions
<1>4. ASSUME disk' \in [Paths -> Versions \cup {0}], slot' \in [Paths -> Event \cup {None}],
             next' \in Nat, asks' \in Nat, queue' \in Seq(Request),
             UNCHANGED <<scenario, up, doc, rows, pc, job, scan>>
      PROVE  TypeInv'
    <2>1. TypeOK'
        BY <1>4 DEF TypeInv, TypeOK
    <2>2. Shape'
        BY <1>4 DEF TypeInv, Shape
    <2>3. QED
        BY <2>1, <2>2 DEF TypeInv
<1>5. /\ disk \in [Paths -> Versions \cup {0}] /\ slot \in [Paths -> Event \cup {None}]
      /\ next \in Nat /\ asks \in Nat /\ queue \in Seq(Request)
    BY DEF TypeInv, TypeOK
<1>6. CASE Write(p)
    <2>1. slot' \in [Paths -> Event \cup {None}]
        BY <1>1, <1>2, <1>3, <1>6 DEF Write
    <2>2. disk' \in [Paths -> Versions \cup {0}] /\ next' \in Nat
        BY <1>1, <1>5, <1>6 DEF Write
    <2>3. QED
        BY <1>4, <1>5, <1>6, <2>1, <2>2 DEF Write
<1>7. CASE Remove(p)
    <2>1. slot' \in [Paths -> Event \cup {None}]
        BY <1>1, <1>2, <1>3, <1>7 DEF Remove
    <2>2. disk' \in [Paths -> Versions \cup {0}]
        BY <1>1, <1>5, <1>7 DEF Remove
    <2>3. QED
        BY <1>4, <1>5, <1>7, <2>1, <2>2 DEF Remove
<1>8. CASE Move(p, q)
    <2>1. slot' \in [Paths -> Event \cup {None}]
        BY <1>1, <1>2, <1>3, <1>8 DEF Move
    <2>2. disk' \in [Paths -> Versions \cup {0}] /\ asks' \in Nat
        BY <1>1, <1>5, <1>8 DEF Move
    <2>3. QED
        BY <1>4, <1>5, <1>8, <2>1, <2>2 DEF Move
<1>9. CASE Reindex(p) \/ Drop(p)
    <2>2. PICK op \in {"reindex", "drop"}, a \in Actions : Call(p, op, a)
        BY <1>3, <1>9 DEF Reindex, Drop
    <2>3. queue' \in Seq(Request) /\ asks' \in Nat
        BY <1>1, <1>5, <2>2, AskTyped, WithElements DEF Call
    <2>4. QED
        BY <1>4, <1>5, <2>2, <2>3 DEF Call
<1>10. QED
    BY <1>6, <1>7, <1>8, <1>9

\* A timer that fires asks for what its path was last seen to need.
LEMMA FireTyped ==
    ASSUME TypeInv, NEW p \in Paths, Fire(p)
     PROVE  /\ TypeInv'
            /\ \E r \in Request :
                   r.path = p /\ r.action = slot[p].action /\ queue' = With(queue, r)
<1>1. slot[p] \in Event
    BY DEF Fire, TypeInv, TypeOK
<1>2. Ask(p, slot[p].action, slot[p].old, 0) \in Request
    BY <1>1, AskTyped DEF Event
<1>3. queue' \in Seq(Request)
    BY <1>2, WithElements DEF Fire, TypeInv, TypeOK
<1>4. TypeInv'
    BY <1>3 DEF Fire, TypeInv, TypeOK, Shape
<1>5. QED
    BY <1>2, <1>4 DEF Fire, Ask

\* The worker starts at the stage of the action it takes.
LEMMA TakeTyped == TypeInv /\ Take => TypeInv'
<1> SUFFICES ASSUME TypeInv, Take PROVE TypeInv'
    OBVIOUS
<1>1. PICK i \in DOMAIN queue : /\ job' = [NoJob EXCEPT !.req = queue[i]]
                                /\ pc' = queue[i].action
                                /\ queue' = Without(queue, i)
    BY DEF Take
<1>2. queue[i] \in Request /\ queue' \in Seq(Request)
    BY <1>1, WithoutElements DEF TypeInv, TypeOK
<1>3. job' \in Job /\ job'.req = queue[i]
    BY <1>1, <1>2, NoJobTyped DEF Job, NoJob
<1>4. pc' \in Actions /\ pc' \in Stages /\ job'.req.action = pc' /\ job'.req # None
    BY <1>1, <1>2, <1>3, Constants DEF Request, Stages, Actions
<1>5. TypeOK'
    BY <1>2, <1>3, <1>4 DEF Take, OnlyWorker, TypeInv, TypeOK
<1>6. Shape'
    BY <1>4 DEF Shape, Actions, Located, Ingesting
<1>7. QED
    BY <1>5, <1>6 DEF TypeInv

\* A job that ends leaves the worker idle.
LEMMA FinishTyped ==
    ASSUME Finish
    PROVE  pc' \in Stages /\ job' \in Job /\ Shape'
    BY NoJobTyped DEF Finish, Stages, Shape, Located, Ingesting

\* A job either ends or goes on with the hash of its file.
LEMMA UpsertStartsTyped == TypeInv /\ UpsertStarts => TypeInv'
<1> SUFFICES ASSUME TypeInv, UpsertStarts PROVE TypeInv'
    OBVIOUS
<1>1. ASSUME pc' \in Stages /\ job' \in Job /\ Shape' PROVE TypeInv'
    BY <1>1 DEF UpsertStarts, OnlyWorker, TypeInv, TypeOK
<1>2. CASE Finish
    BY <1>1, <1>2, FinishTyped
<1>3. CASE ~Finish
    <2>1. /\ disk[job.req.path] # 0
          /\ job' = [job EXCEPT !.qh = QuickHash(job.req.path, disk[job.req.path])]
          /\ pc' = "hash"
        BY <1>3 DEF UpsertStarts
    <2>2. QuickHash(job.req.path, disk[job.req.path]) \in Hash
        BY WorkerTyped DEF UpsertStarts, QuickHash, Hash
    <2>3. job' \in Job /\ job'.req = job.req
        BY <2>1, <2>2 DEF TypeInv, TypeOK, Job
    <2>4. Shape'
        BY <2>1, <2>3 DEF UpsertStarts, TypeInv, Shape, Located, Ingesting
    <2>5. QED
        BY <1>1, <2>1, <2>3, <2>4 DEF Stages
<1>4. QED
    BY <1>2, <1>3

\* A job that finds, skips or replaces a document has its index and its name.
LEMMA UpsertHashesTyped == TypeInv /\ UpsertHashes => TypeInv'
<1> SUFFICES ASSUME TypeInv, UpsertHashes PROVE TypeInv'
    OBVIOUS
<1> DEFINE p == job.req.path
           c == Content[disk[p]]
<1>1. ASSUME pc' \in Stages /\ job' \in Job /\ Shape' /\ doc' \in [Docs -> Doc \cup {None}]
      PROVE  TypeInv'
    BY <1>1 DEF UpsertHashes, OnlyWorker, TypeInv, TypeOK
<1>2. p \in Paths /\ (disk[p] # 0 => c \in Contents) /\ job \in Job /\ job.req.action # "delete"
      /\ job.req # None
    BY WorkerTyped DEF UpsertHashes, TypeInv, TypeOK, Shape
<1>3. CASE disk[p] = 0
    BY <1>1, <1>3, FinishTyped DEF UpsertHashes, TypeInv, TypeOK
<1>4. CASE disk[p] # 0 /\ ~Known(p) /\ Discover(p, c)
    <2>1. job' \in Job /\ job'.req = job.req /\ job'.ch \in Contents
          /\ job'.index \in Indexes /\ job'.name \in Names
        BY <1>2, <1>4, Constants DEF Discover, Job
    <2>2. pc' = "parse" /\ doc' \in [Docs -> Doc \cup {None}]
        BY <1>4 DEF Discover, TypeInv, TypeOK
    <2>3. Shape'
        BY <1>2, <2>1, <2>2 DEF Shape, Located, Ingesting
    <2>4. QED
        BY <1>1, <2>1, <2>2, <2>3 DEF Stages
<1>5. CASE disk[p] # 0 /\ Known(p) /\ Skip(p)
    <2>1. DocumentAt(p) \in Docs /\ doc[DocumentAt(p)] \in Doc
        BY <1>5, DocumentTyped DEF TypeInv
    <2>2. doc' \in [Docs -> Doc \cup {None}]
        BY <1>2, <1>5, <2>1 DEF Skip, TypeInv, TypeOK, Doc, Job
    <2>3. QED
        BY <1>1, <1>5, <2>2, FinishTyped DEF Skip
<1>6. CASE disk[p] # 0 /\ Known(p) /\ Replace(p, c)
    <2>1. DocumentAt(p) \in Docs /\ doc[DocumentAt(p)] \in Doc
        BY <1>6, DocumentTyped DEF TypeInv
    <2>5. DocumentAt(p) \in 0..MaxDocs /\ doc[DocumentAt(p)].index \in Indexes
          /\ doc[DocumentAt(p)].name \in Names
        BY <2>1, Constants DEF Doc
    <2> HIDE DEF c, p
    <2>2. job' \in Job /\ job'.req = job.req /\ job'.ch \in Contents
          /\ job'.index \in Indexes /\ job'.name \in Names
        BY <1>2, <1>6, <2>5 DEF Replace, Job
    <2>3. pc' = "clean_qdrant" /\ doc' \in [Docs -> Doc \cup {None}]
        BY <1>6 DEF Replace, TypeInv, TypeOK
    <2>4. Shape'
        BY <1>2, <2>2, <2>3 DEF Shape, Located, Ingesting
    <2>6. QED
        BY <1>1, <2>2, <2>3, <2>4 DEF Stages
<1>7. QED
    BY <1>3, <1>4, <1>5, <1>6 DEF UpsertHashes, Decide

\* One entry of a table changes.
LEMMA EntrySet ==
    ASSUME NEW S, NEW K, NEW V, NEW f \in [S -> [K -> V]], NEW s \in S, NEW k \in K, NEW v \in V,
           NEW g, g = [f EXCEPT ![s][k] = v]
    PROVE  /\ g \in [S -> [K -> V]]
           /\ g[s][k] = v
           /\ \A t \in S, l \in K : <<t, l>> # <<s, k>> => g[t][l] = f[t][l]
<1>1. g = [f EXCEPT ![s] = [f[s] EXCEPT ![k] = v]]
    OBVIOUS
<1>2. PICK h : h = [f[s] EXCEPT ![k] = v]
    OBVIOUS
<1>3. h \in [K -> V] /\ h[k] = v /\ \A l \in K : l # k => h[l] = f[s][l]
    BY <1>2
<1>4. g \in [S -> [K -> V]] /\ g[s] = h /\ \A t \in S : t # s => g[t] = f[t]
    BY <1>1, <1>2, <1>3
<1>5. QED
    BY <1>3, <1>4

\* A call to a store leaves a well-formed store.
LEMMA StoreTyped ==
    ASSUME TypeInv, NEW l \in Located, NEW s \in Stores, NEW k \in Indexes \X Names,
           NEW new \in [1..MaxChunks -> Contents \cup {None}], NEW then \in Stages,
           Store(l, s, k, new, then),
           then \in Located,
           then = "tombstone" => job.req.action = "delete",
           then \in {"parse"} \cup Ingesting => job.req.action # "delete",
           then \in Ingesting => job.read \in Contents
    PROVE  TypeInv'
<1>1. ASSUME rows' \in [Stores -> [Indexes \X Names -> [1..MaxChunks -> Contents \cup {None}]]],
             pc' \in Stages, job' \in Job, Shape'
      PROVE  TypeInv'
    BY <1>1 DEF Store, OnlyWorker, TypeInv, TypeOK
<1>2. /\ rows \in [Stores -> [Indexes \X Names -> [1..MaxChunks -> Contents \cup {None}]]]
      /\ job \in Job
    BY DEF TypeInv, TypeOK
<1>6. [rows EXCEPT ![s][k] = new]
         \in [Stores -> [Indexes \X Names -> [1..MaxChunks -> Contents \cup {None}]]]
    <2>1. PICK K, V, g : /\ K = Indexes \X Names /\ V = [1..MaxChunks -> Contents \cup {None}]
                         /\ g = [rows EXCEPT ![s][k] = new]
        OBVIOUS
    <2>2. rows \in [Stores -> [K -> V]] /\ k \in K /\ new \in V
        BY <1>2, <2>1
    <2>3. g \in [Stores -> [K -> V]]
        BY <2>1, <2>2, EntrySet, Zenon
    <2>4. QED
        BY <2>1, <2>3
<1>3. CASE Finish
    <2>1. rows' = rows \/ rows' = [rows EXCEPT ![s][k] = new]
        BY DEF Store
    <2>2. rows' \in [Stores -> [Indexes \X Names -> [1..MaxChunks -> Contents \cup {None}]]]
        BY <1>2, <1>6, <2>1
    <2>3. QED
        BY <1>1, <1>3, <2>2, FinishTyped
<1>4. CASE Goto(then)
    <2>1. rows' = rows \/ rows' = [rows EXCEPT ![s][k] = new]
        BY DEF Store
    <2>2. rows' \in [Stores -> [Indexes \X Names -> [1..MaxChunks -> Contents \cup {None}]]]
        BY <1>2, <1>6, <2>1
    <2>3. pc = l /\ pc' = then /\ job' = job
        BY <1>4 DEF Store, Goto
    <2>4. Shape'
        BY <2>3 DEF TypeInv, Shape, Located, Ingesting
    <2>5. QED
        BY <1>1, <1>2, <2>2, <2>3, <2>4
<1>5. QED
    BY <1>3, <1>4 DEF Store

\* The keys that the worker cleans and writes are keys of the stores.
LEMMA KeysTyped ==
    ASSUME TypeInv, pc \in Located
    PROVE  Key \in Indexes \X Names /\ IngestKey \in Indexes \X Names
<1>1. job.index \in Indexes /\ job.name \in Names /\ pc # "idle"
    BY DEF TypeInv, Shape, Located
<1>2. Name[job.req.path] \in Names
    BY <1>1, WorkerTyped, Constants
<1>3. QED
    BY <1>1, <1>2 DEF Key, IngestKey

\* Cleaning empties one key of one store.
LEMMA CleanTyped == TypeInv /\ (CleanQdrant \/ CleanOpenSearch) => TypeInv'
<1> SUFFICES ASSUME TypeInv, CleanQdrant \/ CleanOpenSearch PROVE TypeInv'
    OBVIOUS
<1>1. NoChunks \in [1..MaxChunks -> Contents \cup {None}]
    BY DEF NoChunks
<1>2. "qdrant" \in Stores /\ "opensearch" \in Stores
    BY DEF Stores
<1>3. CASE CleanQdrant
    <2>1. pc = "clean_qdrant" /\ pc \in Located
        BY <1>3 DEF CleanQdrant, Store, Located
    <2>2. "clean_opensearch" \in (Located \cap Stages) \ Ingesting
        BY DEF Located, Stages, Ingesting
    <2>3. QED
        BY <1>1, <1>2, <1>3, <2>1, <2>2, KeysTyped, StoreTyped DEF CleanQdrant
<1>4. CASE CleanOpenSearch
    <2> DEFINE then == IF job.req.action = "delete" THEN "tombstone" ELSE "parse"
    <2>1. pc = "clean_opensearch" /\ pc \in Located
        BY <1>4 DEF CleanOpenSearch, Store, Located
    <2>2. then \in (Located \cap Stages) \ Ingesting
        BY DEF Located, Stages, Ingesting
    <2>3. then = "tombstone" => job.req.action = "delete"
        OBVIOUS
    <2>4. then = "parse" => job.req.action # "delete"
        OBVIOUS
    <2>5. Store("clean_opensearch", "opensearch", Key, NoChunks, then)
        BY <1>4 DEF CleanOpenSearch
    <2> HIDE DEF then
    <2>6. QED
        BY <1>1, <1>2, <2>1, <2>2, <2>3, <2>4, <2>5, KeysTyped, StoreTyped
<1>5. QED
    BY <1>3, <1>4

\* What is read is a content.
LEMMA ParseTyped == TypeInv /\ Parse => TypeInv'
<1> SUFFICES ASSUME TypeInv, Parse PROVE TypeInv'
    OBVIOUS
<1> DEFINE v == disk[job.req.path]
<1>1. ASSUME pc' \in Stages /\ job' \in Job /\ Shape' PROVE TypeInv'
    BY <1>1 DEF Parse, OnlyWorker, TypeInv, TypeOK
<1>2. pc = "parse" /\ (v # 0 => Content[v] \in Contents) /\ job \in Job
    BY WorkerTyped DEF Parse, TypeInv, TypeOK
<1>3. CASE v = 0
    BY <1>1, <1>3, FinishTyped DEF Parse
<1>4. CASE v # 0
    <2>1. job' = [job EXCEPT !.read = Content[v]] /\ pc' \in {"record", "ingest_qdrant"}
        BY <1>4 DEF Parse
    <2> HIDE DEF v
    <2>2. job' \in Job /\ job'.req = job.req /\ job'.index = job.index /\ job'.name = job.name
          /\ job'.ch = job.ch /\ job'.read \in Contents
        BY <1>2, <1>4, <2>1 DEF Job
    <2>3. Shape'
        BY <1>2, <2>1, <2>2 DEF TypeInv, Shape, Located, Ingesting
    <2>4. QED
        BY <1>1, <2>1, <2>2, <2>3 DEF Stages
<1>5. QED
    BY <1>3, <1>4

\* New chunks over old ones are chunks.
LEMMA OverlayTyped ==
    ASSUME NEW old \in [1..MaxChunks -> Contents \cup {None}], NEW c \in Contents
    PROVE  Overlay(old, c) \in [1..MaxChunks -> Contents \cup {None}]
    BY DEF Overlay

\* Ingestion writes one key of one store.
LEMMA IngestTyped == TypeInv /\ (IngestQdrant \/ IngestOpenSearch) => TypeInv'
<1> SUFFICES ASSUME TypeInv, NEW l, NEW s \in Stores, NEW then,
                    \/ l = "ingest_qdrant" /\ then = "ingest_opensearch"
                    \/ l = "ingest_opensearch" /\ then = "record",
                    Ingest(l, s, then)
             PROVE  TypeInv'
    BY DEF IngestQdrant, IngestOpenSearch, Stores
<1>1. pc = l /\ l \in Located /\ l \in Ingesting /\ then \in Located \cap Ingesting \cap Stages
      /\ then # "tombstone"
    BY DEF Ingest, Store, Located, Ingesting, Stages
<1>2. job.read \in Contents /\ job.req.action # "delete"
    BY <1>1 DEF TypeInv, Shape
<1>3. IngestKey \in Indexes \X Names
    BY <1>1, KeysTyped
<1>4. rows[s][IngestKey] \in [1..MaxChunks -> Contents \cup {None}]
    BY <1>3 DEF TypeInv, TypeOK
<1>5. Overlay(rows[s][IngestKey], job.read) \in [1..MaxChunks -> Contents \cup {None}]
    BY <1>2, <1>4, OverlayTyped
<1>6. QED
    BY <1>1, <1>2, <1>3, <1>5, StoreTyped DEF Ingest

\* The row that is written is that of the job or is not in use.
LEMMA RowOfTyped ==
    ASSUME TypeInv, job.doc = 0 => Unborn # {}
    PROVE  RowOf \in Docs /\ (job.doc = 0 => doc[RowOf] = None)
<1>1. job.doc \in 0..MaxDocs
    BY DEF TypeInv, TypeOK, Job
<1>2. QED
    BY <1>1, NewDocumentIsUnborn, Constants DEF RowOf

\* What is recorded is a row of `documents`.
LEMMA RecordTyped == TypeInv /\ Record => TypeInv' /\ Indexed \in Doc /\ RowOf \in Docs
<1> SUFFICES ASSUME TypeInv, Record PROVE TypeInv' /\ Indexed \in Doc /\ RowOf \in Docs
    OBVIOUS
<1>1. pc = "record" /\ pc \in Located /\ pc # "idle"
    BY DEF Record, Located
<1>2. RowOf \in Docs
    BY RowOfTyped DEF Record
<1>3. job.index \in Indexes /\ job.name \in Names /\ job.ch \in Contents /\ job.qh \in Hash
    BY <1>1 DEF TypeInv, Shape, TypeOK, Job, Ingesting
<1>4. Indexed \in Doc
    BY <1>1, <1>3, WorkerTyped DEF Indexed, Doc
<1>5. doc' \in [Docs -> Doc \cup {None}]
    BY <1>2, <1>4 DEF Record, TypeInv, TypeOK
<1>6. TypeInv'
    BY <1>5, FinishTyped DEF Record, OnlyWorker, TypeInv, TypeOK
<1>7. QED
    BY <1>2, <1>4, <1>6

\* A delete has the index and the name of the document, or those of the path.
LEMMA DeleteStartsTyped == TypeInv /\ DeleteStarts => TypeInv'
<1> SUFFICES ASSUME TypeInv, DeleteStarts PROVE TypeInv'
    OBVIOUS
<1>1. ASSUME pc' \in Stages /\ job' \in Job /\ Shape' PROVE TypeInv'
    BY <1>1 DEF DeleteStarts, OnlyWorker, TypeInv, TypeOK
<1> DEFINE p == job.req.path
           d == DocumentAt(p)
<1>2. /\ pc = "delete" /\ pc' = "clean_qdrant"
      /\ job \in Job /\ p \in Paths /\ job.req.action = "delete"
      /\ job.req # None
    BY WorkerTyped DEF DeleteStarts, TypeInv, TypeOK, Shape
<1>3. /\ job' \in Job /\ job'.req = job.req
      /\ job'.index \in Indexes /\ job'.name \in Names
    <2>1. CASE Known(p)
        <3>1. d \in Docs /\ doc[d] \in Doc
            BY <2>1, DocumentTyped DEF TypeInv
        <3>2. d \in 0..MaxDocs /\ doc[d].index \in Indexes /\ doc[d].name \in Names
            BY <3>1, Constants DEF Doc
        <3>3. job' = [job EXCEPT !.doc = d, !.index = doc[d].index, !.name = doc[d].name]
            BY <2>1 DEF DeleteStarts
        <3> HIDE DEF d, p
        <3>4. QED
            BY <1>2, <3>2, <3>3 DEF Job
    <2>2. CASE ~Known(p)
        <3>1. job' = [job EXCEPT !.index = Index[p], !.name = Name[p]]
            BY <2>2 DEF DeleteStarts
        <3>2. QED
            BY <1>2, <3>1, Constants DEF Job
    <2>3. QED
        BY <2>1, <2>2
<1>4. Shape'
    BY <1>2, <1>3 DEF Shape, Located, Ingesting
<1>5. QED
    BY <1>1, <1>2, <1>3, <1>4 DEF Stages

\* A row is removed.
LEMMA TombstoneTyped == TypeInv /\ Tombstone => TypeInv'
<1> SUFFICES ASSUME TypeInv, Tombstone PROVE TypeInv'
    OBVIOUS
<1>1. doc' \in [Docs -> Doc \cup {None}]
    BY DEF Tombstone, TypeInv, TypeOK
<1>2. QED
    BY <1>1, FinishTyped DEF Tombstone, OnlyWorker, TypeInv, TypeOK

\* A move renames a row or becomes an upsert.
LEMMA MovesTyped == TypeInv /\ Moves => TypeInv'
<1> SUFFICES ASSUME TypeInv, Moves PROVE TypeInv'
    OBVIOUS
<1> DEFINE p == job.req.path
           src == IF job.req.old # None THEN job.req.old ELSE p
           d == DocumentAt(src)
<1>1. ASSUME pc' \in Stages /\ job' \in Job /\ Shape' /\ doc' \in [Docs -> Doc \cup {None}]
      PROVE  TypeInv'
    BY <1>1 DEF Moves, OnlyWorker, TypeInv, TypeOK
<1>2. pc = "move" /\ p \in Paths /\ job.req.action = "move" /\ job.req # None /\ job \in Job
      /\ doc \in [Docs -> Doc \cup {None}]
    BY WorkerTyped DEF Moves, TypeInv, TypeOK, Shape
<1>3. CASE Goto("upsert") /\ UNCHANGED doc
    <2>1. Shape'
        BY <1>2, <1>3 DEF Goto, Shape, Located, Ingesting
    <2>2. QED
        BY <1>1, <1>2, <1>3, <2>1 DEF Goto, Stages
<1>4. CASE Known(src) /\ doc' = MoveDocument(d, p) /\ Finish
    <2>1. d \in Docs /\ doc[d] \in Doc
        BY <1>4, DocumentTyped DEF TypeInv
    <2>2. Name[p] \in Names
        BY <1>2, Constants
    <2> HIDE DEF p, src, d
    <2>3. doc' \in [Docs -> Doc \cup {None}]
        BY <1>2, <1>4, <2>1, <2>2 DEF MoveDocument, Doc
    <2>4. QED
        BY <1>1, <1>4, <2>3, FinishTyped
<1>5. QED
    BY <1>3, <1>4 DEF Moves

\* The reconciler keeps sets of paths and asks for paths.
LEMMA ReconcilerTyped == TypeInv /\ Reconciler => TypeInv'
<1> SUFFICES ASSUME TypeInv, Reconciler PROVE TypeInv'
    OBVIOUS
<1>1. ASSUME scan' \in Scan, queue' \in Seq(Request), OnlyScan PROVE TypeInv'
    <2>1. TypeOK'
        BY <1>1 DEF OnlyScan, TypeInv, TypeOK
    <2>2. Shape'
        BY <1>1 DEF OnlyScan, TypeInv, Shape
    <2>3. QED
        BY <2>1, <2>2 DEF TypeInv
<1>2. scan \in Scan /\ queue \in Seq(Request) /\ disk \in [Paths -> Versions \cup {0}]
    BY DEF TypeInv, TypeOK
<1>3. CASE ScanDisk
    <2>1. PICK missed \in SUBSET Paths :
             scan' = [scan EXCEPT !.at = "index",
                         !.found = [p \in Paths |-> IF p \in missed THEN 0 ELSE disk[p]]]
        BY <1>3 DEF ScanDisk
    <2>2. scan' \in Scan
        BY <1>2, <2>1 DEF Scan
    <2>3. QED
        BY <1>1, <1>2, <1>3, <2>2 DEF ScanDisk
<1>4. CASE ScanIndex
    <2>1. IndexedPaths \subseteq Paths
        BY DEF IndexedPaths, Live, TypeInv, TypeOK, Doc
    <2>2. scan' \in Scan
        BY <1>2, <1>4, <2>1 DEF ScanIndex, Scan
    <2>3. QED
        BY <1>1, <1>2, <1>4, <2>2 DEF ScanIndex
<1>5. ASSUME NEW p \in Paths, ScanFound(p) PROVE TypeInv'
    <2>1. scan' \in Scan
        BY <1>2, <1>5 DEF ScanFound, Scan
    <2>2. With(queue, Ask(p, "upsert", None, -1)) \in Seq(Request)
        BY <1>2, AskTyped, WithElements DEF Actions
    <2>3. QED
        BY <1>1, <1>2, <1>5, <2>1, <2>2 DEF ScanFound
<1>6. CASE ScanTurns
    <2>1. scan' \in Scan
        BY <1>2, <1>6 DEF ScanTurns, Scan
    <2>2. QED
        BY <1>1, <1>2, <1>6, <2>1 DEF ScanTurns
<1>7. ASSUME NEW p \in Paths, ScanAbsent(p) PROVE TypeInv'
    <2>1. scan' \in Scan
        BY <1>2, <1>7 DEF ScanAbsent, Scan
    <2>2. With(queue, Ask(p, "delete", None, -1)) \in Seq(Request)
        BY <1>2, AskTyped, WithElements DEF Actions
    <2>3. QED
        BY <1>1, <1>2, <1>7, <2>1, <2>2 DEF ScanAbsent
<1>8. CASE ScanEnds
    BY <1>1, <1>2, <1>8, NoJobTyped DEF ScanEnds
<1>9. QED
    BY <1>3, <1>4, <1>5, <1>6, <1>7, <1>8 DEF Reconciler

\* A crash leaves the worker and the reconciler at rest.
LEMMA ProcessTyped == TypeInv /\ (Crash \/ Restart) => TypeInv'
<1> SUFFICES ASSUME TypeInv, Crash \/ Restart PROVE TypeInv'
    OBVIOUS
<1>1. CASE Restart
    BY <1>1 DEF Restart, TypeInv, TypeOK, Shape
<1>2. CASE Crash
    <2>1. queue' \in Seq(Request)
        BY <1>2, PutBackElements DEF Crash, TypeInv, TypeOK, Job
    <2>2. Finish
        BY <1>2 DEF Crash, Finish
    <2>3. slot' \in [Paths -> Event \cup {None}] /\ scan' \in Scan
        BY <1>2, NoJobTyped DEF Crash
    <2>4. QED
        BY <1>2, <2>1, <2>2, <2>3, FinishTyped DEF Crash, TypeInv, TypeOK
<1>3. QED
    BY <1>1, <1>2

\* Every step of the pipeline keeps the types.
LEMMA StepTyped == TypeInv /\ [Next]_vars => TypeInv'
<1> SUFFICES ASSUME TypeInv, [Next]_vars PROVE TypeInv'
    OBVIOUS
<1>1. CASE Users
    BY <1>1, UsersTyped
<1>2. CASE \E p \in Paths : Fire(p)
    BY <1>2, FireTyped
<1>3. CASE Worker
    BY <1>3, TakeTyped, UpsertStartsTyped, UpsertHashesTyped, CleanTyped, ParseTyped, IngestTyped,
       RecordTyped, DeleteStartsTyped, TombstoneTyped, MovesTyped DEF Worker
<1>4. CASE Reconciler
    BY <1>4, ReconcilerTyped
<1>5. CASE Crash \/ Restart
    BY <1>5, ProcessTyped
<1>6. CASE UNCHANGED vars
    BY <1>6 DEF vars, TypeInv, TypeOK, Shape
<1>7. QED
    BY <1>1, <1>2, <1>3, <1>4, <1>5, <1>6 DEF Next

\* Types and shape hold in every state.
LEMMA SpecTyped == Spec => []TypeInv
    BY InitTyped, StepTyped, PTL DEF Spec

\* Queue, rows, chunks, worker and reconciler keep to their domains, whatever fails.
THEOREM IndexSyncTypeCorrect == Spec => []TypeOK
<1>1. TypeInv => TypeOK
    BY DEF TypeInv
<1>2. QED
    BY <1>1, SpecTyped, PTL

Wanted == {KeyOf(r) : r \in Elements(queue)}
Served == IF job.req = None THEN {} ELSE {KeyOf(job.req)}

\* Both ways to write what is pending.
LEMMA WantedIsPending == Wanted = {KeyOf(queue[i]) : i \in DOMAIN queue}
    BY DEF Wanted, Elements

\* An enqueue asks, whether or not it replaces an older request.
LEMMA LedgerAsk ==
    ASSUME TypeInv, NEW r \in Request, queue' = With(queue, r), Served' = Served
    PROVE  Ledger!Next
<1>1. queue \in Seq(Request)
    BY DEF TypeInv, TypeOK
<1>2. Elements(queue') = {r} \cup {x \in Elements(queue) : ~SameKey(x, r)}
    BY <1>1, WithElements
<1>3. KeyOf(r) \in Paths \X Actions
    BY DEF KeyOf, Request
<1>4. \A x \in Elements(queue) : SameKey(x, r) => KeyOf(x) = KeyOf(r)
    BY DEF SameKey, KeyOf
<1>5. Wanted' = Wanted \cup {KeyOf(r)}
    BY <1>2, <1>4 DEF Wanted
<1>6. Ledger!Ask({KeyOf(r)})
    BY <1>5, WantedIsPending DEF Ledger!Ask, Served, Wanted, Elements
<1>7. QED
    BY <1>3, <1>6 DEF Ledger!Next

\* To take a request is to serve it.
LEMMA LedgerTake == TypeInv /\ Take => Ledger!Next
<1> SUFFICES ASSUME TypeInv, Take PROVE Ledger!Next
    OBVIOUS
<1>1. PICK i \in DOMAIN queue : /\ job' = [NoJob EXCEPT !.req = queue[i]]
                                /\ queue' = Without(queue, i)
    BY DEF Take
<1>2. queue[i] \in Request /\ Elements(queue) = {queue[i]} \cup Elements(queue')
    BY <1>1, WithoutElements DEF TypeInv, TypeOK
<1>3. job'.req = queue[i] /\ job.req = None /\ queue[i] # None
    BY <1>1, <1>2, Constants DEF NoJob, Take, TypeInv, Shape
<1> DEFINE k == KeyOf(queue[i])
<1>4. k \in Paths \X Actions
    BY <1>2 DEF KeyOf, Request
<1>5. Served = {} /\ Served' = {k}
    BY <1>3 DEF Served
<1>6. Wanted = {k} \cup Wanted'
    BY <1>2 DEF Wanted
<1>7. k \in Wanted /\ Wanted' \in {Wanted, Wanted \ {k}}
    BY <1>6
<1> HIDE DEF k
<1>8. Ledger!Serve(k)
    <2>1. Wanted' = {KeyOf(queue'[j]) : j \in DOMAIN queue'}
        BY DEF Wanted, Elements
    <2>2. Wanted = {KeyOf(queue[j]) : j \in DOMAIN queue}
        BY DEF Wanted, Elements
    <2>3. QED
        BY <1>5, <1>7, <2>1, <2>2 DEF Ledger!Serve, Served
<1>9. QED
    BY <1>4, <1>8 DEF Ledger!Next

\* The worker gives an answer for its request, or keeps it.
LEMMA LedgerSettle ==
    ASSUME Finish, UNCHANGED queue
    PROVE  Ledger!Next
<1>1. Served' = {} /\ Wanted' = Wanted
    BY NoJobTyped DEF Finish, Served, Wanted
<1>2. Ledger!Settle
    BY <1>1, WantedIsPending DEF Ledger!Settle, Served, Wanted, Elements
<1>3. QED
    BY <1>2 DEF Ledger!Next

\* Every step of the worker after Take ends the job or keeps the request.
LEMMA WorkerKeepsRequest ==
    ASSUME TypeInv, Worker, ~Take
    PROVE  /\ UNCHANGED queue
           /\ Finish \/ (job'.req = job.req /\ pc # "idle" /\ pc' # "idle")
<1>1. job \in Job
    BY DEF TypeInv, TypeOK
<1>2. CASE UpsertStarts \/ Parse \/ DeleteStarts \/ Record \/ Tombstone
    BY <1>1, <1>2 DEF UpsertStarts, Parse, DeleteStarts, Record, Tombstone, Job
<1>3. CASE UpsertHashes
    BY <1>1, <1>3 DEF UpsertHashes, Decide, Discover, Skip, Replace, Job
<1>4. CASE CleanQdrant \/ CleanOpenSearch
    BY <1>4 DEF CleanQdrant, CleanOpenSearch, Store, Goto
<1>5. CASE IngestQdrant \/ IngestOpenSearch
    BY <1>5 DEF IngestQdrant, IngestOpenSearch, Ingest, Store, Goto
<1>6. CASE Moves
    BY <1>6 DEF Moves, Goto
<1>7. QED
    BY <1>2, <1>3, <1>4, <1>5, <1>6 DEF Worker

\* A crash puts back what was being served.
LEMMA LedgerCrash == TypeInv /\ Crash => Ledger!Next
<1> SUFFICES ASSUME TypeInv, Crash PROVE Ledger!Next
    OBVIOUS
<1>1. Served' = {}
    BY NoJobTyped DEF Crash, Served
<1>2. CASE job.req = None
    <2>1. Served = {} /\ Wanted' = Wanted
        BY <1>2 DEF Crash, Served, Wanted
    <2>2. Ledger!PutBack
        BY <1>1, <2>1, WantedIsPending DEF Ledger!PutBack, Served, Wanted, Elements
    <2>3. QED
        BY <2>2 DEF Ledger!Next
<1>3. CASE job.req # None
    <2>1. job.req \in Request /\ queue \in Seq(Request) /\ queue' = <<job.req>> \o queue
        BY <1>3 DEF Crash, TypeInv, TypeOK, Job
    <2>2. Elements(queue') = {job.req} \cup Elements(queue)
        BY <2>1, PutBackElements
    <2>3. Wanted' = Wanted \cup Served
        BY <1>3, <2>2 DEF Wanted, Served
    <2>4. Ledger!PutBack
        BY <1>1, <2>3, WantedIsPending DEF Ledger!PutBack, Served, Wanted, Elements
    <2>5. QED
        BY <2>4 DEF Ledger!Next
<1>4. QED
    BY <1>2, <1>3

\* What a step does to the queue and to the request in hand.
QueueStep ==
    \/ \E r \in Request : queue' = With(queue, r) /\ UNCHANGED <<pc, job>>
    \/ Take
    \/ UNCHANGED queue /\ Finish
    \/ UNCHANGED queue /\ job'.req = job.req /\ (pc' = "idle" <=> pc = "idle")
    \/ Crash

\* Nobody does anything else to the queue.
LEMMA StepOfQueue == TypeInv /\ [Next]_vars => QueueStep
<1> SUFFICES ASSUME TypeInv, [Next]_vars PROVE QueueStep
    OBVIOUS
<1>1. CASE Users
    <2> PICK p \in scenario.paths, q \in scenario.paths :
            Write(p) \/ Remove(p) \/ Reindex(p) \/ Drop(p) \/ Move(p, q)
        BY <1>1 DEF Users
    <2>1. p \in Paths
        BY Constants DEF TypeInv, TypeOK
    <2>2. CASE Reindex(p)
        BY <2>1, <2>2, AskTyped DEF Reindex, Call, QueueStep, Actions
    <2>3. CASE Drop(p)
        BY <2>1, <2>3, AskTyped DEF Drop, Call, QueueStep, Actions
    <2>4. CASE Write(p) \/ Remove(p) \/ Move(p, q)
        BY <2>4 DEF Write, Remove, Move, QueueStep
    <2>5. QED
        BY <2>2, <2>3, <2>4
<1>2. CASE \E p \in Paths : Fire(p)
    <2> PICK p \in Paths : Fire(p)
        BY <1>2
    <2>1. \E r \in Request : queue' = With(queue, r)
        BY FireTyped
    <2>2. QED
        BY <2>1 DEF Fire, QueueStep
<1>3. CASE Worker
    BY <1>3, WorkerKeepsRequest DEF QueueStep
<1>4. CASE Reconciler
    <2>1. ASSUME NEW p \in Paths, ScanFound(p) PROVE QueueStep
        BY <2>1, AskTyped DEF ScanFound, OnlyScan, QueueStep, Actions
    <2>2. ASSUME NEW p \in Paths, ScanAbsent(p) PROVE QueueStep
        BY <2>2, AskTyped DEF ScanAbsent, OnlyScan, QueueStep, Actions
    <2>3. CASE ScanDisk \/ ScanIndex \/ ScanTurns \/ ScanEnds
        BY <2>3 DEF ScanDisk, ScanIndex, ScanTurns, ScanEnds, OnlyScan, QueueStep
    <2>4. QED
        BY <1>4, <2>1, <2>2, <2>3 DEF Reconciler
<1>5. CASE Crash
    BY <1>5 DEF QueueStep
<1>6. CASE Restart \/ UNCHANGED vars
    BY <1>6 DEF Restart, vars, QueueStep
<1>7. QED
    BY <1>1, <1>2, <1>3, <1>4, <1>5, <1>6 DEF Next

\* Every step of the pipeline is one of the ledger, or leaves the ledger alone.
LEMMA LedgerStep ==
    TypeInv /\ [Next]_vars
        => [Ledger!Next]_<<{KeyOf(queue[i]) : i \in DOMAIN queue},
                           IF job.req = None THEN {} ELSE {KeyOf(job.req)}>>
<1> SUFFICES ASSUME TypeInv, [Next]_vars
             PROVE  Ledger!Next \/ (Wanted' = Wanted /\ Served' = Served)
    BY WantedIsPending DEF Served, Wanted, Elements
<1>1. ASSUME NEW r \in Request, queue' = With(queue, r), UNCHANGED <<pc, job>>
      PROVE  Ledger!Next
    BY <1>1, LedgerAsk DEF Served
<1>2. CASE UNCHANGED queue /\ job'.req = job.req
    BY <1>2 DEF Wanted, Served
<1>3. QED
    BY <1>1, <1>2, StepOfQueue, LedgerTake, LedgerSettle, LedgerCrash DEF QueueStep

\* The whole pipeline - timers, HTTP calls, reconciler, worker, crashes - uses the
\* job queue as RequestLedger promises: a request for a file stays wanted until the worker
\* serves it, one is served at a time, and one that a crash interrupts is wanted again.
THEOREM IndexSyncKeepsLedger == Spec => KeepsLedger
<1>1. Init => Ledger!Init
    BY NoJobTyped DEF Init, Ledger!Init
<1>2. QED
    BY <1>1, LedgerStep, SpecTyped, PTL DEF Spec, KeepsLedger, Ledger!Spec

Target == job.req.path

\* The paths in play are those of the scenario.
Played ==
    LET S == scenario.paths IN
    /\ \A p \in Paths : disk[p] # 0 \/ scan.found[p] # 0 => p \in S
    /\ \A d \in Live : doc[d].path \in S
    /\ scan.indexed \subseteq S /\ scan.todo \subseteq S

Fits(r) == r.path \in scenario.paths /\ r.action # "move"
FitRequests ==
    /\ \A p \in Paths : slot[p] # None => p \in scenario.paths /\ slot[p].action # "move"
    /\ \A r \in Elements(queue) : Fits(r)
    /\ job.req # None => Fits(job.req)

\* What the worker found at its path is still there, and no path has two rows.
Found ==
    /\ \A d, e \in Live : doc[d].path = doc[e].path => d = e
    /\ \A d \in Live : doc[d].index = Index[doc[d].path] /\ doc[d].name = Name[doc[d].path]
    /\ pc \in Located =>
         /\ At(Target) = IF job.doc = 0 THEN {} ELSE {job.doc}
         /\ job.index = Index[Target] /\ job.name = Name[Target]
    /\ pc \notin Located => job.doc = 0

FoundInv == ~Moving => Played /\ FitRequests /\ Found

\* Who changes what.
LEMMA WorkerOnly == Worker => OnlyWorker
    BY DEF Worker, Take, UpsertStarts, UpsertHashes, CleanQdrant, CleanOpenSearch, Parse,
       IngestQdrant, IngestOpenSearch, Ingest, Store, Record, DeleteStarts, Tombstone, Moves

\* The reconciler only enqueues.
LEMMA ReconcilerOnly == Reconciler => OnlyScan
    BY DEF Reconciler, ScanDisk, ScanIndex, ScanFound, ScanTurns, ScanAbsent, ScanEnds

\* Users change files and enqueue.
LEMMA UsersOnly == Users => UNCHANGED <<scenario, up, doc, rows, pc, job, scan>>
    BY DEF Users, Write, Remove, Move, Reindex, Drop, Call

\* The scenario never changes.
LEMMA ScenarioSame == [Next]_vars => UNCHANGED scenario
    BY WorkerOnly, ReconcilerOnly, UsersOnly
       DEF Next, OnlyWorker, OnlyScan, Fire, Crash, Restart, vars

\* Who else than the worker leaves rows, chunks and the worker alone.
LEMMA OthersKeep ==
    ASSUME [Next]_vars, ~Worker, ~Crash
    PROVE  UNCHANGED <<doc, rows, pc, job>>
    BY ReconcilerOnly, UsersOnly DEF Next, OnlyScan, Fire, Restart, vars

\* Only users change the disk.
LEMMA DiskSame ==
    ASSUME [Next]_vars, ~Users
    PROVE  UNCHANGED <<disk, next>>
    BY WorkerOnly, ReconcilerOnly DEF Next, OnlyWorker, OnlyScan, Fire, Crash, Restart, vars

\* Without moves the disk is only written and removed from.
LEMMA UsersWithoutMoves ==
    ASSUME TypeInv, ~Moving, Users
    PROVE  \E p \in scenario.paths : Write(p) \/ Remove(p) \/ Reindex(p) \/ Drop(p)
    BY DEF Users, Move, Moving

-----------------------------------------------------------------------------
\* Rows that do not change.
LEMMA LiveSame == doc' = doc => Live' = Live /\ \A p : At(p)' = At(p)
    BY DEF Live, At

\* Rows and worker that do not change.
LEMMA FoundKept ==
    ASSUME Found, UNCHANGED <<doc, pc, job>>
    PROVE  Found'
    BY DEF Found, At, Live, Target

\* The worker is done with its path.
LEMMA FoundFinished ==
    ASSUME Found, Finish,
           \A d, e \in Live' : doc'[d].path = doc'[e].path => d = e,
           \A d \in Live' : doc'[d].index = Index[doc'[d].path] /\ doc'[d].name = Name[doc'[d].path]
    PROVE  Found'
<1>1. pc' \notin Located /\ job'.doc = 0
    BY DEF Finish, NoJob, Located
<1>2. QED
    BY <1>1 DEF Found

\* The worker alone writes rows: what it found stays so until it is done.
LEMMA FoundStep == TypeInv /\ FitRequests /\ Found /\ [Next]_vars => Found'
<1> SUFFICES ASSUME TypeInv, FitRequests, Found, [Next]_vars PROVE Found'
    OBVIOUS
<1>1. job \in Job /\ doc \in [Docs -> Doc \cup {None}]
    BY DEF TypeInv, TypeOK
<1>2. ASSUME Finish, UNCHANGED doc PROVE Found'
    BY <1>2, FoundFinished, LiveSame DEF Found
<1>3. CASE ~Worker /\ ~Crash
    BY <1>3, FoundKept, OthersKeep
<1>4. CASE Crash
    BY <1>2, <1>4 DEF Crash, Finish
<1>5. CASE Take
    <2>1. job'.doc = 0 /\ pc' \notin Located /\ UNCHANGED doc
        <3>1. PICK i \in DOMAIN queue :
                  /\ job' = [NoJob EXCEPT !.req = queue[i]]
                  /\ pc' = queue[i].action
            BY <1>5 DEF Take
        <3>2. queue[i] \in Request
            BY <3>1, WithoutElements DEF TypeInv, TypeOK
        <3>3. QED
            BY <1>5, <3>1, <3>2 DEF Take, NoJob, Request, Actions, Located
    <2>2. QED
        BY <2>1, LiveSame DEF Found
<1>6. CASE UpsertStarts
    <2>1. CASE Finish
        BY <1>2, <1>6, <2>1 DEF UpsertStarts
    <2>2. CASE ~Finish
        <3>1. pc \notin Located /\ pc' = "hash" /\ pc' \notin Located /\ UNCHANGED doc
            BY <1>6, <2>2 DEF UpsertStarts, Located
        <3>2. job'.doc = job.doc
            BY <1>1, <1>6, <2>2 DEF UpsertStarts, Job
        <3>3. QED
            BY <3>1, <3>2, LiveSame DEF Found
    <2>3. QED
        BY <2>1, <2>2
<1>7. CASE UpsertHashes
    <2> DEFINE p == job.req.path
               c == Content[disk[p]]
    <2>1. pc = "hash" /\ pc \notin Located /\ job.doc = 0
        BY <1>7 DEF UpsertHashes, Found, Located
    <2>2. CASE disk[p] = 0
        BY <1>2, <1>7, <2>2 DEF UpsertHashes
    <2>3. CASE ~Known(p) /\ Discover(p, c)
        <3>1. At(p) = {}
            BY <2>3 DEF Known
        <3>2. pc' = "parse" /\ UNCHANGED doc
            BY <2>3 DEF Discover
        <3>3. job'.req = job.req /\ job'.doc = 0 /\ job'.index = Index[p] /\ job'.name = Name[p]
            BY <1>1, <2>1, <2>3 DEF Discover, Job
        <3>4. QED
            BY <3>1, <3>2, <3>3, LiveSame DEF Found, Target, Located
    <2>4. CASE Known(p) /\ Skip(p)
        <3> DEFINE d == DocumentAt(p)
        <3>1. d \in Docs /\ d \in Live /\ doc[d] \in Doc
            BY <2>4, DocumentTyped DEF TypeInv
        <3>2. doc' = [doc EXCEPT ![d].qh = job.qh] /\ Finish
            BY <2>4 DEF Skip
        <3> HIDE DEF d
        <3>3. /\ \A e \in Docs : e # d => doc'[e] = doc[e]
              /\ doc'[d].path = doc[d].path /\ doc'[d].name = doc[d].name
              /\ doc'[d].index = doc[d].index
            BY <1>1, <3>1, <3>2 DEF Doc
        <3>4. Live' \subseteq Live
            BY <3>1, <3>3 DEF Live
        <3>5. \A e \in Live' : /\ doc'[e].path = doc[e].path /\ doc'[e].name = doc[e].name
                               /\ doc'[e].index = doc[e].index
            BY <3>3 DEF Live
        <3>6. QED
            BY <3>2, <3>4, <3>5, FoundFinished DEF Found
    <2>5. CASE Known(p) /\ Replace(p, c)
        <3> DEFINE d == DocumentAt(p)
        <3>1. d \in Docs /\ d \in Live /\ doc[d].path = p
            BY <2>5, DocumentTyped DEF TypeInv
        <3>2. At(p) = {d}
            BY <3>1 DEF Found, At
        <3>3. d # 0
            BY <3>1, Constants
        <3>4. doc[d].index = Index[p] /\ doc[d].name = Name[p]
            BY <3>1 DEF Found
        <3>5. pc' = "clean_qdrant" /\ UNCHANGED doc
            BY <2>5 DEF Replace
        <3>6. job' = [job EXCEPT !.ch = c, !.doc = d, !.index = doc[d].index, !.name = doc[d].name]
            BY <2>5 DEF Replace
        <3> HIDE DEF d, c
        <3>7. /\ job'.req = job.req /\ job'.doc = d
              /\ job'.index = doc[d].index /\ job'.name = doc[d].name
            BY <1>1, <3>6 DEF Job
        <3>8. QED
            BY <3>2, <3>3, <3>4, <3>5, <3>7, LiveSame DEF Found, Target, Located
    <2>6. QED
        BY <1>7, <2>2, <2>3, <2>4, <2>5 DEF UpsertHashes, Decide
<1>8. CASE CleanQdrant \/ CleanOpenSearch \/ IngestQdrant \/ IngestOpenSearch
    <2>1. UNCHANGED doc
        BY <1>8 DEF CleanQdrant, CleanOpenSearch, IngestQdrant, IngestOpenSearch, Ingest, Store
    <2>2. CASE Finish
        BY <1>2, <2>1, <2>2
    <2>3. CASE ~Finish
        <3>1. pc \in Located /\ pc' \in Located /\ job' = job
            BY <1>8, <2>3 DEF CleanQdrant, CleanOpenSearch, IngestQdrant, IngestOpenSearch, Ingest,
                              Store, Goto, Located
        <3>2. QED
            BY <2>1, <3>1, LiveSame DEF Found, Target
    <2>4. QED
        BY <2>2, <2>3
<1>9. CASE Parse
    <2>1. UNCHANGED doc
        BY <1>9 DEF Parse
    <2>2. CASE Finish
        BY <1>2, <2>1, <2>2
    <2>3. CASE ~Finish
        <3>1. pc \in Located /\ pc' \in Located
            BY <1>9, <2>3 DEF Parse, Located
        <3>2. /\ job'.req = job.req /\ job'.doc = job.doc
              /\ job'.index = job.index /\ job'.name = job.name
            BY <1>1, <1>9, <2>3 DEF Parse, Job
        <3>3. QED
            BY <2>1, <3>1, <3>2, LiveSame DEF Found, Target
    <2>4. QED
        BY <2>2, <2>3
<1>10. CASE Record
    <2>1. CASE UNCHANGED doc
        BY <1>2, <1>10, <2>1 DEF Record
    <2>2. CASE ~UNCHANGED doc
        <3> DEFINE d == RowOf
        <3>1. doc' = [doc EXCEPT ![d] = Indexed] /\ Finish /\ pc \in Located
            BY <1>10, <2>2 DEF Record, Located
        <3>2. d \in Docs /\ Indexed \in Doc
            BY <1>10, RecordTyped
        <3>3. /\ Indexed.path = Target
              /\ Indexed.index = Index[Target]
              /\ Indexed.name = Name[Target]
            BY <3>1 DEF Indexed, Found, Target
        <3>4. At(Target) \subseteq {d}
            BY <3>1 DEF Found, RowOf
        <3> HIDE DEF d
        <3>5. doc'[d] = Indexed /\ \A e \in Docs : e # d => doc'[e] = doc[e]
            BY <1>1, <3>1, <3>2
        <3>6. \A e \in Live' : e # d => e \in Live /\ doc'[e] = doc[e] /\ doc[e].path # Target
            BY <3>4, <3>5 DEF Live, At
        <3>7. \A e, f \in Live' : doc'[e].path = doc'[f].path => e = f
            BY <3>3, <3>5, <3>6 DEF Found
        <3>8. QED
            BY <3>1, <3>3, <3>5, <3>6, <3>7, FoundFinished DEF Found
    <2>3. QED
        BY <2>1, <2>2
<1>11. CASE DeleteStarts
    <2> DEFINE p == job.req.path
               d == DocumentAt(p)
    <2>1. pc = "delete" /\ pc \notin Located /\ job.doc = 0 /\ pc' = "clean_qdrant" /\ UNCHANGED doc
        BY <1>11 DEF DeleteStarts, Found, Located
    <2>2. CASE Known(p)
        <3>1. d \in Docs /\ d \in Live /\ doc[d].path = p /\ d # 0
            BY <2>2, DocumentTyped, Constants DEF TypeInv
        <3>2. At(p) = {d}
            BY <3>1 DEF Found, At
        <3>3. doc[d].index = Index[p] /\ doc[d].name = Name[p]
            BY <3>1 DEF Found
        <3>4. job' = [job EXCEPT !.doc = d, !.index = doc[d].index, !.name = doc[d].name]
            BY <1>11, <2>2 DEF DeleteStarts
        <3> HIDE DEF d
        <3>5. /\ job'.req = job.req /\ job'.doc = d
              /\ job'.index = doc[d].index /\ job'.name = doc[d].name
            BY <1>1, <3>4 DEF Job
        <3>6. QED
            BY <2>1, <3>1, <3>2, <3>3, <3>5, LiveSame DEF Found, Target, Located
    <2>3. CASE ~Known(p)
        <3>1. At(p) = {}
            BY <2>3 DEF Known
        <3>2. /\ job'.req = job.req /\ job'.doc = 0 /\ job'.index = Index[p] /\ job'.name = Name[p]
            BY <1>1, <1>11, <2>1, <2>3 DEF DeleteStarts, Job
        <3>3. QED
            BY <2>1, <3>1, <3>2, LiveSame DEF Found, Target, Located
    <2>4. QED
        BY <2>2, <2>3
<1>12. CASE Tombstone
    <2>1. \A e \in Live' : e \in Live /\ doc'[e] = doc[e]
        BY <1>12 DEF Tombstone, Live
    <2>2. \A d, e \in Live' : doc'[d].path = doc'[e].path => d = e
        BY <2>1 DEF Found
    <2>3. \A d \in Live' : doc'[d].index = Index[doc'[d].path] /\ doc'[d].name = Name[doc'[d].path]
        BY <2>1 DEF Found
    <2>4. Finish
        BY <1>12 DEF Tombstone
    <2>5. QED
        BY <2>2, <2>3, <2>4, FoundFinished
<1>13. CASE Moves
    <2>1. job.req.action = "move" /\ job.req # None
        BY <1>13, WorkerTyped, Constants DEF Moves, TypeInv, Shape
    <2>2. QED
        BY <2>1 DEF FitRequests, Fits
<1>14. QED
    BY <1>3, <1>4, <1>5, <1>6, <1>7, <1>8, <1>9, <1>10, <1>11, <1>12, <1>13 DEF Worker

-----------------------------------------------------------------------------
\* A step that asks for something asks for a path in play.
LEMMA FitRequestsStep == TypeInv /\ ~Moving /\ Played /\ FitRequests /\ [Next]_vars => FitRequests'
<1> SUFFICES ASSUME TypeInv, ~Moving, Played, FitRequests, [Next]_vars PROVE FitRequests'
    OBVIOUS
<1> DEFINE S == scenario.paths
<1>1. /\ UNCHANGED scenario /\ queue \in Seq(Request)
      /\ slot \in [Paths -> Event \cup {None}]
      /\ S \subseteq Paths
    BY ScenarioSame, Constants DEF TypeInv, TypeOK
<1>2. ASSUME NEW r \in Request, Fits(r), queue' = With(queue, r), UNCHANGED <<slot, job>>
      PROVE  FitRequests'
    <2>1. Elements(queue') = {r} \cup {x \in Elements(queue) : ~SameKey(x, r)}
        BY <1>1, <1>2, WithElements
    <2>2. QED
        BY <1>1, <1>2, <2>1 DEF FitRequests, Fits
<1>3. ASSUME NEW p \in S, NEW a \in Actions, a # "move", Seen(p, a, None), UNCHANGED <<queue, job>>
      PROVE  FitRequests'
    <2>1. \A q \in Paths : slot'[q] # None => q \in S /\ slot'[q].action # "move"
        BY <1>1, <1>3 DEF Seen, FitRequests
    <2>2. QED
        BY <1>1, <1>3, <2>1 DEF FitRequests, Fits
<1>4. ASSUME UNCHANGED <<slot, queue, job>> PROVE FitRequests'
    BY <1>1, <1>4 DEF FitRequests, Fits
<1>5. CASE Users
    <2> PICK p \in S : Write(p) \/ Remove(p) \/ Reindex(p) \/ Drop(p)
        BY <1>5, UsersWithoutMoves
    <2>1. CASE Write(p)
        BY <1>3, <2>1 DEF Write, Actions
    <2>2. CASE Remove(p)
        BY <1>3, <2>2 DEF Remove, Actions
    <2>3. ASSUME NEW a \in {"upsert", "delete"}, NEW op, Call(p, op, a) PROVE FitRequests'
        <3>1. Ask(p, a, None, 1) \in Request /\ Fits(Ask(p, a, None, 1))
            BY <1>1, AskTyped DEF Fits, Actions
        <3>2. QED
            BY <1>2, <2>3, <3>1 DEF Call
    <2>4. QED
        BY <2>1, <2>2, <2>3 DEF Reindex, Drop
<1>6. ASSUME NEW p \in Paths, Fire(p) PROVE FitRequests'
    <2>1. PICK r \in Request : r.path = p /\ r.action = slot[p].action /\ queue' = With(queue, r)
        BY <1>6, FireTyped
    <2>2. Fits(r)
        BY <1>6, <2>1 DEF Fits, FitRequests, Fire
    <2>3. Elements(queue') = {r} \cup {x \in Elements(queue) : ~SameKey(x, r)}
        BY <1>1, <2>1, WithElements
    <2>4. \A q \in Paths : slot'[q] # None => slot[q] # None /\ slot'[q] = slot[q]
        BY <1>1, <1>6 DEF Fire
    <2>5. UNCHANGED job
        BY <1>6 DEF Fire
    <2>6. QED
        BY <1>1, <2>2, <2>3, <2>4, <2>5 DEF FitRequests, Fits
<1>7. CASE Take
    <2>1. PICK i \in DOMAIN queue :
              /\ job' = [NoJob EXCEPT !.req = queue[i]]
              /\ queue' = Without(queue, i)
        BY <1>7 DEF Take
    <2>2. queue[i] \in Request /\ Elements(queue) = {queue[i]} \cup Elements(queue')
        BY <1>1, <2>1, WithoutElements
    <2>3. job'.req = queue[i] /\ UNCHANGED slot
        BY <1>7, <2>1 DEF NoJob, Take, OnlyWorker
    <2>4. QED
        BY <1>1, <2>2, <2>3 DEF FitRequests, Fits
<1>8. CASE Worker /\ ~Take
    <2>1. UNCHANGED queue /\ (job'.req = None \/ job'.req = job.req)
        BY <1>8, WorkerKeepsRequest, NoJobTyped DEF Finish
    <2>2. UNCHANGED slot
        BY <1>8, WorkerOnly DEF OnlyWorker
    <2>3. QED
        BY <1>1, <2>1, <2>2 DEF FitRequests, Fits
<1>9. CASE Reconciler
    <2>1. ASSUME NEW p \in Paths, ScanFound(p) PROVE FitRequests'
        <3>1. p \in S
            BY <2>1 DEF ScanFound, Played
        <3>2. Ask(p, "upsert", None, -1) \in Request /\ Fits(Ask(p, "upsert", None, -1))
            BY <3>1, AskTyped DEF Fits, Actions
        <3>3. QED
            BY <1>2, <1>4, <2>1, <3>2 DEF ScanFound, OnlyScan
    <2>2. ASSUME NEW p \in Paths, ScanAbsent(p) PROVE FitRequests'
        <3>1. p \in S
            BY <2>2 DEF ScanAbsent, Played
        <3>2. Ask(p, "delete", None, -1) \in Request /\ Fits(Ask(p, "delete", None, -1))
            BY <3>1, AskTyped DEF Fits, Actions
        <3>3. QED
            BY <1>2, <2>2, <3>2 DEF ScanAbsent, OnlyScan
    <2>3. CASE ScanDisk \/ ScanIndex \/ ScanTurns \/ ScanEnds
        BY <1>4, <2>3 DEF ScanDisk, ScanIndex, ScanTurns, ScanEnds, OnlyScan
    <2>4. QED
        BY <1>9, <2>1, <2>2, <2>3 DEF Reconciler
<1>10. CASE Crash
    <2>1. job'.req = None /\ \A p \in Paths : slot'[p] = None
        BY <1>10, NoJobTyped DEF Crash
    <2>2. CASE job.req = None
        BY <1>1, <1>10, <2>1, <2>2 DEF Crash, FitRequests, Fits
    <2>3. CASE job.req # None
        <3>1. job.req \in Request /\ queue' = <<job.req>> \o queue
            BY <1>10, <2>3 DEF Crash, TypeInv, TypeOK, Job
        <3>2. Elements(queue') = {job.req} \cup Elements(queue)
            BY <1>1, <3>1, PutBackElements
        <3>3. QED
            BY <1>1, <2>1, <2>3, <3>2 DEF FitRequests, Fits
    <2>4. QED
        BY <2>2, <2>3
<1>11. CASE Restart \/ UNCHANGED vars
    BY <1>4, <1>11 DEF Restart, vars
<1>12. QED
    BY <1>5, <1>6, <1>7, <1>8, <1>9, <1>10, <1>11 DEF Next

\* Rows, scans and files stay within the scenario.
LEMMA PlayedStep == TypeInv /\ ~Moving /\ Played /\ FitRequests /\ Found /\ [Next]_vars => Played'
<1> SUFFICES ASSUME TypeInv, ~Moving, Played, FitRequests, Found, [Next]_vars PROVE Played'
    OBVIOUS
<1> DEFINE S == scenario.paths
<1>1. /\ UNCHANGED scenario /\ S \subseteq Paths
      /\ disk \in [Paths -> Versions \cup {0}]
      /\ scan \in Scan /\ doc \in [Docs -> Doc \cup {None}] /\ job \in Job
    BY ScenarioSame, Constants DEF TypeInv, TypeOK
<1> HIDE DEF S
<1>2. S = scenario.paths /\ S' = S
    BY <1>1 DEF S
<1>3. ASSUME UNCHANGED <<disk, doc, scan>> PROVE Played'
    BY <1>1, <1>3, LiveSame DEF Played
<1>4. ASSUME UNCHANGED <<disk, doc>>, scan' \in Scan,
             scan'.indexed \subseteq S, scan'.todo \subseteq S, 
             \A p \in Paths : scan'.found[p] # 0 => p \in S
      PROVE  Played'
    BY <1>1, <1>2, <1>4, LiveSame DEF Played
<1>5. CASE Users
    <2> PICK p \in S : Write(p) \/ Remove(p) \/ Reindex(p) \/ Drop(p)
        BY <1>2, <1>5, UsersWithoutMoves
    <2>1. CASE Write(p) \/ Remove(p)
        <3>1. \A q \in Paths : disk'[q] # 0 => q \in S
            BY <1>1, <1>2, <2>1 DEF Write, Remove, Played
        <3>2. QED
            BY <1>1, <1>2, <2>1, <3>1, LiveSame DEF Write, Remove, Played
    <2>2. CASE Reindex(p) \/ Drop(p)
        BY <1>3, <2>2 DEF Reindex, Drop, Call
    <2>3. QED
        BY <2>1, <2>2
<1>6. CASE \E p \in Paths : Fire(p)
    BY <1>3, <1>6 DEF Fire
<1>7. CASE Worker
    <2>1. UNCHANGED <<disk, scan>>
        BY <1>7, WorkerOnly DEF OnlyWorker
    <2>2. ASSUME \A d \in Live' : doc'[d].path \in S PROVE Played'
        BY <1>1, <1>2, <2>1, <2>2 DEF Played
    <2>3. CASE UNCHANGED doc
        BY <1>3, <2>1, <2>3
    <2>4. CASE UpsertHashes /\ ~UNCHANGED doc
        <3> DEFINE d == DocumentAt(job.req.path)
        <3>1. Known(job.req.path) /\ doc' = [doc EXCEPT ![d].qh = job.qh]
            BY <2>4 DEF UpsertHashes, Decide, Discover, Replace, Skip
        <3>2. d \in Docs /\ d \in Live /\ doc[d] \in Doc
            BY <3>1, DocumentTyped DEF TypeInv
        <3> HIDE DEF d
        <3>3. doc'[d].path = doc[d].path /\ \A e \in Docs : e # d => doc'[e] = doc[e]
            BY <1>1, <3>1, <3>2 DEF Doc
        <3>4. \A e \in Live' : e \in Live /\ doc'[e].path = doc[e].path
            BY <3>2, <3>3 DEF Live
        <3>5. QED
            BY <1>2, <2>2, <3>4 DEF Played
    <2>5. CASE Record /\ ~UNCHANGED doc
        <3> DEFINE d == RowOf
        <3>1. doc' = [doc EXCEPT ![d] = Indexed] /\ pc # "idle"
            BY <2>5 DEF Record
        <3>2. d \in Docs /\ Indexed \in Doc
            BY <2>5, RecordTyped
        <3>3. Indexed.path \in S
            BY <1>2, <3>1 DEF Indexed, FitRequests, Fits, TypeInv, Shape
        <3> HIDE DEF d
        <3>4. doc'[d] = Indexed /\ \A e \in Docs : e # d => doc'[e] = doc[e]
            BY <1>1, <3>1, <3>2
        <3>5. \A e \in Live' : e # d => e \in Live /\ doc'[e] = doc[e]
            BY <3>4 DEF Live
        <3>6. QED
            BY <1>2, <2>2, <3>3, <3>4, <3>5 DEF Played
    <2>6. CASE Tombstone
        <3>1. \A e \in Live' : e \in Live /\ doc'[e] = doc[e]
            BY <2>6 DEF Tombstone, Live
        <3>2. QED
            BY <1>2, <2>2, <3>1 DEF Played
    <2>7. CASE Moves
        <3>1. job.req.action = "move" /\ job.req # None
            BY <2>7, WorkerTyped, Constants DEF Moves, TypeInv, Shape
        <3>2. QED
            BY <3>1 DEF FitRequests, Fits
    <2>8. (Take \/ UpsertStarts \/ CleanQdrant \/ CleanOpenSearch \/ Parse \/ IngestQdrant
             \/ IngestOpenSearch \/ DeleteStarts) => UNCHANGED doc
        BY DEF Take, UpsertStarts, CleanQdrant, CleanOpenSearch, Parse, IngestQdrant,
           IngestOpenSearch,
               Ingest, Store, DeleteStarts
    <2>9. QED
        BY <1>7, <2>3, <2>4, <2>5, <2>6, <2>7, <2>8 DEF Worker
<1>8. CASE Reconciler
    <2>1. CASE ScanDisk
        <3>1. PICK missed \in SUBSET Paths :
                 scan' = [scan EXCEPT !.at = "index",
                             !.found = [p \in Paths |-> IF p \in missed THEN 0 ELSE disk[p]]]
            BY <2>1 DEF ScanDisk
        <3>2. /\ scan'.indexed = scan.indexed /\ scan'.todo = scan.todo
              /\ \A p \in Paths : scan'.found[p] # 0 => disk[p] # 0
            BY <1>1, <3>1 DEF Scan
        <3>3. scan' \in Scan
            BY ReconcilerTyped, <1>8 DEF TypeInv, TypeOK
        <3>4. QED
            BY <1>2, <1>4, <2>1, <3>2, <3>3 DEF ScanDisk, OnlyScan, Played
    <2>2. CASE ScanIndex
        <3>1. scan'.found = scan.found /\ scan'.indexed = IndexedPaths
              /\ scan'.todo = {p \in Paths : scan.found[p] # 0}
            BY <1>1, <2>2 DEF ScanIndex, Scan
        <3>2. IndexedPaths \subseteq S
            BY <1>2 DEF IndexedPaths, Played
        <3>3. scan' \in Scan
            BY ReconcilerTyped, <1>8 DEF TypeInv, TypeOK
        <3>4. QED
            BY <1>2, <1>4, <2>2, <3>1, <3>2, <3>3 DEF ScanIndex, OnlyScan, Played
    <2>3. ASSUME NEW p \in Paths, ScanFound(p) \/ ScanAbsent(p) PROVE Played'
        <3>1. /\ scan'.found = scan.found /\ scan'.indexed = scan.indexed
              /\ scan'.todo \subseteq scan.todo
            BY <1>1, <2>3 DEF ScanFound, ScanAbsent, Scan
        <3>2. scan' \in Scan
            BY ReconcilerTyped, <1>8 DEF TypeInv, TypeOK
        <3>3. QED
            BY <1>2, <1>4, <2>3, <3>1, <3>2 DEF ScanFound, ScanAbsent, OnlyScan, Played
    <2>4. CASE ScanTurns
        <3>1. /\ scan'.found = scan.found /\ scan'.indexed = scan.indexed
              /\ scan'.todo \subseteq scan.indexed
            BY <1>1, <2>4 DEF ScanTurns, Scan
        <3>2. scan' \in Scan
            BY ReconcilerTyped, <1>8 DEF TypeInv, TypeOK
        <3>3. QED
            BY <1>2, <1>4, <2>4, <3>1, <3>2 DEF ScanTurns, OnlyScan, Played
    <2>5. CASE ScanEnds
        <3>1. scan'.indexed = {} /\ scan'.todo = {} /\ \A p \in Paths : scan'.found[p] = 0
            BY <2>5 DEF ScanEnds, NoScan
        <3>2. QED
            BY <1>4, <2>5, <3>1, NoJobTyped DEF ScanEnds, OnlyScan
    <2>6. QED
        BY <1>8, <2>1, <2>2, <2>3, <2>4, <2>5 DEF Reconciler
<1>9. CASE Crash
    <2>1. scan'.indexed = {} /\ scan'.todo = {} /\ \A p \in Paths : scan'.found[p] = 0
        BY <1>9 DEF Crash, NoScan
    <2>2. QED
        BY <1>4, <1>9, <2>1, NoJobTyped DEF Crash
<1>10. CASE Restart \/ UNCHANGED vars
    BY <1>3, <1>10 DEF Restart, vars
<1>11. QED
    BY <1>5, <1>6, <1>7, <1>8, <1>9, <1>10 DEF Next

\* At the start nothing is known, pending or found.
LEMMA FoundInvInit == Init => FoundInv
    BY Constants, NoJobTyped
       DEF Init, FoundInv, Played, FitRequests, Found, Elements, Live, NoScan, NoJob, Located

\* The three parts together are inductive.
LEMMA FoundInvStep == TypeInv /\ FoundInv /\ [Next]_vars => FoundInv'
    BY ScenarioSame, PlayedStep, FitRequestsStep, FoundStep DEF FoundInv, Moving

\* What the worker found holds in every state.
LEMMA SpecFound == Spec => []FoundInv
    BY SpecTyped, FoundInvInit, FoundInvStep, PTL DEF Spec

\* Unless files move, a path has one live row of `documents`, although no constraint
\* of the database says so and each handler looks the row up, calls two engines and writes
\* later, with crashes and failures in between.
THEOREM IndexSyncOneDocumentPerPath == Spec => []OneDocumentPerPath
<1>1. FoundInv => OneDocumentPerPath
    BY DEF FoundInv, Found, OneDocumentPerPath
<1>2. QED
    BY <1>1, SpecFound, PTL

\* How the rows of `documents` change: not at all, or the hash of one, or the one that
\* is recorded, or the one that is removed.
RowRehashed ==
    /\ pc = "hash" /\ disk[Target] # 0 /\ Finish /\ UNCHANGED rows
    /\ \E d \in At(Target) :
          /\ doc[d].ch = Content[disk[Target]]
          /\ doc'[d] = [doc[d] EXCEPT !.qh = job.qh]
          /\ \A e \in Docs : e # d => doc'[e] = doc[e]
RowRecorded ==
    /\ pc = "record" /\ disk[Target] # 0 /\ Finish /\ UNCHANGED rows
    /\ \E d \in Docs :
          /\ At(Target) = IF job.doc = 0 THEN {} ELSE {d}
          /\ job.doc # 0 => job.doc = d
          /\ job.doc = 0 => d \notin Live
          /\ doc'[d] = Indexed /\ Indexed \in Doc
          /\ \A e \in Docs : e # d => doc'[e] = doc[e]
RowRemoved ==
    /\ pc = "tombstone" /\ Finish /\ UNCHANGED rows
    /\ Live' = Live \ {job.doc} /\ \A e \in Live' : doc'[e] = doc[e]

\* Record, of a file that is there, makes a row or rewrites that of the job.
LEMMA RecordMakesRow ==
    ASSUME TypeInv, Found, Record, disk[Target] # 0
    PROVE  RowRecorded
<1>1. PICK d : d = RowOf
    OBVIOUS
<1>2. /\ pc = "record" /\ pc \in Located /\ Finish /\ UNCHANGED rows
      /\ doc' = [doc EXCEPT ![d] = Indexed]
    BY <1>1 DEF Record, Target, Located
<1>3. d \in Docs /\ Indexed \in Doc /\ (job.doc = 0 => d \notin Live)
    BY <1>1, RecordTyped, RowOfTyped DEF Record, Live
<1>4. At(Target) = (IF job.doc = 0 THEN {} ELSE {d}) /\ (job.doc # 0 => job.doc = d)
    BY <1>1, <1>2 DEF Found, RowOf
<1>5. doc \in [Docs -> Doc \cup {None}]
    BY DEF TypeInv, TypeOK
<1>6. doc'[d] = Indexed /\ \A e \in Docs : e # d => doc'[e] = doc[e]
    BY <1>2, <1>3, <1>5
<1>7. QED
    BY <1>2, <1>3, <1>4, <1>6 DEF RowRecorded

\* No step changes the rows in another way - without moves.
LEMMA DocStep ==
    ASSUME TypeInv, FitRequests, Found, [Next]_vars
    PROVE  UNCHANGED doc \/ RowRehashed \/ RowRecorded \/ RowRemoved
<1>1. doc \in [Docs -> Doc \cup {None}]
    BY DEF TypeInv, TypeOK
<1>2. CASE ~Worker /\ ~Crash
    BY <1>2, OthersKeep
<1>3. CASE Crash
    BY <1>3 DEF Crash
<1>4. CASE UpsertHashes /\ ~UNCHANGED doc
    <2> DEFINE d == DocumentAt(Target)
    <2>1. /\ pc = "hash" /\ disk[Target] # 0 /\ Finish /\ UNCHANGED rows
          /\ Known(Target) /\ doc[d].ch = Content[disk[Target]]
          /\ doc' = [doc EXCEPT ![d].qh = job.qh]
        BY <1>4 DEF UpsertHashes, Decide, Discover, Replace, Skip, Target
    <2>2. d \in At(Target) /\ d \in Docs
        BY <2>1, DocumentAtIsLive DEF At, Live
    <2> HIDE DEF d
    <2>3. doc'[d] = [doc[d] EXCEPT !.qh = job.qh] /\ \A e \in Docs : e # d => doc'[e] = doc[e]
        BY <1>1, <2>1, <2>2
    <2>4. QED
        BY <2>1, <2>2, <2>3 DEF RowRehashed
<1>5. CASE Record /\ ~UNCHANGED doc
    BY <1>5, RecordMakesRow DEF Record, Target
<1>6. CASE Tombstone
    BY <1>6 DEF Tombstone, Live, RowRemoved
<1>7. CASE Moves
    <2>1. job.req.action = "move" /\ job.req # None
        BY <1>7, WorkerTyped, Constants DEF Moves, TypeInv, Shape
    <2>2. QED
        BY <2>1 DEF FitRequests, Fits
<1>8. (Take \/ UpsertStarts \/ CleanQdrant \/ CleanOpenSearch \/ Parse \/ IngestQdrant
         \/ IngestOpenSearch \/ DeleteStarts) => UNCHANGED doc
    BY DEF Take, UpsertStarts, CleanQdrant, CleanOpenSearch, Parse, IngestQdrant, IngestOpenSearch,
           Ingest, Store, DeleteStarts
<1>9. QED
    BY <1>2, <1>3, <1>4, <1>5, <1>6, <1>7, <1>8 DEF Worker

-----------------------------------------------------------------------------
(* The past and the future of a file. *)

\* Version v of p is not later than what p holds, or will hold.
Past(p, v) == v < next /\ (disk[p] # 0 => v <= disk[p])

\* No version that p holds or will hold has content c.
Ahead(p) == {v \in Versions : v >= next \/ v = disk[p]}
Lost(p, c) == \A v \in Ahead(p) : Content[v] # c

Clock == 0 < next /\ \A p \in Paths : disk[p] < next

\* Without moves, files are removed or get the next version.
LEMMA DiskStep ==
    ASSUME TypeInv, ~Moving, [Next]_vars
    PROVE  \/ UNCHANGED <<disk, next>>
           \/ \E p \in Paths : Remove(p) /\ disk' = [disk EXCEPT ![p] = 0] /\ UNCHANGED next
           \/ \E p \in Paths : Write(p) /\ disk' = [disk EXCEPT ![p] = next] /\ next' = next + 1
<1>1. CASE ~Users
    BY <1>1, DiskSame
<1>2. CASE Users
    <2> PICK p \in scenario.paths : Write(p) \/ Remove(p) \/ Reindex(p) \/ Drop(p)
        BY <1>2, UsersWithoutMoves
    <2>1. p \in Paths
        BY Constants DEF TypeInv, TypeOK
    <2>2. QED
        BY <2>1 DEF Write, Remove, Reindex, Drop, Call
<1>3. QED
    BY <1>1, <1>2

\* The same, for the arithmetic of versions.
LEMMA DiskMoves ==
    ASSUME TypeInv, ~Moving, [Next]_vars
    PROVE  /\ next \in Nat /\ next' \in Nat /\ next <= next'
           /\ \A p \in Paths :
                /\ disk[p] \in Nat
                /\ \/ disk'[p] = 0 \/ disk'[p] = disk[p]
                   \/ disk'[p] = next /\ next' = next + 1
<1>1. next \in Nat /\ disk \in [Paths -> Versions \cup {0}] /\ Versions \subseteq Nat
    BY Constants DEF TypeInv, TypeOK
<1>5. ASSUME NEW q \in Paths PROVE disk[q] \in Nat
    <2>1. disk[q] \in Versions \cup {0}
        BY <1>1
    <2>2. CASE disk[q] = 0
        BY <2>2
    <2>3. CASE disk[q] \in Versions
        BY <2>3, Constants
    <2>4. QED
        BY <2>1, <2>2, <2>3
<1>2. CASE UNCHANGED <<disk, next>>
    BY <1>1, <1>2, <1>5
<1>3. ASSUME NEW p \in Paths, disk' = [disk EXCEPT ![p] = 0], UNCHANGED next
      PROVE  \A q \in Paths : disk'[q] = 0 \/ disk'[q] = disk[q]
    BY <1>1, <1>3
<1>4. ASSUME NEW p \in Paths, disk' = [disk EXCEPT ![p] = next]
      PROVE  \A q \in Paths : disk'[q] = next \/ disk'[q] = disk[q]
    BY <1>1, <1>4
<1>6. QED
    BY <1>1, <1>2, <1>3, <1>4, <1>5, DiskStep

\* What is past stays past.
LEMMA PastStep ==
    ASSUME TypeInv, ~Moving, [Next]_vars, NEW p \in Paths, NEW v \in Versions, Past(p, v)
    PROVE  Past(p, v)'
<1>1. v \in Nat
    BY Constants
<1>2. QED
    BY <1>1, DiskMoves DEF Past

\* What is lost stays lost.
LEMMA LostStep ==
    ASSUME TypeInv, ~Moving, [Next]_vars, NEW p \in Paths, NEW c, Lost(p, c)
    PROVE  Lost(p, c)'
<1>1. Versions \subseteq Nat /\ 0 \notin Versions
    BY Constants
<1>2. /\ next \in Nat /\ next' \in Nat /\ next <= next' /\ disk[p] \in Nat
      /\ disk'[p] = 0 \/ disk'[p] = disk[p] \/ disk'[p] = next
    BY DiskMoves
<1>3. Ahead(p)' \subseteq Ahead(p)
    <2> SUFFICES ASSUME NEW v \in Versions, v >= next' \/ v = disk'[p]
                 PROVE  v >= next \/ v = disk[p]
        BY DEF Ahead
    <2>1. v \in Nat /\ v # 0
        BY <1>1
    <2>2. QED
        BY <1>2, <2>1
<1>4. QED
    BY <1>3 DEF Lost

\* Versions grow.
LEMMA ClockStep == TypeInv /\ ~Moving /\ Clock /\ [Next]_vars => Clock'
<1> SUFFICES ASSUME TypeInv, ~Moving, Clock, [Next]_vars PROVE Clock'
    OBVIOUS
<1>1. QED
    BY DiskMoves DEF Clock

\* The file as it is now.
LEMMA NowIsPast ==
    ASSUME TypeInv, Clock, NEW p \in Paths, disk[p] # 0
    PROVE  disk[p] \in Versions /\ Past(p, disk[p])
<1>1. disk[p] \in Versions \cup {0}
    BY DEF TypeInv, TypeOK
<1>2. disk[p] \in Nat
    BY <1>1, Constants
<1>3. QED
    BY <1>1, <1>2 DEF Clock, Past

\* A content that was replaced is lost.
LEMMA ReplacedIsLost ==
    ASSUME TypeInv, NeverRestored, NEW p \in Paths, NEW b \in Versions, NEW r \in Versions,
           b <= r, Past(p, r), Content[b] # Content[r]
    PROVE  Lost(p, Content[b])
<1> SUFFICES ASSUME NEW w \in Ahead(p) PROVE Content[w] # Content[b]
    BY DEF Lost
<1>1. w \in Versions /\ r <= w
    BY Constants DEF Ahead, Past, TypeInv, TypeOK
<1>2. QED
    BY <1>1 DEF NeverRestored

-----------------------------------------------------------------------------
(* What rows and worker hold was read from the file, the hash first. *)

Dated(r) ==
    \E a, b \in Versions :
        /\ a <= b /\ Past(r.path, b)
        /\ r.qh = QuickHash(r.path, a)
        /\ r.ch = Content[b]

JobDated ==
    \E a, b \in Versions :
        /\ a <= b /\ Past(Target, b)
        /\ job.qh = QuickHash(Target, a)
        /\ job.ch = Content[b]
        /\ pc \in Ingesting =>
              \E r \in Versions : b <= r /\ Past(Target, r) /\ job.read = Content[r]

Writes == pc \in Located /\ job.req.action # "delete"

History ==
    /\ Clock
    /\ \A d \in Live : Dated(doc[d])
    /\ pc = "hash" => \E a \in Versions : Past(Target, a) /\ job.qh = QuickHash(Target, a)
    /\ Writes => JobDated
    /\ Writes /\ job.doc # 0 => Lost(Target, doc[job.doc].ch)

\* A row that does not change stays dated.
LEMMA DatedStep ==
    ASSUME TypeInv, ~Moving, [Next]_vars, NEW r \in Doc, Dated(r)
    PROVE  Dated(r)'
<1>1. r.path \in Paths
    BY DEF Doc
<1>2. PICK a, b \in Versions : /\ a <= b /\ Past(r.path, b)
                               /\ r.qh = QuickHash(r.path, a) /\ r.ch = Content[b]
    BY DEF Dated
<1>3. Past(r.path, b)'
    BY <1>1, <1>2, PastStep
<1>4. QED
    BY <1>2, <1>3 DEF Dated

\* Every row, after a step, was read from its file, the hash first.
LEMMA RowsDated ==
    ASSUME TypeInv, ~Moving, FitRequests, Found, History, [Next]_vars, NEW d \in Live'
    PROVE  Dated(doc[d])'
<1>1. doc \in [Docs -> Doc \cup {None}] /\ job \in Job
    BY DEF TypeInv, TypeOK
<1>2. ASSUME d \in Live, doc'[d] = doc[d] PROVE Dated(doc[d])'
    <2>1. doc[d] \in Doc /\ Dated(doc[d])
        BY <1>1, <1>2 DEF Live, History
    <2>2. PICK r \in Doc : r = doc[d]
        BY <2>1
    <2>3. Dated(r)'
        BY <2>1, <2>2, DatedStep
    <2>4. QED
        BY <1>2, <2>2, <2>3 DEF Dated
<1>3. CASE UNCHANGED doc
    BY <1>2, <1>3, LiveSame
<1>4. CASE RowRehashed
    <2> PICK e \in At(Target) : /\ doc[e].ch = Content[disk[Target]]
                                /\ doc'[e] = [doc[e] EXCEPT !.qh = job.qh]
                                /\ \A f \in Docs : f # e => doc'[f] = doc[f]
        BY <1>4 DEF RowRehashed
    <2>1. CASE d # e
        BY <1>2, <2>1 DEF Live
    <2>2. CASE d = e
        <3>1. pc = "hash" /\ disk[Target] # 0 /\ Target \in Paths
            BY <1>4, WorkerTyped DEF RowRehashed, Target
        <3>2. PICK a \in Versions : Past(Target, a) /\ job.qh = QuickHash(Target, a)
            BY <3>1 DEF History
        <3>3. disk[Target] \in Versions /\ Past(Target, disk[Target])
            BY <3>1, NowIsPast DEF History
        <3>4. a <= disk[Target]
            BY <3>1, <3>2 DEF Past
        <3>5. doc[e] \in Doc /\ doc[e].path = Target
            BY <1>1 DEF At, Live
        <3>6. doc'[e].path = Target /\ doc'[e].qh = job.qh /\ doc'[e].ch = Content[disk[Target]]
            BY <3>5 DEF Doc
        <3>7. PICK b \in Versions, p \in Paths : b = disk[Target] /\ p = Target
            BY <3>1, <3>3
        <3>8. Past(p, b)'
            BY <3>3, <3>7, PastStep
        <3>9. QED
            BY <2>2, <3>2, <3>4, <3>6, <3>7, <3>8 DEF Dated
    <2>3. QED
        BY <2>1, <2>2
<1>5. CASE RowRecorded
    <2> PICK e \in Docs : doc'[e] = Indexed /\ \A f \in Docs : f # e => doc'[f] = doc[f]
        BY <1>5 DEF RowRecorded
    <2>1. CASE d # e
        BY <1>2, <2>1 DEF Live
    <2>2. CASE d = e
        <3>1. pc = "record" /\ Target \in Paths /\ Writes
            BY <1>5, WorkerTyped DEF RowRecorded, Target, Writes, Located, Ingesting, TypeInv, Shape
        <3>2. PICK a, b \in Versions : /\ a <= b /\ Past(Target, b)
                                       /\ job.qh = QuickHash(Target, a) /\ job.ch = Content[b]
            BY <3>1 DEF History, JobDated
        <3>3. doc'[e].path = Target /\ doc'[e].qh = job.qh /\ doc'[e].ch = job.ch
            BY DEF Indexed, Target
        <3>4. PICK p \in Paths : p = Target
            BY <3>1
        <3>5. Past(p, b)'
            BY <3>2, <3>4, PastStep
        <3>6. QED
            BY <2>2, <3>2, <3>3, <3>4, <3>5 DEF Dated
    <2>3. QED
        BY <2>1, <2>2
<1>6. CASE RowRemoved
    BY <1>2, <1>6 DEF RowRemoved
<1>7. QED
    BY <1>3, <1>4, <1>5, <1>6, DocStep

\* The worker is not about to write.
LEMMA HistoryIdle ==
    ASSUME Clock', \A d \in Live' : Dated(doc[d])', ~Writes', pc' # "hash"
    PROVE  History'
    BY DEF History

\* The worker reads hash, content and chunks of a file in this order, and replaces
\* a document only when its content is lost.
LEMMA HistoryStep ==
    /\ TypeInv /\ ~Moving /\ NeverRestored /\ FitRequests /\ Found /\ History
    /\ [Next]_vars
    => History'
<1> SUFFICES ASSUME TypeInv, ~Moving, NeverRestored, FitRequests, Found, History, [Next]_vars
             PROVE  History'
    OBVIOUS
<1>1. job \in Job /\ Clock
    BY DEF TypeInv, TypeOK, History
<1>2. Clock' /\ \A d \in Live' : Dated(doc[d])'
    BY <1>1, ClockStep, RowsDated
<1>3. ASSUME Finish PROVE History'
    <2>1. ~Writes' /\ pc' # "hash"
        BY <1>3 DEF Finish, Writes, Located
    <2>2. QED
        BY <1>2, <2>1, HistoryIdle
<1>4. CASE ~Worker /\ ~Crash
    <2>1. UNCHANGED <<doc, pc, job>>
        BY <1>4, OthersKeep
    <2>2. CASE pc \notin {"hash"} \cup Located
        BY <1>2, <2>1, <2>2, HistoryIdle DEF Writes
    <2>3. CASE pc \in {"hash"} \cup Located
        <3>1. PICK p \in Paths : p = Target /\ Target' = p
            BY <2>1, <2>3, WorkerTyped DEF Target, Located
        <3>2. pc = "hash" => (\E a \in Versions : Past(Target, a) /\ job.qh = QuickHash(Target, a))'
            BY <2>1, <3>1, PastStep DEF History
        <3>3. ASSUME Writes PROVE JobDated'
            <4>1. PICK a, b \in Versions :
                     /\ a <= b /\ Past(p, b)
                     /\ job.qh = QuickHash(p, a)
                     /\ job.ch = Content[b]
                     /\ pc \in Ingesting =>
                           \E r \in Versions : b <= r /\ Past(p, r) /\ job.read = Content[r]
                BY <3>1, <3>3 DEF History, JobDated
            <4>2. Past(p, b)'
                BY <4>1, PastStep
            <4>3. pc \in Ingesting =>
                           \E r \in Versions : b <= r /\ Past(p, r)' /\ job.read = Content[r]
                BY <4>1, PastStep
            <4>4. QED
                BY <2>1, <3>1, <4>1, <4>2, <4>3 DEF JobDated
        <3>4. ASSUME Writes, job.doc # 0 PROVE Lost(Target, doc[job.doc].ch)'
            <4>1. PICK c : c = doc[job.doc].ch
                OBVIOUS
            <4>2. Lost(p, c)'
                BY <3>1, <3>4, <4>1, LostStep DEF History
            <4>3. QED
                BY <2>1, <3>1, <4>1, <4>2 DEF Lost
        <3>5. Writes' <=> Writes
            BY <2>1 DEF Writes
        <3>6. QED
            BY <1>2, <2>1, <3>2, <3>3, <3>4, <3>5 DEF History
    <2>4. QED
        BY <2>2, <2>3
<1>5. CASE Crash
    BY <1>3, <1>5 DEF Crash, Finish
<1>6. CASE Take
    <2>1. PICK i \in DOMAIN queue : job' = [NoJob EXCEPT !.req = queue[i]] /\ pc' = queue[i].action
        BY <1>6 DEF Take
    <2>2. queue[i] \in Request
        BY <2>1, WithoutElements DEF TypeInv, TypeOK
    <2>3. ~Writes' /\ pc' # "hash"
        BY <2>1, <2>2 DEF Request, Actions, Writes, Located
    <2>4. QED
        BY <1>2, <2>3, HistoryIdle
<1>7. CASE Worker /\ ~Take /\ ~Finish
    <2> DEFINE p == Target
    <2>1. UNCHANGED <<disk, next>> /\ job'.req = job.req /\ p \in Paths
        BY <1>7, WorkerOnly, WorkerKeepsRequest, WorkerTyped DEF OnlyWorker, Target
    <2>2. Target' = Target /\ (\A v : Past(Target, v)' <=> Past(Target, v))
          /\ (\A c : Lost(Target, c)' <=> Lost(Target, c))
        BY <2>1 DEF Target, Past, Lost, Ahead
    <2>3. CASE UpsertStarts
        <3>1. /\ pc' = "hash" /\ disk[p] # 0
              /\ job' = [job EXCEPT !.qh = QuickHash(p, disk[p])]
            BY <1>7, <2>3 DEF UpsertStarts, Target
        <3>2. job'.qh = QuickHash(p, disk[p])
            BY <1>1, <3>1 DEF Job
        <3>3. disk[p] \in Versions /\ Past(p, disk[p])
            BY <1>1, <2>1, <3>1, NowIsPast
        <3>4. ~Writes'
            BY <3>1 DEF Writes, Located
        <3>5. QED
            BY <1>2, <2>2, <3>2, <3>3, <3>4 DEF History
    <2>4. CASE UpsertHashes
        <3>1. /\ pc = "hash" /\ disk[p] # 0 /\ UNCHANGED doc
              /\ \/ Discover(p, Content[disk[p]])
                 \/ /\ Known(p) /\ doc[DocumentAt(p)].ch # Content[disk[p]]
                    /\ Replace(p, Content[disk[p]])
            BY <1>7, <2>4 DEF UpsertHashes, Decide, Discover, Replace, Skip, Target
        <3>2. PICK a \in Versions : Past(p, a) /\ job.qh = QuickHash(p, a)
            BY <3>1 DEF History
        <3>3. disk[p] \in Versions /\ Past(p, disk[p])
            BY <1>1, <2>1, <3>1, NowIsPast
        <3>4. PICK b \in Versions : b = disk[p]
            BY <3>3
        <3>5. a <= b
            BY <3>1, <3>2, <3>4 DEF Past
        <3> HIDE DEF p
        <3>6. job'.qh = job.qh /\ job'.ch = Content[b] /\ pc' \in {"parse", "clean_qdrant"}
            BY <1>1, <3>1, <3>4 DEF Discover, Replace, Job
        <3>7. JobDated'
            <4>1. pc' \notin Ingesting
                BY <3>6 DEF Ingesting
            <4>2. QED
                BY <2>2, <3>2, <3>3, <3>4, <3>5, <3>6, <4>1 DEF JobDated, p
        <3>8. CASE Discover(p, Content[disk[p]])
            <4>1. job'.doc = 0
                BY <1>1, <3>1, <3>8 DEF Discover, Job, Found, Located
            <4>2. QED
                BY <1>2, <3>6, <3>7, <4>1 DEF History
        <3>9. CASE Known(p) /\ doc[DocumentAt(p)].ch # Content[b] /\ Replace(p, Content[b])
            <4> DEFINE d == DocumentAt(p)
            <4>1. d \in Live
                BY <3>9, DocumentTyped DEF TypeInv
            <4>2. doc[d].path = p
                BY <3>9, DocumentTyped DEF TypeInv
            <4>3. PICK b0 \in Versions : Past(p, b0) /\ doc[d].ch = Content[b0]
                BY <4>1, <4>2 DEF History, Dated
            <4>4. b0 <= b /\ Content[b0] # Content[b]
                BY <3>1, <3>4, <3>9, <4>3 DEF Past
            <4>5. Lost(p, Content[b0])
                BY <2>1, <3>3, <3>4, <4>4, ReplacedIsLost DEF p
            <4>6. job'.doc = d
                BY <1>1, <3>9 DEF Replace, Job
            <4>7. doc'[job'.doc].ch = Content[b0]
                BY <3>1, <4>3, <4>6
            <4>8. Lost(Target, doc[job.doc].ch)'
                BY <2>2, <4>5, <4>7 DEF p, Lost
            <4>9. QED
                BY <1>2, <3>6, <3>7, <4>8 DEF History
        <3>10. QED
            BY <3>1, <3>4, <3>8, <3>9
    <2>5. CASE CleanQdrant \/ CleanOpenSearch
        <3>1. /\ UNCHANGED <<doc, job>> /\ pc \in Located /\ pc' \in Located
              /\ pc' \notin Ingesting /\ pc' # "hash"
            BY <1>7, <2>5 DEF CleanQdrant, CleanOpenSearch, Store, Goto, Located, Ingesting
        <3>2. Writes' <=> Writes
            BY <3>1 DEF Writes
        <3>3. Writes => JobDated'
            BY <2>2, <3>1 DEF History, JobDated
        <3>4. Writes /\ job.doc # 0 => Lost(Target, doc[job.doc].ch)'
            BY <2>2, <3>1 DEF History, Lost
        <3>5. QED
            BY <1>2, <3>1, <3>2, <3>3, <3>4 DEF History
    <2>6. CASE Parse
        <3>1. /\ UNCHANGED doc /\ pc = "parse" /\ pc' \in Ingesting /\ pc' # "hash"
              /\ disk[p] # 0
              /\ job' = [job EXCEPT !.read = Content[disk[p]]]
            BY <1>7, <2>6 DEF Parse, Ingesting, Target
        <3>2. Writes
            BY <3>1 DEF Writes, Located, TypeInv, Shape
        <3>3. PICK a, b \in Versions : /\ a <= b /\ Past(p, b)
                                       /\ job.qh = QuickHash(p, a)
                                       /\ job.ch = Content[b]
            BY <3>2 DEF History, JobDated
        <3>4. PICK r \in Versions : r = disk[p] /\ Past(p, r)
            BY <1>1, <2>1, <3>1, NowIsPast
        <3>5. b <= r
            BY <3>1, <3>3, <3>4 DEF Past
        <3>6. job'.qh = job.qh /\ job'.ch = job.ch /\ job'.doc = job.doc /\ job'.read = Content[r]
            BY <1>1, <3>1, <3>4 DEF Job
        <3>7. JobDated'
            BY <2>2, <3>3, <3>4, <3>5, <3>6 DEF JobDated
        <3>8. job.doc # 0 => Lost(Target, doc[job.doc].ch)'
            BY <2>2, <3>1, <3>2, <3>6 DEF History, Lost
        <3>9. QED
            BY <1>2, <3>1, <3>6, <3>7, <3>8 DEF History
    <2>7. CASE IngestQdrant \/ IngestOpenSearch
        <3>1. /\ UNCHANGED <<doc, job>> /\ pc \in Located /\ pc \in Ingesting
              /\ pc' \in Ingesting /\ pc' \in Located /\ pc' # "hash"
            BY <1>7, <2>7 DEF IngestQdrant, IngestOpenSearch, Ingest, Store, Goto,
               Located, Ingesting
        <3>2. Writes' <=> Writes
            BY <3>1 DEF Writes
        <3>3. Writes => JobDated'
            BY <2>2, <3>1 DEF History, JobDated
        <3>4. Writes /\ job.doc # 0 => Lost(Target, doc[job.doc].ch)'
            BY <2>2, <3>1 DEF History, Lost
        <3>5. QED
            BY <1>2, <3>1, <3>2, <3>3, <3>4 DEF History
    <2>8. CASE DeleteStarts
        <3>1. pc' = "clean_qdrant" /\ job.req.action = "delete"
            BY <2>8 DEF DeleteStarts, TypeInv, Shape
        <3>2. ~Writes'
            BY <2>1, <3>1 DEF Writes
        <3>3. QED
            BY <1>2, <3>1, <3>2, HistoryIdle
    <2>9. CASE Moves
        <3>1. job.req.action = "move" /\ job.req # None
            BY <2>9, WorkerTyped, Constants DEF Moves, TypeInv, Shape
        <3>2. QED
            BY <3>1 DEF FitRequests, Fits
    <2>10. CASE Record \/ Tombstone
        BY <1>7, <2>10 DEF Record, Tombstone
    <2>11. QED
        BY <1>7, <2>3, <2>4, <2>5, <2>6, <2>7, <2>8, <2>9, <2>10 DEF Worker
<1>8. QED
    BY <1>3, <1>4, <1>5, <1>6, <1>7

\* At the start nothing was read.
LEMMA HistoryInit == Init => History
<1> SUFFICES ASSUME Init PROVE History
    OBVIOUS
<1>1. pc = "idle" /\ Live = {} /\ next = 1 /\ \A p \in Paths : disk[p] = 0
    BY DEF Init, Live
<1>2. QED
    BY <1>1 DEF History, Clock, Writes, Located

\* Where the chunks of a file are.
Place(p) == <<Index[p], Name[p]>>

Holds(s, p, c) == \A i \in 1..Chunks[c] : rows[s][Place(p)][i] = c

\* A delete of p is pending or under way.
Erases(r, p) == r.path = p /\ r.action = "delete"
Erasing(p) == (job.req # None /\ Erases(job.req, p)) \/ \E r \in Elements(queue) : Erases(r, p)

\* The chunks of a row are there, unless its content is lost or it is being deleted.
Whole(d) ==
    \/ \A s \in Stores : Holds(s, doc[d].path, doc[d].ch)
    \/ Lost(doc[d].path, doc[d].ch)
    \/ Erasing(doc[d].path)

Written ==
    /\ pc = "ingest_opensearch" => Holds("qdrant", Target, job.read)
    /\ pc = "record" => \A s \in Stores : Holds(s, Target, job.read)

\* The worker cleans and writes the place of its path.
LEMMA KeysArePlaces ==
    ASSUME TypeInv, Found, pc \in Located
    PROVE  /\ Key = Place(Target) /\ IngestKey = Place(Target)
           /\ Target \in Paths /\ Place(Target) \in Indexes \X Names
<1>1. Target \in Paths
    BY WorkerTyped DEF Target, Located
<1>2. Place(Target) \in Indexes \X Names
    BY <1>1, Constants DEF Place
<1>3. QED
    BY <1>1, <1>2 DEF Found, Key, IngestKey, Place, Target

\* What a call to a store does: the chunks at the worker's place change, in one store.
Calls(s, old, new, then) ==
    /\ s \in Stores
    /\ UNCHANGED <<doc, disk, next, queue>>
    /\ old = rows[s][Place(Target)]
    /\ \/ /\ pc' = then /\ UNCHANGED job
          /\ rows'[s][Place(Target)] = new
          /\ \A t \in Stores, l \in Indexes \X Names :
                <<t, l>> # <<s, Place(Target)>> => rows'[t][l] = rows[t][l]
       \/ "store" \in scenario.faults /\ Finish /\ UNCHANGED rows

\* Store changes one entry of one store, or ends the job.
LEMMA StoreCalls ==
    ASSUME TypeInv, Found, NEW l \in Located, NEW s \in Stores, NEW new, NEW then,
           Store(l, s, Place(Target), new, then),
           new \in [1..MaxChunks -> Contents \cup {None}]
    PROVE  Calls(s, rows[s][Place(Target)], new, then)
<1>1. Place(Target) \in Indexes \X Names
    BY KeysArePlaces DEF Store
<1>2. CASE Finish /\ UNCHANGED rows /\ "store" \in scenario.faults
    BY <1>2 DEF Store, OnlyWorker, Calls
<1>3. CASE rows' = [rows EXCEPT ![s][Place(Target)] = new] /\ Goto(then)
    <2>1. PICK K, V, g, k : /\ K = Indexes \X Names /\ V = [1..MaxChunks -> Contents \cup {None}]
                            /\ g = [rows EXCEPT ![s][Place(Target)] = new]
                            /\ k = Place(Target)
        OBVIOUS
    <2>2. rows \in [Stores -> [K -> V]] /\ k \in K /\ new \in V /\ g = [rows EXCEPT ![s][k] = new]
        BY <1>1, <2>1 DEF TypeInv, TypeOK
    <2>3. g[s][k] = new /\ \A t \in Stores, m \in K : <<t, m>> # <<s, k>> => g[t][m] = rows[t][m]
        BY <2>2, EntrySet, Zenon
    <2>4. QED
        BY <1>3, <2>1, <2>3 DEF Store, OnlyWorker, Calls, Goto
<1>4. QED
    BY <1>2, <1>3 DEF Store

\* What the steps of the worker do to the chunks.
CleanStep ==
    /\ pc \in {"clean_qdrant", "clean_opensearch"}
    /\ \E then \in {"clean_opensearch", "tombstone", "parse"} :
         /\ Calls(IF pc = "clean_qdrant" THEN "qdrant" ELSE "opensearch",
                  rows[IF pc = "clean_qdrant" THEN "qdrant" ELSE "opensearch"][Place(Target)],
                  NoChunks, then)
         /\ pc = "clean_qdrant" => then = "clean_opensearch"
         /\ pc = "clean_opensearch" =>
               then = IF job.req.action = "delete" THEN "tombstone" ELSE "parse"
IngestStep ==
    /\ pc \in {"ingest_qdrant", "ingest_opensearch"}
    /\ \E s \in Stores, old \in [1..MaxChunks -> Contents \cup {None}], then \in Ingesting :
         /\ Calls(s, old, Overlay(old, job.read), then)
         /\ pc = "ingest_qdrant" => s = "qdrant" /\ then = "ingest_opensearch"
         /\ pc = "ingest_opensearch" => s = "opensearch" /\ then = "record"

\* The four actions that call a store.
LEMMA StoreSteps ==
    ASSUME TypeInv, Found
    PROVE  /\ CleanQdrant \/ CleanOpenSearch => CleanStep
           /\ IngestQdrant \/ IngestOpenSearch => IngestStep
<1>1. NoChunks \in [1..MaxChunks -> Contents \cup {None}]
    BY DEF NoChunks
<1>2. ASSUME CleanQdrant PROVE CleanStep
    <2>1. pc = "clean_qdrant" /\ pc \in Located
        BY <1>2 DEF CleanQdrant, Store, Located
    <2>2. Calls("qdrant", rows["qdrant"][Place(Target)], NoChunks, "clean_opensearch")
        BY <1>1, <1>2, <2>1, KeysArePlaces, StoreCalls DEF CleanQdrant, Stores
    <2>3. QED
        BY <2>1, <2>2 DEF CleanStep
<1>3. ASSUME CleanOpenSearch PROVE CleanStep
    <2>1. pc = "clean_opensearch" /\ pc \in Located
        BY <1>3 DEF CleanOpenSearch, Store, Located
    <2>2. PICK then : then = IF job.req.action = "delete" THEN "tombstone" ELSE "parse"
        OBVIOUS
    <2>3. Store("clean_opensearch", "opensearch", Place(Target), NoChunks, then)
        BY <1>3, <2>1, <2>2, KeysArePlaces DEF CleanOpenSearch
    <2>4. Calls("opensearch", rows["opensearch"][Place(Target)], NoChunks, then)
        BY <1>1, <2>1, <2>3, StoreCalls DEF Stores
    <2>5. QED
        BY <2>1, <2>2, <2>4 DEF CleanStep
<1>4. ASSUME NEW s \in Stores, NEW l \in {"ingest_qdrant", "ingest_opensearch"}, NEW then,
             Ingest(l, s, then)
      PROVE  /\ pc = l /\ rows[s][Place(Target)] \in [1..MaxChunks -> Contents \cup {None}]
             /\ Calls(s, rows[s][Place(Target)],
                      Overlay(rows[s][Place(Target)], job.read), then)
    <2>1. pc = l /\ pc \in Located /\ pc \in Ingesting
        BY <1>4 DEF Ingest, Store, Located, Ingesting
    <2>2. Place(Target) \in Indexes \X Names /\ IngestKey = Place(Target)
        BY <2>1, KeysArePlaces
    <2>3. rows[s][Place(Target)] \in [1..MaxChunks -> Contents \cup {None}] /\ job.read \in Contents
        BY <2>1, <2>2 DEF TypeInv, TypeOK, Shape
    <2>4. Overlay(rows[s][Place(Target)], job.read) \in [1..MaxChunks -> Contents \cup {None}]
        BY <2>3, OverlayTyped
    <2>5. Store(l, s, Place(Target), Overlay(rows[s][Place(Target)], job.read), then)
        BY <1>4, <2>2 DEF Ingest
    <2>6. QED
        BY <2>1, <2>3, <2>4, <2>5, StoreCalls
<1>5. ASSUME IngestQdrant PROVE IngestStep
    BY <1>4, <1>5 DEF IngestQdrant, IngestStep, Stores, Ingesting
<1>6. ASSUME IngestOpenSearch PROVE IngestStep
    BY <1>4, <1>6 DEF IngestOpenSearch, IngestStep, Stores, Ingesting
<1>7. QED
    BY <1>2, <1>3, <1>5, <1>6

\* No other step changes chunks.
LEMMA RowsStep ==
    ASSUME TypeInv, Found, [Next]_vars
    PROVE  UNCHANGED rows \/ CleanStep \/ IngestStep
<1>1. CASE ~Worker /\ ~Crash
    BY <1>1, OthersKeep
<1>2. CASE Crash
    BY <1>2 DEF Crash
<1>3. \/ Take \/ UpsertStarts \/ UpsertHashes \/ Parse \/ Record
      \/ DeleteStarts \/ Tombstone \/ Moves
      => UNCHANGED rows
    BY DEF Take, UpsertStarts, UpsertHashes, Parse, Record, DeleteStarts, Tombstone, Moves
<1>4. QED
    BY <1>1, <1>2, <1>3, StoreSteps DEF Worker

\* A delete is forgotten only when the worker is done with it.
LEMMA ErasingStep ==
    ASSUME TypeInv, [Next]_vars, NEW p, Erasing(p),
           Crash \/ ~Finish \/ job.req = None \/ ~Erases(job.req, p)
    PROVE  Erasing(p)'
<1>1. queue \in Seq(Request)
    BY DEF TypeInv, TypeOK
<1>2. ASSUME NEW r \in Request, queue' = With(queue, r), UNCHANGED <<pc, job>>
      PROVE  Erasing(p)'
    <2>1. Elements(queue') = {r} \cup {x \in Elements(queue) : ~SameKey(x, r)}
        BY <1>1, <1>2, WithElements
    <2>2. \A x \in Elements(queue) : Erases(x, p) /\ SameKey(x, r) => Erases(r, p)
        BY DEF Erases, SameKey
    <2>3. QED
        BY <1>2, <2>1, <2>2 DEF Erasing
<1>3. CASE Take
    <2>1. PICK i \in DOMAIN queue :
              /\ job' = [NoJob EXCEPT !.req = queue[i]]
              /\ queue' = Without(queue, i)
        BY <1>3 DEF Take
    <2>2. queue[i] \in Request /\ Elements(queue) = {queue[i]} \cup Elements(queue')
        BY <1>1, <2>1, WithoutElements
    <2>3. job'.req = queue[i] /\ queue[i] # None /\ job.req = None
        BY <1>3, <2>1, <2>2, Constants DEF NoJob, Take, TypeInv, Shape
    <2>4. QED
        BY <2>2, <2>3 DEF Erasing
<1>4. CASE UNCHANGED queue /\ Finish /\ ~Crash
    BY <1>4 DEF Erasing
<1>5. CASE UNCHANGED queue /\ job'.req = job.req
    BY <1>5 DEF Erasing
<1>6. CASE Crash
    <2>1. CASE job.req = None
        BY <1>6, <2>1 DEF Crash, Erasing
    <2>2. CASE job.req # None
        <3>1. job.req \in Request /\ queue' = <<job.req>> \o queue
            BY <1>6, <2>2 DEF Crash, TypeInv, TypeOK, Job
        <3>2. Elements(queue') = {job.req} \cup Elements(queue)
            BY <1>1, <3>1, PutBackElements
        <3>3. QED
            BY <3>2 DEF Erasing
    <2>3. QED
        BY <2>1, <2>2
<1>7. QED
    BY <1>2, <1>3, <1>4, <1>5, <1>6, StepOfQueue DEF QueueStep

\* Without a failure of a store, a job that deletes ends with Tombstone.
LEMMA DeletesEnd ==
    ASSUME TypeInv, [Next]_vars, "store" \notin scenario.faults, ~Crash,
           job.req # None, job.req.action = "delete", Finish
    PROVE  pc = "tombstone" /\ Tombstone
<1>1. pc # "idle" /\ pc' = "idle" /\ pc \notin {"upsert", "hash", "parse", "move"} \cup Ingesting
    BY DEF Finish, TypeInv, Shape
<1>2. Worker
    BY <1>1, OthersKeep
<1>3. pc \notin {"clean_qdrant", "clean_opensearch"}
    <2>1. CASE CleanQdrant \/ CleanOpenSearch
        BY <1>1, <2>1 DEF CleanQdrant, CleanOpenSearch, Store, Goto, Finish
    <2>2. CASE ~(CleanQdrant \/ CleanOpenSearch)
        BY <1>1, <1>2, <2>2
           DEF Worker, Take, UpsertStarts, UpsertHashes, Parse, IngestQdrant, IngestOpenSearch,
               Ingest, Store, Record, DeleteStarts, Tombstone, Moves
    <2>3. QED
        BY <2>1, <2>2
<1>4. QED
    BY <1>1, <1>2, <1>3
       DEF Worker, Take, UpsertStarts, UpsertHashes, CleanQdrant, CleanOpenSearch, Parse,
           IngestQdrant, IngestOpenSearch, Ingest, Store, Record, DeleteStarts, Tombstone, Moves,
           Ingesting

-----------------------------------------------------------------------------
\* Two files in play have their chunks at two places.
LEMMA PlacesDiffer ==
    ASSUME NoHomonyms, NEW p \in scenario.paths, NEW q \in scenario.paths, Place(p) = Place(q)
    PROVE  p = q
    BY DEF NoHomonyms, Place

\* Chunks that do not change.
LEMMA HoldsKept ==
    ASSUME NEW s, NEW p, NEW c, Holds(s, p, c), rows'[s][Place(p)] = rows[s][Place(p)]
    PROVE  Holds(s, p, c)'
    BY DEF Holds, Place

\* An overlay holds the new content.
LEMMA OverlayHolds ==
    ASSUME NEW old \in [1..MaxChunks -> Contents \cup {None}], NEW c \in Contents
    PROVE  \A i \in 1..Chunks[c] : Overlay(old, c)[i] = c
<1>1. Chunks[c] \in Nat /\ Chunks[c] <= MaxChunks /\ MaxChunks \in Nat
    BY ChunkNumbers
<1>2. DOMAIN old = 1..MaxChunks
    OBVIOUS
<1>3. QED
    BY <1>1, <1>2 DEF Overlay

\* The worker stays at its stage, or is where it was led by a call to a store, or
\* has read a file without chunks.
LEMMA WrittenStep ==
    ASSUME TypeInv, Found, [Next]_vars, Written
    PROVE  Written'
<1>1. job \in Job
    BY DEF TypeInv, TypeOK
<1>2. ASSUME pc' \notin {"ingest_opensearch", "record"} PROVE Written'
    BY <1>2 DEF Written
<1>3. CASE ~Worker /\ ~Crash
    <2>1. UNCHANGED <<rows, pc, job>>
        BY <1>3, OthersKeep
    <2>2. QED
        BY <2>1 DEF Written, Holds, Target, Place
<1>4. CASE Crash
    BY <1>2, <1>4 DEF Crash
<1>5. CASE CleanStep
    BY <1>2, <1>5 DEF CleanStep, Calls, Finish
<1>6. CASE IngestStep
    <2> PICK s \in Stores, old \in [1..MaxChunks -> Contents \cup {None}], then \in Ingesting :
             /\ Calls(s, old, Overlay(old, job.read), then)
             /\ pc = "ingest_qdrant" => s = "qdrant" /\ then = "ingest_opensearch"
             /\ pc = "ingest_opensearch" => s = "opensearch" /\ then = "record"
        BY <1>6 DEF IngestStep
    <2>1. CASE Finish
        BY <1>2, <2>1 DEF Finish
    <2>2. CASE ~Finish
        <3>1. /\ pc' = then /\ UNCHANGED job
              /\ rows'[s][Place(Target)] = Overlay(old, job.read)
              /\ \A t \in Stores, l \in Indexes \X Names :
                    <<t, l>> # <<s, Place(Target)>> => rows'[t][l] = rows[t][l]
            BY <2>2 DEF Calls
        <3>2. pc \in Located /\ pc \in Ingesting /\ pc \in {"ingest_qdrant", "ingest_opensearch"}
            BY <1>6 DEF IngestStep, Located, Ingesting
        <3>3. job.read \in Contents
            BY <3>2 DEF TypeInv, Shape
        <3>4. \A i \in 1..Chunks[job.read] : rows'[s][Place(Target)][i] = job.read
            BY <3>1, <3>3, OverlayHolds
        <3>5. Target' = Target /\ Place(Target)' = Place(Target) /\ job'.read = job.read
            BY <3>1 DEF Target, Place
        <3>6. Holds(s, Target, job.read)'
            BY <3>4, <3>5 DEF Holds
        <3>7. CASE pc = "ingest_qdrant"
            BY <3>1, <3>6, <3>7 DEF Written
        <3>8. CASE pc = "ingest_opensearch"
            <4>1. Place(Target) \in Indexes \X Names
                BY <3>2, KeysArePlaces
            <4>2. rows'["qdrant"][Place(Target)] = rows["qdrant"][Place(Target)]
                BY <3>1, <3>8, <4>1 DEF Stores
            <4>3. Holds("qdrant", Target, job.read)'
                BY <3>5, <3>8, <4>2 DEF Written, Holds
            <4>4. QED
                BY <3>1, <3>6, <3>8, <4>3 DEF Written, Stores
        <3>9. QED
            BY <3>2, <3>7, <3>8
    <2>3. QED
        BY <2>1, <2>2
<1>7. CASE Parse
    <2>1. CASE pc' = "record"
        <3>1. /\ job' = [job EXCEPT !.read = Content[disk[Target]]]
              /\ Chunks[Content[disk[Target]]] = 0
            BY <1>7, <2>1 DEF Parse, Finish, Target
        <3>2. Chunks[job'.read] = 0
            BY <1>1, <3>1 DEF Job
        <3>3. 1..Chunks[job'.read] = {}
            BY <3>2
        <3>4. QED
            BY <2>1, <3>3 DEF Written, Holds
    <2>2. CASE pc' # "record"
        BY <1>2, <1>7, <2>2 DEF Parse, Finish
    <2>3. QED
        BY <2>1, <2>2
<1>8. CASE Take
    <2>1. PICK i \in DOMAIN queue : pc' = queue[i].action
        BY <1>8 DEF Take
    <2>2. queue[i] \in Request
        BY WithoutElements DEF TypeInv, TypeOK
    <2>3. QED
        BY <1>2, <2>1, <2>2 DEF Request, Actions
<1>9. CASE UpsertStarts \/ UpsertHashes \/ Record \/ DeleteStarts \/ Tombstone \/ Moves
    BY <1>2, <1>9 DEF UpsertStarts, UpsertHashes, Decide, Discover, Skip, Replace,
       Record, DeleteStarts,
                      Tombstone, Moves, Goto, Finish
<1>10. QED
    BY <1>3, <1>4, <1>5, <1>6, <1>7, <1>8, <1>9, StoreSteps DEF Worker

\* Nothing that the row or its chunks depend on changes.
LEMMA WholeKept ==
    ASSUME TypeInv, ~Moving, [Next]_vars, NEW d \in Live, Whole(d),
           doc'[d].path = doc[d].path, doc'[d].ch = doc[d].ch,
           \A s \in Stores : rows'[s][Place(doc[d].path)] = rows[s][Place(doc[d].path)],
           Crash \/ ~Finish \/ job.req = None \/ ~Erases(job.req, doc[d].path)
    PROVE  Whole(d)'
<1>1. PICK p, c : p = doc[d].path /\ c = doc[d].ch
    OBVIOUS
<1>2. doc'[d].path = p /\ doc'[d].ch = c /\ p \in Paths
    BY <1>1 DEF Live, TypeInv, TypeOK, Doc
<1>3. CASE \A s \in Stores : Holds(s, p, c)
    <2>1. \A s \in Stores : Holds(s, p, c)'
        BY <1>1, <1>3, HoldsKept
    <2>2. QED
        BY <1>2, <2>1 DEF Whole, Holds, Place
<1>4. CASE Lost(p, c)
    <2>1. Lost(p, c)'
        BY <1>2, <1>4, LostStep
    <2>2. QED
        BY <1>2, <2>1 DEF Whole, Lost
<1>5. CASE Erasing(p)
    <2>1. Erasing(p)'
        BY <1>1, <1>5, ErasingStep
    <2>2. QED
        BY <1>2, <2>1 DEF Whole, Erasing
<1>6. QED
    BY <1>1, <1>3, <1>4, <1>5 DEF Whole

\* Chunks change only at the worker's place, whose row - if there is one - is being
\* erased or has lost its content.
LEMMA WholeAtPlace ==
    ASSUME TypeInv, ~Moving, NoHomonyms, "store" \notin scenario.faults,
           Played, FitRequests, Found, History, [Next]_vars,
           CleanStep \/ IngestStep, NEW d \in Live, Whole(d)
    PROVE  d \in Live' /\ Whole(d)'
<1>1. PICK s, old, new, then : Calls(s, old, new, then)
    BY DEF CleanStep, IngestStep
<1>2. /\ UNCHANGED <<doc, job, queue>> /\ then = pc'
      /\ \A t \in Stores, l \in Indexes \X Names :
            <<t, l>> # <<s, Place(Target)>> => rows'[t][l] = rows[t][l]
    BY <1>1 DEF Calls
<1>3. pc \in Located /\ pc # "idle"
    BY DEF CleanStep, IngestStep, Located
<1>4. PICK p : p = doc[d].path
    OBVIOUS
<1>5. p \in Paths /\ p \in scenario.paths /\ Target \in scenario.paths /\ job.req # None
    BY <1>3, <1>4 DEF Live, TypeInv, TypeOK, Doc, Played, FitRequests, Fits, Target, Shape
<1>6. ~Finish
    BY <1>2, <1>3 DEF Finish, NoJob, TypeInv, Shape
<1>7. CASE p # Target
    <2>1. Place(p) # Place(Target) /\ Place(p) \in Indexes \X Names
        BY <1>5, <1>7, PlacesDiffer, Constants DEF Place
    <2>2. \A t \in Stores : rows'[t][Place(p)] = rows[t][Place(p)]
        BY <1>2, <2>1
    <2>3. QED
        BY <1>2, <1>4, <1>6, <2>2, WholeKept, LiveSame
<1>8. CASE p = Target
    <2>1. d \in At(Target)
        BY <1>4, <1>8 DEF At
    <2>2. job.doc = d /\ job.doc # 0
        BY <1>3, <2>1 DEF Found
    <2>3. CASE job.req.action = "delete"
        <3>1. Erasing(p)'
            BY <1>2, <1>5, <1>8, <2>3 DEF Erasing, Erases, Target
        <3>2. doc'[d].path = p /\ Live' = Live
            BY <1>2, <1>4, LiveSame
        <3>3. QED
            BY <3>1, <3>2 DEF Whole, Erasing
    <2>4. CASE job.req.action # "delete"
        <3>1. PICK c : c = doc[d].ch
            OBVIOUS
        <3>2. Lost(p, c)
            BY <1>3, <1>8, <2>2, <2>4, <3>1 DEF History, Writes
        <3>3. Lost(p, c)'
            BY <1>5, <3>2, LostStep
        <3>4. doc'[d].path = p /\ doc'[d].ch = c /\ Live' = Live
            BY <1>2, <1>4, <3>1, LiveSame
        <3>5. QED
            BY <3>3, <3>4 DEF Whole, Lost
    <2>5. QED
        BY <2>3, <2>4
<1>9. QED
    BY <1>7, <1>8

\* Every row, after a step, is whole, lost or being erased.
LEMMA WholeStep ==
    ASSUME TypeInv, ~Moving, NoHomonyms, NeverRestored, "store" \notin scenario.faults,
           Played, FitRequests, Found, History, Written, [Next]_vars,
           \A d \in Live : Whole(d),
           NEW d \in Live'
    PROVE  Whole(d)'
<1>1. doc \in [Docs -> Doc \cup {None}] /\ job \in Job
    BY DEF TypeInv, TypeOK
<1>2. CASE CleanStep \/ IngestStep
    <2>1. UNCHANGED doc
        BY <1>2 DEF CleanStep, IngestStep, Calls
    <2>2. QED
        BY <1>2, <2>1, LiveSame, WholeAtPlace
<1>3. ASSUME UNCHANGED rows, d \in Live, doc'[d].path = doc[d].path, doc'[d].ch = doc[d].ch,
             ~RowRemoved
      PROVE  Whole(d)'
    <2>1. Crash \/ ~Finish \/ job.req = None \/ ~Erases(job.req, doc[d].path)
        <3>1. ASSUME ~Crash, Finish, job.req # None, job.req.action = "delete"
              PROVE  FALSE
            BY <1>3, <3>1, DeletesEnd DEF Tombstone, Live, RowRemoved
        <3>2. QED
            BY <3>1 DEF Erases
    <2>2. QED
        BY <1>3, <2>1, WholeKept
<1>4. CASE UNCHANGED rows /\ UNCHANGED doc /\ ~RowRemoved
    BY <1>3, <1>4, LiveSame
<1>5. CASE RowRehashed
    <2> PICK e \in At(Target) : /\ doc'[e] = [doc[e] EXCEPT !.qh = job.qh]
                                /\ \A f \in Docs : f # e => doc'[f] = doc[f]
        BY <1>5 DEF RowRehashed
    <2>1. e \in Live /\ doc[e] \in Doc
        BY <1>1 DEF At, Live
    <2>2. d \in Live /\ doc'[d].path = doc[d].path /\ doc'[d].ch = doc[d].ch
        BY <2>1 DEF Live, Doc
    <2>3. ~RowRemoved
        BY <1>5 DEF RowRehashed, RowRemoved
    <2>4. QED
        BY <1>3, <1>5, <2>2, <2>3 DEF RowRehashed
<1>6. CASE RowRecorded
    <2> PICK e \in Docs : doc'[e] = Indexed /\ \A f \in Docs : f # e => doc'[f] = doc[f]
        BY <1>6 DEF RowRecorded
    <2>1. UNCHANGED rows /\ ~RowRemoved /\ pc = "record" /\ disk[Target] # 0
        BY <1>6 DEF RowRecorded, RowRemoved
    <2>2. CASE d # e
        BY <1>3, <2>1, <2>2 DEF Live
    <2>3. CASE d = e
        <3>1. Writes /\ pc \in Ingesting
            BY <2>1 DEF Writes, Located, Ingesting, TypeInv, Shape
        <3>2. PICK b, r \in Versions : /\ job.ch = Content[b] /\ job.read = Content[r]
                                       /\ b <= r /\ Past(Target, r)
            BY <3>1 DEF History, JobDated
        <3>3. PICK p \in Paths : p = Target
            BY <3>1, WorkerTyped DEF Target, Writes, Located
        <3>4. doc'[d].path = p /\ doc'[d].ch = Content[b]
            BY <2>3, <3>2, <3>3 DEF Indexed, Target
        <3>5. CASE Content[b] = Content[r]
            <4>1. \A s \in Stores : Holds(s, p, Content[b])
                BY <2>1, <3>2, <3>3, <3>5 DEF Written
            <4>2. \A s \in Stores : Holds(s, p, Content[b])'
                BY <2>1, <4>1, HoldsKept
            <4>3. QED
                BY <3>4, <4>2 DEF Whole, Holds, Place
        <3>6. CASE Content[b] # Content[r]
            <4>1. Lost(p, Content[b])
                BY <3>2, <3>3, <3>6, ReplacedIsLost
            <4>2. Lost(p, Content[b])'
                BY <4>1, LostStep
            <4>3. QED
                BY <3>4, <4>2 DEF Whole, Lost
        <3>7. QED
            BY <3>5, <3>6
    <2>4. QED
        BY <2>2, <2>3
<1>7. CASE RowRemoved
    <2>1. d \in Live /\ d # job.doc /\ doc'[d] = doc[d] /\ UNCHANGED rows /\ pc \in Located
        BY <1>7 DEF RowRemoved, Located
    <2>2. d \notin At(Target)
        BY <2>1 DEF Found
    <2>3. doc[d].path # Target
        BY <2>1, <2>2 DEF At
    <2>4. QED
        BY <2>1, <2>3, WholeKept DEF Erases, Target
<1>8. QED
    BY <1>2, <1>4, <1>5, <1>6, <1>7, RowsStep, DocStep

-----------------------------------------------------------------------------
Rested == ~Moving /\ NeverRestored
Sound == Rested /\ NoHomonyms /\ "store" \notin scenario.faults

HistoryInv == Rested => History
WholeInv == Sound => Written /\ \A d \in Live : Whole(d)

\* Under its guard, History is inductive.
LEMMA HistoryInvStep == TypeInv /\ FoundInv /\ HistoryInv /\ [Next]_vars => HistoryInv'
    BY ScenarioSame, HistoryStep DEF HistoryInv, FoundInv, Rested, Moving

\* Under their guard, Written and Whole are inductive.
LEMMA WholeInvStep == TypeInv /\ FoundInv /\ HistoryInv /\ WholeInv /\ [Next]_vars => WholeInv'
<1> SUFFICES ASSUME TypeInv, FoundInv, HistoryInv, WholeInv, [Next]_vars, Sound'
             PROVE  Written' /\ \A d \in Live' : Whole(d)'
    BY DEF WholeInv
<1>1. Sound
    BY ScenarioSame DEF Sound, Rested, Moving, NoHomonyms
<1>2. /\ ~Moving /\ NoHomonyms /\ NeverRestored /\ "store" \notin scenario.faults
      /\ Played /\ FitRequests /\ Found /\ History /\ Written /\ \A d \in Live : Whole(d)
    BY <1>1 DEF Sound, Rested, FoundInv, HistoryInv, WholeInv
<1>3. Written'
    BY <1>2, WrittenStep
<1>4. QED
    BY <1>2, <1>3, WholeStep

\* The guarded form holds at the start.
LEMMA HistoryInvInit == Init => HistoryInv
    BY HistoryInit DEF HistoryInv

\* At the start there is no row.
LEMMA WholeInvInit == Init => WholeInv
<1> SUFFICES ASSUME Init PROVE WholeInv
    OBVIOUS
<1>1. Live = {} /\ pc = "idle"
    BY DEF Init, Live
<1>2. QED
    BY <1>1 DEF WholeInv, Written

\* History holds in every state.
LEMMA SpecHistory == Spec => []HistoryInv
    BY SpecTyped, SpecFound, HistoryInvInit, HistoryInvStep, PTL DEF Spec

\* Every row is whole, lost or being erased, in every state.
LEMMA SpecWhole == Spec => []WholeInv
    BY SpecTyped, SpecFound, SpecHistory, WholeInvInit, WholeInvStep, PTL DEF Spec

\* A row with the quick_hash of the file as it is has its content.
LEMMA FreshContent ==
    ASSUME TypeInv, History, NEW p \in OnDisk, Fresh(p)
    PROVE  /\ DocumentAt(p) \in Live /\ doc[DocumentAt(p)].path = p
           /\ doc[DocumentAt(p)].ch = Content[disk[p]]
           /\ ~Lost(p, Content[disk[p]])
<1>1. Known(p) /\ doc[DocumentAt(p)].qh = QuickHash(p, disk[p]) /\ p \in Paths /\ disk[p] # 0
    BY DEF Fresh, OnDisk
<1>2. DocumentAt(p) \in Live /\ doc[DocumentAt(p)].path = p
    BY <1>1, DocumentTyped DEF TypeInv
<1>3. PICK a, b \in Versions : /\ a <= b /\ Past(p, b)
                               /\ QuickHash(p, disk[p]) = QuickHash(p, a)
                               /\ doc[DocumentAt(p)].ch = Content[b]
    BY <1>1, <1>2 DEF History, Dated
<1>4. disk[p] = a
    BY <1>3 DEF QuickHash
<1>5. b <= disk[p] /\ a \in Nat /\ b \in Nat
    BY <1>1, <1>3, Constants DEF Past
<1>6. b = disk[p]
    BY <1>3, <1>4, <1>5
<1>7. ~Lost(p, Content[disk[p]])
    BY <1>3, <1>6 DEF Lost, Ahead
<1>8. QED
    BY <1>2, <1>3, <1>6, <1>7

\* A fresh row is not lost: its chunks are there, or a delete is pending.
LEMMA WholeIsSearchable ==
    ASSUME TypeInv, FoundInv, HistoryInv, WholeInv, Sound, NEW p \in OnDisk, Fresh(p)
    PROVE  Asked(p) \/ \A s \in Stores : Searchable(p, s)
<1>1. History /\ \A d \in Live : Whole(d)
    BY DEF Sound, HistoryInv, WholeInv
<1>2. /\ DocumentAt(p) \in Live /\ doc[DocumentAt(p)].path = p
      /\ doc[DocumentAt(p)].ch = Content[disk[p]]
      /\ ~Lost(p, Content[disk[p]])
    BY <1>1, FreshContent
<1>3. (\A s \in Stores : Holds(s, p, Content[disk[p]])) \/ Erasing(p)
    BY <1>1, <1>2 DEF Whole
<1>4. CASE Erasing(p)
    <2>1. CASE job.req # None /\ Erases(job.req, p)
        BY <2>1 DEF TypeInv, Shape, Asked, Erases
    <2>2. CASE \E r \in Elements(queue) : Erases(r, p)
        BY <2>2 DEF Asked, Erases, Elements
    <2>3. QED
        BY <1>4, <2>1, <2>2 DEF Erasing
<1>5. CASE \A s \in Stores : Holds(s, p, Content[disk[p]])
    <2>1. Place(p) \in Indexes \X Names
        BY Constants DEF Place, OnDisk
    <2>2. \A s \in Stores : Place(p) \in DOMAIN rows[s]
        BY <2>1 DEF TypeInv, TypeOK
    <2>3. QED
        BY <1>5, <2>2 DEF Searchable, Holds
<1>6. QED
    BY <1>3, <1>4, <1>5

\* A file that the reconciler takes for indexed is in both engines, or somebody is
\* asked about it - across crashes, missed events, files that vanish or change between the
\* hash, the reading and the record, and scans that miss files.
THEOREM IndexSyncFreshIsSearchable == Spec => []FreshIsSearchable
<1>1. TypeInv /\ FoundInv /\ HistoryInv /\ WholeInv => FreshIsSearchable
    BY WholeIsSearchable DEF FreshIsSearchable, Sound, Rested
<1>2. QED
    BY <1>1, SpecTyped, SpecFound, SpecHistory, SpecWhole, PTL

\* Where no file moves, no engine fails and no two files of an index share a base name,
\* a state in which the reconciler has nothing to do has every file in both engines.
THEOREM IndexSyncReconciledIsComplete == Spec => [](Sound => ReconciledIsComplete)
<1>1. TypeInv /\ FoundInv /\ HistoryInv /\ WholeInv => (Sound => ReconciledIsComplete)
    <2> SUFFICES ASSUME TypeInv, FoundInv, HistoryInv, WholeInv, Sound, Reconciled,
                        NEW p \in OnDisk, NEW s \in Stores
                 PROVE  Searchable(p, s)
        BY DEF ReconciledIsComplete
    <2>1. Fresh(p) /\ pc = "idle" /\ queue = <<>>
        BY DEF Reconciled
    <2>2. ~Asked(p)
        BY <2>1 DEF Asked
    <2>3. QED
        BY <2>1, <2>2, WholeIsSearchable
<1>2. QED
    BY <1>1, SpecTyped, SpecFound, SpecHistory, SpecWhole, PTL

Calm == {"crash", "vanish", "store"} \cap scenario.faults = {}

\* The file stays in place while the worker handles it.
Stays == pc = "hash" \/ Writes => disk[Target] # 0

\* Of a known document, the old chunks are removed before the new ones are written.
Wiped(s) == rows[s][Place(Target)] = NoChunks
Swept ==
    /\ pc = "clean_opensearch" => Wiped("qdrant")
    /\ pc = "tombstone" => \A s \in Stores : Wiped(s)
    /\ pc = "parse" /\ job.doc # 0 => \A s \in Stores : Wiped(s)
    /\ pc \in Ingesting /\ job.doc # 0 =>
         \A s \in Stores, i \in 1..MaxChunks : rows[s][Place(Target)][i] \in {None, job.read}

\* A chunk has an owner: a row with its content, or one that has to be replaced, or the
\* worker, which will make a row of it.
Kept(c, k) ==
    \E d \in Live : /\ Place(doc[d].path) = k
                    /\ c = doc[d].ch \/ Lost(doc[d].path, doc[d].ch)
Owned(c, k) == Kept(c, k) \/ (pc \in Ingesting /\ k = Place(Target) /\ c = job.read)
AllOwned ==
    \A s \in Stores, k \in Indexes \X Names, i \in 1..MaxChunks :
        rows[s][k][i] # None => Owned(rows[s][k][i], k)

CleanInv == Rested /\ Calm => Swept /\ Stays /\ AllOwned

\* Without "vanish", nobody removes the file that the worker handles.
LEMMA StaysStep ==
    ASSUME TypeInv, ~Moving, Calm, FitRequests, Clock, Stays, [Next]_vars
    PROVE  Stays'
<1>1. disk \in [Paths -> Versions \cup {0}] /\ job \in Job
    BY DEF TypeInv, TypeOK
<1>2. CASE Users
    <2> PICK p \in scenario.paths : Write(p) \/ Remove(p) \/ Reindex(p) \/ Drop(p)
        BY <1>2, UsersWithoutMoves
    <2>1. p \in Paths
        BY Constants DEF TypeInv, TypeOK
    <2>2. UNCHANGED <<pc, job>>
        BY <1>2, UsersOnly
    <2>3. pc = "hash" \/ Writes => pc # "idle" /\ Target \in Paths
        BY WorkerTyped DEF Writes, Located, Target
    <2>4. CASE Write(p)
        <3>1. disk' = [disk EXCEPT ![p] = next] /\ next # 0
            BY <2>4 DEF Write, Clock
        <3>2. \A q \in Paths : disk[q] # 0 => disk'[q] # 0
            BY <1>1, <3>1
        <3>3. QED
            BY <2>2, <2>3, <3>2 DEF Stays, Writes, Target
    <2>5. CASE Remove(p)
        <3>1. disk' = [disk EXCEPT ![p] = 0] /\ (pc # "idle" => Target # p)
            BY <2>5 DEF Remove, Untouched, Calm, Target
        <3>2. \A q \in Paths : q # p => disk'[q] = disk[q]
            BY <1>1, <3>1
        <3>3. QED
            BY <2>2, <2>3, <3>1, <3>2 DEF Stays, Writes, Target
    <2>6. CASE Reindex(p) \/ Drop(p)
        BY <2>2, <2>6 DEF Reindex, Drop, Call, Stays, Writes, Target
    <2>7. QED
        BY <2>4, <2>5, <2>6
<1>3. CASE ~Users /\ ~Worker /\ ~Crash
    BY <1>3, OthersKeep, DiskSame DEF Stays, Writes, Target
<1>4. CASE Crash
    BY <1>4 DEF Crash, Calm
<1>5. ASSUME Finish PROVE Stays'
    BY <1>5 DEF Finish, Stays, Writes, Located
<1>6. CASE Worker /\ ~Finish
    <2>1. UNCHANGED <<disk, next>>
        BY <1>6, WorkerOnly DEF OnlyWorker
    <2>2. CASE Take
        <3>1. PICK i \in DOMAIN queue : pc' = queue[i].action
            BY <2>2 DEF Take
        <3>2. queue[i] \in Request
            BY WithoutElements DEF TypeInv, TypeOK
        <3>3. QED
            BY <3>1, <3>2 DEF Request, Actions, Stays, Writes, Located
    <2>3. CASE ~Take
        <3>1. job'.req = job.req /\ Target' = Target
            BY <1>6, <2>3, WorkerKeepsRequest DEF Target
        <3>2. CASE UpsertStarts
            BY <1>6, <2>1, <3>1, <3>2 DEF UpsertStarts, Stays, Target
        <3>3. CASE UpsertHashes
            BY <1>6, <2>1, <3>1, <3>3 DEF UpsertHashes, Stays, Target
        <3>4. CASE CleanQdrant \/ CleanOpenSearch \/ Parse \/ IngestQdrant \/ IngestOpenSearch
            <4>1. pc \in Located /\ pc' # "hash"
                BY <1>6, <3>4 DEF CleanQdrant, CleanOpenSearch, Parse, IngestQdrant,
                   IngestOpenSearch,
                                  Ingest, Store, Goto, Located
            <4>2. QED
                BY <2>1, <3>1, <4>1 DEF Stays, Writes
        <3>5. CASE DeleteStarts
            <4>1. pc' = "clean_qdrant" /\ job.req.action = "delete"
                BY <3>5 DEF DeleteStarts, TypeInv, Shape
            <4>2. QED
                BY <3>1, <4>1 DEF Stays, Writes
        <3>6. CASE Moves
            <4>1. job.req.action = "move" /\ job.req # None
                BY <3>6, WorkerTyped, Constants DEF Moves, TypeInv, Shape
            <4>2. QED
                BY <4>1 DEF FitRequests, Fits
        <3>7. CASE Record \/ Tombstone
            BY <1>6, <3>7 DEF Record, Tombstone
        <3>8. QED
            BY <1>6, <2>3, <3>2, <3>3, <3>4, <3>5, <3>6, <3>7 DEF Worker
    <2>4. QED
        BY <2>2, <2>3
<1>7. QED
    BY <1>2, <1>3, <1>4, <1>5, <1>6

\* Both stores are cleaned before anything is written or forgotten.
LEMMA SweptStep ==
    ASSUME TypeInv, ~Moving, Calm, FitRequests, Found, Swept, [Next]_vars
    PROVE  Swept'
<1>1. job \in Job
    BY DEF TypeInv, TypeOK
<1>2. ASSUME pc' \notin {"clean_opensearch", "tombstone", "parse"} \cup Ingesting PROVE Swept'
    BY <1>2 DEF Swept
<1>3. CASE ~Worker /\ ~Crash
    <2>1. UNCHANGED <<rows, pc, job>>
        BY <1>3, OthersKeep
    <2>2. QED
        BY <2>1 DEF Swept, Wiped, Target, Place
<1>4. CASE Crash
    BY <1>4 DEF Crash, Calm
<1>5. CASE CleanStep
    <2> DEFINE s == IF pc = "clean_qdrant" THEN "qdrant" ELSE "opensearch"
    <2>1. PICK then \in {"clean_opensearch", "tombstone", "parse"} :
             /\ Calls(s, rows[s][Place(Target)], NoChunks, then)
             /\ pc = "clean_qdrant" => then = "clean_opensearch"
             /\ pc = "clean_opensearch" => then \in {"tombstone", "parse"}
        BY <1>5 DEF CleanStep
    <2>2. pc \in Located /\ pc \in {"clean_qdrant", "clean_opensearch"}
        BY <1>5 DEF CleanStep, Located
    <2>3. /\ pc' = then /\ UNCHANGED job
          /\ rows'[s][Place(Target)] = NoChunks
          /\ \A t \in Stores, l \in Indexes \X Names :
                <<t, l>> # <<s, Place(Target)>> => rows'[t][l] = rows[t][l]
        BY <2>1 DEF Calls, Calm
    <2>4. Place(Target)' = Place(Target) /\ Place(Target) \in Indexes \X Names
        BY <2>2, <2>3, KeysArePlaces DEF Place, Target
    <2>5. CASE pc = "clean_qdrant"
        <3>1. Wiped("qdrant")' /\ pc' = "clean_opensearch"
            BY <2>1, <2>3, <2>4, <2>5 DEF Wiped
        <3>2. QED
            BY <3>1 DEF Swept, Ingesting
    <2>6. CASE pc = "clean_opensearch"
        <3>1. rows'["qdrant"][Place(Target)] = rows["qdrant"][Place(Target)]
            BY <2>3, <2>4, <2>6 DEF Stores
        <3>2. \A t \in Stores : Wiped(t)'
            BY <2>3, <2>4, <2>6, <3>1 DEF Wiped, Swept, Stores
        <3>3. pc' \notin Ingesting /\ pc' # "clean_opensearch"
            BY <2>1, <2>3, <2>6 DEF Ingesting
        <3>4. QED
            BY <3>2, <3>3 DEF Swept
    <2>7. QED
        BY <2>2, <2>5, <2>6
<1>6. CASE IngestStep
    <2> PICK s \in Stores, old \in [1..MaxChunks -> Contents \cup {None}], then \in Ingesting :
             Calls(s, old, Overlay(old, job.read), then)
        BY <1>6 DEF IngestStep
    <2>1. pc \in Located /\ pc \in Ingesting
        BY <1>6 DEF IngestStep, Located, Ingesting
    <2>2. /\ pc' = then /\ UNCHANGED job
          /\ old = rows[s][Place(Target)]
          /\ rows'[s][Place(Target)] = Overlay(old, job.read)
          /\ \A t \in Stores, l \in Indexes \X Names :
                <<t, l>> # <<s, Place(Target)>> => rows'[t][l] = rows[t][l]
        BY DEF Calls, Calm
    <2>3. Place(Target)' = Place(Target) /\ Place(Target) \in Indexes \X Names
        BY <2>1, <2>2, KeysArePlaces DEF Place, Target
    <2>4. ASSUME job.doc # 0, NEW t \in Stores, NEW i \in 1..MaxChunks
          PROVE  rows'[t][Place(Target)][i] \in {None, job.read}
        <3>1. rows[t][Place(Target)][i] \in {None, job.read}
            BY <2>1, <2>4 DEF Swept
        <3>2. CASE t # s
            BY <2>2, <2>3, <3>1, <3>2
        <3>3. CASE t = s
            <4>1. old[i] \in {None, job.read}
                BY <2>2, <3>1, <3>3
            <4>2. Overlay(old, job.read)[i] \in {job.read, old[i]}
                BY DEF Overlay
            <4>3. QED
                BY <2>2, <3>3, <4>1, <4>2
        <3>4. QED
            BY <3>2, <3>3
    <2>5. pc' \notin {"clean_opensearch", "tombstone", "parse"}
        BY <2>2 DEF Ingesting
    <2>6. QED
        BY <2>2, <2>3, <2>4, <2>5 DEF Swept
<1>7. CASE Parse
    <2>1. CASE Finish
        BY <1>2, <2>1 DEF Finish, Ingesting
    <2>2. CASE ~Finish
        <3>1. pc = "parse" /\ pc' \in Ingesting /\ UNCHANGED rows
            BY <1>7, <2>2 DEF Parse, Ingesting
        <3>2. job'.req = job.req /\ job'.doc = job.doc
            BY <1>1, <1>7, <2>2 DEF Parse, Job
        <3>3. job.doc # 0 => \A s \in Stores : rows[s][Place(Target)] = NoChunks
            BY <3>1 DEF Swept, Wiped
        <3>4. Place(Target)' = Place(Target)
            BY <3>2 DEF Place, Target
        <3>5. job'.doc # 0 =>
                 \A s \in Stores, i \in 1..MaxChunks : rows'[s][Place(Target)'][i] = None
            BY <3>1, <3>2, <3>3, <3>4, ZenonT(40) DEF NoChunks
        <3>6. QED
            BY <3>1, <3>5 DEF Swept, Ingesting
    <2>3. QED
        BY <2>1, <2>2
<1>8. CASE Take
    <2>1. PICK i \in DOMAIN queue : pc' = queue[i].action
        BY <1>8 DEF Take
    <2>2. queue[i] \in Request
        BY WithoutElements DEF TypeInv, TypeOK
    <2>3. QED
        BY <1>2, <2>1, <2>2 DEF Request, Actions, Ingesting
<1>9. CASE UpsertHashes
    <2>1. CASE pc' = "parse"
        <3>1. Discover(Target, Content[disk[Target]])
            BY <1>9, <2>1 DEF UpsertHashes, Decide, Skip, Replace, Finish, Target
        <3>2. job'.doc = 0
            BY <1>1, <1>9, <3>1 DEF UpsertHashes, Discover, Job, Found, Located
        <3>3. QED
            BY <2>1, <3>2 DEF Swept, Ingesting
    <2>2. CASE pc' # "parse"
        BY <1>2, <1>9, <2>2 DEF UpsertHashes, Decide, Discover, Skip, Replace, Finish, Ingesting
    <2>3. QED
        BY <2>1, <2>2
<1>10. CASE UpsertStarts \/ Record \/ DeleteStarts \/ Tombstone
    BY <1>2, <1>10 DEF UpsertStarts, Record, DeleteStarts, Tombstone, Finish, Ingesting
<1>11. CASE Moves
    BY <1>2, <1>11 DEF Moves, Goto, Finish, Ingesting
<1>12. QED
    BY <1>3, <1>4, <1>5, <1>6, <1>7, <1>8, <1>9, <1>10, <1>11, StoreSteps DEF Worker

\* An owner stays one as long as its row does.
LEMMA KeptStep ==
    ASSUME TypeInv, ~Moving, [Next]_vars, NEW c, NEW k, NEW d \in Live, d \in Live',
           Place(doc[d].path) = k, c = doc[d].ch \/ Lost(doc[d].path, doc[d].ch),
           doc'[d].path = doc[d].path, doc'[d].ch = doc[d].ch
    PROVE  Kept(c, k)'
<1>1. PICK p, h : p = doc[d].path /\ h = doc[d].ch
    OBVIOUS
<1>2. p \in Paths
    BY <1>1 DEF Live, TypeInv, TypeOK, Doc
<1>3. Lost(p, h) => Lost(p, h)'
    BY <1>2, LostStep
<1>4. Place(doc'[d].path) = k /\ (c = doc'[d].ch \/ Lost(doc[d].path, doc[d].ch)')
    BY <1>1, <1>3 DEF Lost
<1>5. QED
    BY <1>4 DEF Kept, Place

\* The worker keeps the chunks it has written until it has made a row of them.
LEMMA IngestingStep ==
    ASSUME TypeInv, Calm, Stays, Found, [Next]_vars, pc \in Ingesting, ~RowRecorded, FitRequests
    PROVE  UNCHANGED job /\ pc' \in Ingesting
<1>1. CASE ~Worker /\ ~Crash
    BY <1>1, OthersKeep
<1>2. CASE Crash
    BY <1>2 DEF Crash, Calm
<1>3. CASE IngestQdrant \/ IngestOpenSearch
    <2>1. IngestStep
        BY <1>3, StoreSteps
    <2>2. QED
        BY <2>1 DEF IngestStep, Calls, Calm
<1>4. CASE Record
    <2>1. Writes
        BY <1>4 DEF Writes, Record, Located, Ingesting, TypeInv, Shape
    <2>2. disk[job.req.path] # 0
        BY <2>1 DEF Stays, Target
    <2>3. QED
        BY <1>4, <2>2, RecordMakesRow DEF Target
<1>5. (Take \/ UpsertStarts \/ UpsertHashes \/ CleanQdrant \/ CleanOpenSearch \/ Parse
         \/ DeleteStarts \/ Tombstone \/ Moves) => pc \notin Ingesting
    BY DEF Take, UpsertStarts, UpsertHashes, CleanQdrant, CleanOpenSearch, Store, Parse,
           DeleteStarts, Tombstone, Moves, Ingesting
<1>6. QED
    BY <1>1, <1>2, <1>3, <1>4, <1>5 DEF Worker

\* A chunk that was there keeps an owner.
LEMMA OwnedKept ==
    ASSUME TypeInv, Rested, Calm, FitRequests, Found, History, Stays, Swept, [Next]_vars,
           NEW s \in Stores, NEW k \in Indexes \X Names, NEW i \in 1..MaxChunks,
           NEW c, c # None, c = rows[s][k][i], Owned(c, k),
           UNCHANGED rows \/ IngestStep \/ (CleanStep /\ Kept(c, k))
    PROVE  Owned(c, k)'
<1>1. ~Moving /\ NeverRestored /\ job \in Job /\ doc \in [Docs -> Doc \cup {None}]
    BY DEF Rested, TypeInv, TypeOK
<1>2. ASSUME NEW d \in Live, d \in Live', Place(doc[d].path) = k,
             c = doc[d].ch \/ Lost(doc[d].path, doc[d].ch),
             doc'[d].path = doc[d].path, doc'[d].ch = doc[d].ch
      PROVE  Owned(c, k)'
    BY <1>1, <1>2, KeptStep DEF Owned
<1>3. CASE pc \in Ingesting /\ k = Place(Target) /\ c = job.read /\ ~RowRecorded
    <2>1. UNCHANGED job /\ pc' \in Ingesting
        BY <1>3, IngestingStep
    <2>2. Place(Target)' = Place(Target)
        BY <2>1 DEF Place, Target
    <2>3. QED
        BY <1>3, <2>1, <2>2 DEF Owned
<1>4. CASE RowRecorded
    <2> PICK e \in Docs : /\ At(Target) = IF job.doc = 0 THEN {} ELSE {e}
                          /\ job.doc = 0 => e \notin Live
                          /\ doc'[e] = Indexed /\ Indexed \in Doc
                          /\ \A f \in Docs : f # e => doc'[f] = doc[f]
        BY <1>4 DEF RowRecorded
    <2>1. e \in Live' /\ doc'[e].path = Target /\ doc'[e].ch = job.ch
        BY Constants DEF Live, Indexed, Target
    <2>2. Writes /\ pc \in Ingesting /\ Target \in Paths
        BY <1>4, WorkerTyped DEF RowRecorded, Writes, Located, Ingesting, Target, TypeInv, Shape
    <2>3. ASSUME k = Place(Target), c = job.read PROVE Owned(c, k)'
        <3>1. PICK b, r \in Versions : /\ job.ch = Content[b] /\ job.read = Content[r]
                                       /\ b <= r /\ Past(Target, r)
            BY <2>2 DEF History, JobDated
        <3>2. PICK p \in Paths : p = Target
            BY <2>2
        <3>3. Place(doc'[e].path) = k
            BY <2>1, <2>3 
        <3>4. CASE Content[b] = Content[r]
            <4>1. c = doc'[e].ch
                BY <2>1, <2>3, <3>1, <3>4
            <4>2. QED
                BY <2>1, <3>3, <4>1 DEF Owned, Kept, Place
        <3>5. CASE Content[b] # Content[r]
            <4>1. Lost(p, Content[b])
                BY <1>1, <3>1, <3>2, <3>5, ReplacedIsLost
            <4>2. Lost(p, Content[b])'
                BY <1>1, <4>1, LostStep
            <4>3. Lost(doc[e].path, doc[e].ch)'
                BY <2>1, <3>1, <3>2, <4>2 DEF Lost
            <4>4. QED
                BY <2>1, <3>3, <4>3 DEF Owned, Kept, Place
        <3>6. QED
            BY <3>4, <3>5
    <2>4. CASE Kept(c, k)
        <3> PICK d \in Live : /\ Place(doc[d].path) = k
                              /\ c = doc[d].ch \/ Lost(doc[d].path, doc[d].ch)
            BY <2>4 DEF Kept
        <3>1. CASE d # e
            <4>1. d \in Live' /\ doc'[d] = doc[d]
                BY <3>1 DEF Live
            <4>2. QED
                BY <1>2, <4>1
        <3>2. CASE d = e
            <4>1. job.doc # 0 /\ doc[d].path = Target
                BY <3>2 DEF At
            <4>2. rows[s][Place(Target)][i] \in {None, job.read}
                BY <2>2, <4>1 DEF Swept
            <4>3. k = Place(Target) /\ c = job.read
                BY <4>1, <4>2
            <4>4. QED
                BY <2>3, <4>3
        <3>3. QED
            BY <3>1, <3>2
    <2>5. QED
        BY <2>3, <2>4 DEF Owned
<1>5. CASE Kept(c, k) /\ ~RowRecorded
    <2> PICK d \in Live : /\ Place(doc[d].path) = k
                          /\ c = doc[d].ch \/ Lost(doc[d].path, doc[d].ch)
        BY <1>5 DEF Kept
    <2>1. CASE UNCHANGED doc
        BY <1>2, <2>1, LiveSame
    <2>2. CASE RowRehashed
        <3> PICK e \in At(Target) : /\ doc'[e] = [doc[e] EXCEPT !.qh = job.qh]
                                    /\ \A f \in Docs : f # e => doc'[f] = doc[f]
            BY <2>2 DEF RowRehashed
        <3>1. e \in Docs /\ doc[e] \in Doc
            BY <1>1 DEF At, Live
        <3>2. doc'[e] \in Doc
            BY <1>1, <3>1 DEF Doc, Job
        <3>3. d \in Live' /\ doc'[d].path = doc[d].path /\ doc'[d].ch = doc[d].ch
            BY <3>1, <3>2, Constants DEF Live, Doc
        <3>4. QED
            BY <1>2, <3>3
    <2>3. CASE RowRemoved
        <3>1. CASE d # job.doc
            BY <1>2, <2>3, <3>1 DEF RowRemoved
        <3>2. CASE d = job.doc
            <4>1. pc \in Located /\ d # 0 /\ At(Target) = {d}
                BY <2>3, <3>2, Constants DEF RowRemoved, Located, Found, Live
            <4>2. k = Place(Target)
                BY <4>1 DEF At
            <4>3. rows[s][k] = NoChunks
                BY <2>3, <4>2 DEF RowRemoved, Swept, Wiped
            <4>4. c = None
                BY <4>3 DEF NoChunks
            <4>5. QED
                BY <4>4
        <3>3. QED
            BY <3>1, <3>2
    <2>4. QED
        BY <1>5, <2>1, <2>2, <2>3, DocStep
<1>6. QED
    BY <1>3, <1>4, <1>5 DEF Owned

\* No step leaves a chunk without an owner.
LEMMA AllOwnedStep ==
    ASSUME TypeInv, Rested, Calm, FitRequests, Found, History, Stays, Swept, AllOwned, [Next]_vars
    PROVE  AllOwned'
<1> SUFFICES ASSUME NEW s \in Stores, NEW k \in Indexes \X Names, NEW i \in 1..MaxChunks,
                    NEW c, c = rows'[s][k][i], c # None
             PROVE  Owned(c, k)'
    BY DEF AllOwned, Owned, Kept, Place, Target
<1>1. ASSUME c = rows[s][k][i], UNCHANGED rows \/ IngestStep PROVE Owned(c, k)'
    BY <1>1, OwnedKept DEF AllOwned
<1>2. CASE UNCHANGED rows
    BY <1>1, <1>2
<1>3. CASE CleanStep
    <2> DEFINE t == IF pc = "clean_qdrant" THEN "qdrant" ELSE "opensearch"
    <2>1. PICK then \in {"clean_opensearch", "tombstone", "parse"} :
              Calls(t, rows[t][Place(Target)], NoChunks, then)
        BY <1>3 DEF CleanStep
    <2>2. pc \in Located /\ pc \notin Ingesting
        BY <1>3 DEF CleanStep, Located, Ingesting
    <2>3. /\ rows'[t][Place(Target)] = NoChunks
          /\ \A u \in Stores, l \in Indexes \X Names :
                <<u, l>> # <<t, Place(Target)>> => rows'[u][l] = rows[u][l]
        BY <2>1 DEF Calls, Calm
    <2>4. <<s, k>> # <<t, Place(Target)>>
        <3>1. NoChunks[i] = None
            BY DEF NoChunks
        <3>2. rows'[s][k] # NoChunks
            BY <3>1
        <3>3. QED
            BY <2>3, <3>2
    <2>5. c = rows[s][k][i]
        BY <2>3, <2>4
    <2>6. Kept(c, k) /\ Owned(c, k)
        BY <2>2, <2>5 DEF AllOwned, Owned
    <2>7. QED
        BY <1>3, <2>5, <2>6, OwnedKept
<1>4. CASE IngestStep
    <2> PICK t \in Stores, old \in [1..MaxChunks -> Contents \cup {None}], then \in Ingesting :
             Calls(t, old, Overlay(old, job.read), then)
        BY <1>4 DEF IngestStep
    <2>1. /\ pc' = then /\ UNCHANGED job
          /\ old = rows[t][Place(Target)]
          /\ rows'[t][Place(Target)] = Overlay(old, job.read)
          /\ \A u \in Stores, l \in Indexes \X Names :
                <<u, l>> # <<t, Place(Target)>> => rows'[u][l] = rows[u][l]
        BY DEF Calls, Calm
    <2>2. Place(Target)' = Place(Target)
        BY <2>1 DEF Place, Target
    <2>3. CASE c = rows[s][k][i]
        BY <1>1, <1>4, <2>3
    <2>4. CASE c # rows[s][k][i]
        <3>1. <<s, k>> = <<t, Place(Target)>>
            BY <2>1, <2>4
        <3>2. c = Overlay(old, job.read)[i] /\ c # old[i]
            BY <2>1, <2>4, <3>1
        <3>3. c = job.read
            BY <3>2 DEF Overlay
        <3>4. QED
            BY <2>1, <2>2, <3>1, <3>3 DEF Owned
    <2>5. QED
        BY <2>3, <2>4
<1>5. QED
    BY <1>2, <1>3, <1>4, RowsStep

\* Under their guard, the three parts are inductive.
LEMMA CleanInvStep == TypeInv /\ FoundInv /\ HistoryInv /\ CleanInv /\ [Next]_vars => CleanInv'
<1> SUFFICES ASSUME TypeInv, FoundInv, HistoryInv, CleanInv, [Next]_vars, (Rested /\ Calm)'
             PROVE  (Swept /\ Stays /\ AllOwned)'
    BY DEF CleanInv
<1>1. Rested /\ Calm
    BY ScenarioSame DEF Rested, Calm, Moving
<1>2. ~Moving /\ FitRequests /\ Found /\ History /\ Clock /\ Swept /\ Stays /\ AllOwned
    BY <1>1 DEF Rested, FoundInv, HistoryInv, CleanInv, History
<1>3. Stays' /\ Swept'
    BY <1>1, <1>2, StaysStep, SweptStep
<1>4. AllOwned'
    BY <1>1, <1>2, AllOwnedStep
<1>5. QED
    BY <1>3, <1>4

\* At the start there is no chunk.
LEMMA CleanInvInit == Init => CleanInv
<1> SUFFICES ASSUME Init PROVE CleanInv
    OBVIOUS
<1>1. pc = "idle" /\ \A s \in Stores, k \in Indexes \X Names : rows[s][k] = NoChunks
    BY DEF Init
<1>2. \A s \in Stores, k \in Indexes \X Names, i \in 1..MaxChunks : rows[s][k][i] = None
    <2>1. \A i \in 1..MaxChunks : NoChunks[i] = None
        BY DEF NoChunks
    <2>2. QED
        BY <1>1, <2>1
<1>3. QED
    BY <1>1, <1>2 DEF CleanInv, Swept, Stays, Writes, Located, Ingesting, AllOwned

\* Every chunk has an owner, in every state.
LEMMA SpecOwned == Spec => []CleanInv
    BY SpecTyped, SpecFound, SpecHistory, CleanInvInit, CleanInvStep, PTL DEF Spec

\* Once reconciled, an owner is a fresh row: it owns no other content than its file's.
LEMMA OwnedIsClean == TypeInv /\ FoundInv /\ HistoryInv /\ CleanInv => ReconciledIsClean
<1> SUFFICES ASSUME TypeInv, FoundInv, HistoryInv, CleanInv, Reconciled, Rested, Calm,
                    NEW s \in Stores, NEW k \in DOMAIN rows[s], NEW i \in 1..MaxChunks,
                    rows[s][k][i] # None
             PROVE  rows[s][k][i] \in {Content[disk[p]] : p \in OnDisk}
    BY DEF ReconciledIsClean, Rested, Calm
<1>1. k \in Indexes \X Names /\ History /\ Found /\ AllOwned /\ pc \notin Ingesting
    BY DEF TypeInv, TypeOK, HistoryInv, FoundInv, CleanInv, Rested, Reconciled, Ingesting
<1>2. PICK d \in Live : \/ rows[s][k][i] = doc[d].ch
                        \/ Lost(doc[d].path, doc[d].ch)
    BY <1>1 DEF AllOwned, Owned, Kept
<1>3. PICK p : p = doc[d].path
    OBVIOUS
<1>4. p \in OnDisk /\ Fresh(p)
    BY <1>3 DEF Reconciled, IndexedPaths
<1>5. /\ DocumentAt(p) \in Live /\ doc[DocumentAt(p)].path = p
      /\ doc[DocumentAt(p)].ch = Content[disk[p]]
      /\ ~Lost(p, Content[disk[p]])
    BY <1>1, <1>4, FreshContent
<1>6. DocumentAt(p) = d
    BY <1>1, <1>3, <1>5 DEF Found
<1>7. rows[s][k][i] = Content[disk[p]]
    BY <1>2, <1>3, <1>5, <1>6
<1>8. QED
    BY <1>4, <1>7

\* ... and, without crashes, engine failures and files that vanish under the worker,
\* no chunk of a removed file or of a replaced content is left.
THEOREM IndexSyncReconciledIsClean == Spec => []ReconciledIsClean
    BY OwnedIsClean, SpecTyped, SpecFound, SpecHistory, SpecOwned, PTL

\* The index, once reconciled, holds what it should and nothing twice.
THEOREM IndexSyncSyncedIsSound == Spec => []SyncedIsSound
<1>1. ReconciledIsClean /\ OneDocumentPerPath => SyncedIsSound
    BY DEF SyncedIsSound
<1>2. QED
    BY <1>1, IndexSyncReconciledIsClean, IndexSyncOneDocumentPerPath, PTL
===============================================================================
