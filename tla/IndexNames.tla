----------------------------- MODULE IndexNames -----------------------------
(***************************************************************************)
(* Under which names an instance keeps its documents: the name typed at    *)
(* the installation, the index that the watcher derives from the path of a *)
(* file, the collection that the pipeline writes, the one that the search  *)
(* reads.  A name is a sequence of characters.                             *)
(***************************************************************************)
EXTENDS Integers, SequencesExt

CONSTANT MaxName        \* characters kept of a name (64)

ASSUME NameAssumption == MaxName \in Nat \ {0}

\* One character of each class: "A" is a capital, "space" is a space, "#" stands for
\* all that is dropped, accents included.
Capitals == {"A"}
Numerals == {"1"}
Kept == {"a", "i", "d", "x", "_", "-"} \cup Capitals \cup Numerals

LowerChar(c) == IF c \in Capitals THEN "a" ELSE c
LowerName(n) == [i \in DOMAIN n |-> LowerChar(n[i])]

\* The characters that are kept, in their order.
Filtered(n) ==
    LET upto[m \in 0..Len(n)] ==
            IF m = 0 THEN <<>>
            ELSE IF n[m] \in Kept THEN Append(upto[m - 1], n[m]) ELSE upto[m - 1]
    IN  upto[Len(n)]

\* sanitize_index_name of the pipeline, but for its last line.
Cleared(n) ==
    LET all == Filtered([i \in DOMAIN n |-> IF n[i] = "space" THEN "_" ELSE n[i]])
        some == SubSeq(all, 1, IF Len(all) > MaxName THEN MaxName ELSE Len(all))
    IN IF some # <<>> /\ Head(some) \in Numerals \cup {"-"} THEN <<"i", "d", "x", "_">> \o some
       ELSE some

\* The two functions that share that name: of the watcher, and of the pipeline.
Routed(n) == LowerName(Cleared(n))

Documents == <<"d">>                        \* "documents"
Stored(n) == IF Cleared(n) = <<>> THEN Documents ELSE Cleared(n)

\* What the search reads, and what the pipeline creates when it starts: the name
\* of the instance as typed, in lower case for OpenSearch.
ReadQdrant(instance) == instance.name
ReadOpenSearch(instance) == LowerName(instance.name)

\* derive_index_name.  An instance watches its own folder, whose index is its
\* name; or, with MULTI_INDEX_MODE, all folders, each one with its own index.
Default(instance) == LowerName(instance.name)
OrDefault(n, instance) == IF n = <<>> THEN Default(instance) ELSE n
Derived(instance, folder) ==
    IF instance.multi THEN OrDefault(Routed(folder), instance)
    ELSE OrDefault(Routed(Default(instance)), instance)

\* The cleaner uses the derived name as it is, the pipeline treats it again.
WriteQdrant(instance, folder) == Stored(Derived(instance, folder))
WriteOpenSearch(instance, folder) == LowerName(Stored(Derived(instance, folder)))
=============================================================================
