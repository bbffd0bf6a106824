----------------------------- MODULE Questions ------------------------------
(***************************************************************************)
(* From the analysis of a request to the questions that are asked: what    *)
(* query2.py keeps of the object, the reasons and the aspects that the     *)
(* model names, the concrete data it expects of each, and the questions    *)
(* that its templates compose, up to max_questions.                        *)
(*                                                                         *)
(* Words are model values.  The request coordinates some pairs of reasons  *)
(* ("X et Y"), the table gives items to the words that trigger them, and   *)
(* the templates are those of prompts.yaml.                                *)
(***************************************************************************)
EXTENDS Integers, FiniteSets, SequencesExt, Lists

CONSTANTS
    MaxQuestions,   \* max_questions
    ItemsMax,       \* ITEMS_MAX
    Generic,        \* motifs_generiques
    Table,          \* items_par_theme: a sequence of [themes, items]
    Templates       \* the types of object that have a template, each with their number

ASSUME QuestionsAssumption ==
    /\ MaxQuestions \in Nat \ {0} /\ ItemsMax \in Nat
    /\ \A type \in DOMAIN Templates : Templates[type] \in Nat

\* A name is the words that "et" joins in it.
Nothing == <<>>

-----------------------------------------------------------------------------
(* _analyser. *)

\* _filtrer_motifs
Themed(names) == Selected(names, [k \in DOMAIN names |-> names[k] \notin Generic])

\* _regrouper_motifs: two reasons in a row that the request coordinates.
Grouping(names, coordinated, step) ==
    LET F[i \in 1..(Len(names) + 2)] ==
            IF i > Len(names) THEN <<>>
            ELSE IF i < Len(names) /\ <<names[i], names[i + 1]>> \in coordinated
                 THEN <<names[i] \o names[i + 1]>> \o F[i + step]
                 ELSE <<names[i]>> \o F[i + 1]
    IN  F[1]
Regrouped(names, coordinated) == Grouping(names, coordinated, 2)

\* An aspect that says the object again.
Redit(aspect, object) == object # Nothing /\ (PartOf(object, aspect) \/ PartOf(aspect, object))

NewAspects(aspects, object) ==
    Selected(aspects, [k \in DOMAIN aspects |-> ~Redit(aspects[k], object)])

Analysed(reply, coordinated) ==
    [object |-> reply.object,
     type |-> IF reply.type = "" THEN "element" ELSE reply.type,
     motifs |-> Regrouped(Themed(Distinct(reply.motifs)), coordinated),
     aspects |-> NewAspects(Distinct(reply.aspects), reply.object),
     items |-> reply.items]

\* Neither object nor reason: the analysis is of no use.
Readable(a) == a.object # Nothing \/ a.motifs # <<>>

-----------------------------------------------------------------------------
(* _items_attendus. *)

Entries(name, excluded) == {i \in DOMAIN Table \ excluded : Table[i].themes \cap ToSet(name) # {}}
TableItems(name, excluded) ==
    Distinct(FoldLeft(LAMBDA s, i : IF i \in Entries(name, excluded) THEN s \o Table[i].items ELSE s,
                      <<>>, [i \in DOMAIN Table |-> i]))

\* The reply gives items to names; a grouped reason takes those of its parts.
ReplyItems(items, keys) == FlattenSeq([k \in DOMAIN keys |-> IF keys[k] \in DOMAIN items
                                                             THEN items[keys[k]] ELSE <<>>])
Capped(items) == SubSeq(items, 1, Min({ItemsMax, Len(items)}))
Items(name, excluded, given) == Capped(Distinct(TableItems(name, excluded) \o given))

Parts(name) == [k \in DOMAIN name |-> <<name[k]>>]

\* The entries of the table that the object and the reasons have used.
Used(a) ==
    Entries(a.object, {}) \cup UNION {Entries(a.motifs[k], {}) : k \in DOMAIN a.motifs}
UsedBefore(a, k) == Used(a) \cup UNION {Entries(a.aspects[j], Used(a)) : j \in 1..(k - 1)}

ObjectItems(a) == Items(a.object, {}, ReplyItems(a.items, <<a.object>>))
MotifItems(a, k) ==
    Items(a.motifs[k], {}, ReplyItems(a.items, <<a.motifs[k]>> \o Parts(a.motifs[k])))
AspectItems(a, k) == Items(a.aspects[k], UsedBefore(a, k), ReplyItems(a.items, <<a.aspects[k]>>))

-----------------------------------------------------------------------------
(* _composer. *)

\* _gabarits_objet: the type, else the type by default, else nothing.
Gabarits(type) ==
    IF type \in DOMAIN Templates /\ Templates[type] > 0 THEN Templates[type]
    ELSE IF "element" \in DOMAIN Templates THEN Templates["element"] ELSE 0

Question(kind, name, items) == [kind |-> kind, name |-> name, items |-> items]

OnObject(a) ==
    IF a.object = Nothing THEN <<>>
    ELSE [k \in 1..Gabarits(a.type) |-> Question("object", a.object, ObjectItems(a))]
OnMotifs(a) == [k \in DOMAIN a.motifs |-> Question("motif", a.motifs[k], MotifItems(a, k))]
OnAspects(a) ==
    IF a.object = Nothing THEN <<>>
    ELSE [k \in DOMAIN a.aspects |-> Question("aspect", a.aspects[k], AspectItems(a, k))]

\* The object and the reasons go before the aspects.
\* Mutant: the room is what the object leaves.
RoomOfObject(object, motifs) == MaxQuestions - Len(object)
Room(object, motifs) == MaxQuestions - Len(object) - Len(motifs)
First(n, s) == SubSeq(s, 1, Min({n, Len(s)}))
Composer(a) ==
    LET object == OnObject(a)
        motifs == OnMotifs(a)
        aspects == First(Max({0, Room(object, motifs)}), OnAspects(a))
    IN  First(MaxQuestions, object \o aspects \o motifs)
=============================================================================
