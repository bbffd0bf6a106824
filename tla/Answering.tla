----------------------------- MODULE Answering -----------------------------
(***************************************************************************)
(* Requests on POST /api/rag/query and the language model client they      *)
(* share: the pipeline of query2.py (analysis, questions, one guarded      *)
(* answer per question, synthesis) against LLMGenerator (llm.py) and the   *)
(* hot reload of the configuration (api.py).                               *)
(*                                                                         *)
(* The endpoint is a plain `def`, so FastAPI runs each request in a thread *)
(* of its pool; all of them use the one generator of the Retriever.  A     *)
(* text is the set of its defects.  A call to the model is two actions,    *)
(* and each later read of the shared generator an action of its own.       *)
(* Settings are those of settings.yaml: every guard is switched on.        *)
(***************************************************************************)
EXTENDS Naturals, FiniteSets

CONSTANTS
    Requests,      \* requests, each made once
    Threads,       \* size of the pool of threads
    Texts,         \* what the model may return: sets of defects
    Kinds,         \* Requests -> kinds of request it may be, in an instance
    Questions,     \* Requests -> bound on the questions made of the request
    MaxReloads     \* bound on calls of /api/reload-config

Defects == {"esquive", "tronque", "degenere", "hors_lot"}

ASSUME AnsweringAssumption ==
    /\ Texts \subseteq SUBSET Defects
    /\ Kinds \in [Requests -> SUBSET {"direct", "other"}]
    /\ Questions \in [Requests -> Nat \ {0}]
    /\ MaxReloads \in Nat /\ Threads \in Nat

VARIABLES
    generator,     \* retriever.llm_generator: the one in use
    surcharge,     \* generator -> _surcharge: are its options overridden?
    last_usage,    \* generator -> last_usage: "none", "whole" or "cut"
    req,           \* the thread of each request, and its trace
    serial         \* history: nothing has ever overlapped a request

answerVars == <<generator, surcharge, last_usage, req, serial>>

Generators == 0..MaxReloads

\* generate() catches a failed call and answers with the error message.
Erreur == {"erreur"}
AnyText == Texts \cup {Erreur, {}}
Block == [gardes: SUBSET Defects, text: AnyText]

\* The locals of a request: the call being made, the text last received, the
\* one kept in reserve, whether that one was cut, whether the question was
\* evaded, the override to undo; then the blocks and the synthesis.
Thread == [
    at: {"idle", "enter", "call", "wait", "leave", "settle", "done", "failed"},
    call: {"analyse", "formulate", "first", "wider", "again", "write", "rewrite", "retain"},
    deep: BOOLEAN, analysed: BOOLEAN, many: BOOLEAN, left: Nat,
    llm: Generators, inside: BOOLEAN, over: Generators, precedente: BOOLEAN,
    text: AnyText, kept: AnyText, cut: BOOLEAN, esquive: BOOLEAN,
    blocks: SUBSET Block, synthesis: SUBSET AnyText]

NotAsked == [
    at |-> "idle", call |-> "first", deep |-> FALSE, analysed |-> FALSE,
    many |-> FALSE, left |-> 0, llm |-> 0, inside |-> FALSE, over |-> 0,
    precedente |-> FALSE, text |-> {}, kept |-> {}, cut |-> FALSE,
    esquive |-> FALSE, blocks |-> {}, synthesis |-> {}]

AnswerInit ==
    /\ generator = 0
    /\ surcharge = [g \in Generators |-> FALSE]
    /\ last_usage = [g \in Generators |-> "none"]
    /\ req = [r \in Requests |-> NotAsked]
    /\ serial = TRUE

-----------------------------------------------------------------------------
(* Calls to the model. *)

Active(r) == req[r].at \notin {"idle", "done", "failed"}
Becomes(r, t) == req' = [req EXCEPT ![r] = t]
At(r, place, call) == req[r].at = place /\ req[r].call = call

Searching(r) == req[r].call \in {"first", "wider", "again"}

\* _synthetiser takes the generator once; the others take the one in use.
Llm(r) == IF req[r].call \in {"rewrite", "retain"} THEN req[r].llm ELSE generator

\* _call: the last measure is dropped, the options are read, the post leaves.
Post(r) ==
    /\ req[r].at = "call"
    /\ last_usage' = [last_usage EXCEPT ![Llm(r)] = "none"]
    /\ Becomes(r, [req[r] EXCEPT !.at = "wait", !.llm = Llm(r)])
    /\ UNCHANGED <<generator, surcharge, serial>>

Returned(r) == IF req[r].inside THEN "leave" ELSE "settle"

Answered(r) ==
    /\ req[r].at = "wait"
    /\ \E t \in Texts :
         /\ last_usage' = [last_usage EXCEPT
                             ![req[r].llm] = IF "tronque" \in t THEN "cut" ELSE "whole"]
         /\ Becomes(r, [req[r] EXCEPT !.at = Returned(r), !.text = t])
    /\ UNCHANGED <<generator, surcharge, serial>>

\* Timeout or refused connection: last_usage keeps what it has.
CallFails(r) ==
    /\ req[r].at = "wait"
    /\ Becomes(r, [req[r] EXCEPT !.at = Returned(r), !.text = Erreur])
    /\ UNCHANGED <<generator, surcharge, last_usage, serial>>

\* The context manager `surcharge` around a repeated call.
Enter(r) ==
    /\ req[r].at = "enter"
    /\ surcharge' = [surcharge EXCEPT ![generator] = TRUE]
    /\ Becomes(r, [req[r] EXCEPT !.at = "call", !.inside = TRUE, !.over = generator,
                                 !.precedente = surcharge[generator]])
    /\ UNCHANGED <<generator, last_usage, serial>>

\* Its `finally`.  Mutant: the options are only restored by a call that ends.
RestoredOnReturn(r) ==
    IF req[r].inside /\ req[r].at = "leave"
    THEN [surcharge EXCEPT ![req[r].over] = req[r].precedente] ELSE surcharge
Restored(r) ==
    IF req[r].inside
    THEN [surcharge EXCEPT ![req[r].over] = req[r].precedente] ELSE surcharge

Leave(r) ==
    /\ req[r].at = "leave"
    /\ surcharge' = Restored(r)
    /\ Becomes(r, [req[r] EXCEPT !.at = "settle", !.inside = FALSE, !.over = 0,
                                 !.precedente = FALSE])
    /\ UNCHANGED <<generator, last_usage, serial>>

\* The retrieval that precedes a call raises: HTTP 500.
SearchFails(r) ==
    /\ req[r].at = "call" /\ Searching(r)
    /\ surcharge' = Restored(r)
    /\ Becomes(r, [NotAsked EXCEPT !.at = "failed"])
    /\ UNCHANGED <<generator, last_usage, serial>>

-----------------------------------------------------------------------------
(* The pipeline of one request. *)

Calls(t, call) == [t EXCEPT !.at = "call", !.call = call, !.text = {}]
Repeats(t, call) == [t EXCEPT !.at = "enter", !.call = call, !.text = {}]
Ends(t) == [NotAsked EXCEPT !.at = "done", !.blocks = t.blocks, !.synthesis = t.synthesis]

\* A thread of the pool is free.  A direct question is asked as it is; any other request is analysed first.
Ask(r) ==
    /\ req[r].at = "idle" /\ Cardinality({s \in Requests : Active(s)}) < Threads
    /\ \E deep \in BOOLEAN :
         \/ /\ "direct" \in Kinds[r]
            /\ Becomes(r, [Calls(NotAsked, "first") EXCEPT !.deep = deep, !.left = 1])
         \/ /\ "other" \in Kinds[r]
            /\ Becomes(r, [Calls(NotAsked, "analyse") EXCEPT !.deep = deep])
    /\ serial' = (serial /\ \A s \in Requests : ~Active(s))
    /\ UNCHANGED <<generator, surcharge, last_usage>>

Questioned(t, n) ==
    [Calls(t, "first") EXCEPT !.left = n, !.many = n > 1]

\* The analysis is unusable, or makes questions, or makes none.
Analysed(r) ==
    /\ At(r, "settle", "analyse")
    /\ \/ Becomes(r, Calls(req[r], "formulate"))
       \/ /\ req[r].text # Erreur
          /\ Becomes(r, [Calls(req[r], "formulate") EXCEPT !.analysed = TRUE])
       \/ /\ req[r].text # Erreur
          /\ \E n \in 1..Questions[r] :
               Becomes(r, [Questioned(req[r], n) EXCEPT !.analysed = TRUE])
    /\ UNCHANGED <<generator, surcharge, last_usage, serial>>

Formulated(r) ==
    /\ At(r, "settle", "formulate")
    /\ \E n \in 1..Questions[r] :
         /\ req[r].text = Erreur => n = 1
         /\ Becomes(r, Questioned(req[r], n))
    /\ UNCHANGED <<generator, surcharge, last_usage, serial>>

\* _usage().get("tronque"), on the generator in use.
Cut == last_usage[generator] = "cut"
Bad(text, cut) == cut \/ "degenere" \in text

\* The block of a question ends with the text `text`; all questions answered,
\* an analysed request with several blocks is written up.
Gardes(text, cut, esquive) ==
    (text \cap {"degenere", "hors_lot"})
        \cup (IF cut THEN {"tronque"} ELSE {}) \cup (IF esquive THEN {"esquive"} ELSE {})
Closed(t, text, cut, esquive) ==
    LET u == [t EXCEPT !.blocks = @ \cup {[gardes |-> Gardes(text, cut, esquive), text |-> text]},
                       !.left = @ - 1, !.kept = {}, !.cut = FALSE, !.esquive = FALSE, !.llm = 0]
    IN  IF t.left > 1 THEN Calls(u, "first")
        ELSE IF t.many /\ t.analysed THEN Calls(u, "write")
        ELSE Ends(u)

\* Guard 2 of a block: a cut or looping text is asked again under penalty.
Judged(t, text, cut, esquive) ==
    IF Bad(text, cut)
    THEN Repeats([t EXCEPT !.kept = text, !.cut = cut, !.esquive = esquive], "again")
    ELSE Closed(t, text, cut, esquive)

\* Guard 1: an evasion is asked again with the wider profile.
\* Mutant: whatever the call was.
FirstOrWider(r) ==
    /\ req[r].at = "settle" /\ req[r].call \in {"first", "wider"}
    /\ Becomes(r, IF "esquive" \in req[r].text /\ ~req[r].deep
                  THEN [Calls(req[r], "wider") EXCEPT !.kept = req[r].text, !.cut = Cut]
                  ELSE Judged(req[r], req[r].text, Cut, "esquive" \in req[r].text))
    /\ UNCHANGED <<generator, surcharge, last_usage, serial>>
First(r) ==
    /\ At(r, "settle", "first")
    /\ Becomes(r, IF "esquive" \in req[r].text /\ ~req[r].deep
                  THEN [Calls(req[r], "wider") EXCEPT !.kept = req[r].text, !.cut = Cut]
                  ELSE Judged(req[r], req[r].text, Cut, "esquive" \in req[r].text))
    /\ UNCHANGED <<generator, surcharge, last_usage, serial>>

Wider(r) ==
    /\ At(r, "settle", "wider")
    /\ Becomes(r, IF "esquive" \in req[r].text
                  THEN Judged(req[r], req[r].kept, req[r].cut, TRUE)
                  ELSE Judged(req[r], req[r].text, Cut, FALSE))
    /\ UNCHANGED <<generator, surcharge, last_usage, serial>>

\* The repeated answer is taken when it is whole and does not evade.
\* Mutant: the measure of the repeated call is not looked at.
AgainBlindly(r) ==
    /\ At(r, "settle", "again")
    /\ Becomes(r, IF ~Bad(req[r].text, FALSE) /\ "esquive" \notin req[r].text
                  THEN Closed(req[r], req[r].text, FALSE, req[r].esquive)
                  ELSE Closed(req[r], req[r].kept, req[r].cut, req[r].esquive))
    /\ UNCHANGED <<generator, surcharge, last_usage, serial>>
Again(r) ==
    /\ At(r, "settle", "again")
    /\ Becomes(r, IF ~Bad(req[r].text, Cut) /\ "esquive" \notin req[r].text
                  THEN Closed(req[r], req[r].text, FALSE, req[r].esquive)
                  ELSE Closed(req[r], req[r].kept, req[r].cut, req[r].esquive))
    /\ UNCHANGED <<generator, surcharge, last_usage, serial>>

\* _synthetiser: None, or a text that goes through the retention guard.
Delivered(t, text) == Ends([t EXCEPT !.synthesis = {text}])
Weighed(r, text) ==
    \/ Becomes(r, Delivered(req[r], text))
    \/ Becomes(r, [Calls(req[r], "retain") EXCEPT !.kept = text])

Written(r) ==
    /\ At(r, "settle", "write")
    /\ \/ req[r].text = Erreur /\ Becomes(r, Ends(req[r]))
       \/ /\ req[r].text # Erreur /\ Bad(req[r].text, Cut)
          /\ Becomes(r, Repeats([req[r] EXCEPT !.kept = req[r].text], "rewrite"))
       \/ req[r].text # Erreur /\ ~Bad(req[r].text, Cut) /\ Weighed(r, req[r].text)
    /\ UNCHANGED <<generator, surcharge, last_usage, serial>>

\* Whole(r): the text of a repeated synthesis may replace the first.
Whole(r) == req[r].text # Erreur /\ ~Bad(req[r].text, Cut)

Rewritten(r) ==
    /\ At(r, "settle", "rewrite")
    /\ \/ Whole(r) /\ Weighed(r, req[r].text)
       \/ ~Whole(r) /\ Becomes(r, Ends(req[r]))
    /\ UNCHANGED <<generator, surcharge, last_usage, serial>>

Retained(r) ==
    /\ At(r, "settle", "retain")
    /\ \/ Becomes(r, Delivered(req[r], req[r].kept))
       \/ Whole(r) /\ Becomes(r, Delivered(req[r], req[r].text))
    /\ UNCHANGED <<generator, surcharge, last_usage, serial>>

Reload ==
    /\ generator < MaxReloads
    /\ generator' = generator + 1
    /\ serial' = (serial /\ \A s \in Requests : ~Active(s))
    /\ UNCHANGED <<surcharge, last_usage, req>>

Step(r) ==
    \/ Post(r) \/ Answered(r) \/ CallFails(r) \/ Enter(r) \/ Leave(r) \/ SearchFails(r)
    \/ Analysed(r) \/ Formulated(r) \/ First(r) \/ Wider(r) \/ Again(r)
    \/ Written(r) \/ Rewritten(r) \/ Retained(r)

AnswerNext ==
    \/ \E r \in Requests : Ask(r) \/ Step(r)
    \/ Reload

AnswerSpec == AnswerInit /\ [][AnswerNext]_answerVars

\* A call to the model ends, were it by its timeout, and threads run.
Fairness == \A r \in Requests : WF_answerVars(Step(r))
AnswerFairSpec == AnswerSpec /\ Fairness

-----------------------------------------------------------------------------
(* The contract of a finished request (run, _verdict, service.query). *)

\* Mutant: the synthesis is left out of the verdict.
VerdictOfBlocks(r) ==
    IF \A b \in req[r].blocks : "esquive" \in b.gardes THEN "NON_COUVERT"
    ELSE IF \E b \in req[r].blocks : b.gardes # {} THEN "PARTIEL" ELSE "COUVERT"
Verdict(r) ==
    IF \A b \in req[r].blocks : "esquive" \in b.gardes THEN "NON_COUVERT"
    ELSE IF \/ \E b \in req[r].blocks : b.gardes # {}
            \/ \E t \in req[r].synthesis : "hors_lot" \in t
         THEN "PARTIEL" ELSE "COUVERT"

Controles(r) ==
    UNION {b.gardes : b \in req[r].blocks}
        \cup {"hors_lot" : t \in {u \in req[r].synthesis : "hors_lot" \in u}}

-----------------------------------------------------------------------------
(* Properties. *)

\* Domains of the shared generator and of the threads.
TypeOK ==
    /\ generator \in Generators
    /\ surcharge \in [Generators -> BOOLEAN]
    /\ last_usage \in [Generators -> {"none", "whole", "cut"}]
    /\ \A r \in Requests :
         /\ DOMAIN req[r] = DOMAIN NotAsked
         /\ req[r].left <= Questions[r]
         /\ req[r].inside => req[r].call \in {"again", "rewrite"}
    /\ serial \in BOOLEAN

\* A verdict COUVERT, which the service projects to SUFFISANT, is a promise on
\* every text delivered, through whichever calls it came: no guard is in
\* `controles` and, as long as requests do not overlap, no answer has a defect
\* and the synthesis is whole and keeps to the batch.
SufficientIsClean ==
    \A r \in Requests :
      req[r].at = "done" /\ Verdict(r) = "COUVERT" =>
        /\ Controles(r) = {}
        /\ serial => /\ \A b \in req[r].blocks : b.text \cap Defects = {}
                     /\ \A t \in req[r].synthesis : t \cap Defects \subseteq {"esquive"}

\* As long as requests do not overlap, no defect of a delivered text escapes
\* the guards: whichever of the three answers of a question is kept, the
\* measure that goes with it is the one looked at.
NothingHidden ==
    serial => \A r \in Requests :
      /\ \A b \in req[r].blocks : b.text \cap Defects \subseteq b.gardes
      /\ \A t \in req[r].synthesis : t \cap {"tronque", "degenere"} = {}

\* As long as requests do not overlap, the options of a generator are
\* overridden during a repeated call and at no other time, whatever fails.
OverrideIsScoped ==
    serial => \A g \in Generators :
      surcharge[g] = (\E r \in Requests : req[r].inside /\ req[r].over = g)

\* A request makes a bounded number of calls and ends.
RequestsEnd == \A r \in Requests : []<>~Active(r)

\* The docstring of `surcharge`, "Surcharge temporaire des options": when no
\* request is inside the context manager, no generator is overridden.
OverrideIsTemporary ==
    (\A r \in Requests : ~req[r].inside) => \A g \in Generators : ~surcharge[g]
=============================================================================
