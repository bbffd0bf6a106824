-------------------------- MODULE AnsweringProofs --------------------------
(***************************************************************************)
(* The safety invariants of Answering, for any number of requests, of      *)
(* questions of a request, of threads and of reloads, and any texts.       *)
(*                                                                         *)
(* AInv is about the object that requests share: while they are serial, at *)
(* most one is active, so an override finds nothing to save but "none" and *)
(* puts that back.  HInv is about the texts: the thread that reads the     *)
(* measure after a call still has the generator that it called (nothing    *)
(* was reloaded, nobody else called), and an answer kept in reserve has    *)
(* its own measure next to it.                                             *)
(***************************************************************************)
EXTENDS Answering, Integers, TLAPS

\* A thread is a record; the invariants of its override and of its questions.
Fields == {"at", "call", "deep", "analysed", "many", "left", "llm", "inside", "over",
           "precedente", "text", "kept", "cut", "esquive", "blocks", "synthesis"}

Repeated == {"again", "rewrite"}

Good(r, t) ==
    /\ t = [f \in Fields |-> t[f]]
    /\ t.inside \in BOOLEAN /\ t.over \in Generators /\ t.precedente \in BOOLEAN
    /\ t.left \in Int /\ t.left <= Questions[r]
    /\ t.inside => t.at \in {"call", "wait", "leave"} /\ t.call \in Repeated
    /\ t.at = "enter" => t.call \in Repeated

\* Not in the context manager of the override.
Outside(r, t) == Good(r, t) /\ t.inside = FALSE

LEMMA Starts ==
    ASSUME NEW r \in Requests
    PROVE  Outside(r, NotAsked) /\ DOMAIN NotAsked = Fields
    <1>1. Questions[r] \in Nat \ {0} /\ MaxReloads \in Nat
        BY AnsweringAssumption
    <1>2. NotAsked = [f \in Fields |-> NotAsked[f]] /\ DOMAIN NotAsked = Fields
        BY DEF NotAsked, Fields
    <1> QED
        BY <1>1, <1>2 DEF Outside, Good, NotAsked, Generators

LEMMA CallsGood ==
    ASSUME NEW r \in Requests, NEW t, Outside(r, t), NEW c
    PROVE  Outside(r, Calls(t, c)) /\ Calls(t, c).at = "call"
    BY DEF Outside, Good, Calls, Fields

LEMMA RepeatsGood ==
    ASSUME NEW r \in Requests, NEW t, Outside(r, t), NEW c \in Repeated
    PROVE  Outside(r, Repeats(t, c)) /\ Repeats(t, c).at = "enter"
    BY DEF Outside, Good, Repeats, Fields

LEMMA EndsGood ==
    ASSUME NEW r \in Requests, NEW t
    PROVE  Outside(r, Ends(t))
    BY Starts DEF Outside, Good, Ends, NotAsked, Fields

\* Another count of questions left.
LEMMA LeftGood ==
    ASSUME NEW r \in Requests, NEW t, Outside(r, t), NEW u,
           u = [f \in Fields |-> u[f]], u.left \in Int, u.left <= Questions[r],
           \A f \in {"inside", "over", "precedente", "at", "call"} : u[f] = t[f]
    PROVE  Outside(r, u)
    BY DEF Outside, Good

LEMMA ClosedGood ==
    ASSUME NEW r \in Requests, NEW t, Outside(r, t), NEW x, NEW c, NEW e
    PROVE  Outside(r, Closed(t, x, c, e))
    <1> DEFINE u == [t EXCEPT !.blocks = @ \cup {[gardes |-> Gardes(x, c, e), text |-> x]},
                       !.left = @ - 1, !.kept = {}, !.cut = FALSE, !.esquive = FALSE, !.llm = 0]
    <1>1. Outside(r, u)
        <2>1. u = [f \in Fields |-> u[f]]
            BY DEF Outside, Good, Fields
        <2>2. u.left = t.left - 1 /\ \A f \in {"inside", "over", "precedente", "at", "call"} : u[f] = t[f]
            BY DEF Outside, Good, Fields
        <2>3. Questions[r] \in Nat
            BY AnsweringAssumption
        <2> HIDE DEF u
        <2>4. u.left \in Int /\ u.left <= Questions[r]
            BY <2>2, <2>3 DEF Outside, Good
        <2>5. QED BY <2>1, <2>2, <2>4, LeftGood
    <1>2. Closed(t, x, c, e) \in {Calls(u, "first"), Calls(u, "write"), Ends(u)}
        BY DEF Closed
    <1> HIDE DEF u
    <1> QED
        BY <1>1, <1>2, CallsGood, EndsGood

LEMMA JudgedGood ==
    ASSUME NEW r \in Requests, NEW t, Outside(r, t), NEW x, NEW c, NEW e
    PROVE  Outside(r, Judged(t, x, c, e))
    <1> DEFINE u == [t EXCEPT !.kept = x, !.cut = c, !.esquive = e]
    <1>1. Outside(r, u)
        BY DEF Outside, Good, Fields
    <1>2. Judged(t, x, c, e) \in {Repeats(u, "again"), Closed(t, x, c, e)}
        BY DEF Judged
    <1> HIDE DEF u
    <1> QED
        BY <1>1, <1>2, RepeatsGood, ClosedGood DEF Repeated

-----------------------------------------------------------------------------
(* The shared generator. *)

Exclusive == serial => \A r, s \in Requests : Active(r) /\ Active(s) => r = s

\* Nobody enters the override of another.
NothingToRestore == serial => \A r \in Requests : req[r].inside => req[r].precedente = FALSE

\* Both directions of OverrideIsScoped.
Scoped ==
    serial =>
      /\ \A r \in Requests : req[r].inside => surcharge[req[r].over] = TRUE
      /\ \A g \in Generators :
           (\A r \in Requests : req[r].inside => req[r].over # g) => surcharge[g] = FALSE

AInv ==
    /\ generator \in Generators
    /\ surcharge \in [Generators -> BOOLEAN]
    /\ last_usage \in [Generators -> {"none", "whole", "cut"}]
    /\ serial \in BOOLEAN
    /\ req = [r \in Requests |-> req[r]]
    /\ \A r \in Requests : Good(r, req[r])
    /\ Exclusive
    /\ NothingToRestore
    /\ Scoped

LEMMA InsideIsActive ==
    ASSUME NEW r \in Requests, Good(r, req[r]), req[r].inside
    PROVE  Active(r)
    BY DEF Good, Active

\* A step of one thread that leaves its override, and the shared object, alone.
LEMMA Moves ==
    ASSUME AInv, NEW r \in Requests, NEW t, Becomes(r, t), Good(r, t), Active(r),
           t.inside = req[r].inside,
           t.inside => t.over = req[r].over /\ t.precedente = req[r].precedente,
           last_usage' \in [Generators -> {"none", "whole", "cut"}],
           UNCHANGED <<generator, surcharge, serial>>
    PROVE  AInv'
    <1>1. /\ req' = [s \in Requests |-> req'[s]] /\ req'[r] = t
          /\ \A s \in Requests \ {r} : req'[s] = req[s]
        BY DEF AInv, Becomes
    <1>2. \A s \in Requests : Good(s, req[s])'
        BY <1>1 DEF AInv, Good, Generators
    <1>3. Exclusive'
        BY <1>1 DEF AInv, Exclusive, Active
    <1>4. NothingToRestore'
        BY <1>1 DEF AInv, NothingToRestore
    <1>5. Scoped'
        BY <1>1 DEF AInv, Scoped, Generators
    <1> QED
        BY <1>1, <1>2, <1>3, <1>4, <1>5 DEF AInv, Generators

\* A step of the pipeline, between two calls.
LEMMA MovesOutside ==
    ASSUME AInv, NEW r \in Requests, NEW t, Becomes(r, t), Outside(r, t),
           req[r].at = "settle", UNCHANGED <<generator, surcharge, last_usage, serial>>
    PROVE  AInv'
    <1>1. Good(r, req[r]) /\ Good(r, t) /\ t.inside = FALSE
        BY DEF AInv, Outside
    <1>2. req[r].inside = FALSE /\ Active(r)
        BY <1>1 DEF Good, Active
    <1> QED
        BY <1>1, <1>2, Moves DEF AInv

LEMMA SettledIsOutside ==
    ASSUME AInv, NEW r \in Requests, req[r].at = "settle"
    PROVE  Outside(r, req[r])
    BY DEF AInv, Outside, Good

LEMMA AInvPipeline ==
    ASSUME AInv, NEW r \in Requests,
           Analysed(r) \/ Formulated(r) \/ First(r) \/ Wider(r) \/ Again(r)
              \/ Written(r) \/ Rewritten(r) \/ Retained(r)
    PROVE  AInv'
    <1>0. /\ req[r].at = "settle"
          /\ UNCHANGED <<generator, surcharge, last_usage, serial>>
        BY DEF Analysed, Formulated, First, Wider, Again, Written, Rewritten, Retained, At
    <1> DEFINE t == req[r]
    <1>a. Outside(r, t)
        BY <1>0, SettledIsOutside
    <1>b. SUFFICES \E u : Becomes(r, u) /\ Outside(r, u)
        BY <1>0, MovesOutside
    <1>c. ASSUME NEW n \in 1..Questions[r] PROVE Outside(r, Questioned(t, n))
        <2> DEFINE c == Calls(t, "first")
        <2>1. Outside(r, c)
            BY <1>a, CallsGood
        <2>2. Questions[r] \in Nat
            BY AnsweringAssumption
        <2> HIDE DEF c, t
        <2>3. ASSUME NEW b PROVE Outside(r, [c EXCEPT !.left = n, !.many = b])
            <3> DEFINE u == [c EXCEPT !.left = n, !.many = b]
            <3>1. u = [f \in Fields |-> u[f]]
                BY <2>1 DEF Outside, Good, Fields
            <3>2. u.left = n /\ \A f \in {"inside", "over", "precedente", "at", "call"} : u[f] = c[f]
                BY <2>1 DEF Outside, Good, Fields
            <3>3. n \in Int /\ n <= Questions[r]
                BY <2>2
            <3> HIDE DEF u
            <3>4. Outside(r, u)
                BY <2>1, <3>1, <3>2, <3>3, LeftGood
            <3>5. QED BY <3>4 DEF u
        <2>4. QED BY <2>3 DEF Questioned, c
    <1>d. ASSUME NEW u, Outside(r, u) PROVE Outside(r, [u EXCEPT !.analysed = TRUE])
        BY <1>d DEF Outside, Good, Fields
    <1>e. ASSUME NEW x, NEW c PROVE Outside(r, [t EXCEPT !.kept = x, !.cut = c])
        BY <1>a DEF Outside, Good, Fields
    <1>f. ASSUME NEW x PROVE Outside(r, [t EXCEPT !.kept = x])
        BY <1>a DEF Outside, Good, Fields
    <1>g. ASSUME NEW x PROVE Outside(r, [Calls(t, "retain") EXCEPT !.kept = x])
        <2>1. Outside(r, Calls(t, "retain"))
            BY <1>a, CallsGood
        <2>2. QED BY <2>1 DEF Outside, Good, Fields
    <1>h. ASSUME NEW x PROVE Outside(r, Delivered(t, x))
        BY EndsGood DEF Delivered
    <1>i. ASSUME NEW x, Weighed(r, x) PROVE \E u : Becomes(r, u) /\ Outside(r, u)
        BY <1>i, <1>g, <1>h DEF Weighed
    <1>1. CASE Analysed(r)
        BY <1>1, <1>a, <1>c, <1>d, CallsGood DEF Analysed
    <1>2. CASE Formulated(r)
        BY <1>2, <1>c DEF Formulated
    <1>3. CASE First(r)
        <2>1. CASE "esquive" \in req[r].text /\ ~req[r].deep
            <3>1. Becomes(r, [Calls(t, "wider") EXCEPT !.kept = t.text, !.cut = Cut])
                BY <1>3, <2>1 DEF First
            <3>2. Outside(r, Calls(t, "wider"))
                BY <1>a, CallsGood
            <3>3. Outside(r, [Calls(t, "wider") EXCEPT !.kept = t.text, !.cut = Cut])
                BY <3>2 DEF Outside, Good, Fields
            <3>4. QED BY <3>1, <3>3
        <2>2. CASE ~("esquive" \in req[r].text /\ ~req[r].deep)
            BY <1>3, <2>2, <1>a, JudgedGood DEF First
        <2>3. QED BY <2>1, <2>2
    <1>4. CASE Wider(r)
        BY <1>4, <1>a, JudgedGood DEF Wider
    <1>5. CASE Again(r)
        BY <1>5, <1>a, ClosedGood DEF Again
    <1>6. CASE Written(r)
        <2>1. Outside(r, Repeats([t EXCEPT !.kept = t.text], "rewrite"))
            BY <1>f, RepeatsGood DEF Repeated
        <2>2. QED BY <1>6, <1>i, <2>1, EndsGood DEF Written
    <1>7. CASE Rewritten(r)
        BY <1>7, <1>i, EndsGood DEF Rewritten
    <1>8. CASE Retained(r)
        BY <1>8, <1>h DEF Retained
    <1> QED
        BY <1>1, <1>2, <1>3, <1>4, <1>5, <1>6, <1>7, <1>8

LEMMA AInvCall ==
    ASSUME AInv, NEW r \in Requests, Post(r) \/ Answered(r) \/ CallFails(r)
    PROVE  AInv'
    <1> DEFINE t == req[r]
    <1>0. Good(r, t) /\ Active(r)
        BY DEF AInv, Post, Answered, CallFails, Active
    <1>2. CASE Post(r)
        <2> DEFINE u == [t EXCEPT !.at = "wait", !.llm = Llm(r)]
        <2>1. /\ Becomes(r, u) /\ UNCHANGED <<generator, surcharge, serial>>
              /\ last_usage' = [last_usage EXCEPT ![Llm(r)] = "none"] /\ t.at = "call"
            BY <1>2 DEF Post
        <2>2. Good(r, u) /\ u.inside = t.inside /\ u.over = t.over /\ u.precedente = t.precedente
            BY <1>0, <2>1 DEF Good, Fields
        <2>3. last_usage' \in [Generators -> {"none", "whole", "cut"}]
            BY <2>1 DEF AInv
        <2> HIDE DEF u
        <2>4. QED BY <1>0, <2>1, <2>2, <2>3, Moves
    <1>3. ASSUME NEW x, NEW v \in {"none", "whole", "cut"},
                 t.at = "wait", Becomes(r, [t EXCEPT !.at = Returned(r), !.text = x]),
                 \/ last_usage' = [last_usage EXCEPT ![t.llm] = v]
                 \/ last_usage' = last_usage,
                 UNCHANGED <<generator, surcharge, serial>>
          PROVE  AInv'
        <2> DEFINE u == [t EXCEPT !.at = Returned(r), !.text = x]
        <2>2. Good(r, u) /\ u.inside = t.inside /\ u.over = t.over /\ u.precedente = t.precedente
            BY <1>0, <1>3 DEF Good, Fields, Returned
        <2>3. last_usage' \in [Generators -> {"none", "whole", "cut"}]
            BY <1>3 DEF AInv
        <2> HIDE DEF u
        <2>4. Becomes(r, u)
            BY <1>3 DEF u
        <2>5. QED BY <1>0, <1>3, <2>2, <2>3, <2>4, Moves
    <1>4. CASE Answered(r)
        <2>1. PICK x \in Texts :
                 /\ last_usage' = [last_usage EXCEPT
                                     ![t.llm] = IF "tronque" \in x THEN "cut" ELSE "whole"]
                 /\ Becomes(r, [t EXCEPT !.at = Returned(r), !.text = x])
            BY <1>4 DEF Answered
        <2>2. t.at = "wait" /\ UNCHANGED <<generator, surcharge, serial>>
            BY <1>4 DEF Answered
        <2>3. QED BY <1>3, <2>1, <2>2
    <1>5. CASE CallFails(r)
        <2>1. /\ t.at = "wait" /\ Becomes(r, [t EXCEPT !.at = Returned(r), !.text = Erreur])
              /\ last_usage' = last_usage /\ UNCHANGED <<generator, surcharge, serial>>
            BY <1>5 DEF CallFails
        <2>2. QED BY <1>3, <2>1
    <1> QED
        BY <1>2, <1>4, <1>5

\* The entry of the override: nobody else is inside while requests are serial.
LEMMA AInvEnter ==
    ASSUME AInv, NEW r \in Requests, Enter(r)
    PROVE  AInv'
    <1> DEFINE t == req[r]
               u == [t EXCEPT !.at = "call", !.inside = TRUE, !.over = generator,
                              !.precedente = surcharge[generator]]
    <1>0. /\ t.at = "enter" /\ Good(r, t) /\ t.inside = FALSE /\ Active(r)
          /\ surcharge' = [surcharge EXCEPT ![generator] = TRUE]
          /\ UNCHANGED <<generator, last_usage, serial>> /\ Becomes(r, u)
        BY DEF Enter, AInv, Good, Active
    <1>1. /\ Good(r, u) /\ u.inside = TRUE /\ u.over = generator /\ u.at = "call"
          /\ u.precedente = surcharge[generator]
        BY <1>0 DEF Good, Fields, AInv
    <1> HIDE DEF u
    <1>2. /\ req' = [s \in Requests |-> req'[s]] /\ req'[r] = u
          /\ \A s \in Requests \ {r} : req'[s] = req[s]
        BY <1>0 DEF AInv, Becomes
    <1>3. serial => \A s \in Requests : req[s].inside = FALSE
        BY <1>0, InsideIsActive DEF AInv, Exclusive, Good
    <1>4. \A s \in Requests : Good(s, req[s])'
        BY <1>0, <1>1, <1>2, SMTT(20) DEF AInv, Good, Generators
    <1>5. Exclusive'
        BY <1>0, <1>1, <1>2 DEF AInv, Exclusive, Active
    <1>6. NothingToRestore'
        <2>1. serial => u.precedente = FALSE
            BY <1>1, <1>3 DEF AInv, Scoped
        <2>2. QED BY <1>0, <1>2, <1>3, <2>1 DEF NothingToRestore
    <1>7. Scoped'
        BY <1>0, <1>1, <1>2, <1>3 DEF AInv, Scoped, Generators
    <1>8. surcharge' \in [Generators -> BOOLEAN]
        BY <1>0 DEF AInv
    <1> QED
        BY <1>0, <1>2, <1>4, <1>5, <1>6, <1>7, <1>8 DEF AInv, Generators

\* The `finally` of the override, reached by a return or by an exception.
LEMMA Restores ==
    ASSUME AInv, NEW r \in Requests, NEW u, Becomes(r, u), Outside(r, u), Active(r),
           surcharge' = Restored(r), UNCHANGED <<generator, last_usage, serial>>
    PROVE  AInv'
    <1> DEFINE t == req[r]
    <1>0. Good(r, t) /\ Good(r, u) /\ u.inside = FALSE
        BY DEF AInv, Outside
    <1>2. /\ req' = [s \in Requests |-> req'[s]] /\ req'[r] = u
          /\ \A s \in Requests \ {r} : req'[s] = req[s]
        BY DEF AInv, Becomes
    <1>3. serial => \A s \in Requests \ {r} : req[s].inside = FALSE
        BY InsideIsActive DEF AInv, Exclusive, Good
    <1>4. \A s \in Requests : Good(s, req[s])'
        BY <1>0, <1>2 DEF AInv, Good, Generators
    <1>5. Exclusive'
        BY <1>2 DEF AInv, Exclusive, Active
    <1>6. NothingToRestore'
        BY <1>0, <1>2, <1>3 DEF NothingToRestore
    <1>7. surcharge' \in [Generators -> BOOLEAN]
        BY <1>0 DEF AInv, Restored, Good
    <1>8. Scoped'
        <2>1. serial => \A g \in Generators : surcharge'[g] = FALSE
            <3>1. CASE t.inside
                BY <1>0, <1>3, <3>1 DEF AInv, Restored, Scoped, NothingToRestore, Good
            <3>2. CASE ~t.inside
                BY <1>0, <1>3, <3>2 DEF AInv, Restored, Scoped, Good
            <3>3. QED BY <3>1, <3>2
        <2>2. serial => \A s \in Requests : req'[s].inside = FALSE
            BY <1>0, <1>2, <1>3
        <2>3. QED BY <2>1, <2>2 DEF Scoped, Generators
    <1> QED
        BY <1>2, <1>4, <1>5, <1>6, <1>7, <1>8 DEF AInv, Generators

LEMMA AInvLeave ==
    ASSUME AInv, NEW r \in Requests, Leave(r) \/ SearchFails(r)
    PROVE  AInv'
    <1> DEFINE t == req[r]
    <1>0. /\ Good(r, t) /\ Active(r) /\ surcharge' = Restored(r)
          /\ UNCHANGED <<generator, last_usage, serial>>
        BY DEF AInv, Leave, SearchFails, Active
    <1>1. CASE Leave(r)
        <2> DEFINE u == [t EXCEPT !.at = "settle", !.inside = FALSE, !.over = 0,
                                  !.precedente = FALSE]
        <2>1. Becomes(r, u)
            BY <1>1 DEF Leave
        <2>2. 0 \in Generators
            BY AnsweringAssumption DEF Generators
        <2>3. Outside(r, u)
            BY <1>0, <2>2 DEF Outside, Good, Fields
        <2> HIDE DEF u
        <2>4. QED BY <1>0, <2>1, <2>3, Restores
    <1>2. CASE SearchFails(r)
        <2> DEFINE u == [NotAsked EXCEPT !.at = "failed"]
        <2>1. Becomes(r, u)
            BY <1>2 DEF SearchFails
        <2>2. Outside(r, NotAsked)
            BY Starts
        <2>3. Outside(r, u)
            BY <2>2 DEF Outside, Good, Fields
        <2> HIDE DEF u
        <2>4. QED BY <1>0, <2>1, <2>3, Restores
    <1> QED
        BY <1>1, <1>2

\* A request starts: it is the only active one, or requests overlap from now on.
LEMMA AInvAsk ==
    ASSUME AInv, NEW r \in Requests, Ask(r)
    PROVE  AInv'
    <1>0. /\ req[r].at = "idle" /\ Good(r, req[r])
          /\ serial' = (serial /\ \A s \in Requests : ~Active(s))
          /\ UNCHANGED <<generator, surcharge, last_usage>>
        BY DEF Ask, AInv
    <1>1. PICK u : Becomes(r, u) /\ Outside(r, u)
        <2>0. /\ Outside(r, NotAsked) /\ 1 <= Questions[r]
            BY Starts, AnsweringAssumption
        <2>1. PICK deep \in BOOLEAN :
                 \/ Becomes(r, [Calls(NotAsked, "first") EXCEPT !.deep = deep, !.left = 1])
                 \/ Becomes(r, [Calls(NotAsked, "analyse") EXCEPT !.deep = deep])
            BY DEF Ask
        <2>2. \A c : Outside(r, Calls(NotAsked, c))
            BY <2>0, CallsGood
        <2> DEFINE f == Calls(NotAsked, "first")
                   a == Calls(NotAsked, "analyse")
        <2>3. Outside(r, f) /\ Outside(r, a)
            BY <2>2
        <2> HIDE DEF f, a
        <2>4. Outside(r, [f EXCEPT !.deep = deep, !.left = 1])
            <3> DEFINE v == [f EXCEPT !.deep = deep, !.left = 1]
            <3>1. v = [x \in Fields |-> v[x]]
                BY <2>3 DEF Outside, Good, Fields
            <3>2. v.left = 1 /\ \A x \in {"inside", "over", "precedente", "at", "call"} : v[x] = f[x]
                BY <2>3 DEF Outside, Good, Fields
            <3> HIDE DEF v
            <3>3. Outside(r, v)
                BY <2>0, <2>3, <3>1, <3>2, LeftGood
            <3>4. QED BY <3>3 DEF v
        <2>5. Outside(r, [a EXCEPT !.deep = deep])
            BY <2>3 DEF Outside, Good, Fields
        <2>6. QED BY <2>1, <2>4, <2>5 DEF f, a
    <1>2. /\ req' = [s \in Requests |-> req'[s]] /\ req'[r] = u
          /\ \A s \in Requests \ {r} : req'[s] = req[s]
        BY <1>1 DEF AInv, Becomes
    <1>3. Good(r, u) /\ u.inside = FALSE /\ req[r].inside = FALSE
        BY <1>0, <1>1 DEF Outside, Good
    <1>4. \A s \in Requests : Good(s, req[s])'
        BY <1>0, <1>2, <1>3 DEF AInv, Good, Generators
    <1>5. serial' \in BOOLEAN /\ (serial' => serial)
        BY <1>0
    <1>6. serial' => \A s \in Requests : ~Active(s)
        BY <1>0
    <1>7. Exclusive'
        BY <1>2, <1>6 DEF Exclusive, Active
    <1>8. NothingToRestore'
        BY <1>2, <1>3, <1>5 DEF AInv, NothingToRestore
    <1>9. Scoped'
        BY <1>0, <1>2, <1>3, <1>5 DEF AInv, Scoped, Generators
    <1> QED
        BY <1>0, <1>2, <1>4, <1>5, <1>7, <1>8, <1>9 DEF AInv, Generators

LEMMA AInvReload ==
    ASSUME AInv, Reload
    PROVE  AInv'
    <1>0. /\ generator < MaxReloads /\ generator' = generator + 1
          /\ serial' \in BOOLEAN /\ (serial' => serial)
          /\ UNCHANGED <<surcharge, last_usage, req>>
        BY DEF Reload, AInv
    <1>1. generator' \in Generators
        BY <1>0, AnsweringAssumption DEF AInv, Generators
    <1>2. \A s \in Requests : Good(s, req[s])'
        BY <1>0 DEF AInv, Good, Generators
    <1>3. Exclusive' /\ NothingToRestore' /\ Scoped'
        BY <1>0 DEF AInv, Exclusive, Active, NothingToRestore, Scoped, Generators
    <1> QED
        BY <1>0, <1>1, <1>2, <1>3 DEF AInv, Generators

-----------------------------------------------------------------------------
LEMMA AInvInit == AnswerInit => AInv
    <1> SUFFICES ASSUME AnswerInit PROVE AInv
        OBVIOUS
    <1>0. 0 \in Generators
        BY AnsweringAssumption DEF Generators
    <1>1. req = [r \in Requests |-> req[r]] /\ \A r \in Requests : req[r] = NotAsked
        BY DEF AnswerInit
    <1>2. \A r \in Requests : Good(r, req[r]) /\ req[r].inside = FALSE
        BY <1>1, Starts DEF Outside
    <1>3. \A r \in Requests : ~Active(r)
        BY <1>1 DEF Active, NotAsked
    <1>4. Exclusive /\ NothingToRestore
        BY <1>2, <1>3 DEF Exclusive, NothingToRestore
    <1>5. Scoped
        BY <1>2 DEF AnswerInit, Scoped
    <1> QED
        BY <1>0, <1>1, <1>2, <1>4, <1>5 DEF AnswerInit, AInv

LEMMA AInvNext == AInv /\ [AnswerNext]_answerVars => AInv'
    <1> SUFFICES ASSUME AInv, [AnswerNext]_answerVars PROVE AInv'
        OBVIOUS
    <1>1. ASSUME NEW r \in Requests, Ask(r) PROVE AInv'
        BY <1>1, AInvAsk
    <1>2. ASSUME NEW r \in Requests, Post(r) \/ Answered(r) \/ CallFails(r) PROVE AInv'
        BY <1>2, AInvCall
    <1>3. ASSUME NEW r \in Requests, Enter(r) PROVE AInv'
        BY <1>3, AInvEnter
    <1>4. ASSUME NEW r \in Requests, Leave(r) \/ SearchFails(r) PROVE AInv'
        BY <1>4, AInvLeave
    <1>5. ASSUME NEW r \in Requests,
                 Analysed(r) \/ Formulated(r) \/ First(r) \/ Wider(r) \/ Again(r)
                    \/ Written(r) \/ Rewritten(r) \/ Retained(r)
          PROVE  AInv'
        BY <1>5, AInvPipeline
    <1>6. CASE Reload
        BY <1>6, AInvReload
    <1>7. CASE UNCHANGED answerVars
        BY <1>7 DEF answerVars, AInv, Good, Exclusive, Active, NothingToRestore, Scoped, Generators
    <1> QED
        BY <1>1, <1>2, <1>3, <1>4, <1>5, <1>6, <1>7 DEF AnswerNext, Step

-----------------------------------------------------------------------------
(* No defect escapes the guards. *)

\* What a thread has delivered is reported, and what it holds in reserve
\* carries the measure that belongs to it.
Fine(t) ==
    /\ \A b \in t.blocks : b.text \cap Defects \subseteq b.gardes
    /\ \A x \in t.synthesis : x \cap {"tronque", "degenere"} = {}
    /\ t.call \in {"wider", "again"} /\ "tronque" \in t.kept => t.cut
    /\ t.call = "again" /\ "esquive" \in t.kept => t.esquive
    /\ t.call = "retain" => t.kept \cap {"tronque", "degenere"} = {}

\* The thread will read the measure on the generator that it calls, and finds
\* there that its text was cut.
Measured(t) ==
    t.at \notin {"idle", "done", "failed"} =>
      /\ t.at \in {"wait", "leave", "settle"} \/ t.call \in {"rewrite", "retain"}
           => t.llm = generator
      /\ t.at \in {"leave", "settle"} /\ "tronque" \in t.text => Cut

\* The same of a thread and the measures after the step.
WillMeasure(t) ==
    t.at \notin {"idle", "done", "failed"} =>
      /\ t.at \in {"wait", "leave", "settle"} \/ t.call \in {"rewrite", "retain"}
           => t.llm = generator'
      /\ t.at \in {"leave", "settle"} /\ "tronque" \in t.text => last_usage'[generator'] = "cut"

HInv == serial => \A r \in Requests : Fine(req[r]) /\ Measured(req[r])

LEMMA FineMoves ==
    ASSUME AInv, HInv, NEW r \in Requests, NEW u, Becomes(r, u), Active(r),
           serial' => serial, serial => Fine(u) /\ WillMeasure(u)
    PROVE  HInv'
    <1>1. req'[r] = u /\ \A s \in Requests \ {r} : req'[s] = req[s]
        BY DEF AInv, Becomes
    <1>2. serial => \A s \in Requests \ {r} : req[s].at \in {"idle", "done", "failed"}
        BY DEF AInv, Exclusive, Active
    <1>3. serial => \A s \in Requests : Fine(req'[s])
        BY <1>1 DEF HInv
    <1>4. serial => \A s \in Requests \ {r} : Measured(req[s])'
        BY <1>1, <1>2 DEF Measured
    <1>5. serial => Measured(req[r])'
        BY <1>1 DEF Measured, WillMeasure, Cut
    <1> QED
        BY <1>3, <1>4, <1>5 DEF HInv

LEMMA EndsFine ==
    ASSUME NEW t, Fine(t)
    PROVE  Fine(Ends(t)) /\ Ends(t).at = "done"
    <1>1. /\ Ends(t).blocks = t.blocks /\ Ends(t).synthesis = t.synthesis
          /\ Ends(t).call = "first" /\ Ends(t).at = "done"
        BY DEF Ends, NotAsked
    <1> QED
        BY <1>1 DEF Fine

LEMMA CallsFine ==
    ASSUME NEW r \in Requests, NEW t, Outside(r, t), Fine(t),
           NEW c \in {"formulate", "first", "write"}
    PROVE  Fine(Calls(t, c))
    <1>1. /\ Calls(t, c).blocks = t.blocks /\ Calls(t, c).synthesis = t.synthesis
          /\ Calls(t, c).call = c
        BY DEF Outside, Good, Fields, Calls
    <1> QED
        BY <1>1 DEF Fine

LEMMA GardesTell ==
    ASSUME NEW x, NEW c, NEW e, "tronque" \in x => c, "esquive" \in x => e
    PROVE  x \cap Defects \subseteq Gardes(x, c, e)
    BY DEF Defects, Gardes

\* Whatever ends a question, its block tells the defects of its text.
LEMMA ClosedFine ==
    ASSUME NEW r \in Requests, NEW t, Outside(r, t), Fine(t), NEW x, NEW c, NEW e,
           "tronque" \in x => c, "esquive" \in x => e
    PROVE  Fine(Closed(t, x, c, e)) /\ Closed(t, x, c, e).at \in {"call", "done"}
              /\ Closed(t, x, c, e).call \in {"first", "write"}
    <1> DEFINE b == [gardes |-> Gardes(x, c, e), text |-> x]
               u == [t EXCEPT !.blocks = @ \cup {b},
                       !.left = @ - 1, !.kept = {}, !.cut = FALSE, !.esquive = FALSE, !.llm = 0]
    <1>1. /\ u.blocks = t.blocks \cup {b} /\ u.synthesis = t.synthesis
          /\ u.kept = {} /\ u.call = t.call
        BY DEF Outside, Good, Fields
    <1>2. b.text \cap Defects \subseteq b.gardes
        BY GardesTell
    <1> HIDE DEF b
    <1>3. Fine(u)
        BY <1>1, <1>2 DEF Fine
    <1>4. Closed(t, x, c, e) \in {Calls(u, "first"), Calls(u, "write"), Ends(u)}
        BY DEF Closed, b
    <1>5. u = [f \in Fields |-> u[f]]
        BY DEF Outside, Good, Fields
    <1> HIDE DEF u
    <1>6. ASSUME NEW d \in {"first", "write"}
          PROVE  Fine(Calls(u, d)) /\ Calls(u, d).at = "call" /\ Calls(u, d).call = d
        <2>1. /\ Calls(u, d).blocks = u.blocks /\ Calls(u, d).synthesis = u.synthesis
              /\ Calls(u, d).call = d /\ Calls(u, d).at = "call"
            BY <1>5 DEF Fields, Calls
        <2>2. QED BY <1>3, <2>1 DEF Fine
    <1>7. Ends(u).call = "first"
        BY DEF Ends, NotAsked
    <1> QED
        BY <1>3, <1>4, <1>6, <1>7, EndsFine

LEMMA JudgedFine ==
    ASSUME NEW r \in Requests, NEW t, Outside(r, t), Fine(t), NEW x, NEW c, NEW e,
           "tronque" \in x => c, "esquive" \in x => e
    PROVE  /\ Fine(Judged(t, x, c, e))
           /\ Judged(t, x, c, e).at \in {"enter", "call", "done"}
           /\ Judged(t, x, c, e).call \in {"again", "first", "write"}
    <1> DEFINE u == [t EXCEPT !.kept = x, !.cut = c, !.esquive = e]
               v == Repeats(u, "again")
    <1>1. /\ v.blocks = t.blocks /\ v.synthesis = t.synthesis /\ v.kept = x
          /\ v.cut = c /\ v.esquive = e /\ v.call = "again" /\ v.at = "enter"
        BY DEF Outside, Good, Fields, Repeats
    <1> HIDE DEF v
    <1>2. Fine(v)
        BY <1>1 DEF Fine
    <1>3. Judged(t, x, c, e) \in {v, Closed(t, x, c, e)}
        BY DEF Judged, v
    <1> QED
        BY <1>1, <1>2, <1>3, ClosedFine

LEMMA HInvPipeline ==
    ASSUME AInv, HInv, NEW r \in Requests,
           Analysed(r) \/ Formulated(r) \/ First(r) \/ Wider(r) \/ Again(r)
              \/ Written(r) \/ Rewritten(r) \/ Retained(r)
    PROVE  HInv'
    <1> DEFINE t == req[r]
    <1>0. t.at = "settle" /\ UNCHANGED <<generator, surcharge, last_usage, serial>>
        BY DEF Analysed, Formulated, First, Wider, Again, Written, Rewritten, Retained, At
    <1>a. Outside(r, t) /\ Active(r)
        BY <1>0, SettledIsOutside DEF Active
    <1>b. SUFFICES ASSUME serial
                   PROVE  \E u : /\ Becomes(r, u) /\ Fine(u) /\ u.at \in {"call", "enter", "done"}
                                 /\ u.call \in {"rewrite", "retain"} => u.llm = generator
        <2>1. CASE serial
            <3>1. PICK u : /\ Becomes(r, u) /\ Fine(u) /\ u.at \in {"call", "enter", "done"}
                           /\ u.call \in {"rewrite", "retain"} => u.llm = generator
                BY <1>b, <2>1
            <3>2. WillMeasure(u)
                BY <1>0, <3>1 DEF WillMeasure
            <3>3. QED BY <1>0, <1>a, <3>1, <3>2, FineMoves
        <2>2. CASE ~serial
            BY <1>0, <2>2 DEF HInv
        <2>3. QED BY <2>1, <2>2
    <1>c. Fine(t) /\ t.llm = generator /\ ("tronque" \in t.text => Cut)
        BY <1>0, <1>b DEF HInv, Measured
    <1>d. ASSUME NEW x, x \cap {"tronque", "degenere"} = {}, Weighed(r, x)
          PROVE  \E u : /\ Becomes(r, u) /\ Fine(u) /\ u.at \in {"call", "enter", "done"}
                        /\ u.call \in {"rewrite", "retain"} => u.llm = generator
        <2> DEFINE d == [t EXCEPT !.synthesis = {x}]
                   v == [Calls(t, "retain") EXCEPT !.kept = x]
        <2>1. d.blocks = t.blocks /\ d.synthesis = {x} /\ d.kept = t.kept /\ d.call = t.call
                 /\ d.cut = t.cut /\ d.esquive = t.esquive
            BY <1>a DEF Outside, Good, Fields
        <2>2. /\ v.blocks = t.blocks /\ v.synthesis = t.synthesis /\ v.kept = x
              /\ v.call = "retain" /\ v.at = "call" /\ v.llm = t.llm
            BY <1>a DEF Outside, Good, Fields, Calls
        <2>3. Becomes(r, Ends(d)) \/ Becomes(r, v)
            BY <1>d DEF Weighed, Delivered
        <2>4. Ends(d).call = "first"
            BY DEF Ends, NotAsked
        <2> HIDE DEF d, v
        <2>5. Fine(d) /\ Fine(v)
            BY <1>c, <1>d, <2>1, <2>2 DEF Fine
        <2>6. QED BY <1>c, <2>2, <2>3, <2>4, <2>5, EndsFine
    <1>e. ~Bad(t.text, Cut) => t.text \cap {"tronque", "degenere"} = {}
        BY <1>c DEF Bad
    <1>f. Ends(t).call = "first" /\ Fine(Ends(t)) /\ Ends(t).at = "done"
        BY <1>c, EndsFine DEF Ends, NotAsked
    <1>g. ASSUME NEW u, Fine(u), u = [f \in Fields |-> u[f]]
          PROVE  \A x : Fine([u EXCEPT !.analysed = x])
        BY <1>g DEF Fine, Fields
    <1>h. ASSUME NEW c \in {"formulate", "first"}
          PROVE  /\ Fine(Calls(t, c)) /\ Calls(t, c).at = "call" /\ Calls(t, c).call = c
                 /\ Calls(t, c) = [f \in Fields |-> Calls(t, c)[f]]
        <2>1. Outside(r, Calls(t, c)) /\ Calls(t, c).at = "call" /\ Calls(t, c).call = c
            BY <1>a, CallsGood DEF Calls, Outside, Good, Fields
        <2>2. QED BY <1>a, <1>c, <2>1, CallsFine DEF Outside, Good
    <1>i. ASSUME NEW n PROVE /\ Fine(Questioned(t, n)) /\ Questioned(t, n).at = "call"
                             /\ Questioned(t, n).call = "first"
                             /\ Questioned(t, n) = [f \in Fields |-> Questioned(t, n)[f]]
        <2> DEFINE c == Calls(t, "first")
        <2>1. Fine(c) /\ c.at = "call" /\ c.call = "first" /\ c = [f \in Fields |-> c[f]]
            BY <1>h
        <2> HIDE DEF c, t
        <2>2. \A b : LET q == [c EXCEPT !.left = n, !.many = b] IN
                /\ Fine(q) /\ q.at = "call" /\ q.call = "first" /\ q = [f \in Fields |-> q[f]]
            BY <2>1 DEF Fine, Fields
        <2>3. QED BY <2>2 DEF Questioned, c
    <1>1. CASE Analysed(r)
        <2>1. ASSUME NEW u, Fine(u), u.at = "call", u.call \in {"formulate", "first"},
                     u = [f \in Fields |-> u[f]]
              PROVE  LET v == [u EXCEPT !.analysed = TRUE] IN
                       Fine(v) /\ v.at = "call" /\ v.call \in {"formulate", "first"}
            BY <2>1, <1>g DEF Fields
        <2>2. CASE Becomes(r, Calls(t, "formulate"))
            BY <1>h, <2>2
        <2>3. CASE Becomes(r, [Calls(t, "formulate") EXCEPT !.analysed = TRUE])
            BY <1>h, <2>1, <2>3
        <2>4. ASSUME NEW n, Becomes(r, [Questioned(t, n) EXCEPT !.analysed = TRUE])
              PROVE  \E u : /\ Becomes(r, u) /\ Fine(u) /\ u.at \in {"call", "enter", "done"}
                            /\ u.call \in {"rewrite", "retain"} => u.llm = generator
            BY <1>i, <2>1, <2>4
        <2>5. QED BY <1>1, <2>2, <2>3, <2>4 DEF Analysed
    <1>2. CASE Formulated(r)
        BY <1>2, <1>i DEF Formulated
    <1>3. CASE First(r)
        <2>1. CASE "esquive" \in t.text /\ ~t.deep
            <3> DEFINE v == [Calls(t, "wider") EXCEPT !.kept = t.text, !.cut = Cut]
            <3>1. Becomes(r, v)
                BY <1>3, <2>1 DEF First
            <3>2. /\ v.blocks = t.blocks /\ v.synthesis = t.synthesis /\ v.kept = t.text
                  /\ v.cut = Cut /\ v.call = "wider" /\ v.at = "call"
                BY <1>a DEF Outside, Good, Fields, Calls
            <3> HIDE DEF v
            <3>3. Fine(v)
                BY <1>c, <3>2 DEF Fine
            <3>4. QED BY <3>1, <3>2, <3>3
        <2>2. CASE ~("esquive" \in t.text /\ ~t.deep)
            BY <1>3, <2>2, <1>a, <1>c, JudgedFine, ZenonT(40) DEF First
        <2>3. QED BY <2>1, <2>2
    <1>4. CASE Wider(r)
        <2>1. "tronque" \in t.kept => t.cut
            BY <1>4, <1>c DEF Wider, At, Fine
        <2>2. CASE "esquive" \in t.text
            BY <1>4, <2>1, <2>2, <1>a, <1>c, JudgedFine DEF Wider
        <2>3. CASE "esquive" \notin t.text
            BY <1>4, <2>3, <1>a, <1>c, JudgedFine DEF Wider
        <2>4. QED BY <2>2, <2>3
    <1>5. CASE Again(r)
        <2>1. ("tronque" \in t.kept => t.cut) /\ ("esquive" \in t.kept => t.esquive)
            BY <1>5, <1>c DEF Again, At, Fine
        <2>2. CASE ~Bad(t.text, Cut) /\ "esquive" \notin t.text
            <3>1. Becomes(r, Closed(t, t.text, FALSE, t.esquive))
                BY <1>5, <2>2 DEF Again
            <3>2. QED BY <2>2, <3>1, <1>a, <1>c, <1>e, ClosedFine
        <2>3. CASE ~(~Bad(t.text, Cut) /\ "esquive" \notin t.text)
            <3>1. Becomes(r, Closed(t, t.kept, t.cut, t.esquive))
                BY <1>5, <2>3 DEF Again
            <3>2. QED BY <2>1, <3>1, <1>a, <1>c, ClosedFine
        <2>4. QED BY <2>2, <2>3
    <1>6. CASE Written(r)
        <2> DEFINE v == Repeats([t EXCEPT !.kept = t.text], "rewrite")
        <2>1. /\ v.blocks = t.blocks /\ v.synthesis = t.synthesis
              /\ v.call = "rewrite" /\ v.at = "enter" /\ v.llm = t.llm
            BY <1>a DEF Outside, Good, Fields, Repeats
        <2>2. \/ Becomes(r, Ends(t)) \/ Becomes(r, v)
              \/ ~Bad(t.text, Cut) /\ Weighed(r, t.text)
            BY <1>6 DEF Written
        <2> HIDE DEF v
        <2>3. Fine(v)
            BY <1>c, <2>1 DEF Fine
        <2>4. QED BY <1>c, <1>d, <1>e, <1>f, <2>1, <2>2, <2>3
    <1>7. CASE Rewritten(r)
        BY <1>7, <1>d, <1>e, <1>f DEF Rewritten, Whole
    <1>8. CASE Retained(r)
        <2>1. ASSUME NEW x, x \cap {"tronque", "degenere"} = {}, Becomes(r, Delivered(t, x))
              PROVE  \E u : /\ Becomes(r, u) /\ Fine(u) /\ u.at \in {"call", "enter", "done"}
                            /\ u.call \in {"rewrite", "retain"} => u.llm = generator
            BY <2>1, <1>d DEF Weighed
        <2>2. t.kept \cap {"tronque", "degenere"} = {}
            BY <1>8, <1>c DEF Retained, At, Fine
        <2>3. QED BY <1>8, <1>e, <2>1, <2>2 DEF Retained, Whole
    <1> QED
        BY <1>1, <1>2, <1>3, <1>4, <1>5, <1>6, <1>7, <1>8

\* A call, with or without an override around it.
LEMMA HInvCall ==
    ASSUME AInv, HInv, NEW r \in Requests,
           Post(r) \/ Answered(r) \/ CallFails(r) \/ Enter(r) \/ Leave(r) \/ SearchFails(r)
    PROVE  HInv'
    <1> DEFINE t == req[r]
    <1>0. /\ UNCHANGED <<generator, serial>> /\ Good(r, t) /\ Active(r)
          /\ last_usage \in [Generators -> {"none", "whole", "cut"}] /\ generator \in Generators
        BY DEF AInv, Post, Answered, CallFails, Enter, Leave, SearchFails, Active
    <1>b. SUFFICES ASSUME serial
                   PROVE  \E u : Becomes(r, u) /\ Fine(u) /\ WillMeasure(u)
        BY <1>0, FineMoves DEF HInv
    <1>c. Fine(t) /\ Measured(t)
        BY <1>b DEF HInv
    <1>1. CASE Post(r)
        <2> DEFINE u == [t EXCEPT !.at = "wait", !.llm = Llm(r)]
        <2>1. /\ u.blocks = t.blocks /\ u.synthesis = t.synthesis /\ u.call = t.call
              /\ u.kept = t.kept /\ u.cut = t.cut /\ u.esquive = t.esquive
              /\ u.at = "wait" /\ u.llm = Llm(r)
            BY <1>0 DEF Good, Fields
        <2>2. Becomes(r, u) /\ t.at = "call"
            BY <1>1 DEF Post
        <2>3. Llm(r) = generator
            BY <1>c, <2>2 DEF Measured, Llm
        <2> HIDE DEF u
        <2>4. Fine(u) /\ WillMeasure(u)
            BY <1>0, <1>c, <2>1, <2>3 DEF Fine, WillMeasure
        <2>5. QED BY <2>2, <2>4
    <1>2. ASSUME NEW x, t.at = "wait", Becomes(r, [t EXCEPT !.at = Returned(r), !.text = x]),
                 "tronque" \in x => last_usage'[generator] = "cut"
          PROVE  \E u : Becomes(r, u) /\ Fine(u) /\ WillMeasure(u)
        <2> DEFINE u == [t EXCEPT !.at = Returned(r), !.text = x]
        <2>1. /\ u.blocks = t.blocks /\ u.synthesis = t.synthesis /\ u.call = t.call
              /\ u.kept = t.kept /\ u.cut = t.cut /\ u.esquive = t.esquive
              /\ u.at = Returned(r) /\ u.llm = t.llm /\ u.text = x
            BY <1>0 DEF Good, Fields
        <2>2. Becomes(r, u)
            BY <1>2
        <2> HIDE DEF u
        <2>3. Fine(u) /\ WillMeasure(u)
            BY <1>0, <1>c, <1>2, <2>1 DEF Fine, Measured, WillMeasure, Returned
        <2>4. QED BY <2>2, <2>3
    <1>3. CASE Answered(r)
        <2>1. PICK x \in Texts :
                 /\ last_usage' = [last_usage EXCEPT
                                     ![t.llm] = IF "tronque" \in x THEN "cut" ELSE "whole"]
                 /\ Becomes(r, [t EXCEPT !.at = Returned(r), !.text = x])
            BY <1>3 DEF Answered
        <2>2. t.at = "wait" /\ t.llm = generator
            BY <1>3, <1>c DEF Answered, Measured
        <2>3. "tronque" \in x => last_usage'[generator] = "cut"
            BY <1>0, <2>1, <2>2
        <2>4. QED BY <1>2, <2>1, <2>2, <2>3
    <1>4. CASE CallFails(r)
        <2>1. /\ t.at = "wait" /\ Becomes(r, [t EXCEPT !.at = Returned(r), !.text = Erreur])
              /\ "tronque" \notin Erreur
            BY <1>4 DEF CallFails, Erreur
        <2>2. QED BY <1>2, <2>1
    <1>5. ASSUME NEW a \in {"call", "settle"}, NEW i, NEW o, NEW p,
                 a = "settle" => t.at = "leave", t.at \in {"enter", "leave"},
                 Becomes(r, [t EXCEPT !.at = a, !.inside = i, !.over = o, !.precedente = p]),
                 last_usage' = last_usage
          PROVE  \E u : Becomes(r, u) /\ Fine(u) /\ WillMeasure(u)
        <2> DEFINE u == [t EXCEPT !.at = a, !.inside = i, !.over = o, !.precedente = p]
        <2>1. /\ u.blocks = t.blocks /\ u.synthesis = t.synthesis /\ u.call = t.call
              /\ u.kept = t.kept /\ u.cut = t.cut /\ u.esquive = t.esquive
              /\ u.at = a /\ u.llm = t.llm /\ u.text = t.text
            BY <1>0 DEF Good, Fields
        <2>2. Becomes(r, u)
            BY <1>5
        <2> HIDE DEF u
        <2>3. Fine(u) /\ WillMeasure(u)
            BY <1>0, <1>c, <1>5, <2>1 DEF Fine, Measured, WillMeasure, Cut
        <2>4. QED BY <2>2, <2>3
    <1>7. CASE Enter(r)
        BY <1>5, <1>7 DEF Enter
    <1>8. CASE Leave(r)
        BY <1>5, <1>8 DEF Leave
    <1>6. CASE SearchFails(r)
        <2> DEFINE u == [NotAsked EXCEPT !.at = "failed"]
        <2>1. Becomes(r, u)
            BY <1>6 DEF SearchFails
        <2>2. u.at = "failed" /\ u.blocks = {} /\ u.synthesis = {} /\ u.call = "first"
            BY DEF NotAsked
        <2> HIDE DEF u
        <2>3. Fine(u) /\ WillMeasure(u)
            BY <2>2 DEF Fine, WillMeasure
        <2>4. QED BY <2>1, <2>3
    <1> QED
        BY <1>1, <1>3, <1>4, <1>6, <1>7, <1>8

LEMMA HInvAsk ==
    ASSUME AInv, HInv, NEW r \in Requests, Ask(r)
    PROVE  HInv'
    <1>0. /\ serial' => serial /\ \A s \in Requests : ~Active(s)
          /\ UNCHANGED <<generator, last_usage>>
        BY DEF Ask
    <1>1. PICK u : /\ Becomes(r, u) /\ u.at = "call" /\ u.call \in {"first", "analyse"}
                   /\ u.blocks = {} /\ u.synthesis = {}
        <2> DEFINE f == Calls(NotAsked, "first")
                   a == Calls(NotAsked, "analyse")
        <2>1. PICK deep \in BOOLEAN :
                 \/ Becomes(r, [f EXCEPT !.deep = deep, !.left = 1])
                 \/ Becomes(r, [a EXCEPT !.deep = deep])
            BY DEF Ask
        <2>2. /\ f.at = "call" /\ f.call = "first" /\ f.blocks = {} /\ f.synthesis = {}
              /\ a.at = "call" /\ a.call = "analyse" /\ a.blocks = {} /\ a.synthesis = {}
              /\ f = [x \in Fields |-> f[x]] /\ a = [x \in Fields |-> a[x]]
            BY ZenonT(40) DEF Calls, NotAsked, Fields
        <2> HIDE DEF f, a
        <2>3. LET v == [f EXCEPT !.deep = deep, !.left = 1] IN
                v.at = "call" /\ v.call = "first" /\ v.blocks = {} /\ v.synthesis = {}
            BY <2>2 DEF Fields
        <2>4. LET v == [a EXCEPT !.deep = deep] IN
                v.at = "call" /\ v.call = "analyse" /\ v.blocks = {} /\ v.synthesis = {}
            BY <2>2 DEF Fields
        <2>5. QED BY <2>1, <2>3, <2>4
    <1>2. req'[r] = u /\ \A s \in Requests \ {r} : req'[s] = req[s]
        BY <1>1 DEF AInv, Becomes
    <1>3. Fine(u) /\ WillMeasure(u)
        BY <1>1 DEF Fine, WillMeasure
    <1>4. Measured(req[r])'
        BY <1>2, <1>3 DEF Measured, WillMeasure, Cut
    <1>5. serial' => \A s \in Requests \ {r} : Fine(req'[s]) /\ Measured(req[s])'
        BY <1>0, <1>2 DEF HInv, Measured, Active
    <1> QED
        BY <1>2, <1>3, <1>4, <1>5 DEF HInv

LEMMA HInvInit == AnswerInit => HInv
    <1> SUFFICES ASSUME AnswerInit, NEW r \in Requests PROVE Fine(req[r]) /\ Measured(req[r])
        BY DEF HInv
    <1>1. req[r].at = "idle" /\ req[r].blocks = {} /\ req[r].synthesis = {} /\ req[r].call = "first"
        BY DEF AnswerInit, NotAsked
    <1> QED
        BY <1>1 DEF Fine, Measured

LEMMA HInvNext == AInv /\ HInv /\ [AnswerNext]_answerVars => HInv'
    <1> SUFFICES ASSUME AInv, HInv, [AnswerNext]_answerVars PROVE HInv'
        OBVIOUS
    <1>1. ASSUME NEW r \in Requests, Ask(r) PROVE HInv'
        BY <1>1, HInvAsk
    <1>2. ASSUME NEW r \in Requests,
                 Post(r) \/ Answered(r) \/ CallFails(r) \/ Enter(r) \/ Leave(r) \/ SearchFails(r)
          PROVE  HInv'
        BY <1>2, HInvCall
    <1>3. ASSUME NEW r \in Requests,
                 Analysed(r) \/ Formulated(r) \/ First(r) \/ Wider(r) \/ Again(r)
                    \/ Written(r) \/ Rewritten(r) \/ Retained(r)
          PROVE  HInv'
        BY <1>3, HInvPipeline
    <1>4. CASE Reload
        <2>1. /\ serial' => serial /\ \A s \in Requests : ~Active(s)
              /\ UNCHANGED req
            BY <1>4 DEF Reload
        <2>2. QED BY <2>1 DEF HInv, Measured, Active
    <1>5. CASE UNCHANGED answerVars
        BY <1>5 DEF answerVars, HInv, Measured, Cut
    <1> QED
        BY <1>1, <1>2, <1>3, <1>4, <1>5 DEF AnswerNext, Step

-----------------------------------------------------------------------------
LEMMA Inductive == AnswerSpec => [](AInv /\ HInv)
    <1>1. AnswerInit => AInv /\ HInv
        BY AInvInit, HInvInit
    <1>2. AInv /\ HInv /\ [AnswerNext]_answerVars => (AInv /\ HInv)'
        BY AInvNext, HInvNext
    <1> QED
        BY <1>1, <1>2, PTL DEF AnswerSpec

\* Domains of the shared generator and of the threads, for any number of
\* requests, questions and reloads.
THEOREM SharedTypes == AnswerSpec => []TypeOK
    <1>1. AInv => TypeOK
        <2> SUFFICES ASSUME AInv PROVE TypeOK
            OBVIOUS
        <2>1. ASSUME NEW r \in Requests
              PROVE  /\ DOMAIN req[r] = DOMAIN NotAsked
                     /\ req[r].left <= Questions[r]
                     /\ req[r].inside => req[r].call \in {"again", "rewrite"}
            BY Starts DEF AInv, Good, Repeated
        <2> QED
            BY <2>1 DEF AInv, TypeOK
    <1> QED
        BY <1>1, Inductive, PTL

\* The override of the sampling options begins and ends with the repeated call
\* it was made for, as long as requests do not overlap.
THEOREM OverrideEnds == AnswerSpec => []OverrideIsScoped
    <1>1. AInv => OverrideIsScoped
        <2> SUFFICES ASSUME AInv, serial, NEW g \in Generators
                     PROVE  surcharge[g] = (\E r \in Requests : req[r].inside /\ req[r].over = g)
            BY DEF OverrideIsScoped
        <2>1. surcharge[g] \in BOOLEAN
            BY DEF AInv
        <2>2. CASE \E r \in Requests : req[r].inside /\ req[r].over = g
            BY <2>2 DEF AInv, Scoped
        <2>3. CASE ~\E r \in Requests : req[r].inside /\ req[r].over = g
            BY <2>3 DEF AInv, Scoped
        <2> QED
            BY <2>2, <2>3
    <1> QED
        BY <1>1, Inductive, PTL


\* Whatever answer of a question is kept and whatever synthesis is delivered,
\* no defect escapes the guards, as long as requests do not overlap.
THEOREM DefectsAreTold == AnswerSpec => []NothingHidden
    <1>1. HInv => NothingHidden
        BY DEF HInv, Fine, NothingHidden
    <1> QED
        BY <1>1, Inductive, PTL

\* COUVERT is a promise on every text delivered.
THEOREM CoveredIsSound == AnswerSpec => []SufficientIsClean
    <1>1. HInv => SufficientIsClean
        <2> SUFFICES ASSUME HInv, NEW r \in Requests, Verdict(r) = "COUVERT"
                     PROVE  /\ Controles(r) = {}
                            /\ serial => /\ \A b \in req[r].blocks : b.text \cap Defects = {}
                                         /\ \A t \in req[r].synthesis : t \cap Defects \subseteq {"esquive"}
            BY DEF SufficientIsClean
        <2>1. /\ \A b \in req[r].blocks : b.gardes = {}
              /\ \A t \in req[r].synthesis : "hors_lot" \notin t
            BY DEF Verdict
        <2>2. Controles(r) = {}
            BY <2>1 DEF Controles
        <2>3. serial => \A b \in req[r].blocks : b.text \cap Defects = {}
            BY <2>1 DEF HInv, Fine
        <2>4. serial => \A t \in req[r].synthesis : t \cap Defects \subseteq {"esquive"}
            BY <2>1 DEF HInv, Fine, Defects
        <2> QED
            BY <2>2, <2>3, <2>4
    <1> QED
        BY <1>1, Inductive, PTL
=============================================================================
