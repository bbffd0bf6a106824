-------------------------- MODULE MCAnswersEngines --------------------------
(***************************************************************************)
(* The requests of MCAnswering and the two engines of MCEngines.  They     *)
(* share no state: a behaviour follows the ones or the others.             *)
(***************************************************************************)
EXTENDS MCAnswering, MCEngines

VARIABLE followed

Calm == CHOOSE s \in Scenarios : s.ops = {"search"}
MCInit ==
    /\ followed \in {"requests", "engines"}
    /\ Init /\ (followed = "requests" => scenario = Calm)
    /\ AnswerInit
MCNext ==
    /\ UNCHANGED followed
    /\ \/ followed = "requests" /\ AnswerNext /\ UNCHANGED vars
       \/ followed = "engines" /\ Next /\ UNCHANGED answerVars
MCSpec == MCInit /\ [][MCNext]_<<followed, vars, answerVars>> /\ Fairness
=============================================================================
