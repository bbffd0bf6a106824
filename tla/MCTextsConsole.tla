--------------------------- MODULE MCTextsConsole ---------------------------
(***************************************************************************)
(* The texts of MCTexts and the pages of MCConsole.  They share no state:  *)
(* a behaviour follows the one or the other.                               *)
(***************************************************************************)
EXTENDS MCTexts, MCConsole

VARIABLE followed

MCInit ==
    /\ followed \in {"texts", "console"}
    /\ IF followed = "texts" THEN DocumentsInit ELSE Begin(Some) /\ reading = NoText /\ made = NoText
    /\ PagesInit /\ (followed = "texts" => reader = "answers")
MCNext ==
    /\ UNCHANGED followed
    /\ \/ followed = "texts" /\ DocumentsNext /\ UNCHANGED <<configVars, feedbackVars>>
       \/ followed = "console" /\ PagesNext /\ UNCHANGED <<vars, reading, made>>
MCSpec == MCInit /\ [][MCNext]_<<followed, vars, reading, made, configVars, feedbackVars>>
=============================================================================
