----------------------------- MODULE MCWatching -----------------------------
(***************************************************************************)
(* A share with a file under an excluded directory, one with a plain file. *)
(***************************************************************************)
EXTENDS Watching

MCOrder == <<"git", "plain">>
MCRoot == [p \in {"git", "plain"} |-> IF p = "plain" THEN "r2" ELSE "r1"]
=============================================================================
