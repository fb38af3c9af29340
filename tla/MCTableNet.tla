----------------------------- MODULE MCTableNet ------------------------------
(***************************************************************************)
(* One receiver, a sender that takes part in the hand and one that only    *)
(* joins.                                                                  *)
(***************************************************************************)
EXTENDS TableNet

CONSTANTS Player, Joiner

MCMaxSeq == [p \in {Player, Joiner} |-> IF p = Player THEN 3 ELSE 2]
=============================================================================
