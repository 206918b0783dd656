---------------------------- MODULE MCMaxRounds ----------------------------
(* Instance of the game: a number less than all that the loop starts from, *)
(* and one greater.                                                        *)
EXTENDS MaxRounds

MCNumbers == {-2, 1}
=============================================================================
