---------------------------- MODULE MCConnection ----------------------------
(* Finite instances of KTPConnection for TLC; the .cfg files give the      *)
(* sizes.  Every behaviour is finite but for duplicates and retransmission *)
(* of what is already under way.                                           *)
EXTENDS KTPConnection
=============================================================================
