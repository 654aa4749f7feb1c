------------------------------- MODULE MCEngine -------------------------------
(* A small instance of the engine for TLC: one file, without another name  *)
(* to restore it under.                                                    *)
EXTENDS Engine

CONSTANT orig

OneSide == [p \in {orig} |-> None]
=============================================================================
