------------------------------- MODULE MCIpc -------------------------------
(* A small instance of the pipe for TLC: one call, one verdict, and the    *)
(* two goroutines that connect when the GUI starts.                        *)
EXTENDS Ipc

CONSTANTS x1, v1, p1, p2
=============================================================================
