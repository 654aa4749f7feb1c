----------------------------- MODULE MCMonitors -----------------------------
(* A small instance of the monitors for TLC: one process id that is used   *)
(* twice, by the owner, installed in a drop zone, by a shell that the user *)
(* has named and by a program in a drop zone that nobody knows.            *)
EXTENDS Monitors, TLC

CONSTANTS p1, pm, mm, nm, h1, h2, t1

MCPrograms ==
    {[name |-> "owner", signed |-> TRUE, vetted |-> FALSE, shell |-> FALSE,
      place |-> "drop"],
     [name |-> "other", signed |-> FALSE, vetted |-> TRUE, shell |-> TRUE,
      place |-> "elsewhere"],
     [name |-> "other", signed |-> FALSE, vetted |-> FALSE, shell |-> FALSE,
      place |-> "drop"]}

MCKind     == (h1 :> "handles") @@ (h2 :> "handles") @@ (t1 :> "threads")
MCSettings == {{pm}, {h1, mm}, {h1, h2}, {t1}, {nm}}
=============================================================================
