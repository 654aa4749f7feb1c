----------------------------- MODULE Preferences -----------------------------
(***************************************************************************)
(* What the service promises of the user's settings, without its handlers, *)
(* its contexts and its updates in steps:                                  *)
(*                                                                         *)
(*   - only the user's messages change the settings, one at a time, and a  *)
(*     change is on file unless its save has failed;                       *)
(*   - before the next change the engine moves to the settings as they     *)
(*     are, never to what they were or to a mixture; it may miss a change  *)
(*     only if that was not saved, or does not concern it;                 *)
(*   - a restart brings back what the loader makes of the file, which is   *)
(*     not all as it was saved, and the engine starts with that.           *)
(*                                                                         *)
(* ServiceControl and Engine model the handlers at different grain; this   *)
(* is what both have to implement, so that what is shown of the one's      *)
(* lists can be relied on in the other.                                    *)
(***************************************************************************)
EXTENDS Naturals

CONSTANTS
    Choices,    \* what the settings may be
    Loaded,     \* what a restart makes of the settings on file
    Decisive    \* the part of the settings the engine decides by

VARIABLES
    wanted,     \* the settings in memory
    kept,       \* the settings on file
    decided,    \* what the engine decides by
    due,        \* the engine has still to be told of the last change
    failed      \* saves that have failed

vars == <<wanted, kept, decided, due, failed>>

Init ==
    /\ wanted \in Choices
    /\ kept = wanted
    /\ decided = Decisive[wanted]
    /\ due = FALSE
    /\ failed = 0

Change(c) ==
    /\ ~due
    /\ wanted' = c
    /\ UNCHANGED decided
    /\ due' \in BOOLEAN
    /\ \/ /\ kept' = c /\ UNCHANGED failed
          /\ due' \/ Decisive[c] = Decisive[wanted]
       \/ kept' \in {kept, c} /\ failed' = failed + 1

Adopt ==
    /\ due
    /\ due' = FALSE
    /\ decided' = Decisive[wanted]
    /\ UNCHANGED <<wanted, kept, failed>>

Restart ==
    /\ wanted' = Loaded[kept]
    /\ decided' = Decisive[wanted']
    /\ due' = FALSE
    /\ UNCHANGED <<kept, failed>>

Next == (\E c \in Choices : Change(c)) \/ Adopt \/ Restart

Spec == Init /\ [][Next]_vars
=============================================================================
