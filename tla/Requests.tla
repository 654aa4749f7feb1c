------------------------------ MODULE Requests ------------------------------
(***************************************************************************)
(* What the GUI is promised of a request to the service, without the pipe, *)
(* its connections and the goroutines at both ends:                        *)
(*                                                                         *)
(*   - a request is handled once at most, however often the pipe drops;    *)
(*   - a caller that is given an answer knows that it has been handled;    *)
(*   - a caller that is told that it was not sent knows that it has not    *)
(*     been and never will be, so it may be sent again;                    *)
(*   - any other error says nothing: the request may have been handled,    *)
(*     may be handled later, or never.                                     *)
(***************************************************************************)
EXTENDS Naturals

CONSTANTS
    Calls,      \* calls that make one request each
    Unsent,     \* the errors of a request that was not sent
    Unknown     \* the errors that leave open what became of it

VARIABLES
    handled,    \* how often each request has been handled
    outcome     \* what its caller was told: "none" so far, "reply" or an error

vars == <<handled, outcome>>

Init ==
    /\ handled = [x \in Calls |-> 0]
    /\ outcome = [x \in Calls |-> "none"]

Handle(x) ==
    /\ handled[x] = 0
    /\ outcome[x] \in Unknown \cup {"none"}
    /\ handled' = [handled EXCEPT ![x] = 1]
    /\ UNCHANGED outcome

Return(x, r) ==
    /\ outcome[x] = "none"
    /\ r = "reply" => handled[x] = 1
    /\ r \in Unsent => handled[x] = 0
    /\ outcome' = [outcome EXCEPT ![x] = r]
    /\ UNCHANGED handled

Next ==
    \E x \in Calls :
        \/ Handle(x)
        \/ \E r \in Unsent \cup Unknown \cup {"reply"} : Return(x, r)

Spec == Init /\ [][Next]_vars
=============================================================================
