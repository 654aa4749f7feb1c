------------------------------- MODULE Vault -------------------------------
(***************************************************************************)
(* What the quarantine store promises, without its lock, its index in      *)
(* memory, its steps and its crashes: a collection of copies and a         *)
(* catalogue of them that survives every restart.                          *)
(*                                                                         *)
(*   - an original is taken only when its copy is in the vault;            *)
(*   - a copy that something relies on never changes, and leaves the       *)
(*     vault only when its id is condemned (a deletion, a limit);          *)
(*   - the catalogue claims nothing the vault does not hold;               *)
(*   - nothing else happens: a failed write, a crash and a restore change  *)
(*     nothing here.                                                       *)
(***************************************************************************)
CONSTANTS
    Ids,       \* names of copies
    Contents,  \* what a copy may hold
    Nothing,   \* no copy under that id; an entry that claims no bytes
    Unlisted   \* no entry under that id

VARIABLES
    copies,     \* the copy under each id
    catalogue,  \* what a restart finds: the bytes each entry claims
    taken,      \* ids whose original has been removed
    condemned   \* ids that were chosen to be dropped

vars == <<copies, catalogue, taken, condemned>>

(* Every entry that is not condemned claims the bytes of its copy, or none. *)
Sound(cat) == \A id \in Ids \ condemned : cat[id] \in {Unlisted, Nothing, copies[id]}

Init ==
    /\ copies \in [Ids -> Contents \cup {Nothing}]
    /\ catalogue \in [Ids -> Contents \cup {Nothing, Unlisted}]
    /\ taken \in SUBSET {id \in Ids : copies[id] # Nothing}
    /\ condemned = {}
    /\ Sound(catalogue)

(* An id nothing relies on: its copy may be written and dropped. *)
Loose(id) == id \notin taken /\ catalogue[id] = Unlisted

Capture(id, c) ==
    /\ Loose(id)
    /\ copies' = [copies EXCEPT ![id] = c]
    /\ UNCHANGED <<catalogue, taken, condemned>>

Abandon(id) ==
    /\ Loose(id)
    /\ copies' = [copies EXCEPT ![id] = Nothing]
    /\ UNCHANGED <<catalogue, taken, condemned>>

Take(id) ==
    /\ copies[id] # Nothing
    /\ taken' = taken \cup {id}
    /\ UNCHANGED <<copies, catalogue, condemned>>

(* The ids in S are condemned, and the copies of those in D leave. *)
Drop(S, D) ==
    /\ condemned' = condemned \cup S
    /\ copies' = [id \in Ids |-> IF id \in D THEN Nothing ELSE copies[id]]
    /\ UNCHANGED <<catalogue, taken>>

(* The catalogue is replaced as a whole. *)
Publish ==
    /\ Sound(catalogue')
    /\ UNCHANGED <<copies, taken, condemned>>

Next ==
    \/ \E id \in Ids :
          \/ \E c \in Contents : Capture(id, c)
          \/ Abandon(id)
          \/ Take(id)
    \/ \E S \in SUBSET Ids : \E D \in SUBSET S : Drop(S, D)
    \/ Publish

Spec == Init /\ [][Next]_vars
=============================================================================
