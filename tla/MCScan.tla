-------------------------------- MODULE MCScan --------------------------------
(* A small instance of the scans for TLC: a directory with one that is     *)
(* skipped and one of two files; scans of both kinds, of overlapping roots *)
(* and of the inner directory alone.                                       *)
EXTENDS Scan, TLC

CONSTANTS top, inner, git, a, b, s1

MCNodes    == {top, inner, git, a, b}
MCParent   == [n \in MCNodes |-> CASE n = top -> None [] n \in {git, inner} -> top
                                   [] OTHER -> inner]
MCAbove    == [n \in MCNodes |-> {n, top} \cup (IF n \in {a, b} THEN {inner} ELSE {})]
MCOrder    == (top :> 0) @@ (git :> 1) @@ (inner :> 2) @@ (a :> 3) @@ (b :> 4)
MCMod      == (a :> 1) @@ (b :> 2)
MCRequests == [kind : Kinds, roots : {<<inner, top>>, <<inner>>}]
=============================================================================
