---------------------------- MODULE MCQuarantine ----------------------------
(* Small instances of the quarantine store for TLC: one file and its       *)
(* side-by-side name, or one file alone; an empty file and files of one    *)
(* and two units.                                                          *)
EXTENDS Quarantine, TLC

CONSTANTS w1, w2, orig, side, none, small, large, part

MCPaths     == {orig, side}
MCSiblings  == (orig :> <<side>>) @@ (side :> <<>>)
OnePath     == {orig}
OneSiblings == orig :> <<>>

EmptyOrSmall == {none, small}
SmallOrLarge == {small, large}
SizesE       == (none :> 0) @@ (small :> 1) @@ (part :> 1)
SizesL       == (small :> 1) @@ (large :> 2) @@ (part :> 1)
=============================================================================
