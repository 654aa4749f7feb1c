---------------------------- MODULE MCSignatures ----------------------------
(* Small instances of the signature database: a hash, a substring and an   *)
(* import, lines that are not signatures, and one file of each sort.       *)
EXTENDS Signatures, TLC

CONSTANTS h, str, dll, name

L(k, m) == [kind |-> k, fields |-> <<m, name, name, name>>]

MCSeed    == {L("PE-IMPORT", dll)}
MCPack    == {L("PE-STRING", str)}
MCUpdates == {{L("HASH", h), L("YARA-LITE", str), [kind |-> "HASH", fields |-> <<str>>]},
              {L("PE-IMPORT", h)},
              {L("unknown", h)}}

MCBundles == {MCPack}

F(large, doc) == [hash |-> h, large |-> large, textDoc |-> doc,
                  holds |-> {str}, imports |-> {h}]

MCTargets == {F(FALSE, FALSE), F(TRUE, FALSE), F(FALSE, TRUE)}
=============================================================================
