-------------------------- MODULE MCServiceControl --------------------------
(* Small instances of the service's reconfiguration for TLC: one monitor   *)
(* with a flag, one name of the default whitelist and one the user may     *)
(* allow, one domain, one path that may be restored.                       *)
EXTENDS ServiceControl

CONSTANTS c1, fs, steam, game, site, file

MCMonitors == {fs}
MCNames    == {steam, game}
MCDefault  == {steam}
MCDomains  == {site}
MCPaths    == {file}
=============================================================================
