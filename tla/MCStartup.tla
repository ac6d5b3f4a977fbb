------------------------------ MODULE MCStartup ------------------------------
(* Small instances of Startup: two starts, and two ports that are free or all taken. *)
EXTENDS Startup, TLC

CONSTANTS s1, s2

FreeOrTaken == {{}, ProxyPorts}
==============================================================================
