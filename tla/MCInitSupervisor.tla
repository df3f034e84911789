-------------------------- MODULE MCInitSupervisor --------------------------
(* A small device for InitSupervisor: "sm" is a critical service whose     *)
(* crash restarts "zyg", which has no options, and "pppd", a disabled      *)
(* oneshot that is stopped with SIGTERM.                                   *)
EXTENDS InitSupervisor

ClassOf == [s \in Services |-> IF s = "sm" THEN "core" ELSE "main"]
Restarts == [s \in Services |-> IF s = "sm" THEN Services \cap {"pppd", "zyg"} ELSE {}]
CriticalSet == Services \cap {"sm"}
OneshotSet == Services \cap {"pppd"}
SigTermSet == Services \cap {"pppd"}
=============================================================================
