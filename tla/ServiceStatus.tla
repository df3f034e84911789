---------------------------- MODULE ServiceStatus ----------------------------
(***************************************************************************)
(* What a client that watches the properties init.svc.<name> may rely on:  *)
(* the life of each service as init reports it.                            *)
(*                                                                         *)
(*   unset       not started yet       restarting  exited, init will start *)
(*   running     started                           it again                *)
(*   stopping    told to exit          stopped     down until a request    *)
(***************************************************************************)
CONSTANTS Services, Oneshot

VARIABLE status

(* From where to where one service goes.  "stopped" and "stopping" never   *)
(* turn into "restarting", nothing that is down turns into "stopping", and *)
(* a oneshot service is never "restarting".                                *)
Moves(s) ==
    {"unset", "stopping", "stopped", "restarting"} \X {"running"}   \* start
    \cup {"unset", "restarting"} \X {"stopped"}                     \* stop, no process
    \cup {<<"running", "stopping">>}                                \* stop
    \cup {"running", "stopping"} \X {"stopped"}                     \* exit
    \cup (IF s \in Oneshot THEN {} ELSE {<<"running", "restarting">>})

SInit == status = [s \in Services |-> "unset"]

(* A request for a class and the onrestart commands of a service move      *)
(* several services in one step.                                           *)
SNext ==
    /\ status' \in [Services -> {"unset", "running", "stopping", "stopped", "restarting"}]
    /\ \A s \in Services :
          status'[s] = status[s] \/ <<status[s], status'[s]>> \in Moves(s)

SSpec == SInit /\ [][SNext]_status
=============================================================================
