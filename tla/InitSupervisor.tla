--------------------------- MODULE InitSupervisor ---------------------------
(***************************************************************************)
(* How init starts, stops, reaps and restarts services: init.c,            *)
(* signal_handler.c and the service commands of builtins.c (core/init).    *)
(*                                                                         *)
(* init is one thread.  Its main loop executes one command of the current  *)
(* action, scans for services to restart, polls, and runs the handlers of  *)
(* the ready descriptors; `pc' says where in that loop it is.  The         *)
(* concurrency is with the service processes, which get their own process  *)
(* group some time after the fork and may exit at any moment, with the     *)
(* SIGCHLD handler, which interrupts init anywhere, and with the clock.    *)
(*                                                                         *)
(* Everything init and the kernel know of a service is one record:         *)
(*   flags   SVC_* bits that change at run time                            *)
(*   proc    state of the process svc->pid names ("none": pid is 0)        *)
(*   strays  live or unreaped processes of the service that svc->pid no    *)
(*           longer names, counted by their state                          *)
(*   age     now - time_started, saturating at BackOff                     *)
(*   crashAge, nr_crashed   now - time_crashed (saturating), nr_crashed    *)
(*   prop    the value of the property init.svc.<name>                     *)
(* Times are ages, so that the clock needs no bound.                       *)
(***************************************************************************)
EXTENDS Integers, FiniteSets

CONSTANTS
    Services,      \* the services of the rc files
    Oneshot,       \* those with option oneshot
    Critical,      \* those with option critical
    RcDisabled,    \* those with option disabled
    SigTerm,       \* those init stops with SIGTERM instead of SIGKILL
    Class,         \* the class of each service
    OnRestart,     \* the services each service restarts in its onrestart commands
    BackOff,       \* seconds between two starts of a restarting service (5)
    CrashWindow,   \* CRITICAL_CRASH_WINDOW
    CrashMax,      \* CRITICAL_CRASH_THRESHOLD
    PipeCap,       \* bytes the signal socketpair holds
    ReadSize,      \* bytes handle_signal reads at once (32)
    MaxRequests,   \* bound: requests (ctl messages and rc commands) that arrive
    MaxExits,      \* bound: exits of processes that were not killed
    MaxForkFails   \* bound: forks that fail

ASSUME ServiceSets ==
    /\ Oneshot \subseteq Services
    /\ Critical \subseteq Services
    /\ RcDisabled \subseteq Services
    /\ SigTerm \subseteq Services
    /\ OnRestart \in [Services -> SUBSET Services]
    /\ \A s \in Services : s \notin OnRestart[s]

ASSUME Numbers ==
    /\ BackOff \in Nat \ {0}
    /\ CrashWindow \in Nat
    /\ CrashMax \in Nat
    /\ PipeCap \in Nat \ {0}
    /\ ReadSize \in Nat \ {0}
    /\ MaxRequests \in Nat
    /\ MaxExits \in Nat
    /\ MaxForkFails \in Nat

Flag == {"DISABLED", "RUNNING", "RESTARTING", "RESET"}

(* "forked": before its setpgid, so kill(-pid) does not find it;           *)
(* "killed": SIGKILL is pending; "zombie": exited and not waited for.      *)
Live == {"forked", "alive", "killed"}
PState == Live \cup {"zombie"}

Report == {"unset", "running", "stopping", "stopped", "restarting"}

(* What stat, the console test and fork make of a start.                   *)
Outcome == {"ok", "disable", "nofork"}

VARIABLES
    svc,         \* the record of each service
    sigPending,  \* SIGCHLD is pending for init
    sigPipe,     \* bytes in the signal socketpair
    timer,       \* process_needs_restart - now, or -1 for none
    uptime,      \* seconds since boot, saturating at BackOff
    pc,          \* where init is in its loop
    ready,       \* descriptors poll reported and not yet handled
    signalInit,  \* signal_init has run
    requests, exits, forkFails   \* what the bounds count

init == <<sigPipe, timer, pc, ready>>
budget == <<requests, exits, forkFails>>
vars == <<svc, sigPending, sigPipe, timer, uptime, pc, ready, signalInit, budget>>

ServiceRec ==
    [flags : SUBSET Flag, proc : PState \cup {"none"}, strays : [PState -> Nat],
     age : 0 .. BackOff, crashAge : 0 .. CrashWindow + 1, nr_crashed : Nat,
     prop : Report]

(* The type invariant.                                                     *)
TypeOK ==
    /\ svc \in [Services -> ServiceRec]
    /\ sigPending \in BOOLEAN
    /\ sigPipe \in 0 .. PipeCap
    /\ timer \in -1 .. BackOff
    /\ uptime \in 0 .. BackOff
    /\ pc \in {"exec", "restart", "poll", "prop", "sig", "reap", "initreap", "rebooted"}
    /\ ready \subseteq {"prop", "sig"}
    /\ signalInit \in BOOLEAN
    /\ requests \in Nat /\ exits \in Nat /\ forkFails \in Nat

NoStrays == [p \in PState |-> 0]

Init ==
    /\ svc = [s \in Services |->
                 [flags |-> IF s \in RcDisabled THEN {"DISABLED"} ELSE {},
                  proc |-> "none", strays |-> NoStrays, age |-> 0,
                  crashAge |-> 0, nr_crashed |-> 0, prop |-> "unset"]]
    /\ sigPending = FALSE
    /\ sigPipe = 0
    /\ timer = -1
    /\ uptime = 0
    /\ pc = "exec"
    /\ ready = {}
    /\ signalInit = FALSE
    /\ requests = 0 /\ exits = 0 /\ forkFails = 0

-----------------------------------------------------------------------------
(* Operations on one service.                                              *)

(* svc->pid is overwritten: the process it named, if any, is not tracked.  *)
Untrack(r) ==
    IF r.proc = "none" THEN r ELSE [r EXCEPT !.strays[r.proc] = @ + 1]

(* service_start: what it does to the record, given what the kernel says.  *)
(* A running service only has its flags and its start time reset.          *)
ServiceStart(r, o) ==
    LET c == [r EXCEPT !.flags = @ \ {"DISABLED", "RESTARTING", "RESET"},
                       !.age = uptime]
    IN  CASE "RUNNING" \in r.flags -> c
          [] "RUNNING" \notin r.flags /\ o = "disable" ->
                 [c EXCEPT !.flags = @ \cup {"DISABLED"}]
          [] "RUNNING" \notin r.flags /\ o = "nofork" ->
                 [Untrack(c) EXCEPT !.proc = "none"]
          [] "RUNNING" \notin r.flags /\ o = "ok" ->
                 [Untrack(c) EXCEPT !.proc = "forked", !.age = 0, !.prop = "running",
                                    !.flags = @ \cup {"RUNNING"}]

(* kill(-pid, ...): SIGKILL takes the group down if it exists already,     *)
(* SIGTERM leaves it to the process.                                       *)
KillGroup(s, p) == IF p = "alive" /\ s \notin SigTerm THEN "killed" ELSE p

(* Mutants: a stop that leaves a pending restart pending; one that reports *)
(* "stopping" without looking whether there is a process.                  *)
StopKeepsRestarting(s, r, how) ==
    LET off == IF how = "RESET" /\ s \notin RcDisabled THEN "RESET" ELSE "DISABLED"
    IN  [r EXCEPT !.flags = (@ \ {"RUNNING"}) \cup {off},
                  !.proc = KillGroup(s, @),
                  !.prop = IF r.proc = "none" THEN "stopped" ELSE "stopping"]
AlwaysStopping(s, r, how) ==
    LET off == IF how = "RESET" /\ s \notin RcDisabled THEN "RESET" ELSE "DISABLED"
    IN  [r EXCEPT !.flags = (@ \ {"RUNNING", "RESTARTING"}) \cup {off},
                  !.proc = KillGroup(s, @), !.prop = "stopping"]

(* service_stop_or_reset.  svc->pid is kept until the process is reaped.   *)
ServiceStopOrReset(s, r, how) ==
    LET off == IF how = "RESET" /\ s \notin RcDisabled THEN "RESET" ELSE "DISABLED"
    IN  [r EXCEPT !.flags = (@ \ {"RUNNING", "RESTARTING"}) \cup {off},
                  !.proc = KillGroup(s, @),
                  !.prop = IF r.proc = "none" THEN "stopped" ELSE "stopping"]

(* The restart command and ctl.restart: stop, then start.                  *)
ServiceRestart(s, r, o) == ServiceStart(ServiceStopOrReset(s, r, "DISABLED"), o)

(* Of an exited process: pid is cleared and a oneshot service disabled.    *)
Reaped(s, r) ==
    [r EXCEPT !.proc = "none",
              !.flags = (@ \ {"RUNNING"}) \cup (IF s \in Oneshot THEN {"DISABLED"} ELSE {})]

(* Mutant: a reset service counts as one that crashed.                     *)
UnwantedIfDisabled(s, r) == "DISABLED" \in Reaped(s, r).flags

(* The service is not wanted any more when its process is reaped.          *)
Unwanted(s, r) == Reaped(s, r).flags \cap {"DISABLED", "RESET"} # {}

(* Mutant: the crash window never closes.                                  *)
WindowForEver(r) == TRUE

(* The crash window of a critical service is still open.                   *)
InWindow(r) == r.crashAge <= CrashWindow

(* Mutant: the counter is compared before it is incremented.               *)
OneCrashLate(s, r) == s \in Critical /\ InWindow(r) /\ r.nr_crashed > CrashMax

(* ++nr_crashed > CRITICAL_CRASH_THRESHOLD within the window.              *)
TooManyCrashes(s, r) == s \in Critical /\ InWindow(r) /\ r.nr_crashed + 1 > CrashMax

CountCrash(s, r) ==
    CASE s \notin Critical -> r
      [] s \in Critical /\ InWindow(r) -> [r EXCEPT !.nr_crashed = @ + 1]
      [] s \in Critical /\ ~InWindow(r) -> [r EXCEPT !.crashAge = 0, !.nr_crashed = 1]

(* Mutant: the restart is not reported.                                    *)
CrashedSilently(s, r) == [CountCrash(s, Reaped(s, r)) EXCEPT !.flags = @ \cup {"RESTARTING"}]

Crashed(s, r) ==
    [CountCrash(s, Reaped(s, r)) EXCEPT !.flags = @ \cup {"RESTARTING"}, !.prop = "restarting"]

(* A step in which a fork fails counts against the bound.                  *)
CountForkFails(S, out) ==
    IF \E s \in S : out[s] = "nofork"
    THEN forkFails < MaxForkFails /\ forkFails' = forkFails + 1
    ELSE UNCHANGED forkFails

-----------------------------------------------------------------------------
(* Requests: the rc commands start, stop, restart, class_start, class_stop *)
(* and class_reset, and the control messages start, stop and restart.      *)

One == [op : {"start", "stop", "restart"}, who : {{s} : s \in Services}]
Of(c) == {s \in Services : Class[s] = c}
Whole == [op : {"class_start", "class_stop", "class_reset"},
          who : {Of(Class[s]) : s \in Services}]

Effect(s, q, o) ==
    LET r == svc[s]
    IN  CASE s \notin q.who -> r
          [] s \in q.who /\ q.op = "start" -> ServiceStart(r, o)
          [] s \in q.who /\ q.op \in {"stop", "class_stop"} ->
                 ServiceStopOrReset(s, r, "DISABLED")
          [] s \in q.who /\ q.op = "restart" -> ServiceRestart(s, r, o)
          [] s \in q.who /\ q.op = "class_start" ->
                 IF "DISABLED" \in r.flags THEN r ELSE ServiceStart(r, o)
          [] s \in q.who /\ q.op = "class_reset" -> ServiceStopOrReset(s, r, "RESET")

Serve(q) ==
    /\ requests < MaxRequests
    /\ requests' = requests + 1
    /\ \E out \in [q.who -> Outcome] :
          /\ CountForkFails(q.who, out)
          /\ svc' = [s \in Services |-> IF s \in q.who THEN Effect(s, q, out[s]) ELSE svc[s]]
    /\ UNCHANGED exits

-----------------------------------------------------------------------------
(* The main loop.                                                          *)

(* execute_one_command: nothing to do, or a command that is no service's.  *)
ExecuteOther ==
    /\ pc = "exec"
    /\ pc' = "restart"
    /\ UNCHANGED <<svc, sigPending, sigPipe, timer, uptime, ready, signalInit, budget>>

(* execute_one_command: a service command of the current action.           *)
ExecuteService ==
    /\ pc = "exec"
    /\ \E q \in One \cup Whole : Serve(q)
    /\ pc' = "restart"
    /\ UNCHANGED <<sigPending, sigPipe, timer, uptime, ready, signalInit>>

(* Mutant: signal_init without the final handle_signal.                    *)
SignalInitNoReap ==
    /\ pc = "exec" /\ ~signalInit
    /\ signalInit' = TRUE
    /\ pc' = "restart"
    /\ UNCHANGED <<svc, sigPending, sigPipe, timer, uptime, ready, budget>>

(* execute_one_command: the builtin signal_init, which ends in a call of   *)
(* handle_signal for the children that exited before there was a handler.  *)
SignalInit ==
    /\ pc = "exec" /\ ~signalInit
    /\ signalInit' = TRUE
    /\ pc' = "initreap"
    /\ UNCHANGED <<svc, sigPending, sigPipe, timer, uptime, ready, budget>>

Restarting == {s \in Services : "RESTARTING" \in svc[s].flags}
Due == {s \in Restarting : svc[s].age >= BackOff}
Wait(s) == BackOff - svc[s].age

(* Mutant: process_needs_restart is not set for those that have to wait.   *)
NoTimer(S) == timer' = -1

(* process_needs_restart is the earliest next_start_time of those that     *)
(* have to wait.                                                           *)
SetTimer(S) ==
    \/ S = {} /\ timer' = -1
    \/ \E s \in S : timer' = Wait(s) /\ \A u \in S : Wait(s) <= Wait(u)

(* restart_processes.                                                      *)
RestartProcesses ==
    /\ pc = "restart"
    /\ \E out \in [Due -> Outcome] :
          /\ CountForkFails(Due, out)
          /\ svc' = [s \in Services |->
                        IF s \in Due THEN ServiceStart(svc[s], out[s]) ELSE svc[s]]
    /\ SetTimer(Restarting \ Due)
    /\ pc' = "poll"
    /\ UNCHANGED <<sigPending, sigPipe, uptime, ready, signalInit, requests, exits>>

(* poll reports every ready descriptor; it returns with none on a timeout, *)
(* which is 0 while actions are queued, or when a signal interrupts it.    *)
PollReturn ==
    /\ pc = "poll"
    /\ \E R \in SUBSET {"prop", "sig"} :
          /\ "sig" \in R <=> signalInit /\ sigPipe > 0
          /\ "prop" \in R => requests < MaxRequests
          /\ ready' = R
          /\ pc' = IF "prop" \in R THEN "prop" ELSE IF "sig" \in R THEN "sig" ELSE "exec"
    /\ UNCHANGED <<svc, sigPending, sigPipe, timer, uptime, signalInit, budget>>

(* poll has to return: a byte is in the pipe, its timeout has passed, or   *)
(* the timeout is 0 because the boot queue, which holds signal_init until  *)
(* it has run, is not empty.                                               *)
PollDue == PollReturn /\ (timer = 0 \/ ~signalInit \/ sigPipe > 0)

(* handle_property_set_fd with a ctl.* message.                            *)
HandleControlMessage ==
    /\ pc = "prop"
    /\ \E q \in One : Serve(q)
    /\ pc' = IF "sig" \in ready THEN "sig" ELSE "exec"
    /\ ready' = ready \ {"prop"}
    /\ UNCHANGED <<sigPending, sigPipe, timer, uptime, signalInit>>

(* handle_signal: the pipe is read before any child is waited for.         *)
HandleSignal ==
    /\ pc = "sig"
    /\ sigPipe' = IF sigPipe > ReadSize THEN sigPipe - ReadSize ELSE 0
    /\ pc' = "reap"
    /\ ready' = ready \ {"sig"}
    /\ UNCHANGED <<svc, sigPending, timer, uptime, signalInit, budget>>

Reaping == pc \in {"reap", "initreap"}

(* Mutant: the end of a stopped service is not reported.                   *)
ReapUnwantedSilently(s) ==
    /\ Reaping /\ svc[s].proc = "zombie" /\ Unwanted(s, svc[s])
    /\ svc' = [svc EXCEPT ![s] = Reaped(s, @)]
    /\ UNCHANGED <<sigPending, init, uptime, signalInit, budget>>

(* wait_for_one_process: the process of a service that is to stay down.    *)
ReapUnwanted(s) ==
    /\ Reaping /\ svc[s].proc = "zombie" /\ Unwanted(s, svc[s])
    /\ svc' = [svc EXCEPT ![s] = [Reaped(s, @) EXCEPT !.prop = "stopped"]]
    /\ UNCHANGED <<sigPending, init, uptime, signalInit, budget>>

(* wait_for_one_process: a service to restart; its onrestart commands run. *)
ReapCrashed(s) ==
    /\ Reaping /\ svc[s].proc = "zombie" /\ ~Unwanted(s, svc[s])
    /\ ~TooManyCrashes(s, svc[s])
    /\ \E out \in [OnRestart[s] -> Outcome] :
          /\ CountForkFails(OnRestart[s], out)
          /\ svc' = [u \in Services |->
                        IF u = s THEN Crashed(s, svc[s])
                        ELSE IF u \in OnRestart[s] THEN ServiceRestart(u, svc[u], out[u])
                        ELSE svc[u]]
    /\ UNCHANGED <<sigPending, init, uptime, signalInit, requests, exits>>

(* wait_for_one_process: a critical service has crashed too often.         *)
Reboot(s) ==
    /\ Reaping /\ svc[s].proc = "zombie" /\ ~Unwanted(s, svc[s])
    /\ TooManyCrashes(s, svc[s])
    /\ svc' = [svc EXCEPT ![s] = CountCrash(s, Reaped(s, @))]
    /\ pc' = "rebooted"
    /\ UNCHANGED <<sigPending, sigPipe, timer, uptime, ready, signalInit, budget>>

(* Mutant: an unknown pid ends the reaping loop.                           *)
ReapStrayAndStop(s) ==
    /\ Reaping /\ svc[s].strays["zombie"] > 0
    /\ svc' = [svc EXCEPT ![s].strays["zombie"] = @ - 1]
    /\ pc' = IF pc = "reap" THEN "exec" ELSE "restart"
    /\ UNCHANGED <<sigPending, sigPipe, timer, ready, uptime, signalInit, budget>>

(* wait_for_one_process: no service has this pid.                          *)
ReapStray(s) ==
    /\ Reaping /\ svc[s].strays["zombie"] > 0
    /\ svc' = [svc EXCEPT ![s].strays["zombie"] = @ - 1]
    /\ UNCHANGED <<sigPending, init, uptime, signalInit, budget>>

HasZombie(s) == svc[s].proc = "zombie" \/ svc[s].strays["zombie"] > 0

(* wait_for_one_process returns -1: there is nothing left to reap.         *)
ReapDone ==
    /\ Reaping /\ \A s \in Services : ~HasZombie(s)
    /\ pc' = IF pc = "reap" THEN "exec" ELSE "restart"
    /\ UNCHANGED <<svc, sigPending, sigPipe, timer, uptime, ready, signalInit, budget>>

-----------------------------------------------------------------------------
(* The environment of init's thread.                                       *)

(* Mutant: a write to a full socketpair succeeds.                          *)
SigchldHandlerNoLimit ==
    /\ sigPending /\ pc # "rebooted"
    /\ sigPending' = FALSE
    /\ sigPipe' = sigPipe + 1
    /\ UNCHANGED <<svc, timer, uptime, pc, ready, signalInit, budget>>

(* sigchld_handler: the write fails when the socketpair is full.           *)
SigchldHandler ==
    /\ sigPending /\ pc # "rebooted"
    /\ sigPending' = FALSE
    /\ sigPipe' = IF sigPipe < PipeCap THEN sigPipe + 1 ELSE sigPipe
    /\ UNCHANGED <<svc, timer, uptime, pc, ready, signalInit, budget>>

(* A process leaves state p for state q.                                   *)
ProcMove(s, p, q) ==
    \/ /\ svc[s].proc = p
       /\ svc' = [svc EXCEPT ![s].proc = q]
    \/ /\ svc[s].strays[p] > 0
       /\ svc' = [svc EXCEPT ![s].strays[p] = @ - 1, ![s].strays[q] = @ + 1]

(* The child of service_start reaches its setpgid.                         *)
ChildSetpgid(s) ==
    /\ pc # "rebooted"
    /\ ProcMove(s, "forked", "alive")
    /\ UNCHANGED <<sigPending, init, uptime, signalInit, budget>>

(* A killed process exits; the kernel raises SIGCHLD.                      *)
KilledExit(s) ==
    /\ pc # "rebooted"
    /\ ProcMove(s, "killed", "zombie")
    /\ sigPending' = signalInit
    /\ UNCHANGED <<init, uptime, signalInit, budget>>

(* A process exits by itself, or because of a SIGTERM.                     *)
OwnExit(s) ==
    /\ pc # "rebooted"
    /\ exits < MaxExits
    /\ exits' = exits + 1
    /\ \E p \in {"forked", "alive"} : ProcMove(s, p, "zombie")
    /\ sigPending' = signalInit
    /\ UNCHANGED <<init, uptime, signalInit, requests, forkFails>>

Older(n, cap) == IF n < cap THEN n + 1 ELSE cap

(* One second passes.                                                      *)
Tick ==
    /\ uptime' = Older(uptime, BackOff)
    /\ timer' = IF timer > 0 THEN timer - 1 ELSE timer
    /\ svc' = [s \in Services |->
                  [svc[s] EXCEPT !.age = Older(@, BackOff),
                                 !.crashAge = IF s \in Critical
                                              THEN Older(@, CrashWindow + 1) ELSE @]]
    /\ UNCHANGED <<sigPending, sigPipe, pc, ready, signalInit, budget>>

InitStep ==
    \/ ExecuteOther \/ ExecuteService \/ SignalInit
    \/ RestartProcesses
    \/ HandleControlMessage
    \/ HandleSignal
    \/ \E s \in Services : \/ ReapUnwanted(s) \/ ReapCrashed(s)
                           \/ Reboot(s) \/ ReapStray(s)
    \/ ReapDone

Next ==
    \/ InitStep
    \/ PollReturn
    \/ SigchldHandler
    \/ \E s \in Services : ChildSetpgid(s) \/ KilledExit(s) \/ OwnExit(s)
    \/ Tick

(* The fairness the scheduler gives: init's thread runs on, poll returns   *)
(* when it has to, a pending signal is delivered, time passes, a forked    *)
(* child runs and a killed process dies.  The boot queue, of which init     *)
(* executes one command per iteration, reaches signal_init.  Nothing        *)
(* obliges a process to exit by itself or a client to send a message.       *)
Fairness ==
    /\ WF_vars(InitStep)
    /\ SF_vars(SignalInit)
    /\ WF_vars(PollDue)
    /\ WF_vars(SigchldHandler)
    /\ WF_vars(Tick)
    /\ \A s \in Services : WF_vars(ChildSetpgid(s)) /\ WF_vars(KilledExit(s))

Spec == Init /\ [][Next]_vars
FairSpec == Spec /\ Fairness

-----------------------------------------------------------------------------
(* Properties.                                                             *)

(* The SVC_* bits agree with each other and with svc->pid: a running       *)
(* service has a process and is neither disabled, reset nor waiting to     *)
(* restart; a service waiting to restart has no process, is not oneshot    *)
(* and has not been stopped; one that is being stopped is marked so.       *)
FlagsConsistent ==
    \A s \in Services :
        LET f == svc[s].flags
        IN  /\ "RUNNING" \in f =>
                   svc[s].proc # "none" /\ f \cap {"DISABLED", "RESET", "RESTARTING"} = {}
            /\ "RESTARTING" \in f =>
                   /\ svc[s].proc = "none" /\ s \notin Oneshot
                   /\ f \cap {"DISABLED", "RESET"} = {}
            /\ svc[s].proc # "none" /\ "RUNNING" \notin f => f \cap {"DISABLED", "RESET"} # {}

(* No exit goes unnoticed: once signal_init has run, an unwaited child     *)
(* means that a SIGCHLD is pending, that a byte is in the pipe poll        *)
(* watches, or that init is inside the reaping loop of handle_signal.      *)
ZombieNoticed ==
    /\ signalInit
    /\ pc # "rebooted"
    /\ \E s \in Services : HasZombie(s)
    => sigPending \/ sigPipe > 0 \/ Reaping

(* The property init.svc.<name>, which clients wait on, tells the truth:   *)
(* "running" exactly while SVC_RUNNING is set, "stopped" and "restarting"  *)
(* only without a process to wait for, and "restarting" whenever           *)
(* SVC_RESTARTING is set.                                                  *)
ReportTruthful ==
    pc # "rebooted" => \A s \in Services :
        LET r == svc[s]
        IN  /\ r.prop = "running" <=> "RUNNING" \in r.flags
            /\ r.prop \in {"unset", "stopped", "restarting"} => r.proc = "none"
            /\ "RESTARTING" \in r.flags => r.prop = "restarting"

(* A service that was stopped, reset, disabled or that ran once comes up   *)
(* only by a request or by the onrestart command of another service that   *)
(* crashed: never because its process was reaped, never by the scan of     *)
(* restart_processes.                                                      *)
StaysDown ==
    [][\A s \in Services :
          /\ svc[s].flags \cap {"DISABLED", "RESET"} # {}
          /\ "RUNNING" \in svc'[s].flags
          => \/ pc \in {"exec", "prop"}
             \/ Reaping /\ \E u \in Services : s \in OnRestart[u] /\ svc[u].proc = "zombie"
      ]_vars

(* The sequence of values of init.svc.<name> is one ServiceStatus allows,  *)
(* whatever requests, exits, failed forks and reaps come together.         *)
Status == INSTANCE ServiceStatus WITH status <- [s \in Services |-> svc[s].prop]
ImplementsStatus == Status!SSpec

(* Every child that exits is waited for (unless the device reboots).       *)
ExitsAreReaped ==
    \A s \in Services :
        svc[s].proc = "zombie" ~> (svc[s].proc # "zombie" \/ pc = "rebooted")

(* A service waiting to restart does not wait for ever: the timeout of     *)
(* poll is computed from the earliest next_start_time, so the scan finds   *)
(* it due even when nothing else happens.                                  *)
RestartHappens ==
    \A s \in Services :
        "RESTARTING" \in svc[s].flags ~> ("RESTARTING" \notin svc[s].flags \/ pc = "rebooted")

(* A stop whose SIGKILL found the process group is reported as "stopped",  *)
(* or overtaken by a new start.                                            *)
KillCompletes ==
    \A s \in Services :
        (svc[s].prop = "stopping" /\ svc[s].proc = "killed")
            ~> (svc[s].prop # "stopping" \/ pc = "rebooted")

-----------------------------------------------------------------------------
(* What the documentation says and the code does not do.                   *)

(* readme.txt, stop: "Stop a service from running if it is currently       *)
(* running."  A service that is killed with SIGKILL does not stay in the   *)
(* state "stopping".  The kill goes to the process group, which the child  *)
(* creates itself some time after the fork.                                *)
StopCompletes ==
    \A s \in Services \ SigTerm :
        svc[s].prop = "stopping" ~> (svc[s].prop # "stopping" \/ pc = "rebooted")

(* readme.txt: services are programs "which init launches and (optionally) *)
(* restarts when they exit".  A service reported as "restarting" runs      *)
(* again or is stopped or disabled.                                        *)
CrashedComesBack ==
    \A s \in Services :
        svc[s].prop = "restarting"
            ~> (svc[s].prop # "restarting" \/ "DISABLED" \in svc[s].flags \/ pc = "rebooted")
=============================================================================
