------------------------------- MODULE Suspend -------------------------------
(***************************************************************************)
(* libsuspend: autosuspend_enable and autosuspend_disable, called by one   *)
(* thread of the power manager, over the kernel interface that             *)
(* autosuspend_init finds:                                                 *)
(*   early      a watcher thread follows the panel, calls wait for it      *)
(*   autosleep  one write to the kernel                                    *)
(*   wakeup     a suspend thread, held off with a semaphore                *)
(* The kernel (wakeup events, the panel, the sleep itself) is external.    *)
(* While the device is asleep no thread runs.                              *)
(***************************************************************************)
EXTENDS Naturals

CONSTANTS
    Backends,    \* the kernel interfaces to consider
    MaxCalls,    \* bound: calls of the power manager
    MaxEvents,   \* bound: wakeup events while awake
    MaxFails     \* bound: failing system calls

VARIABLES
    backend,                  \* what this kernel offers
    inited, ops, enabled,     \* autosuspend.c
    caller,                   \* the power manager's thread
    sem, thr,                 \* suspend_lockout, suspend_thread_func
    waits, est, watcher,      \* wait_for_earlysuspend, earlysuspend_state, its thread
    fresh,                    \* no wakeup event since wakeup_count was read
    armed,                    \* the kernel has accepted the count
    held,                     \* a wakeup event is being processed
    asleep,
    power, fb,                \* last word written to the kernel, the panel
    calls, events, fails

lib == <<backend, inited, ops, enabled>>
early == <<waits, est, watcher>>
panel == <<power, fb>>
count == <<fresh, armed>>
vars == <<lib, caller, sem, thr, early, count, held, asleep, panel, calls, events, fails>>

(* The type invariant: suspend_lockout is a binary semaphore.              *)
TypeOK ==
    /\ backend \in {"early", "autosleep", "wakeup", "none"}
    /\ ops \in {"early", "autosleep", "wakeup", "none"}
    /\ inited \in BOOLEAN /\ enabled \in BOOLEAN
    /\ caller \in {"idle", "enable", "disable", "crashed"}
    /\ sem \in 0 .. 1
    /\ thr \in {"off", "read", "wait", "write", "state", "post"}
    /\ waits \in BOOLEAN /\ est \in {"on", "mem"}
    /\ watcher \in {"off", "sleep", "setmem", "wake", "seton", "dead"}
    /\ fresh \in BOOLEAN /\ armed \in BOOLEAN /\ held \in BOOLEAN /\ asleep \in BOOLEAN
    /\ power \in {"on", "mem"} /\ fb \in {"on", "off"}
    /\ calls \in 0 .. MaxCalls /\ events \in 0 .. MaxEvents /\ fails \in 0 .. MaxFails

Init ==
    /\ backend \in Backends
    /\ inited = FALSE /\ ops = "none" /\ enabled = FALSE
    /\ caller = "idle" /\ sem = 0 /\ thr = "off"
    /\ waits = FALSE /\ est = "on" /\ watcher = "off"
    /\ fresh = FALSE /\ armed = FALSE /\ held = FALSE /\ asleep = FALSE
    /\ power = "on" /\ fb = "on"
    /\ calls = 0 /\ events = 0 /\ fails = 0

Fail == fails < MaxFails /\ fails' = fails + 1

-----------------------------------------------------------------------------
(* autosuspend.c.                                                          *)

(* autosuspend_earlysuspend_init.  The watcher is there only if the kernel *)
(* has the files and the thread can be created.                            *)
EarlysuspendInit ==
    /\ waits' \in IF backend = "early" THEN BOOLEAN ELSE {FALSE}
    /\ watcher' = IF waits' THEN "sleep" ELSE "off"

(* autosuspend_wakeup_count_init starts suspend_thread_func.               *)
WakeupCountInit == thr' = IF backend = "wakeup" THEN "read" ELSE "off"

(* autosuspend_init: the first call tries the interfaces in turn.          *)
InitOps ==
    /\ inited' = TRUE
    /\ UNCHANGED <<backend, est>>
    /\ IF inited THEN UNCHANGED <<ops, thr, waits, watcher>>
       ELSE ops' = backend /\ EarlysuspendInit /\ WakeupCountInit

(* A call begins.                                                          *)
Call ==
    /\ caller = "idle" /\ ~asleep /\ calls < MaxCalls /\ calls' = calls + 1
    /\ InitOps
    /\ UNCHANGED <<count, held, asleep, fb, events>>

(* Nothing to do: the state is the wanted one, or init has just failed.    *)
Return == UNCHANGED <<enabled, caller, sem, power, fails>>

(* The write to the kernel fails and so does the call.                     *)
WriteFails == Fail /\ UNCHANGED <<enabled, caller, sem, power>>

(* The write succeeds; a call that has to wait for the panel blocks.       *)
WriteWord(word, blocked) ==
    /\ power' = word
    /\ caller' = IF waits' THEN blocked ELSE "idle"
    /\ enabled' = IF waits' THEN enabled ELSE word = "mem"
    /\ UNCHANGED <<sem, fails>>

(* Mutant: a second autosuspend_enable posts once more.                    *)
EnableTwice ==
    /\ Call
    /\ \/ ~inited /\ backend = "none" /\ Return
       \/ inited /\ ops = "none" /\ caller' = "crashed" /\ UNCHANGED <<enabled, sem, power, fails>>
       \/ ops' = "wakeup" /\ sem' = sem + 1 /\ enabled' = TRUE /\ UNCHANGED <<caller, power, fails>>
       \/ ops' \in {"early", "autosleep"} /\ (WriteFails \/ WriteWord("mem", "enable"))

(* Mutant: enable does not wait for the panel.                             *)
EnableAtOnce ==
    /\ Call
    /\ \/ enabled /\ Return
       \/ ~enabled /\ ~inited /\ backend = "none" /\ Return
       \/ ~enabled /\ inited /\ ops = "none" /\ caller' = "crashed"
          /\ UNCHANGED <<enabled, sem, power, fails>>
       \/ ~enabled /\ ops' = "wakeup" /\ sem' = sem + 1 /\ enabled' = TRUE
          /\ UNCHANGED <<caller, power, fails>>
       \/ ~enabled /\ ops' \in {"early", "autosleep"} /\ power' = "mem" /\ enabled' = TRUE
          /\ UNCHANGED <<caller, sem, fails>>

(* autosuspend_enable.  autosuspend_inited is set even if init failed, so  *)
(* the next call goes through a null pointer.                              *)
AutosuspendEnable ==
    /\ Call
    /\ \/ enabled /\ Return
       \/ ~enabled /\ ~inited /\ backend = "none" /\ Return
       \/ ~enabled /\ inited /\ ops = "none" /\ caller' = "crashed"
          /\ UNCHANGED <<enabled, sem, power, fails>>
       \/ ~enabled /\ ops' = "wakeup" /\ sem' = sem + 1 /\ enabled' = TRUE
          /\ UNCHANGED <<caller, power, fails>>
       \/ ~enabled /\ ops' \in {"early", "autosleep"} /\ (WriteFails \/ WriteWord("mem", "enable"))

(* autosuspend_disable: the wakeup backend goes on to sem_wait.            *)
AutosuspendDisable ==
    /\ Call
    /\ \/ ~enabled /\ Return
       \/ enabled /\ ops' = "wakeup" /\ caller' = "disable"
          /\ UNCHANGED <<enabled, sem, power, fails>>
       \/ enabled /\ ops' \in {"early", "autosleep"} /\ (WriteFails \/ WriteWord("on", "disable"))

(* Mutant: disable does not wait for the suspend thread.                   *)
DisableNoWait ==
    /\ caller = "disable" /\ ops = "wakeup" /\ ~asleep
    /\ caller' = "idle" /\ enabled' = FALSE
    /\ sem' = IF sem > 0 THEN sem - 1 ELSE 0
    /\ UNCHANGED <<backend, inited, ops, thr, early, count, held, asleep, panel, calls, events,
                   fails>>

(* autosuspend_wakeup_count_disable: sem_wait, which a signal may break;   *)
(* the call then fails and autosuspend stays enabled.                      *)
DisableTakesSem ==
    /\ caller = "disable" /\ ops = "wakeup" /\ ~asleep
    /\ caller' = "idle"
    /\ \/ sem > 0 /\ sem' = sem - 1 /\ enabled' = FALSE /\ UNCHANGED fails
       \/ Fail /\ UNCHANGED <<sem, enabled>>
    /\ UNCHANGED <<backend, inited, ops, thr, early, count, held, asleep, panel, calls, events>>

(* The loop around pthread_cond_wait ends.                                 *)
PanelSeen ==
    /\ ops = "early" /\ ~asleep
    /\ \/ caller = "enable" /\ est = "mem"
       \/ caller = "disable" /\ est = "on"
    /\ caller' = "idle"
    /\ enabled' = (caller = "enable")
    /\ UNCHANGED <<backend, inited, ops, sem, thr, early, count, held, asleep, panel, calls,
                   events, fails>>

-----------------------------------------------------------------------------
(* suspend_thread_func.                                                    *)

ThreadStep == ~asleep /\ UNCHANGED <<lib, caller, early, held, panel, calls, events>>

(* read blocks while an event is being processed.                          *)
ThrRead ==
    /\ thr = "read" /\ ~held /\ ThreadStep
    /\ thr' = "wait" /\ fresh' = TRUE /\ armed' = FALSE
    /\ UNCHANGED <<sem, asleep, fails>>

ThrWait ==
    /\ thr = "wait" /\ ThreadStep
    /\ \/ sem > 0 /\ sem' = sem - 1 /\ thr' = "write" /\ UNCHANGED fails
       \/ Fail /\ thr' = "read" /\ UNCHANGED sem
    /\ UNCHANGED <<count, asleep>>

(* Mutant: the result of the write is not looked at.                       *)
ThrWriteIgnored ==
    /\ thr = "write" /\ ThreadStep
    /\ armed' = fresh /\ thr' = "state"
    /\ UNCHANGED <<sem, fresh, asleep, fails>>

(* The kernel takes the count back only if no event came in between.       *)
ThrWrite ==
    /\ thr = "write" /\ ThreadStep
    /\ armed' = fresh
    /\ thr' = IF fresh THEN "state" ELSE "post"
    /\ UNCHANGED <<sem, fresh, asleep, fails>>

(* Mutant: the thread goes back to the top of its loop when the write of   *)
(* the state fails, without sem_post.                                      *)
ThrStateKeeps ==
    /\ thr = "state" /\ ThreadStep
    /\ \/ (armed => fresh) /\ asleep' = TRUE /\ thr' = "post" /\ UNCHANGED fails
       \/ armed /\ ~fresh /\ thr' = "read" /\ UNCHANGED <<asleep, fails>>
       \/ Fail /\ thr' = "read" /\ UNCHANGED asleep
    /\ UNCHANGED <<sem, count>>

(* "mem" is written: the device sleeps, unless the kernel was armed and an *)
(* event has come since, or it fails for another reason.                   *)
ThrState ==
    /\ thr = "state" /\ ThreadStep
    /\ thr' = "post"
    /\ \/ (armed => fresh) /\ asleep' = TRUE /\ UNCHANGED fails
       \/ armed /\ ~fresh /\ UNCHANGED <<asleep, fails>>
       \/ Fail /\ UNCHANGED asleep
    /\ UNCHANGED <<sem, count>>

ThrPost ==
    /\ thr = "post" /\ ThreadStep
    /\ thr' = "read" /\ sem' = sem + 1
    /\ UNCHANGED <<count, asleep, fails>>

Thread == ThrRead \/ ThrWait \/ ThrWrite \/ ThrState \/ ThrPost

-----------------------------------------------------------------------------
(* earlysuspend_thread_func: wait for the panel to go off, say so, wait    *)
(* for it to come back, say so.  A failing read ends the thread.           *)

WatcherWait ==
    /\ \/ watcher = "sleep" /\ fb = "off" /\ watcher' = "setmem" /\ UNCHANGED fails
       \/ watcher = "wake" /\ fb = "on" /\ watcher' = "seton" /\ UNCHANGED fails
       \/ watcher \in {"sleep", "wake"} /\ Fail /\ watcher' = "dead"
    /\ UNCHANGED est

WatcherSet ==
    /\ \/ watcher = "setmem" /\ est' = "mem" /\ watcher' = "wake"
       \/ watcher = "seton" /\ est' = "on" /\ watcher' = "sleep"
    /\ UNCHANGED fails

Watcher ==
    /\ ~asleep
    /\ WatcherWait \/ WatcherSet
    /\ UNCHANGED <<lib, caller, sem, thr, waits, count, held, asleep, panel, calls, events>>

-----------------------------------------------------------------------------
(* The kernel.                                                             *)

Kernel == UNCHANGED <<lib, caller, sem, thr, early, armed, power, calls, fails>>

Event ==
    /\ ~asleep /\ ~held /\ events < MaxEvents
    /\ events' = events + 1 /\ held' = TRUE /\ fresh' = FALSE
    /\ UNCHANGED <<asleep, fb>> /\ Kernel

EventDone ==
    /\ ~asleep /\ held /\ held' = FALSE
    /\ UNCHANGED <<fresh, asleep, fb, events>> /\ Kernel

(* The panel follows what was written.                                     *)
PanelFollow ==
    /\ ~asleep /\ ops = "early"
    /\ fb # IF power = "mem" THEN "off" ELSE "on"
    /\ fb' = IF power = "mem" THEN "off" ELSE "on"
    /\ UNCHANGED <<fresh, held, asleep, events>> /\ Kernel

(* With the first two interfaces the kernel decides when to sleep.         *)
KernelSleep ==
    /\ ops \in {"early", "autosleep"} /\ power = "mem" /\ ~held /\ ~asleep
    /\ ops = "early" => fb = "off"
    /\ asleep' = TRUE
    /\ UNCHANGED <<fresh, held, fb, events>> /\ Kernel

(* An event wakes the device.                                              *)
Wake ==
    /\ asleep /\ asleep' = FALSE /\ held' = TRUE /\ fresh' = FALSE
    /\ UNCHANGED <<fb, events>> /\ Kernel

-----------------------------------------------------------------------------

Next ==
    \/ AutosuspendEnable \/ AutosuspendDisable \/ DisableTakesSem \/ PanelSeen
    \/ ThrRead \/ ThrWait \/ ThrWrite \/ ThrState \/ ThrPost \/ Watcher
    \/ Event \/ EventDone \/ PanelFollow \/ KernelSleep \/ Wake

Spec == Init /\ [][Next]_vars

(* Threads run on, events come to an end, the panel follows and something  *)
(* wakes the device up.  disable gets the semaphore if that is free again  *)
(* and again: the suspend thread sleeps 100 ms between two turns.          *)
Fairness ==
    /\ WF_vars(Thread) /\ WF_vars(Watcher) /\ WF_vars(PanelSeen)
    /\ WF_vars(EventDone) /\ WF_vars(PanelFollow) /\ WF_vars(Wake)
    /\ SF_vars(DisableTakesSem)

FairSpec == Spec /\ Fairness

-----------------------------------------------------------------------------
(* The device sleeps only while autosuspend is enabled: once disable has   *)
(* returned, the suspend thread is not between its two writes any more.    *)
AwakeWhenOff == asleep => enabled \/ caller = "enable"

(* With the wakeup count, the device never falls asleep over an event that *)
(* came after the count was read, however long the thread waited between   *)
(* reading the count and writing it back.                                  *)
SleepsFresh == ops = "wakeup" /\ ~asleep /\ asleep' => fresh
NoLostWakeup == [][SleepsFresh]_vars

(* When a call has returned, the panel is in the state it asked for: the   *)
(* call has waited for a report of the watcher that is not an old one.     *)
PanelFollows == waits /\ caller = "idle" => (fb = "off") = enabled

(* autosuspend_disable returns, unless the watcher thread has died.        *)
Disabling == caller = "disable"
Returned == caller # "disable" \/ watcher = "dead"
DisableReturns == Disabling ~> Returned

(* While autosuspend stays enabled the suspend thread gets the device to   *)
(* sleep once the events have stopped.                                     *)
MaySleep == ops = "wakeup" /\ enabled
SleptOrStopped == asleep \/ ~enabled \/ caller = "disable"
EnabledSleeps == MaySleep ~> SleptOrStopped
=============================================================================
