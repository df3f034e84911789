--------------------------- MODULE InitCrashWindow ---------------------------
(***************************************************************************)
(* InitSupervisor with a history variable: the age of every exit of a      *)
(* critical service that init counted as a crash.  The code keeps only the *)
(* time of the first crash of a window and a counter (time_crashed and     *)
(* nr_crashed); the history is what readme.txt talks about.                *)
(***************************************************************************)
EXTENDS InitSupervisor, Sequences

VARIABLE crashes   \* for each critical service, the ages of its crashes, oldest first,
                   \* saturating beyond the window

hvars == <<vars, crashes>>

(* init reaps the process of s and finds that it should have kept running. *)
CountedCrash(s) ==
    /\ Reaping /\ svc[s].proc = "zombie" /\ svc'[s].proc = "none"
    /\ "RESTARTING" \in svc'[s].flags \/ pc' = "rebooted"

GrowOlder(q) == [i \in 1 .. Len(q) |-> Older(q[i], CrashWindow + 1)]

HInit == Init /\ crashes = [s \in Critical |-> <<>>]

HTick ==
    /\ Tick
    /\ crashes' = IF pc = "rebooted" THEN crashes
                  ELSE [s \in Critical |-> GrowOlder(crashes[s])]

HStep ==
    /\ \/ InitStep \/ PollReturn \/ SigchldHandler
       \/ \E s \in Services : ChildSetpgid(s) \/ KilledExit(s) \/ OwnExit(s)
    /\ crashes' = [s \in Critical |-> IF CountedCrash(s) THEN Append(crashes[s], 0)
                                      ELSE crashes[s]]

HNext == HTick \/ HStep

HSpec == HInit /\ [][HNext]_hvars

(* init reboots into recovery only if a critical service really exited     *)
(* more than CRITICAL_CRASH_THRESHOLD times within one window, although it *)
(* keeps no list of exits: restarting the count never adds exits of an     *)
(* earlier window to it.                                                   *)
RebootJustified ==
    pc = "rebooted" =>
        \E s \in Critical : \E k \in 1 .. Len(crashes[s]) - CrashMax :
            \A i \in k .. Len(crashes[s]) : crashes[s][i] <= CrashWindow

(* Whatever the exits, no critical service exits more than twice the       *)
(* threshold within one window without a reboot: an interval as long as    *)
(* the window meets at most two of the windows the code counts in.         *)
CrashesBounded ==
    pc # "rebooted" =>
        \A s \in Critical : \A i \in 1 .. Len(crashes[s]) - 2 * CrashMax :
            crashes[s][i] > CrashWindow
=============================================================================
