------------------------ MODULE InitSupervisorProofs ------------------------
(***************************************************************************)
(* Proofs about InitSupervisor, for any services, options, onrestart       *)
(* commands, time constants and bounds.                                    *)
(*                                                                         *)
(* Almost every step of init changes the record of one or several services *)
(* by one of five operations.  The lemmas of the first part say what each  *)
(* operation preserves of one record; the second part lifts them to the    *)
(* actions.  The rest is what the invariant buys: no exit of a child is    *)
(* overlooked, what was stopped stays down, the life of a service as init  *)
(* reports it is the one ServiceStatus describes, and, with the history of *)
(* InitCrashWindow, init reboots for critical services that do crash.      *)
(***************************************************************************)
EXTENDS InitCrashWindow, TLAPS

USE ServiceSets, Numbers

(* FlagsConsistent for one service.                                        *)
FlagsOK(s, r) ==
    /\ "RUNNING" \in r.flags =>
           r.proc # "none" /\ r.flags \cap {"DISABLED", "RESET", "RESTARTING"} = {}
    /\ "RESTARTING" \in r.flags =>
           r.proc = "none" /\ s \notin Oneshot /\ r.flags \cap {"DISABLED", "RESET"} = {}
    /\ r.proc # "none" /\ "RUNNING" \notin r.flags => r.flags \cap {"DISABLED", "RESET"} # {}

(* ReportTruthful for one service.                                         *)
ReportOK(r) ==
    /\ r.prop = "running" <=> "RUNNING" \in r.flags
    /\ r.prop \in {"unset", "stopped", "restarting"} => r.proc = "none"
    /\ "RESTARTING" \in r.flags => r.prop = "restarting"

RecOK(s, r) == r \in ServiceRec /\ FlagsOK(s, r) /\ ReportOK(r)

-----------------------------------------------------------------------------
(* One record.                                                             *)

(* Giving up the process keeps the record well typed and changes nothing   *)
(* but the count of untracked processes (service_start overwrites          *)
(* svc->pid).                                                              *)
LEMMA UntrackOK ==
    ASSUME NEW r \in ServiceRec
    PROVE  /\ Untrack(r) \in ServiceRec
           /\ Untrack(r).flags = r.flags /\ Untrack(r).proc = r.proc
           /\ Untrack(r).prop = r.prop /\ Untrack(r).age = r.age
           /\ Untrack(r).crashAge = r.crashAge /\ Untrack(r).nr_crashed = r.nr_crashed
  BY DEF Untrack, ServiceRec, PState, Live

(* service_start keeps a record in order, whatever becomes of the start.   *)
LEMMA StartOK ==
    ASSUME NEW s \in Services, NEW r, RecOK(s, r), NEW o \in Outcome,
           uptime \in 0 .. BackOff
    PROVE  RecOK(s, ServiceStart(r, o))
<1> DEFINE c == [r EXCEPT !.flags = @ \ {"DISABLED", "RESTARTING", "RESET"},
                          !.age = uptime]
<1>0. r \in ServiceRec
  BY DEF RecOK
<1>1. c \in ServiceRec /\ c.proc = r.proc /\ c.prop = r.prop
      /\ c.flags = r.flags \ {"DISABLED", "RESTARTING", "RESET"}
  BY <1>0, Zenon DEF ServiceRec
<1>2. CASE "RUNNING" \in r.flags
  <2>1. ServiceStart(r, o) = c
    BY <1>2 DEF ServiceStart
  <2> QED
    BY <1>1, <1>2, <2>1 DEF RecOK, FlagsOK, ReportOK
<1>3. CASE "RUNNING" \notin r.flags /\ o = "disable"
  <2>1. ServiceStart(r, o) = [c EXCEPT !.flags = @ \cup {"DISABLED"}]
    BY <1>3 DEF ServiceStart
  <2>2. [c EXCEPT !.flags = @ \cup {"DISABLED"}] \in ServiceRec
    BY <1>1, Zenon DEF ServiceRec, Flag
  <2>3. [c EXCEPT !.flags = @ \cup {"DISABLED"}].flags = c.flags \cup {"DISABLED"}
        /\ [c EXCEPT !.flags = @ \cup {"DISABLED"}].proc = r.proc
        /\ [c EXCEPT !.flags = @ \cup {"DISABLED"}].prop = r.prop
    BY <1>1 DEF ServiceRec
  <2>4. /\ ServiceStart(r, o) \in ServiceRec
        /\ ServiceStart(r, o).flags = (r.flags \ {"DISABLED", "RESTARTING", "RESET"})
                                      \cup {"DISABLED"}
        /\ ServiceStart(r, o).proc = r.proc /\ ServiceStart(r, o).prop = r.prop
    BY <1>1, <2>1, <2>2, <2>3
  <2> HIDE DEF c
  <2>5. FlagsOK(s, ServiceStart(r, o))
    BY <1>3, <2>4 DEF FlagsOK
  <2>6. ReportOK(ServiceStart(r, o))
    BY <1>3, <2>4 DEF RecOK, ReportOK
  <2> QED
    BY <2>4, <2>5, <2>6 DEF RecOK
<1>4. CASE "RUNNING" \notin r.flags /\ o = "nofork"
  <2>1. ServiceStart(r, o) = [Untrack(c) EXCEPT !.proc = "none"]
    BY <1>4 DEF ServiceStart
  <2>2. Untrack(c) \in ServiceRec /\ Untrack(c).flags = c.flags /\ Untrack(c).prop = c.prop
    BY <1>1, UntrackOK, Zenon
  <2> HIDE DEF c
  <2>3. /\ ServiceStart(r, o) \in ServiceRec
        /\ ServiceStart(r, o).flags = r.flags \ {"DISABLED", "RESTARTING", "RESET"}
        /\ ServiceStart(r, o).proc = "none" /\ ServiceStart(r, o).prop = r.prop
    BY <1>1, <2>1, <2>2 DEF ServiceRec
  <2>4. FlagsOK(s, ServiceStart(r, o)) /\ ReportOK(ServiceStart(r, o))
    BY <1>4, <2>3 DEF RecOK, FlagsOK, ReportOK
  <2> QED
    BY <2>3, <2>4 DEF RecOK
<1>5. CASE "RUNNING" \notin r.flags /\ o = "ok"
  <2>1. ServiceStart(r, o) = [Untrack(c) EXCEPT !.proc = "forked", !.age = 0,
                                 !.prop = "running", !.flags = @ \cup {"RUNNING"}]
    BY <1>5 DEF ServiceStart
  <2>2. Untrack(c) \in ServiceRec /\ Untrack(c).flags = c.flags
    BY <1>1, UntrackOK, Zenon
  <2> HIDE DEF c
  <2>3. "RUNNING" \in Flag /\ "forked" \in PState /\ "running" \in Report /\ 0 \in 0 .. BackOff
    BY DEF Flag, PState, Live, Report, Numbers
  <2>4. ServiceStart(r, o) \in ServiceRec
    BY <2>1, <2>2, <2>3, ZenonT(30) DEF ServiceRec
  <2>5. /\ ServiceStart(r, o).flags = c.flags \cup {"RUNNING"}
        /\ ServiceStart(r, o).proc = "forked" /\ ServiceStart(r, o).prop = "running"
    BY <2>1, <2>2 DEF ServiceRec
  <2> QED
    BY <1>1, <2>4, <2>5 DEF RecOK, FlagsOK, ReportOK
<1> QED
  BY <1>2, <1>3, <1>4, <1>5 DEF Outcome

(* service_stop_or_reset keeps a record in order.                          *)
LEMMA StopOK ==
    ASSUME NEW s \in Services, NEW r, RecOK(s, r), NEW how
    PROVE  RecOK(s, ServiceStopOrReset(s, r, how))
<1> DEFINE off == IF how = "RESET" /\ s \notin RcDisabled THEN "RESET" ELSE "DISABLED"
           t == ServiceStopOrReset(s, r, how)
<1>1. t = [r EXCEPT !.flags = (@ \ {"RUNNING", "RESTARTING"}) \cup {off},
                    !.proc = KillGroup(s, @),
                    !.prop = IF r.proc = "none" THEN "stopped" ELSE "stopping"]
  BY DEF ServiceStopOrReset
<1>2. off \in {"RESET", "DISABLED"} /\ r \in ServiceRec
  BY DEF RecOK
<1>3. KillGroup(s, r.proc) \in PState \cup {"none"}
      /\ (KillGroup(s, r.proc) = "none" <=> r.proc = "none")
  <2>1. r.proc \in PState \cup {"none"}
    BY <1>2 DEF ServiceRec
  <2> QED
    BY <2>1 DEF KillGroup, PState, Live
<1> HIDE DEF off
<1>4. t \in ServiceRec
  <2>1. (r.flags \ {"RUNNING", "RESTARTING"}) \cup {off} \in SUBSET Flag
    BY <1>2, Zenon DEF ServiceRec, Flag
  <2>2. (IF r.proc = "none" THEN "stopped" ELSE "stopping") \in Report
    BY DEF Report
  <2> QED
    BY <1>1, <1>2, <1>3, <2>1, <2>2, ZenonT(30) DEF ServiceRec
<1>5. /\ t.flags = (r.flags \ {"RUNNING", "RESTARTING"}) \cup {off}
      /\ t.proc = KillGroup(s, r.proc)
      /\ t.prop = IF r.proc = "none" THEN "stopped" ELSE "stopping"
  BY <1>1, <1>2 DEF ServiceRec
<1> HIDE DEF t
<1>6. FlagsOK(s, t) /\ ReportOK(t)
  BY <1>2, <1>3, <1>5 DEF FlagsOK, ReportOK
<1> QED
  BY <1>4, <1>6 DEF RecOK, t

(* Reaping the process of a record in order; the record may be that of a   *)
(* service that crashed.                                                   *)
LEMMA ReapedFields ==
    ASSUME NEW s \in Services, NEW r \in ServiceRec
    PROVE  /\ Reaped(s, r) \in ServiceRec /\ Reaped(s, r).proc = "none"
           /\ Reaped(s, r).flags = (r.flags \ {"RUNNING"})
                                    \cup (IF s \in Oneshot THEN {"DISABLED"} ELSE {})
           /\ Reaped(s, r).prop = r.prop
<1> DEFINE f == (r.flags \ {"RUNNING"}) \cup (IF s \in Oneshot THEN {"DISABLED"} ELSE {})
<1>1. f \in SUBSET Flag
  BY DEF ServiceRec, Flag
<1>2. Reaped(s, r) = [r EXCEPT !.proc = "none", !.flags = f]
  BY DEF Reaped
<1> HIDE DEF f
<1>3. Reaped(s, r) \in ServiceRec /\ Reaped(s, r).flags = f /\ Reaped(s, r).proc = "none"
      /\ Reaped(s, r).prop = r.prop
  BY <1>1, <1>2, Zenon DEF ServiceRec
<1> QED
  BY <1>3 DEF f

(* wait_for_one_process keeps the record of a service that stays down in   *)
(* order.                                                                  *)
LEMMA ReapUnwantedOK ==
    ASSUME NEW s \in Services, NEW r, RecOK(s, r), Unwanted(s, r)
    PROVE  RecOK(s, [Reaped(s, r) EXCEPT !.prop = "stopped"])
<1> DEFINE t == [Reaped(s, r) EXCEPT !.prop = "stopped"]
<1>1. r \in ServiceRec /\ "stopped" \in Report
  BY DEF RecOK, Report
<1>2. /\ t \in ServiceRec /\ t.flags = Reaped(s, r).flags
      /\ t.proc = "none" /\ t.prop = "stopped"
  BY <1>1, ReapedFields DEF ServiceRec
<1>3. t.flags \cap {"DISABLED", "RESET"} # {} /\ "RUNNING" \notin t.flags
  BY <1>1, <1>2, ReapedFields DEF Unwanted
<1>4. "RESTARTING" \notin t.flags
  BY <1>1, <1>2, <1>3, ReapedFields DEF RecOK, FlagsOK
<1> HIDE DEF t
<1>5. FlagsOK(s, t) /\ ReportOK(t)
  BY <1>2, <1>3, <1>4 DEF FlagsOK, ReportOK
<1> QED
  BY <1>2, <1>5 DEF RecOK, t

(* What CountCrash leaves alone (the crash counters of a critical service  *)
(* are all it changes).                                                    *)
LEMMA CountCrashOK ==
    ASSUME NEW s \in Services, NEW r \in ServiceRec
    PROVE  /\ CountCrash(s, r) \in ServiceRec
           /\ CountCrash(s, r).flags = r.flags /\ CountCrash(s, r).proc = r.proc
           /\ CountCrash(s, r).prop = r.prop /\ CountCrash(s, r).strays = r.strays
           /\ CountCrash(s, r).age = r.age
<1>1. 0 \in 0 .. CrashWindow + 1 /\ 1 \in Nat /\ r.nr_crashed + 1 \in Nat
  <2>1. r.nr_crashed \in Nat
    BY DEF ServiceRec
  <2> QED
    BY <2>1 DEF Numbers
<1>2. CASE s \notin Critical
  BY <1>2 DEF CountCrash
<1>3. CASE s \in Critical /\ InWindow(r)
  <2>1. CountCrash(s, r) = [r EXCEPT !.nr_crashed = @ + 1]
    BY <1>3 DEF CountCrash
  <2> QED
    BY <1>1, <2>1 DEF ServiceRec
<1>4. CASE s \in Critical /\ ~InWindow(r)
  <2>1. CountCrash(s, r) = [r EXCEPT !.crashAge = 0, !.nr_crashed = 1]
    BY <1>4 DEF CountCrash
  <2> QED
    BY <1>1, <2>1, Zenon DEF ServiceRec
<1> QED
  BY <1>2, <1>3, <1>4

(* wait_for_one_process keeps the record of a crashed service in order.    *)
LEMMA CrashedOK ==
    ASSUME NEW s \in Services, NEW r, RecOK(s, r), ~Unwanted(s, r)
    PROVE  RecOK(s, Crashed(s, r))
<1> DEFINE d == CountCrash(s, Reaped(s, r))
           t == Crashed(s, r)
<1>1. r \in ServiceRec
  BY DEF RecOK
<1>2. d \in ServiceRec /\ d.proc = "none" /\ d.flags = Reaped(s, r).flags
  BY <1>1, ReapedFields, CountCrashOK
<1>3. t = [d EXCEPT !.flags = @ \cup {"RESTARTING"}, !.prop = "restarting"]
  BY DEF Crashed
<1>4. d.flags \cup {"RESTARTING"} \in SUBSET Flag /\ "restarting" \in Report
  BY <1>2 DEF ServiceRec, Flag, Report
<1>5. d.flags \cap {"DISABLED", "RESET"} = {} /\ "RUNNING" \notin d.flags /\ s \notin Oneshot
  BY <1>1, <1>2, ReapedFields DEF Unwanted
<1> HIDE DEF d
<1>6. t \in ServiceRec
  BY <1>2, <1>3, <1>4, Zenon DEF ServiceRec
<1>7. t.flags = d.flags \cup {"RESTARTING"} /\ t.proc = "none" /\ t.prop = "restarting"
  BY <1>2, <1>3 DEF ServiceRec
<1> HIDE DEF t
<1>8. FlagsOK(s, t) /\ ReportOK(t)
  BY <1>5, <1>7 DEF FlagsOK, ReportOK
<1> QED
  BY <1>6, <1>8 DEF RecOK, t

-----------------------------------------------------------------------------
(* All records.                                                            *)

(* The inductive invariant: types, and every record in order.  When init   *)
(* reboots the device it no longer reports the end of the service.         *)
IInv ==
    /\ TypeOK
    /\ \A s \in Services : FlagsOK(s, svc[s])
    /\ pc # "rebooted" => \A s \in Services : ReportOK(svc[s])

(* Every record is in order as long as init runs.                          *)
AllOK == \A s \in Services : RecOK(s, svc[s])

(* While init runs, the invariant says that every record is in order.      *)
LEMMA RunningOK ==
    ASSUME IInv, pc # "rebooted"
    PROVE  AllOK /\ uptime \in 0 .. BackOff
  BY DEF IInv, TypeOK, AllOK, RecOK

(* The records being in order after a step is the invariant's part on svc. *)
LEMMA AllOKStep ==
    ASSUME NEW g, svc' = [s \in Services |-> g[s]],
           \A s \in Services : RecOK(s, g[s])
    PROVE  /\ svc' \in [Services -> ServiceRec]
           /\ \A s \in Services : FlagsOK(s, svc'[s]) /\ ReportOK(svc'[s])
  BY DEF RecOK

(* A request (an rc command or a control message) keeps all records in     *)
(* order.                                                                  *)
LEMMA ServeOK ==
    ASSUME AllOK, uptime \in 0 .. BackOff, requests \in Nat, forkFails \in Nat,
           NEW q \in One \cup Whole, Serve(q)
    PROVE  /\ svc' \in [Services -> ServiceRec]
           /\ \A s \in Services : FlagsOK(s, svc'[s]) /\ ReportOK(svc'[s])
           /\ requests' \in Nat /\ forkFails' \in Nat /\ exits' = exits
<1>1. PICK out \in [q.who -> Outcome] :
          /\ CountForkFails(q.who, out)
          /\ svc' = [s \in Services |-> IF s \in q.who THEN Effect(s, q, out[s]) ELSE svc[s]]
  BY DEF Serve
<1>2. ASSUME NEW s \in Services, s \in q.who
      PROVE  RecOK(s, Effect(s, q, out[s]))
  <2>1. RecOK(s, svc[s]) /\ out[s] \in Outcome
    BY <1>2 DEF AllOK
  <2>2. RecOK(s, ServiceStart(svc[s], out[s]))
    BY <2>1, StartOK
  <2>3. \A how : RecOK(s, ServiceStopOrReset(s, svc[s], how))
    BY <2>1, StopOK
  <2>4. RecOK(s, ServiceRestart(s, svc[s], out[s]))
    BY <2>1, <2>3, StartOK DEF ServiceRestart
  <2>5. q.op \in {"start", "stop", "restart", "class_start", "class_stop", "class_reset"}
    BY DEF One, Whole
  <2> QED
    BY <1>2, <2>1, <2>2, <2>3, <2>4, <2>5 DEF Effect
<1>3. \A s \in Services :
          RecOK(s, IF s \in q.who THEN Effect(s, q, out[s]) ELSE svc[s])
  BY <1>2 DEF AllOK
<1>4. requests' \in Nat /\ exits' = exits /\ forkFails' \in Nat
  BY <1>1 DEF Serve, CountForkFails
<1> QED
  BY <1>1, <1>3, <1>4 DEF RecOK

(* The initial state.                                                      *)
LEMMA InitOK == Init => IInv
<1> SUFFICES ASSUME Init PROVE IInv
  OBVIOUS
<1>1. ASSUME NEW s \in Services PROVE RecOK(s, svc[s])
  <2> DEFINE f == IF s \in RcDisabled THEN {"DISABLED"} ELSE {}
  <2>1. svc[s] = [flags |-> f, proc |-> "none", strays |-> NoStrays, age |-> 0,
                  crashAge |-> 0, nr_crashed |-> 0, prop |-> "unset"]
    BY DEF Init
  <2>2. /\ f \in SUBSET Flag /\ NoStrays \in [PState -> Nat] /\ 0 \in 0 .. BackOff
        /\ 0 \in 0 .. CrashWindow + 1 /\ "unset" \in Report
        /\ f \cap {"RUNNING", "RESTARTING"} = {}
    BY DEF Flag, NoStrays, Numbers, Report
  <2> HIDE DEF f
  <2>3. svc[s] \in ServiceRec
    BY <2>1, <2>2 DEF ServiceRec
  <2> QED
    BY <2>1, <2>2, <2>3 DEF RecOK, FlagsOK, ReportOK
<1>2. svc \in [Services -> ServiceRec]
  <2>1. DOMAIN svc = Services /\ svc = [s \in DOMAIN svc |-> svc[s]]
    BY DEF Init
  <2>2. \A s \in Services : svc[s] \in ServiceRec
    BY <1>1 DEF RecOK
  <2> QED
    BY <2>1, <2>2
<1>3. /\ sigPipe \in 0 .. PipeCap /\ timer \in -1 .. BackOff /\ uptime \in 0 .. BackOff
      /\ requests \in Nat /\ exits \in Nat /\ forkFails \in Nat /\ pc = "exec"
  BY DEF Init, Numbers
<1>4. sigPending \in BOOLEAN /\ ready \subseteq {"prop", "sig"} /\ signalInit \in BOOLEAN
  BY Zenon DEF Init
<1> QED
  BY <1>1, <1>2, <1>3, <1>4 DEF IInv, TypeOK, RecOK

(* One record changes and stays in order.                                  *)
LEMMA OneChanges ==
    ASSUME AllOK, NEW s \in Services, NEW r, RecOK(s, r), svc \in [Services -> ServiceRec],
           svc' = [svc EXCEPT ![s] = r]
    PROVE  /\ svc' \in [Services -> ServiceRec]
           /\ \A u \in Services : FlagsOK(u, svc'[u]) /\ ReportOK(svc'[u])
<1>1. svc' \in [Services -> ServiceRec]
  BY DEF RecOK
<1>2. \A u \in Services : svc'[u] = IF u = s THEN r ELSE svc[u]
  OBVIOUS
<1> QED
  BY <1>1, <1>2 DEF AllOK, RecOK

(* A process of a service goes from a live state to another state.         *)
LEMMA MoveOK ==
    ASSUME AllOK, svc \in [Services -> ServiceRec],
           NEW s \in Services, NEW p \in Live, NEW q \in PState \ {p}, ProcMove(s, p, q)
    PROVE  /\ svc' \in [Services -> ServiceRec]
           /\ \A u \in Services : FlagsOK(u, svc'[u]) /\ ReportOK(svc'[u])
<1>0. svc[s] \in ServiceRec /\ RecOK(s, svc[s])
  BY DEF AllOK
<1>1. CASE svc[s].proc = p /\ svc' = [svc EXCEPT ![s].proc = q]
  <2> DEFINE r == [svc[s] EXCEPT !.proc = q]
  <2>1. svc' = [svc EXCEPT ![s] = r]
    BY <1>1
  <2>2. /\ r \in ServiceRec /\ r.flags = svc[s].flags /\ r.prop = svc[s].prop /\ r.proc = q
    BY <1>0, Zenon DEF ServiceRec
  <2>3. q # "none" /\ svc[s].proc # "none"
    BY <1>1 DEF Live, PState
  <2> HIDE DEF r
  <2>4. RecOK(s, r)
    BY <1>0, <2>2, <2>3 DEF RecOK, FlagsOK, ReportOK
  <2> QED
    BY <2>1, <2>4, OneChanges, Zenon
<1>2. CASE /\ svc[s].strays[p] > 0
           /\ svc' = [svc EXCEPT ![s].strays[p] = @ - 1, ![s].strays[q] = @ + 1]
  <2> DEFINE z == [[svc[s].strays EXCEPT ![p] = @ - 1] EXCEPT ![q] = @ + 1]
             r == [svc[s] EXCEPT !.strays = z]
  <2>1. svc' = [svc EXCEPT ![s] = r]
    BY <1>0, <1>2 DEF ServiceRec
  <2>2. svc[s].strays \in [PState -> Nat]
    BY <1>0 DEF ServiceRec
  <2>3. [svc[s].strays EXCEPT ![p] = @ - 1] \in [PState -> Nat]
    BY <1>2, <2>2 DEF PState
  <2>4. z \in [PState -> Nat]
    BY <2>3
  <2> HIDE DEF z
  <2>5. /\ r \in ServiceRec /\ r.flags = svc[s].flags
        /\ r.prop = svc[s].prop /\ r.proc = svc[s].proc
    BY <1>0, <2>4, Zenon DEF ServiceRec
  <2> HIDE DEF r
  <2>6. RecOK(s, r)
    BY <1>0, <2>5, SMTT(30) DEF RecOK, FlagsOK, ReportOK
  <2> QED
    BY <2>1, <2>6, OneChanges, Zenon
<1> QED
  BY <1>1, <1>2 DEF ProcMove

(* A process that moves changes neither flags nor report.                  *)
LEMMA MoveKeeps ==
    ASSUME svc \in [Services -> ServiceRec], NEW s \in Services, NEW u \in Services,
           NEW p \in Live, NEW q \in PState \ {p}, ProcMove(u, p, q)
    PROVE  svc'[s].flags = svc[s].flags /\ svc'[s].prop = svc[s].prop
<1>0. svc[u] \in ServiceRec
  OBVIOUS
<1>1. CASE svc' = [svc EXCEPT ![u].proc = q]
  BY <1>0, <1>1 DEF ServiceRec
<1>2. CASE svc' = [svc EXCEPT ![u].strays[p] = @ - 1, ![u].strays[q] = @ + 1]
  <2>1. CASE s # u
    BY <1>2, <2>1
  <2>2. CASE s = u
    <3>1. \E z : svc'[u] = [svc[u] EXCEPT !.strays = z]
      BY <1>0, <1>2 DEF ServiceRec
    <3> QED
      BY <1>0, <2>2, <3>1 DEF ServiceRec
  <2> QED
    BY <2>1, <2>2
<1> QED
  BY <1>1, <1>2 DEF ProcMove

(* Every step of init, of its handler, of a process and of the clock keeps *)
(* the invariant.                                                          *)
LEMMA StepOK == ASSUME IInv, [Next]_vars PROVE IInv'
<1> USE DEF TypeOK
<1>1. CASE ExecuteOther
  BY <1>1 DEF ExecuteOther, IInv, budget
<1>2. CASE ExecuteService
  <2>1. AllOK /\ uptime \in 0 .. BackOff
    BY <1>2, RunningOK DEF ExecuteService
  <2>2. PICK q \in One \cup Whole : Serve(q)
    BY <1>2 DEF ExecuteService
  <2> QED
    BY <1>2, <2>1, <2>2, ServeOK DEF ExecuteService, IInv
<1>3. CASE SignalInit
  BY <1>3 DEF SignalInit, IInv, budget
<1>4. CASE RestartProcesses
  <2>1. AllOK /\ uptime \in 0 .. BackOff
    BY <1>4, RunningOK DEF RestartProcesses
  <2>2. PICK out \in [Due -> Outcome] :
            /\ CountForkFails(Due, out)
            /\ svc' = [s \in Services |->
                          IF s \in Due THEN ServiceStart(svc[s], out[s]) ELSE svc[s]]
    BY <1>4 DEF RestartProcesses
  <2>3. \A s \in Services :
            RecOK(s, IF s \in Due THEN ServiceStart(svc[s], out[s]) ELSE svc[s])
    BY <2>1, StartOK DEF AllOK
  <2>4. /\ svc' \in [Services -> ServiceRec]
        /\ \A s \in Services : FlagsOK(s, svc'[s]) /\ ReportOK(svc'[s])
    BY <2>2, <2>3 DEF RecOK
  <2>5. timer' \in -1 .. BackOff
    <3>1. \A s \in Services : svc[s].age \in 0 .. BackOff
      BY <2>1 DEF AllOK, RecOK, ServiceRec
    <3>2. \A s \in Services : Wait(s) \in 0 .. BackOff
      BY <3>1 DEF Wait, Numbers
    <3>3. Restarting \ Due \subseteq Services
      BY DEF Restarting
    <3> QED
      BY <1>4, <3>2, <3>3 DEF RestartProcesses, SetTimer, Numbers
  <2>6. forkFails' \in Nat
    BY <2>2 DEF CountForkFails, IInv
  <2> QED
    BY <1>4, <2>4, <2>5, <2>6 DEF RestartProcesses, IInv
<1>5. CASE PollReturn
  <2>1. /\ ready' \subseteq {"prop", "sig"} /\ pc' \in {"prop", "sig", "exec"}
    BY <1>5 DEF PollReturn
  <2> QED
    BY <1>5, <2>1 DEF PollReturn, IInv, budget
<1>6. CASE HandleControlMessage
  <2>1. AllOK /\ uptime \in 0 .. BackOff
    BY <1>6, RunningOK DEF HandleControlMessage
  <2>2. PICK q \in One : Serve(q)
    BY <1>6 DEF HandleControlMessage
  <2> QED
    BY <1>6, <2>1, <2>2, ServeOK DEF HandleControlMessage, IInv
<1>7. CASE HandleSignal
  <2>1. sigPipe' \in 0 .. PipeCap
    BY <1>7 DEF HandleSignal, IInv, Numbers
  <2> QED
    BY <1>7, <2>1 DEF HandleSignal, IInv, budget
<1>8. CASE ReapDone
  BY <1>8 DEF ReapDone, Reaping, IInv, budget
<1>9. CASE SigchldHandler
  <2>1. sigPipe' \in 0 .. PipeCap
    BY <1>9 DEF SigchldHandler, IInv, Numbers
  <2> QED
    BY <1>9, <2>1, Zenon DEF SigchldHandler, IInv, budget
<1>10. CASE vars' = vars
  BY <1>10 DEF vars, IInv, budget
<1>11. ASSUME NEW s \in Services, ReapUnwanted(s) PROVE IInv'
  <2>1. AllOK /\ pc # "rebooted"
    BY <1>11, RunningOK DEF ReapUnwanted, Reaping
  <2>2. RecOK(s, [Reaped(s, svc[s]) EXCEPT !.prop = "stopped"])
    BY <1>11, <2>1, ReapUnwantedOK DEF ReapUnwanted, AllOK
  <2>3. /\ svc' \in [Services -> ServiceRec]
        /\ \A u \in Services : FlagsOK(u, svc'[u]) /\ ReportOK(svc'[u])
    BY <1>11, <2>1, <2>2, OneChanges, Zenon DEF ReapUnwanted, IInv
  <2> QED
    BY <1>11, <2>3 DEF ReapUnwanted, IInv, init, budget
<1>12. ASSUME NEW s \in Services, ReapCrashed(s) PROVE IInv'
  <2>1. AllOK /\ pc # "rebooted" /\ uptime \in 0 .. BackOff
    BY <1>12, RunningOK, Zenon DEF ReapCrashed, Reaping
  <2>2. PICK out \in [OnRestart[s] -> Outcome] :
            /\ CountForkFails(OnRestart[s], out)
            /\ svc' = [u \in Services |->
                          IF u = s THEN Crashed(s, svc[s])
                          ELSE IF u \in OnRestart[s] THEN ServiceRestart(u, svc[u], out[u])
                          ELSE svc[u]]
    BY <1>12, Zenon DEF ReapCrashed
  <2>3. RecOK(s, Crashed(s, svc[s]))
    BY <1>12, <2>1, CrashedOK, Zenon DEF ReapCrashed, AllOK
  <2>4. ASSUME NEW u \in Services, u \in OnRestart[s]
        PROVE  RecOK(u, ServiceRestart(u, svc[u], out[u]))
    BY <2>1, <2>4, StopOK, StartOK DEF ServiceRestart, AllOK
  <2>5. \A u \in Services :
            RecOK(u, IF u = s THEN Crashed(s, svc[s])
                     ELSE IF u \in OnRestart[s] THEN ServiceRestart(u, svc[u], out[u])
                     ELSE svc[u])
    BY <2>1, <2>3, <2>4 DEF AllOK
  <2>6. /\ svc' \in [Services -> ServiceRec]
        /\ \A u \in Services : FlagsOK(u, svc'[u]) /\ ReportOK(svc'[u])
    BY <2>2, <2>5 DEF RecOK
  <2>7. forkFails' \in Nat
    BY <2>2, SMTT(30) DEF CountForkFails, IInv
  <2> QED
    BY <1>12, <2>6, <2>7, Zenon DEF ReapCrashed, IInv, init
<1>13. ASSUME NEW s \in Services, Reboot(s) PROVE IInv'
  <2>1. svc[s] \in ServiceRec
    BY DEF IInv
  <2> DEFINE r == CountCrash(s, Reaped(s, svc[s]))
  <2>2. r \in ServiceRec /\ r.proc = "none" /\ r.flags = Reaped(s, svc[s]).flags
    BY <2>1, ReapedFields, CountCrashOK
  <2>3. FlagsOK(s, r)
    <3>1. "RUNNING" \notin r.flags
      BY <2>1, <2>2, ReapedFields, SMTT(30)
    <3>2. "RESTARTING" \notin r.flags
      BY <1>13, <2>1, <2>2, ReapedFields DEF IInv, FlagsOK, Reboot
    <3> HIDE DEF r
    <3> QED
      BY <2>2, <3>1, <3>2, SMTT(30) DEF FlagsOK
  <2>4. svc' = [svc EXCEPT ![s] = r] /\ pc' = "rebooted"
    BY <1>13, Zenon DEF Reboot
  <2> HIDE DEF r
  <2>5. svc' \in [Services -> ServiceRec] /\ \A u \in Services : FlagsOK(u, svc'[u])
    BY <2>2, <2>3, <2>4, Zenon DEF IInv
  <2> QED
    BY <1>13, <2>4, <2>5 DEF Reboot, IInv, budget
<1>14. ASSUME NEW s \in Services, ReapStray(s) PROVE IInv'
  <2>1. AllOK /\ pc # "rebooted" /\ svc[s] \in ServiceRec
    BY <1>14, RunningOK DEF ReapStray, Reaping, IInv
  <2> DEFINE z == [svc[s].strays EXCEPT !["zombie"] = @ - 1]
             r == [svc[s] EXCEPT !.strays = z]
  <2>2. svc' = [svc EXCEPT ![s] = r]
    BY <1>14, Zenon DEF ReapStray
  <2>3. svc[s].strays \in [PState -> Nat] /\ "zombie" \in PState
    BY <2>1, Zenon DEF ServiceRec, PState
  <2>4. z \in [PState -> Nat]
    BY <1>14, <2>3 DEF ReapStray
  <2> HIDE DEF z
  <2>5. /\ r \in ServiceRec /\ r.flags = svc[s].flags
        /\ r.prop = svc[s].prop /\ r.proc = svc[s].proc
    BY <2>1, <2>4, Zenon DEF ServiceRec
  <2> HIDE DEF r
  <2>6. RecOK(s, r)
    BY <2>1, <2>5, ZenonT(30) DEF AllOK, RecOK, FlagsOK, ReportOK
  <2>7. /\ svc' \in [Services -> ServiceRec]
        /\ \A u \in Services : FlagsOK(u, svc'[u]) /\ ReportOK(svc'[u])
    BY <2>1, <2>2, <2>6, OneChanges, Zenon DEF IInv
  <2> QED
    BY <1>14, <2>7 DEF ReapStray, IInv, init, budget
<1>15. ASSUME NEW s \in Services, ChildSetpgid(s) \/ KilledExit(s) \/ OwnExit(s) PROVE IInv'
  <2>1. AllOK /\ pc # "rebooted"
    BY <1>15, RunningOK DEF ChildSetpgid, KilledExit, OwnExit
  <2>2. \E p \in Live : \E q \in PState \ {p} : ProcMove(s, p, q)
    BY <1>15 DEF ChildSetpgid, KilledExit, OwnExit, Live, PState
  <2>3. /\ svc' \in [Services -> ServiceRec]
        /\ \A u \in Services : FlagsOK(u, svc'[u]) /\ ReportOK(svc'[u])
    BY <2>1, <2>2, MoveOK DEF IInv
  <2>4. sigPending' \in BOOLEAN
    BY <1>15 DEF ChildSetpgid, KilledExit, OwnExit, IInv
  <2>5. exits' \in Nat
    BY <1>15, SMTT(30) DEF ChildSetpgid, KilledExit, OwnExit, IInv, budget
  <2> QED
    BY <1>15, <2>3, <2>4, <2>5, Zenon DEF ChildSetpgid, KilledExit, OwnExit, IInv, init, budget
<1>16. CASE Tick
  <2>1. \A n \in Nat : \A m \in 0 .. n : Older(m, n) \in 0 .. n
    BY DEF Older
  <2>2. uptime' \in 0 .. BackOff /\ timer' \in -1 .. BackOff
    <3>1. uptime \in 0 .. BackOff /\ timer \in -1 .. BackOff /\ BackOff \in Nat
      BY SMTT(30) DEF IInv, Numbers
    <3>2. /\ uptime' = Older(uptime, BackOff)
          /\ timer' = IF timer > 0 THEN timer - 1 ELSE timer
      BY <1>16, Zenon DEF Tick
    <3>3. timer' \in -1 .. BackOff
      BY <3>1, <3>2, SMTT(30)
    <3> QED
      BY <2>1, <3>1, <3>2, <3>3
  <2> DEFINE c(s) == IF s \in Critical THEN Older(svc[s].crashAge, CrashWindow + 1)
                     ELSE svc[s].crashAge
             r(s) == [svc[s] EXCEPT !.age = Older(svc[s].age, BackOff), !.crashAge = c(s)]
  <2>3. svc' = [s \in Services |-> r(s)]
    BY <1>16, Zenon DEF Tick
  <2>4. ASSUME NEW s \in Services
        PROVE  /\ r(s) \in ServiceRec /\ r(s).flags = svc[s].flags
               /\ r(s).proc = svc[s].proc /\ r(s).prop = svc[s].prop
    <3>1. svc[s] \in ServiceRec /\ svc[s].age \in 0 .. BackOff
          /\ svc[s].crashAge \in 0 .. CrashWindow + 1
      BY DEF IInv, ServiceRec
    <3>2. Older(svc[s].age, BackOff) \in 0 .. BackOff
      BY <2>1, <3>1, Zenon DEF Numbers
    <3>3. c(s) \in 0 .. CrashWindow + 1
      <4>1. CrashWindow + 1 \in Nat
        BY DEF Numbers
      <4>2. Older(svc[s].crashAge, CrashWindow + 1) \in 0 .. CrashWindow + 1
        BY <2>1, <3>1, <4>1, Zenon
      <4> QED
        BY <3>1, <4>2, Zenon
    <3> HIDE DEF c
    <3> QED
      BY <3>1, <3>2, <3>3, ZenonT(30) DEF ServiceRec
  <2> HIDE DEF r
  <2>5. svc' \in [Services -> ServiceRec]
    BY <2>3, <2>4
  <2>6. \A s \in Services : FlagsOK(s, svc'[s]) /\ (ReportOK(svc[s]) => ReportOK(svc'[s]))
    BY <2>3, <2>4, ZenonT(30) DEF IInv, FlagsOK, ReportOK
  <2> QED
    BY <1>16, <2>2, <2>5, <2>6, Zenon DEF Tick, IInv, budget
<1> QED
  BY <1>1, <1>2, <1>3, <1>4, <1>5, <1>6, <1>7, <1>8, <1>9, <1>10, <1>11, <1>12, <1>13,
     <1>14, <1>15, <1>16, SMTT(30) DEF Next, InitStep

(* The invariant holds in every reachable state.                           *)
THEOREM Invariance == Spec => []IInv
<1>1. Init => IInv
  BY InitOK
<1>2. IInv /\ [Next]_vars => IInv'
  BY StepOK
<1> QED
  BY <1>1, <1>2, PTL DEF Spec

(* Type correctness of the model of init's service supervision.            *)
THEOREM Typing == Spec => []TypeOK
<1>1. IInv => TypeOK
  BY DEF IInv
<1> QED
  BY <1>1, Invariance, PTL

(* The SVC_* flags of every service agree with each other and with         *)
(* svc->pid in every reachable state.                                      *)
THEOREM FlagsAreConsistent == Spec => []FlagsConsistent
<1>1. IInv => FlagsConsistent
  BY Zenon DEF IInv, FlagsConsistent, FlagsOK
<1> QED
  BY <1>1, Invariance, PTL

(* init.svc.<name> tells the truth about every service in every reachable  *)
(* state.                                                                  *)
THEOREM ReportIsTruthful == Spec => []ReportTruthful
<1>1. IInv => ReportTruthful
  BY Zenon DEF IInv, ReportTruthful, ReportOK
<1> QED
  BY <1>1, Invariance, PTL
-----------------------------------------------------------------------------
(* The crash window of a critical service.                                 *)

(* The two counters that service_start and service_stop_or_reset leave     *)
(* alone.                                                                  *)
SameCount(r, t) == t.nr_crashed = r.nr_crashed /\ t.crashAge = r.crashAge

(* service_start counts no crash and leaves no restart pending.            *)
LEMMA StartCount ==
    ASSUME NEW r \in ServiceRec, NEW o \in Outcome
    PROVE  SameCount(r, ServiceStart(r, o)) /\ "RESTARTING" \notin ServiceStart(r, o).flags
<1> DEFINE c == [r EXCEPT !.flags = @ \ {"DISABLED", "RESTARTING", "RESET"}, !.age = uptime]
           d == Untrack(c)
<1>1. /\ SameCount(r, c) /\ c.flags = r.flags \ {"DISABLED", "RESTARTING", "RESET"}
      /\ DOMAIN c = DOMAIN r
  BY DEF ServiceRec, SameCount
<1>2. SameCount(c, d) /\ d.flags = c.flags /\ DOMAIN d = DOMAIN r
  BY <1>1 DEF Untrack, SameCount, ServiceRec
<1>3. DOMAIN r = {"flags", "proc", "strays", "age", "crashAge", "nr_crashed", "prop"}
  BY DEF ServiceRec
<1>4. CASE "RUNNING" \in r.flags
  BY <1>1, <1>4 DEF ServiceStart
<1>5. CASE "RUNNING" \notin r.flags /\ o = "disable"
  <2>1. ServiceStart(r, o) = [c EXCEPT !.flags = @ \cup {"DISABLED"}]
    BY <1>5 DEF ServiceStart
  <2> HIDE DEF c
  <2> QED
    BY <1>1, <1>3, <2>1 DEF SameCount
<1>6. CASE "RUNNING" \notin r.flags /\ o = "nofork"
  <2>1. ServiceStart(r, o) = [d EXCEPT !.proc = "none"]
    BY <1>6 DEF ServiceStart
  <2> HIDE DEF c, d
  <2> QED
    BY <1>1, <1>2, <1>3, <2>1 DEF SameCount
<1>7. CASE "RUNNING" \notin r.flags /\ o = "ok"
  <2>1. ServiceStart(r, o) = [d EXCEPT !.proc = "forked", !.age = 0, !.prop = "running",
                                       !.flags = @ \cup {"RUNNING"}]
    BY <1>7 DEF ServiceStart
  <2> HIDE DEF c, d
  <2> QED
    BY <1>1, <1>2, <1>3, <2>1 DEF SameCount
<1> QED
  BY <1>4, <1>5, <1>6, <1>7, Zenon DEF Outcome

(* Nor does service_stop_or_reset.                                         *)
LEMMA StopCount ==
    ASSUME NEW s \in Services, NEW r \in ServiceRec, NEW how
    PROVE  /\ SameCount(r, ServiceStopOrReset(s, r, how))
           /\ "RESTARTING" \notin ServiceStopOrReset(s, r, how).flags
  BY Zenon DEF ServiceRec, SameCount, ServiceStopOrReset

(* Nor stopping and starting.                                              *)
LEMMA RestartCount ==
    ASSUME NEW s \in Services, NEW r, RecOK(s, r), NEW o \in Outcome
    PROVE  /\ SameCount(r, ServiceRestart(s, r, o))
           /\ "RESTARTING" \notin ServiceRestart(s, r, o).flags
<1>1. r \in ServiceRec /\ ServiceStopOrReset(s, r, "DISABLED") \in ServiceRec
  BY StopOK DEF RecOK
<1> QED
  BY <1>1, StopCount, StartCount DEF ServiceRestart, SameCount

(* What one step may do to the counters of a service and to its log: init  *)
(* counts no crash,                                                        *)
Quiet(s) == SameCount(svc[s], svc'[s]) /\ ~CountedCrash(s)
(* or one that the open window adds to its count,                          *)
Another(s) ==
    /\ CountedCrash(s) /\ InWindow(svc[s])
    /\ svc'[s].nr_crashed = svc[s].nr_crashed + 1 /\ svc'[s].crashAge = svc[s].crashAge
    /\ pc' = "rebooted" <=> svc[s].nr_crashed + 1 > CrashMax
(* or the first of a new window.                                           *)
First(s) ==
    /\ CountedCrash(s) /\ ~InWindow(svc[s]) /\ pc' # "rebooted"
    /\ svc'[s].nr_crashed = 1 /\ svc'[s].crashAge = 0

(* Every step of init and of the processes is one of the three for every   *)
(* critical service, as long as init runs.                                 *)
LEMMA CrashStep ==
    ASSUME IInv, HStep, pc # "rebooted", NEW s \in Critical
    PROVE  Quiet(s) \/ Another(s) \/ First(s)
<1>0. /\ s \in Services /\ AllOK /\ svc \in [Services -> ServiceRec] /\ svc[s] \in ServiceRec
      /\ RecOK(s, svc[s])
  BY RunningOK, Zenon DEF AllOK, RecOK, IInv, TypeOK
<1>1. ASSUME svc'[s] = svc[s] PROVE Quiet(s)
  BY <1>1, Zenon DEF Quiet, SameCount, CountedCrash
<1>2. CASE ExecuteOther \/ SignalInit \/ HandleSignal \/ ReapDone \/ PollReturn \/ SigchldHandler
  BY <1>1, <1>2, Zenon
     DEF ExecuteOther, SignalInit, HandleSignal, ReapDone, PollReturn, SigchldHandler
<1>3. ASSUME NEW q \in One \cup Whole, Serve(q), ~Reaping PROVE Quiet(s)
  <2>1. PICK out \in [q.who -> Outcome] :
            svc' = [u \in Services |-> IF u \in q.who THEN Effect(u, q, out[u]) ELSE svc[u]]
    BY <1>3, Zenon DEF Serve
  <2>2. CASE s \notin q.who
    BY <1>0, <1>1, <2>1, <2>2, Zenon
  <2>3. CASE s \in q.who
    <3>1. out[s] \in Outcome /\ svc'[s] = Effect(s, q, out[s])
      BY <1>0, <2>1, <2>3, Zenon
    <3>2. SameCount(svc[s], svc[s])
      BY Zenon DEF SameCount
    <3>3. SameCount(svc[s], Effect(s, q, out[s]))
      <4>1. q.op \in {"start", "stop", "restart", "class_start", "class_stop", "class_reset"}
        BY Zenon DEF One, Whole
      <4> QED
        BY <1>0, <2>3, <3>1, <3>2, <4>1, StartCount, StopCount, RestartCount, Zenon DEF Effect
    <3> QED
      BY <1>3, <3>1, <3>3, Zenon DEF Quiet, CountedCrash
  <2> QED
    BY <2>2, <2>3, Zenon
<1>4. CASE ExecuteService \/ HandleControlMessage
  BY <1>3, <1>4 DEF ExecuteService, HandleControlMessage, Reaping
<1>5. CASE RestartProcesses
  <2>1. PICK out \in [Due -> Outcome] :
            svc' = [u \in Services |-> IF u \in Due THEN ServiceStart(svc[u], out[u]) ELSE svc[u]]
    BY <1>5 DEF RestartProcesses
  <2>2. CASE s \notin Due
    BY <1>0, <1>1, <2>1, <2>2, Zenon
  <2>3. CASE s \in Due
    <3>1. out[s] \in Outcome /\ svc'[s] = ServiceStart(svc[s], out[s])
      BY <1>0, <2>1, <2>3
    <3>2. ~Reaping
      BY <1>5 DEF RestartProcesses, Reaping
    <3> QED
      BY <1>0, <3>1, <3>2, StartCount, ZenonT(30) DEF Quiet, CountedCrash
  <2> QED
    BY <2>2, <2>3
<1>6. ASSUME NEW t \in Services, ReapUnwanted(t) PROVE Quiet(s)
  <2>1. CASE t # s
    BY <1>0, <1>1, <1>6, <2>1, Zenon DEF ReapUnwanted
  <2>2. CASE t = s
    <3>1. svc'[s] = [Reaped(s, svc[s]) EXCEPT !.prop = "stopped"]
      BY <1>0, <1>6, <2>2 DEF ReapUnwanted
    <3>2. SameCount(svc[s], svc'[s]) /\ svc'[s].flags \cap {"DISABLED", "RESET"} # {}
      <4>1. Reaped(s, svc[s]) \in ServiceRec /\ SameCount(svc[s], Reaped(s, svc[s]))
        BY <1>0, ReapedFields, Zenon DEF SameCount, Reaped, ServiceRec
      <4>2. Reaped(s, svc[s]).flags \cap {"DISABLED", "RESET"} # {}
        BY <1>6, <2>2 DEF ReapUnwanted, Unwanted
      <4> QED
        BY <3>1, <4>1, <4>2, SMTT(30) DEF SameCount, ServiceRec
    <3>3. RecOK(s, svc'[s])
      BY <1>0, <1>6, <2>2, <3>1, ReapUnwantedOK DEF ReapUnwanted
    <3>4. pc' # "rebooted"
      BY <1>6 DEF ReapUnwanted, init
    <3> QED
      BY <3>2, <3>3, <3>4, Zenon DEF Quiet, CountedCrash, RecOK, FlagsOK
  <2> QED
    BY <2>1, <2>2
<1>7. ASSUME NEW t \in Services, t # s, ReapCrashed(t) PROVE Quiet(s)
  <2>1. PICK out \in [OnRestart[t] -> Outcome] :
            svc' = [u \in Services |->
                        IF u = t THEN Crashed(t, svc[t])
                        ELSE IF u \in OnRestart[t] THEN ServiceRestart(u, svc[u], out[u])
                        ELSE svc[u]]
    BY <1>7, Zenon DEF ReapCrashed
  <2>2. CASE s \notin OnRestart[t]
    BY <1>0, <1>1, <1>7, <2>1, <2>2, ZenonT(30)
  <2>3. CASE s \in OnRestart[t]
    <3>1. out[s] \in Outcome /\ svc'[s] = ServiceRestart(s, svc[s], out[s])
      BY <1>0, <1>7, <2>1, <2>3, Zenon
    <3>2. pc' # "rebooted"
      BY <1>7, Zenon DEF ReapCrashed, init
    <3> QED
      BY <1>0, <3>1, <3>2, RestartCount DEF Quiet, CountedCrash
  <2> QED
    BY <2>2, <2>3, Zenon
<1>8. ASSUME NEW t \in Services, t # s, Reboot(t) PROVE Quiet(s)
  BY <1>0, <1>1, <1>8 DEF Reboot
<1>9. CASE ReapCrashed(s) \/ Reboot(s)
  <2> DEFINE r == Reaped(s, svc[s])
             d == CountCrash(s, r)
  <2>1. r \in ServiceRec /\ SameCount(svc[s], r) /\ r.proc = "none"
    BY <1>0, ReapedFields, Zenon DEF SameCount, Reaped, ServiceRec
  <2>2. InWindow(r) <=> InWindow(svc[s])
    BY <2>1, Zenon DEF InWindow, SameCount
  <2>3. /\ InWindow(svc[s]) => d.nr_crashed = svc[s].nr_crashed + 1
                               /\ d.crashAge = svc[s].crashAge
        /\ ~InWindow(svc[s]) => d.nr_crashed = 1 /\ d.crashAge = 0
    <3> HIDE DEF r
    <3> QED
      BY <2>1, <2>2 DEF CountCrash, SameCount, ServiceRec
  <2>4. d \in ServiceRec /\ d.proc = "none"
    BY <2>1, CountCrashOK, Zenon
  <2>5. Reaping /\ svc[s].proc = "zombie"
    BY <1>9, Zenon DEF ReapCrashed, Reboot
  <2>6. CASE ReapCrashed(s)
    <3>1. svc'[s] = [d EXCEPT !.flags = @ \cup {"RESTARTING"}, !.prop = "restarting"]
      BY <1>0, <2>6, Zenon DEF ReapCrashed, Crashed
    <3>2. pc' = pc /\ ~TooManyCrashes(s, svc[s])
      BY <2>6, Zenon DEF ReapCrashed, init
    <3> HIDE DEF d
    <3>3. /\ SameCount(d, svc'[s]) /\ svc'[s].proc = "none" /\ "RESTARTING" \in svc'[s].flags
      BY <2>4, <3>1 DEF SameCount, ServiceRec
    <3>4. CountedCrash(s)
      BY <2>5, <3>3 DEF CountedCrash
    <3>5. InWindow(svc[s]) => ~(svc[s].nr_crashed + 1 > CrashMax)
      BY <3>2, Zenon DEF TooManyCrashes
    <3> QED
      BY <2>3, <3>2, <3>3, <3>4, <3>5, Zenon DEF Another, First, SameCount
  <2>7. CASE Reboot(s)
    <3>1. svc'[s] = d /\ pc' = "rebooted" /\ TooManyCrashes(s, svc[s])
      BY <1>0, <2>7 DEF Reboot
    <3> HIDE DEF d
    <3> QED
      BY <2>3, <2>4, <2>5, <3>1, Zenon DEF Another, CountedCrash, TooManyCrashes
  <2> QED
    BY <1>9, <2>6, <2>7, SMTT(30)
<1>10. ASSUME NEW t \in Services, ReapStray(t) PROVE Quiet(s)
  <2>1. CASE t # s
    BY <1>0, <1>1, <1>10, <2>1 DEF ReapStray
  <2>2. CASE t = s
    <3>1. \E z : svc'[s] = [svc[s] EXCEPT !.strays = z]
      BY <1>0, <1>10, <2>2, Zenon DEF ReapStray, ServiceRec
    <3> QED
      BY <1>0, <3>1 DEF Quiet, SameCount, CountedCrash, ServiceRec
  <2> QED
    BY <2>1, <2>2
<1>11. ASSUME NEW t \in Services, NEW p \in Live, NEW q \in PState \ {p}, ProcMove(t, p, q)
       PROVE Quiet(s)
  <2>1. CASE t # s
    BY <1>0, <1>1, <1>11, <2>1 DEF ProcMove
  <2>2. CASE t = s /\ svc' = [svc EXCEPT ![t].proc = q]
    <3>1. svc'[s] = [svc[s] EXCEPT !.proc = q]
      BY <1>0, <2>2
    <3>2. q # "none"
      BY DEF PState, Live
    <3> QED
      BY <1>0, <3>1, <3>2 DEF Quiet, SameCount, CountedCrash, ServiceRec
  <2>3. CASE t = s /\ svc' = [svc EXCEPT ![t].strays[p] = @ - 1, ![t].strays[q] = @ + 1]
    <3>1. \E z : svc'[s] = [svc[s] EXCEPT !.strays = z]
      BY <1>0, <2>3, SMTT(30) DEF ServiceRec
    <3> QED
      BY <1>0, <3>1 DEF Quiet, SameCount, CountedCrash, ServiceRec
  <2> QED
    BY <1>11, <2>1, <2>2, <2>3, Zenon DEF ProcMove
<1>12. ASSUME NEW t \in Services, ChildSetpgid(t) \/ KilledExit(t) \/ OwnExit(t) PROVE Quiet(s)
  BY <1>11, <1>12 DEF ChildSetpgid, KilledExit, OwnExit, Live, PState
<1> QED
  BY <1>2, <1>4, <1>5, <1>6, <1>7, <1>8, <1>9, <1>10, <1>12, Zenon DEF HStep, InitStep

(* While init runs, the counters describe the log of a critical service:   *)
(* the last nr_crashed crashes are those since time_crashed, and before    *)
(* them come at most CRITICAL_CRASH_THRESHOLD that may still be recent.    *)
Logged(q, n, a) ==
    /\ q \in Seq(0 .. CrashWindow + 1)
    /\ n <= Len(q)
    /\ \A i \in 1 .. Len(q) : IF i > Len(q) - n THEN q[i] <= a ELSE q[i] >= a
CrashLog(s) == Logged(crashes[s], svc[s].nr_crashed, svc[s].crashAge)

Cleared(q, n) ==
    /\ n <= CrashMax
    /\ \A i \in 1 .. Len(q) : i <= Len(q) - n - CrashMax => q[i] > CrashWindow
Spread(s) == Cleared(crashes[s], svc[s].nr_crashed)

CrashInv ==
    /\ RebootJustified
    /\ pc # "rebooted" => \A s \in Critical : CrashLog(s) /\ (CrashMax > 0 => Spread(s))

(* What a crash does to a log.                                             *)
LEMMA LogAppend ==
    ASSUME NEW q \in Seq(0 .. CrashWindow + 1)
    PROVE  /\ Len(q) \in Nat /\ Append(q, 0) \in Seq(0 .. CrashWindow + 1)
           /\ Len(Append(q, 0)) = Len(q) + 1 /\ Append(q, 0)[Len(q) + 1] = 0
           /\ \A i \in 1 .. Len(q) : Append(q, 0)[i] = q[i] /\ q[i] \in 0 .. CrashWindow + 1
<1>1. 0 \in 0 .. CrashWindow + 1
  OBVIOUS
<1> QED
  BY <1>1

\* One more crash in the window, and the first one of a new window.
LEMMA LogGrows ==
    ASSUME NEW q, NEW n \in Nat, NEW a \in 0 .. CrashWindow + 1, Logged(q, n, a)
    PROVE  Logged(Append(q, 0), n + 1, a) /\ Logged(Append(q, 0), 1, 0)
<1> DEFINE b == Append(q, 0)
<1>1. /\ Len(q) \in Nat /\ b \in Seq(0 .. CrashWindow + 1)
      /\ Len(b) = Len(q) + 1 /\ b[Len(q) + 1] = 0
      /\ \A i \in 1 .. Len(q) : b[i] = q[i] /\ q[i] \in 0 .. CrashWindow + 1
  BY LogAppend DEF Logged
<1> HIDE DEF b
<1>2. n + 1 <= Len(b) /\ 1 <= Len(b)
  BY <1>1 DEF Logged
<1>3. ASSUME NEW i \in 1 .. Len(b)
      PROVE  IF i > Len(b) - (n + 1) THEN b[i] <= a ELSE b[i] >= a
  <2>1. CASE i = Len(q) + 1
    BY <1>1, <2>1, SMTT(30)
  <2>2. CASE i \in 1 .. Len(q)
    <3>1. b[i] = q[i] /\ IF i > Len(q) - n THEN q[i] <= a ELSE q[i] >= a
      BY <1>1, <2>2, Zenon DEF Logged
    <3>2. Len(b) - (n + 1) = Len(q) - n
      BY <1>1
    <3> QED
      BY <3>1, <3>2, Zenon
  <2> QED
    BY <1>1, <2>1, <2>2
<1>4. ASSUME NEW i \in 1 .. Len(b)
      PROVE  IF i > Len(b) - 1 THEN b[i] <= 0 ELSE b[i] >= 0
  BY <1>1, SMTT(30)
<1> QED
  BY <1>1, <1>2, <1>3, <1>4, Zenon DEF Logged, b

\* What comes before the window then: in the first case n + 1 crashes are in it and
\* init has not rebooted, in the second the window of n crashes is over.
LEMMA SpreadGrows ==
    ASSUME NEW q, NEW n \in Nat, NEW a \in 0 .. CrashWindow + 1, Logged(q, n, a),
           Cleared(q, n), CrashMax > 0
    PROVE  /\ ~(n + 1 > CrashMax) => Cleared(Append(q, 0), n + 1)
           /\ ~(a <= CrashWindow) => Cleared(Append(q, 0), 1)
<1> DEFINE b == Append(q, 0)
<1>1. /\ Len(q) \in Nat /\ Len(b) = Len(q) + 1
      /\ \A i \in 1 .. Len(q) : b[i] = q[i] /\ q[i] \in 0 .. CrashWindow + 1
  BY LogAppend DEF Logged
<1> HIDE DEF b
<1>2. ASSUME ~(n + 1 > CrashMax), NEW i \in 1 .. Len(b), i <= Len(b) - (n + 1) - CrashMax
      PROVE  b[i] > CrashWindow
  <2>1. i \in 1 .. Len(q) /\ i <= Len(q) - n - CrashMax
    BY <1>1, <1>2
  <2> QED
    BY <1>1, <2>1, Zenon DEF Cleared
<1>3. ASSUME ~(a <= CrashWindow), NEW i \in 1 .. Len(b), i <= Len(b) - 1 - CrashMax
      PROVE  b[i] > CrashWindow
  <2>1. i \in 1 .. Len(q) /\ ~(i > Len(q) - n)
    BY <1>1, <1>3 DEF Cleared
  <2>2. q[i] >= a /\ b[i] = q[i] /\ q[i] \in 0 .. CrashWindow + 1
    BY <1>1, <2>1, Zenon DEF Logged
  <2> QED
    BY <1>3, <2>2
<1>4. 1 <= CrashMax /\ (~(n + 1 > CrashMax) => n + 1 <= CrashMax)
  OBVIOUS
<1> QED
  BY <1>2, <1>3, <1>4, Zenon DEF Cleared, b

(* A crash is appended to the log, or none is, and the log stays described *)
(* by the counters.                                                        *)
LEMMA LogStep ==
    ASSUME IInv, pc # "rebooted", NEW s \in Critical, CrashLog(s),
           crashes'[s] = IF CountedCrash(s) THEN Append(crashes[s], 0) ELSE crashes[s],
           Quiet(s) \/ Another(s) \/ First(s)
    PROVE  /\ CrashLog(s)'
           /\ CrashMax > 0 /\ Spread(s) /\ pc' # "rebooted" => Spread(s)'
<1> DEFINE q == crashes[s]
           n == svc[s].nr_crashed
           a == svc[s].crashAge
<1>1. n \in Nat /\ a \in 0 .. CrashWindow + 1
  <2>1. svc[s] \in ServiceRec
    BY Zenon DEF IInv, TypeOK
  <2> QED
    BY <2>1, Zenon DEF ServiceRec
<1>2. Logged(q, n, a) /\ (Spread(s) => Cleared(q, n))
  BY Zenon DEF CrashLog, Spread
<1> HIDE DEF q, n, a
<1>3. CASE Quiet(s)
  <2>1. crashes'[s] = q /\ svc'[s].nr_crashed = n /\ svc'[s].crashAge = a
    BY <1>3, Zenon DEF Quiet, SameCount, q, n, a
  <2> QED
    BY <1>2, <2>1, Zenon DEF CrashLog, Spread
<1>4. CASE Another(s)
  <2>1. /\ crashes'[s] = Append(q, 0) /\ svc'[s].nr_crashed = n + 1 /\ svc'[s].crashAge = a
        /\ pc' # "rebooted" => ~(n + 1 > CrashMax)
    BY <1>4, Zenon DEF Another, q, n, a
  <2>2. Logged(Append(q, 0), n + 1, a)
    BY <1>1, <1>2, LogGrows, Zenon
  <2>3. CrashMax > 0 /\ Spread(s) /\ ~(n + 1 > CrashMax) => Cleared(Append(q, 0), n + 1)
    BY <1>1, <1>2, SpreadGrows, Zenon
  <2> QED
    BY <2>1, <2>2, <2>3, Zenon DEF CrashLog, Spread
<1>5. CASE First(s)
  <2>1. /\ crashes'[s] = Append(q, 0) /\ svc'[s].nr_crashed = 1 /\ svc'[s].crashAge = 0
        /\ ~(a <= CrashWindow)
    BY <1>5, Zenon DEF First, InWindow, q, n, a
  <2> QED
    BY <1>1, <1>2, <2>1, LogGrows, SpreadGrows, ZenonT(30) DEF CrashLog, Spread
<1> QED
  BY <1>3, <1>4, <1>5, Zenon

(* A second passes: the ages of the window and of the log grow alike.      *)
LEMMA TickLog ==
    ASSUME IInv, IInv', HTick, pc # "rebooted", NEW s \in Critical, CrashLog(s)
    PROVE  CrashLog(s)' /\ (Spread(s) => Spread(s)')
<1> DEFINE q == crashes[s]
           n == svc[s].nr_crashed
           a == svc[s].crashAge
           b == [i \in 1 .. Len(q) |-> Older(q[i], CrashWindow + 1)]
<1>0. s \in Services /\ svc[s] \in ServiceRec
  BY Zenon DEF IInv, TypeOK
<1>1. /\ q \in Seq(0 .. CrashWindow + 1) /\ n \in Nat /\ a \in 0 .. CrashWindow + 1
      /\ n <= Len(q) /\ \A i \in 1 .. Len(q) : IF i > Len(q) - n THEN q[i] <= a ELSE q[i] >= a
  BY <1>0, Zenon DEF CrashLog, Logged, ServiceRec
<1>2. /\ crashes'[s] = b /\ svc'[s].nr_crashed = n /\ svc'[s].crashAge = Older(a, CrashWindow + 1)
  BY <1>0, Zenon DEF HTick, Tick, GrowOlder, ServiceRec
<1>3. \A x \in 0 .. CrashWindow + 1 : Older(x, CrashWindow + 1) \in 0 .. CrashWindow + 1
  BY DEF Older, Numbers
<1>4. \A x, y \in 0 .. CrashWindow + 1 :
          x <= y => Older(x, CrashWindow + 1) <= Older(y, CrashWindow + 1)
  BY DEF Older, Numbers
<1>5. \A x \in 0 .. CrashWindow + 1 : x > CrashWindow => Older(x, CrashWindow + 1) > CrashWindow
  BY DEF Older, Numbers
<1> HIDE DEF q, n, a
<1>6. Len(q) \in Nat /\ \A i \in 1 .. Len(q) : q[i] \in 0 .. CrashWindow + 1
  BY <1>1
<1>7. /\ b \in Seq(0 .. CrashWindow + 1) /\ Len(b) = Len(q)
      /\ \A i \in 1 .. Len(q) : b[i] = Older(q[i], CrashWindow + 1)
  BY <1>3, <1>6
<1> HIDE DEF b
<1>8. \A i \in 1 .. Len(q) : IF i > Len(q) - n THEN b[i] <= Older(a, CrashWindow + 1)
                             ELSE b[i] >= Older(a, CrashWindow + 1)
  <2> SUFFICES ASSUME NEW i \in 1 .. Len(q)
               PROVE  IF i > Len(q) - n THEN b[i] <= Older(a, CrashWindow + 1)
                      ELSE b[i] >= Older(a, CrashWindow + 1)
    OBVIOUS
  <2>1. q[i] \in 0 .. CrashWindow + 1 /\ b[i] = Older(q[i], CrashWindow + 1)
    BY <1>6, <1>7, SMTT(30)
  <2>2. Older(a, CrashWindow + 1) \in Int /\ b[i] \in Int
    BY <1>1, <1>3, <2>1, SMTT(30)
  <2>3. IF i > Len(q) - n THEN q[i] <= a ELSE a <= q[i]
    BY <1>1, <2>1
  <2> QED
    BY <1>1, <1>4, <2>1, <2>2, <2>3, SMTT(30)
<1>9. CrashLog(s)'
  BY <1>1, <1>2, <1>7, <1>8, Zenon DEF CrashLog, Logged
<1>10. ASSUME Spread(s) PROVE Spread(s)'
  <2>1. n <= CrashMax /\ \A i \in 1 .. Len(q) : i <= Len(q) - n - CrashMax => q[i] > CrashWindow
    BY <1>10, Zenon DEF Spread, Cleared, q, n
  <2>2. \A i \in 1 .. Len(q) : i <= Len(q) - n - CrashMax => b[i] > CrashWindow
    BY <1>5, <1>6, <1>7, <2>1, Zenon
  <2> QED
    BY <1>2, <1>7, <2>1, <2>2, Zenon DEF Spread, Cleared
<1> QED
  BY <1>9, <1>10

(* The crash that makes init reboot is the last of more than               *)
(* CRITICAL_CRASH_THRESHOLD in one window.                                 *)
LEMMA RebootStep ==
    ASSUME IInv, IInv', HStep, pc # "rebooted", pc' = "rebooted",
           \A s \in Critical : CrashLog(s)
    PROVE  RebootJustified'
<1>1. PICK s \in Services : Reboot(s)
  BY Zenon DEF HStep, InitStep, ExecuteOther, ExecuteService, SignalInit, RestartProcesses,
         HandleControlMessage, HandleSignal, ReapUnwanted, ReapCrashed, ReapStray, ReapDone,
         PollReturn, SigchldHandler, ChildSetpgid, KilledExit, OwnExit, init
<1>2. s \in Critical /\ InWindow(svc[s]) /\ svc[s].nr_crashed + 1 > CrashMax /\ Reaping
      /\ svc[s].proc = "zombie"
  BY <1>1, Zenon DEF Reboot, TooManyCrashes
<1>3. svc[s] \in ServiceRec
  BY Zenon DEF IInv, TypeOK
<1> DEFINE q == crashes[s]
           n == svc[s].nr_crashed
<1>4. /\ q \in Seq(0 .. CrashWindow + 1) /\ n \in Nat /\ n <= Len(q) /\ n >= CrashMax
      /\ svc[s].crashAge \in Nat /\ svc[s].crashAge <= CrashWindow
      /\ \A i \in 1 .. Len(q) : i > Len(q) - n => q[i] <= svc[s].crashAge
  BY <1>2, <1>3, SMTT(30) DEF CrashLog, Logged, ServiceRec, InWindow, Numbers
<1>5. svc'[s].proc = "none"
  <2>1. svc'[s] = CountCrash(s, Reaped(s, svc[s]))
    BY <1>1, Zenon DEF Reboot, IInv, TypeOK
  <2> QED
    BY <1>3, <2>1, ReapedFields, CountCrashOK, SMTT(30)
<1>6. crashes'[s] = Append(q, 0)
  BY <1>2, <1>5, Zenon DEF HStep, CountedCrash
<1>7. /\ Len(q) \in Nat /\ Len(Append(q, 0)) = Len(q) + 1 /\ Append(q, 0)[Len(q) + 1] = 0
      /\ \A i \in 1 .. Len(q) : Append(q, 0)[i] = q[i] /\ q[i] \in 0 .. CrashWindow + 1
  BY <1>4, LogAppend, Zenon
<1> HIDE DEF q, n
<1>8. ASSUME NEW i \in Len(q) + 1 - CrashMax .. Len(q) + 1
      PROVE  Append(q, 0)[i] <= CrashWindow
  <2>1. CASE i = Len(q) + 1
    BY <1>7, <2>1, SMTT(30)
  <2>2. CASE i # Len(q) + 1
    <3>1. n \in Int /\ n >= CrashMax /\ n <= Len(q) /\ Len(q) \in Int /\ CrashMax \in Int
      BY <1>4, <1>7
    <3>2. i \in 1 .. Len(q) /\ i > Len(q) - n
      BY <1>8, <2>2, <3>1, SMTT(30)
    <3>3. q[i] <= svc[s].crashAge /\ Append(q, 0)[i] = q[i] /\ q[i] \in 0 .. CrashWindow + 1
      BY <1>4, <1>7, <3>2, Zenon
    <3> QED
      BY <1>4, <3>3, SMTT(30)
  <2> QED
    BY <2>1, <2>2, Zenon
<1>9. Len(q) + 1 - CrashMax \in 1 .. (Len(q) + 1) - CrashMax
  <2>1. CrashMax \in Int /\ Len(q) \in Int /\ CrashMax <= Len(q)
    BY <1>4, <1>7
  <2> QED
    BY <2>1
<1> QED
  <2>1. \E k \in 1 .. (Len(q) + 1) - CrashMax :
            \A i \in k .. Len(q) + 1 : Append(q, 0)[i] <= CrashWindow
    BY <1>8, <1>9, Zenon
  <2>2. Len(crashes'[s]) = Len(q) + 1
    BY <1>6, <1>7, Zenon
  <2> QED
    BY <1>2, <1>6, <2>1, <2>2, Zenon DEF RebootJustified

(* Every step preserves the invariant.                                     *)
LEMMA CrashInvStep == IInv /\ IInv' /\ CrashInv /\ [HNext]_hvars => CrashInv'
<1> SUFFICES ASSUME IInv, IInv', CrashInv, [HNext]_hvars PROVE CrashInv'
  BY Zenon
<1>1. CASE UNCHANGED hvars
  BY <1>1, Zenon DEF CrashInv, hvars, vars, RebootJustified, CrashLog, Logged, Spread, Cleared
<1>2. CASE pc = "rebooted" /\ HNext
  <2>1. pc' = "rebooted" /\ crashes' = crashes
    BY <1>2, Zenon
       DEF HNext, HTick, Tick, HStep, InitStep, ExecuteOther, ExecuteService, SignalInit,
         RestartProcesses, HandleControlMessage, HandleSignal, ReapUnwanted, ReapCrashed, Reboot,
         ReapStray, ReapDone, PollReturn, SigchldHandler, ChildSetpgid, KilledExit, OwnExit,
         Reaping
  <2> QED
    BY <1>2, <2>1, Zenon DEF CrashInv, RebootJustified
<1>3. CASE pc # "rebooted" /\ HTick
  <2>1. pc' = pc
    BY <1>3, Zenon DEF HTick, Tick
  <2> QED
    BY <1>3, <2>1, TickLog, Zenon DEF CrashInv, RebootJustified
<1>4. CASE pc # "rebooted" /\ HStep
  <2>1. \A s \in Critical :
            crashes'[s] = IF CountedCrash(s) THEN Append(crashes[s], 0) ELSE crashes[s]
    BY <1>4 DEF HStep
  <2>2. \A s \in Critical : Quiet(s) \/ Another(s) \/ First(s)
    BY <1>4, CrashStep, Zenon
  <2>3. \A s \in Critical : CrashLog(s)'
    BY <1>4, <2>1, <2>2, LogStep, Zenon DEF CrashInv
  <2>4. pc' # "rebooted" /\ CrashMax > 0 => \A s \in Critical : Spread(s)'
    BY <1>4, <2>1, <2>2, LogStep, Zenon DEF CrashInv
  <2>5. RebootJustified'
    BY <1>4, RebootStep, Zenon DEF CrashInv, RebootJustified
  <2> QED
    BY <2>3, <2>4, <2>5 DEF CrashInv
<1> QED
  BY <1>1, <1>2, <1>3, <1>4 DEF HNext

(* The history watches and does not interfere: what holds of InitSupervisor *)
(* holds with it.                                                          *)
LEMMA HistoryInvariance == HSpec => []IInv
<1>1. HInit => Init
  BY DEF HInit
<1>2. [HNext]_hvars => [Next]_vars
  BY DEF HNext, HTick, HStep, Next, hvars
<1> QED
  BY <1>1, <1>2, Invariance, PTL DEF HSpec, Spec

(* The log and the counters belong together, always.                       *)
LEMMA CrashInvariance == HSpec => []CrashInv
<1>1. HInit => CrashInv
  <2> SUFFICES ASSUME HInit PROVE CrashInv
    OBVIOUS
  <2>1. ASSUME NEW s \in Critical PROVE CrashLog(s) /\ Spread(s)
    <3>1. crashes[s] = <<>> /\ svc[s].nr_crashed = 0
      BY Zenon DEF HInit, Init
    <3> QED
      BY <3>1, SMTT(30) DEF CrashLog, Logged, Spread, Cleared, Numbers
  <2> QED
    BY <2>1, ZenonT(30) DEF CrashInv, RebootJustified, HInit, Init
<1>2. IInv /\ IInv' /\ CrashInv /\ [HNext]_hvars => CrashInv'
  BY CrashInvStep
<1> QED
  BY <1>1, <1>2, HistoryInvariance, PTL DEF HSpec

(* For any services, window and threshold, init reboots into recovery only *)
(* when a critical service has exited more than CRITICAL_CRASH_THRESHOLD   *)
(* times within one window (the counter that wait_for_one_process keeps).  *)
THEOREM RebootIsJustified == HSpec => []RebootJustified
<1>1. CrashInv => RebootJustified
  BY DEF CrashInv
<1> QED
  BY <1>1, CrashInvariance, PTL

(* And with a threshold of at least one, a critical service does not exit  *)
(* more than twice the threshold within one window without a reboot.       *)
THEOREM CrashesAreBounded == CrashMax > 0 /\ HSpec => []CrashesBounded
<1> SUFFICES ASSUME CrashMax > 0 PROVE HSpec => []CrashesBounded
  BY Zenon
<1>1. CrashInv /\ IInv => CrashesBounded
  <2> SUFFICES ASSUME CrashInv, IInv, pc # "rebooted", NEW s \in Critical,
                      NEW i \in 1 .. Len(crashes[s]) - 2 * CrashMax
               PROVE  crashes[s][i] > CrashWindow
    BY DEF CrashesBounded
  <2>1. Spread(s) /\ CrashLog(s)
    BY ZenonT(30) DEF CrashInv
  <2>2. Len(crashes[s]) \in Nat /\ svc[s].nr_crashed \in Nat
    BY <2>1, SMTT(30) DEF CrashLog, Logged, IInv, TypeOK, ServiceRec
  <2>3. i \in 1 .. Len(crashes[s]) /\ i <= Len(crashes[s]) - svc[s].nr_crashed - CrashMax
    BY <2>1, <2>2, SMTT(30) DEF Spread, Cleared, Numbers
  <2> QED
    BY <2>1, <2>3, Zenon DEF Spread, Cleared
<1> QED
  BY <1>1, CrashInvariance, HistoryInvariance, PTL

-----------------------------------------------------------------------------
(* Exits are noticed.                                                      *)

Zombies(r) == r.proc = "zombie" \/ r.strays["zombie"] > 0

(* Starting a service makes no zombie: it can only make one untracked.     *)
LEMMA StartNoZombie ==
    ASSUME NEW r \in ServiceRec, NEW o \in Outcome, Zombies(ServiceStart(r, o)),
           uptime \in 0 .. BackOff
    PROVE  Zombies(r)
<1> DEFINE c == [r EXCEPT !.flags = @ \ {"DISABLED", "RESTARTING", "RESET"},
                          !.age = uptime]
<1>1. c \in ServiceRec /\ c.proc = r.proc /\ c.strays = r.strays
  BY Zenon DEF ServiceRec
<1>2. "zombie" \in PState /\ r.strays \in [PState -> Nat]
  BY Zenon DEF PState, ServiceRec
<1> HIDE DEF c
<1>3. Untrack(c) \in ServiceRec /\ (Untrack(c).strays["zombie"] > 0 => Zombies(r))
  <2>1. CASE c.proc = "none"
    BY <1>1, <2>1, Zenon DEF Untrack, Zombies
  <2>2. CASE c.proc # "none"
    <3>1. Untrack(c) = [c EXCEPT !.strays = [c.strays EXCEPT ![c.proc] = @ + 1]]
      BY <1>1, <2>2 DEF Untrack, ServiceRec
    <3>2. Untrack(c).strays = [c.strays EXCEPT ![c.proc] = @ + 1]
      BY <1>1, <3>1, Zenon DEF ServiceRec
    <3>3. c.proc # "zombie" => Untrack(c).strays["zombie"] = r.strays["zombie"]
      BY <1>1, <1>2, <3>2, Zenon
    <3> QED
      BY <1>1, <3>3, UntrackOK, Zenon DEF Zombies
  <2> QED
    BY <2>1, <2>2, Zenon
<1>4. CASE "RUNNING" \in r.flags
  BY <1>1, <1>4 DEF ServiceStart, Zombies, c
<1>5. CASE "RUNNING" \notin r.flags /\ o = "disable"
  <2>1. ServiceStart(r, o) = [c EXCEPT !.flags = @ \cup {"DISABLED"}]
    BY <1>5 DEF ServiceStart, c
  <2> QED
    BY <1>1, <2>1 DEF Zombies, ServiceRec
<1>6. CASE "RUNNING" \notin r.flags /\ o = "nofork"
  <2>1. ServiceStart(r, o) = [Untrack(c) EXCEPT !.proc = "none"]
    BY <1>6 DEF ServiceStart, c
  <2> QED
    BY <1>3, <2>1 DEF Zombies, ServiceRec
<1>7. CASE "RUNNING" \notin r.flags /\ o = "ok"
  <2>1. ServiceStart(r, o) = [Untrack(c) EXCEPT !.proc = "forked", !.age = 0,
                                 !.prop = "running", !.flags = @ \cup {"RUNNING"}]
    BY <1>7, Zenon DEF ServiceStart, c
  <2> QED
    BY <1>3, <2>1 DEF Zombies, ServiceRec
<1> QED
  BY <1>4, <1>5, <1>6, <1>7, Zenon DEF Outcome

(* Neither does stopping it: a killed process exits later.                 *)
LEMMA StopNoZombie ==
    ASSUME NEW s \in Services, NEW r \in ServiceRec, NEW how,
           Zombies(ServiceStopOrReset(s, r, how))
    PROVE  Zombies(r)
<1> DEFINE t == ServiceStopOrReset(s, r, how)
<1>1. t.proc = KillGroup(s, r.proc) /\ t.strays = r.strays
  BY Zenon DEF ServiceStopOrReset, ServiceRec
<1> HIDE DEF t
<1> QED
  BY <1>1, Zenon DEF Zombies, KillGroup, t

(* The steps of init that do not reap, and Tick, make no zombie.           *)
LEMMA NoNewZombie ==
    ASSUME IInv, pc # "rebooted",
           ExecuteService \/ RestartProcesses \/ HandleControlMessage \/ Tick
    PROVE  (\E s \in Services : HasZombie(s))' => \E s \in Services : HasZombie(s)
<1>0. AllOK /\ uptime \in 0 .. BackOff /\ \A s \in Services : svc[s] \in ServiceRec
  BY RunningOK, Zenon DEF IInv, TypeOK
<1> SUFFICES ASSUME NEW s \in Services, Zombies(svc'[s]) PROVE Zombies(svc[s])
  BY Zenon DEF HasZombie, Zombies
<1>1. CASE ExecuteService \/ HandleControlMessage
  <2>1. PICK q \in One \cup Whole : Serve(q)
    BY <1>1, Zenon DEF ExecuteService, HandleControlMessage
  <2>2. PICK out \in [q.who -> Outcome] :
            svc' = [u \in Services |-> IF u \in q.who THEN Effect(u, q, out[u]) ELSE svc[u]]
    BY <2>1, Zenon DEF Serve
  <2>3. CASE s \in q.who
    <3>1. out[s] \in Outcome /\ Zombies(Effect(s, q, out[s]))
      BY <2>2, <2>3, Zenon
    <3>2. q.op \in {"start", "stop", "restart", "class_start", "class_stop", "class_reset"}
      BY Zenon DEF One, Whole
    <3>3. \A how : RecOK(s, ServiceStopOrReset(s, svc[s], how))
      BY <1>0, StopOK, Zenon DEF AllOK
    <3>4. Zombies(ServiceStart(svc[s], out[s])) => Zombies(svc[s])
      BY <1>0, <3>1, StartNoZombie, Zenon
    <3>5. \A how : Zombies(ServiceStopOrReset(s, svc[s], how)) => Zombies(svc[s])
      BY <1>0, StopNoZombie, Zenon
    <3>6. Zombies(ServiceRestart(s, svc[s], out[s])) => Zombies(svc[s])
      BY <1>0, <3>1, <3>3, <3>5, StartNoZombie, Zenon DEF ServiceRestart, RecOK
    <3> QED
      BY <2>3, <3>1, <3>2, <3>4, <3>5, <3>6, SMTT(30) DEF Effect
  <2> QED
    BY <2>2, <2>3, Zenon
<1>2. CASE RestartProcesses
  <2>1. PICK out \in [Due -> Outcome] :
            svc' = [u \in Services |->
                       IF u \in Due THEN ServiceStart(svc[u], out[u]) ELSE svc[u]]
    BY <1>2, Zenon DEF RestartProcesses
  <2> QED
    BY <1>0, <2>1, StartNoZombie, Zenon
<1>3. CASE Tick
  <2>1. svc'[s].proc = svc[s].proc /\ svc'[s].strays = svc[s].strays
    BY <1>0, <1>3, ZenonT(30) DEF Tick, ServiceRec
  <2> QED
    BY <2>1, Zenon DEF Zombies
<1> QED
  BY <1>1, <1>2, <1>3, Zenon

(* Every step keeps ZombieNoticed.                                         *)
LEMMA NoticedStep ==
    ASSUME IInv, ZombieNoticed, [Next]_vars PROVE ZombieNoticed'
<1>0. sigPipe \in Nat /\ PipeCap \in Nat \ {0}
  BY SMTT(30) DEF IInv, TypeOK, Numbers
<1>1. CASE ExecuteOther \/ PollReturn
  BY <1>1, Zenon DEF ExecuteOther, PollReturn, ZombieNoticed, HasZombie, Reaping
<1>2. CASE ExecuteService \/ RestartProcesses \/ HandleControlMessage
  <2>1. (\E s \in Services : HasZombie(s))' => \E s \in Services : HasZombie(s)
    BY <1>2, NoNewZombie, Zenon DEF ExecuteService, RestartProcesses, HandleControlMessage
  <2> QED
    BY <1>2, <2>1, ZenonT(30) DEF ExecuteService, RestartProcesses, HandleControlMessage,
                      ZombieNoticed, Reaping
<1>3. CASE Tick
  <2>1. pc # "rebooted" =>
            ((\E s \in Services : HasZombie(s))' => \E s \in Services : HasZombie(s))
    BY <1>3, NoNewZombie
  <2> QED
    BY <1>3, <2>1, Zenon DEF Tick, ZombieNoticed, Reaping
<1>4. CASE SignalInit \/ HandleSignal
  BY <1>4, Zenon DEF SignalInit, HandleSignal, ZombieNoticed, Reaping
<1>5. CASE ReapDone
  BY <1>5, Zenon DEF ReapDone, ZombieNoticed, HasZombie
<1>6. CASE SigchldHandler
  <2>1. sigPipe' > 0
    BY <1>0, <1>6 DEF SigchldHandler
  <2> QED
    BY <2>1 DEF ZombieNoticed
<1>7. ASSUME NEW s \in Services, ReapUnwanted(s) \/ ReapCrashed(s) \/ ReapStray(s)
      PROVE  ZombieNoticed'
  BY <1>7, ZenonT(30) DEF ReapUnwanted, ReapCrashed, ReapStray, ZombieNoticed, Reaping, init
<1>8. ASSUME NEW s \in Services, Reboot(s) PROVE ZombieNoticed'
  BY <1>8, Zenon DEF Reboot, ZombieNoticed
<1>9. ASSUME NEW s \in Services, KilledExit(s) \/ OwnExit(s) PROVE ZombieNoticed'
  <2>1. sigPending' = signalInit /\ signalInit' = signalInit
    BY <1>9 DEF KilledExit, OwnExit
  <2> QED
    BY <2>1 DEF ZombieNoticed
<1>10. ASSUME NEW s \in Services, ChildSetpgid(s) PROVE ZombieNoticed'
  <2>1. ProcMove(s, "forked", "alive") /\ svc[s].strays \in [PState -> Nat]
        /\ svc \in [Services -> ServiceRec]
    BY <1>10, Zenon DEF ChildSetpgid, IInv, TypeOK, ServiceRec
  <2>2. ASSUME NEW u \in Services PROVE HasZombie(u)' => HasZombie(u)
    <3>1. CASE svc[s].proc = "forked" /\ svc' = [svc EXCEPT ![s].proc = "alive"]
      BY <2>1, <3>1, ZenonT(30) DEF HasZombie, ServiceRec
    <3>2. CASE svc' = [svc EXCEPT ![s].strays["forked"] = @ - 1, ![s].strays["alive"] = @ + 1]
      BY <2>1, <3>2, SMTT(30) DEF HasZombie, ServiceRec, PState, Live
    <3> QED
      BY <2>1, <3>1, <3>2, Zenon DEF ProcMove
  <2> QED
    BY <1>10, <2>2, Zenon DEF ChildSetpgid, ZombieNoticed, Reaping, init
<1>11. CASE vars' = vars
  BY <1>11 DEF vars, ZombieNoticed, HasZombie, Reaping
<1> QED
  BY <1>1, <1>2, <1>3, <1>4, <1>5, <1>6, <1>7, <1>8, <1>9, <1>10, <1>11, Zenon
     DEF Next, InitStep

(* No exit of a child is overlooked: a byte, a pending signal or the       *)
(* reaping loop stands for every unwaited child (signal_handler.c).        *)
THEOREM ExitsAreNoticed == Spec => []ZombieNoticed
<1>1. Init => ZombieNoticed
  BY Zenon DEF Init, ZombieNoticed
<1>2. IInv /\ ZombieNoticed /\ [Next]_vars => ZombieNoticed'
  BY NoticedStep, Zenon
<1> QED
  BY <1>1, <1>2, Invariance, PTL DEF Spec

-----------------------------------------------------------------------------
(* What was stopped stays down.                                            *)

(* A service that was stopped, reset or disabled, or that ran once, is not *)
(* brought up by restart_processes or by reaping its process.              *)
THEOREM StoppedStaysDown == Spec => StaysDown
<1> DEFINE Down(s) == /\ svc[s].flags \cap {"DISABLED", "RESET"} # {}
                      /\ "RUNNING" \in svc'[s].flags
           Excused(s) == \/ pc \in {"exec", "prop"}
                         \/ Reaping /\ \E u \in Services :
                                           s \in OnRestart[u] /\ svc[u].proc = "zombie"
<1>1. ASSUME IInv, [Next]_vars, NEW s \in Services, Down(s) PROVE Excused(s)
  <2>0. "RUNNING" \notin svc[s].flags /\ svc[s] \in ServiceRec
        /\ svc \in [Services -> ServiceRec]
    BY <1>1, Zenon DEF IInv, TypeOK, FlagsOK
  <2>1. CASE svc'[s].flags = svc[s].flags
    BY <1>1, <2>0, <2>1, Zenon
  <2>2. CASE ExecuteService \/ HandleControlMessage
    BY <2>2, Zenon DEF ExecuteService, HandleControlMessage
  <2>3. CASE RestartProcesses
    <3>1. s \notin Due
      BY <1>1, Zenon DEF IInv, FlagsOK, Due, Restarting
    <3> QED
      BY <1>1, <2>0, <2>3, <3>1, Zenon DEF RestartProcesses
  <2>4. ASSUME NEW u \in Services, ReapUnwanted(u) PROVE Excused(s)
    <3>1. CASE u = s
      <4>1. svc'[s] = [Reaped(s, svc[s]) EXCEPT !.prop = "stopped"]
        BY <2>0, <2>4, <3>1 DEF ReapUnwanted
      <4>2. svc'[s].flags = Reaped(s, svc[s]).flags
        BY <2>0, <4>1, ReapedFields DEF ServiceRec
      <4> QED
        BY <1>1, <2>0, <4>2, ReapedFields
    <3>2. CASE u # s
      BY <2>0, <2>1, <2>4, <3>2, Zenon DEF ReapUnwanted
    <3> QED
      BY <3>1, <3>2, ZenonT(30)
  <2>5. ASSUME NEW u \in Services, ReapCrashed(u) PROVE Excused(s)
    <3>1. CASE u = s
      <4>1. svc'[s] = Crashed(s, svc[s])
        BY <2>0, <2>5, <3>1, Zenon DEF ReapCrashed
      <4>2. Reaped(s, svc[s]) \in ServiceRec
        BY <2>0, ReapedFields, Zenon
      <4>3. svc'[s].flags = Reaped(s, svc[s]).flags \cup {"RESTARTING"}
        BY <4>1, <4>2, CountCrashOK, SMTT(30) DEF Crashed, ServiceRec
      <4> QED
        BY <1>1, <2>0, <4>3, ReapedFields, SMTT(30)
    <3>2. CASE u # s /\ s \in OnRestart[u]
      BY <2>5, <3>2, Zenon DEF ReapCrashed
    <3>3. CASE u # s /\ s \notin OnRestart[u]
      BY <2>0, <2>1, <2>5, <3>3, ZenonT(30) DEF ReapCrashed
    <3> QED
      BY <3>1, <3>2, <3>3, ZenonT(30)
  <2>6. ASSUME NEW u \in Services, Reboot(u) PROVE Excused(s)
    <3>1. CASE u = s
      <4>1. svc'[s] = CountCrash(s, Reaped(s, svc[s]))
        BY <2>0, <2>6, <3>1, ZenonT(30) DEF Reboot
      <4> QED
        BY <1>1, <2>0, <4>1, ReapedFields, CountCrashOK, SMTT(30)
    <3>2. CASE u # s
      BY <2>0, <2>1, <2>6, <3>2, Zenon DEF Reboot
    <3> QED
      BY <3>1, <3>2, Zenon
  <2>7. ASSUME NEW u \in Services, ReapStray(u) PROVE Excused(s)
    BY <2>0, <2>1, <2>7, Zenon DEF ReapStray, ServiceRec
  <2>8. ASSUME NEW u \in Services, ChildSetpgid(u) \/ KilledExit(u) \/ OwnExit(u)
        PROVE  Excused(s)
    <3>1. \E p \in Live : \E q \in PState \ {p} : ProcMove(u, p, q)
      BY <2>8, Zenon DEF ChildSetpgid, KilledExit, OwnExit, PState, Live
    <3>2. svc'[s].flags = svc[s].flags
      BY <2>0, <3>1, MoveKeeps, Zenon
    <3> QED
      BY <2>1, <3>2, Zenon
  <2>9. CASE Tick
    BY <2>0, <2>1, <2>9, ZenonT(30) DEF Tick, ServiceRec
  <2>10. CASE ExecuteOther \/ SignalInit \/ PollReturn \/ HandleSignal \/ ReapDone
              \/ SigchldHandler \/ vars' = vars
    BY <2>1, <2>10, Zenon DEF ExecuteOther, SignalInit, PollReturn, HandleSignal, ReapDone,
                       SigchldHandler, vars
  <2> QED
    BY <1>1, <2>2, <2>3, <2>4, <2>5, <2>6, <2>7, <2>8, <2>9, <2>10, ZenonT(30) DEF Next, InitStep
<1>2. IInv /\ [Next]_vars =>
          [\A s \in Services : Down(s) => Excused(s)]_vars
  BY <1>1, Zenon
<1> QED
  BY <1>2, Invariance, PTL DEF Spec, StaysDown

-----------------------------------------------------------------------------
(* The reported life of a service is one ServiceStatus allows.             *)

Moved(s, a, b) == a = b \/ <<a, b>> \in Status!Moves(s)

(* service_start reports "running" or nothing.                             *)
LEMMA StartReport ==
    ASSUME NEW s \in Services, NEW r, RecOK(s, r), NEW o \in Outcome
    PROVE  /\ \/ ServiceStart(r, o).prop = r.prop
              \/ ServiceStart(r, o).prop = "running" /\ r.prop # "running"
           /\ Moved(s, r.prop, ServiceStart(r, o).prop)
<1>1. r \in ServiceRec /\ r.prop \in Report
  BY Zenon DEF RecOK, ServiceRec
<1> DEFINE c == [r EXCEPT !.flags = @ \ {"DISABLED", "RESTARTING", "RESET"},
                          !.age = uptime]
<1>2. c.prop = r.prop /\ (c \in ServiceRec \/ uptime \notin 0 .. BackOff)
  BY <1>1, Zenon DEF ServiceRec
<1>3. Untrack(c).prop = c.prop
  BY <1>1, Zenon DEF Untrack, ServiceRec
<1>4. \/ ServiceStart(r, o).prop = r.prop
      \/ ServiceStart(r, o).prop = "running" /\ "RUNNING" \notin r.flags
  <2>1. CASE "RUNNING" \in r.flags
    BY <1>2, <2>1 DEF ServiceStart
  <2>2. CASE "RUNNING" \notin r.flags /\ o = "disable"
    <3>1. ServiceStart(r, o) = [c EXCEPT !.flags = @ \cup {"DISABLED"}]
      BY <2>2 DEF ServiceStart
    <3>2. ServiceStart(r, o).prop = c.prop
      BY <1>1, <3>1 DEF ServiceRec
    <3> QED
      BY <1>2, <3>2
  <2>3. CASE "RUNNING" \notin r.flags /\ o = "nofork"
    <3>1. ServiceStart(r, o) = [Untrack(c) EXCEPT !.proc = "none"]
      BY <2>3 DEF ServiceStart
    <3>2. ServiceStart(r, o).prop = Untrack(c).prop
      BY <1>1, <3>1, Zenon DEF ServiceRec, Untrack
    <3> QED
      BY <1>2, <1>3, <3>2
  <2>4. CASE "RUNNING" \notin r.flags /\ o = "ok"
    <3>1. ServiceStart(r, o) = [Untrack(c) EXCEPT !.proc = "forked", !.age = 0,
                                   !.prop = "running", !.flags = @ \cup {"RUNNING"}]
      BY <2>4 DEF ServiceStart
    <3>2. ServiceStart(r, o).prop = "running"
      BY <1>1, <3>1, Zenon DEF ServiceRec, Untrack
    <3> QED
      BY <2>4, <3>2, Zenon
  <2> QED
    BY <2>1, <2>2, <2>3, <2>4, Zenon DEF Outcome
<1> HIDE DEF c
<1>5. "RUNNING" \notin r.flags => r.prop # "running"
  BY Zenon DEF RecOK, ReportOK
<1>6. r.prop # "running" => Moved(s, r.prop, "running")
  BY <1>1 DEF Moved, Status!Moves, Report
<1>7. Moved(s, r.prop, r.prop)
  BY Zenon DEF Moved
<1> QED
  BY <1>4, <1>5, <1>6, <1>7, ZenonT(30)

(* service_stop_or_reset reports "stopping" only of a service that runs or *)
(* is stopping, and "stopped" only of one without a process.               *)
LEMMA StopReport ==
    ASSUME NEW s \in Services, NEW r, RecOK(s, r), NEW how
    PROVE  Moved(s, r.prop, ServiceStopOrReset(s, r, how).prop)
<1>1. r \in ServiceRec /\ r.prop \in Report
  BY DEF RecOK, ServiceRec
<1>2. ServiceStopOrReset(s, r, how).prop = IF r.proc = "none" THEN "stopped" ELSE "stopping"
  BY <1>1, SMTT(30) DEF ServiceStopOrReset, ServiceRec
<1>3. CASE r.proc = "none"
  <2>1. r.prop # "running"
    BY <1>3, Zenon DEF RecOK, ReportOK, FlagsOK
  <2> QED
    BY <1>1, <1>2, <1>3, <2>1, Zenon DEF Moved, Status!Moves, Report
<1>4. CASE r.proc # "none"
  <2>1. r.prop \in {"running", "stopping"}
    BY <1>1, <1>4, ZenonT(30) DEF RecOK, ReportOK, Report
  <2> QED
    BY <1>2, <1>4, <2>1, Zenon DEF Moved, Status!Moves
<1> QED
  BY <1>3, <1>4, Zenon

(* A restart is a stop and a start in one step.                            *)
LEMMA RestartReport ==
    ASSUME NEW s \in Services, NEW r, RecOK(s, r), NEW o \in Outcome
    PROVE  Moved(s, r.prop, ServiceRestart(s, r, o).prop)
<1> DEFINE t == ServiceStopOrReset(s, r, "DISABLED")
<1>1. RecOK(s, t) /\ Moved(s, r.prop, t.prop) /\ r.prop \in Report
  BY StopOK, StopReport, Zenon DEF RecOK, ServiceRec
<1>2. ServiceRestart(s, r, o) = ServiceStart(t, o)
  BY Zenon DEF ServiceRestart
<1> HIDE DEF t
<1>3. ServiceRestart(s, r, o).prop = t.prop \/ ServiceRestart(s, r, o).prop = "running"
  BY <1>1, <1>2, StartReport, SMTT(30)
<1> QED
  BY <1>1, <1>3, SMTT(30) DEF Moved, Status!Moves, Report

(* Every step moves every service as ServiceStatus allows.                 *)
LEMMA StepReport ==
    ASSUME IInv, [Next]_vars, NEW s \in Services
    PROVE  Moved(s, svc[s].prop, svc'[s].prop)
<1>0. svc[s] \in ServiceRec /\ svc \in [Services -> ServiceRec] /\ uptime \in 0 .. BackOff
  BY Zenon DEF IInv, TypeOK
<1>1. CASE svc'[s].prop = svc[s].prop
  BY <1>1, ZenonT(30) DEF Moved
<1>2. CASE ExecuteService \/ HandleControlMessage
  <2>1. RecOK(s, svc[s])
    BY <1>2, RunningOK, Zenon DEF ExecuteService, HandleControlMessage, AllOK
  <2>2. PICK q \in One \cup Whole : Serve(q)
    BY <1>2, Zenon DEF ExecuteService, HandleControlMessage
  <2>3. PICK out \in [q.who -> Outcome] :
            svc' = [u \in Services |-> IF u \in q.who THEN Effect(u, q, out[u]) ELSE svc[u]]
    BY <2>2, Zenon DEF Serve
  <2>4. CASE s \in q.who
    <3>1. out[s] \in Outcome /\ svc'[s] = Effect(s, q, out[s])
      BY <2>3, <2>4, Zenon
    <3>2. q.op \in {"start", "stop", "restart", "class_start", "class_stop", "class_reset"}
      BY Zenon DEF One, Whole
    <3>3. /\ Moved(s, svc[s].prop, ServiceStart(svc[s], out[s]).prop)
          /\ Moved(s, svc[s].prop, ServiceRestart(s, svc[s], out[s]).prop)
      BY <2>1, <3>1, StartReport, RestartReport, ZenonT(30)
    <3>4. \A how : Moved(s, svc[s].prop, ServiceStopOrReset(s, svc[s], how).prop)
      BY <2>1, StopReport, ZenonT(30)
    <3>5. Moved(s, svc[s].prop, svc[s].prop)
      BY Zenon DEF Moved
    <3> QED
      BY <2>4, <3>1, <3>2, <3>3, <3>4, <3>5, Zenon DEF Effect
  <2> QED
    BY <1>1, <2>3, <2>4, ZenonT(30)
<1>3. CASE RestartProcesses
  <2>1. RecOK(s, svc[s])
    BY <1>3, RunningOK, Zenon DEF RestartProcesses, AllOK
  <2>2. PICK out \in [Due -> Outcome] :
            svc' = [u \in Services |->
                       IF u \in Due THEN ServiceStart(svc[u], out[u]) ELSE svc[u]]
    BY <1>3, Zenon DEF RestartProcesses
  <2> QED
    BY <1>1, <2>1, <2>2, StartReport, ZenonT(30)
<1>4. ASSUME NEW u \in Services, ReapUnwanted(u)
      PROVE  Moved(s, svc[s].prop, svc'[s].prop)
  <2>1. CASE u = s
    <3>1. RecOK(s, svc[s]) /\ svc[s].proc = "zombie" /\ svc[s].prop \in Report
      BY <1>0, <1>4, <2>1, RunningOK, Zenon DEF ReapUnwanted, Reaping, AllOK, ServiceRec
    <3>2. svc[s].prop \in {"running", "stopping"}
      BY <3>1, Zenon DEF RecOK, ReportOK, Report
    <3>3. svc'[s] = [Reaped(s, svc[s]) EXCEPT !.prop = "stopped"]
      BY <1>0, <1>4, <2>1 DEF ReapUnwanted
    <3>4. svc'[s].prop = "stopped"
      BY <1>0, <3>3, ReapedFields DEF ServiceRec
    <3> QED
      BY <3>2, <3>4, Zenon DEF Moved, Status!Moves
  <2>2. CASE u # s
    BY <1>0, <1>1, <1>4, <2>2, Zenon DEF ReapUnwanted
  <2> QED
    BY <2>1, <2>2, Zenon
<1>5. ASSUME NEW u \in Services, ReapCrashed(u)
      PROVE  Moved(s, svc[s].prop, svc'[s].prop)
  <2>0. RecOK(s, svc[s])
    BY <1>5, RunningOK, ZenonT(30) DEF ReapCrashed, Reaping, AllOK
  <2>1. PICK out \in [OnRestart[u] -> Outcome] :
            svc' = [v \in Services |->
                       IF v = u THEN Crashed(u, svc[u])
                       ELSE IF v \in OnRestart[u] THEN ServiceRestart(v, svc[v], out[v])
                       ELSE svc[v]]
    BY <1>5, Zenon DEF ReapCrashed
  <2>2. CASE u = s
    <3>1. svc[s].proc = "zombie" /\ ~Unwanted(s, svc[s])
      BY <1>5, <2>2, Zenon DEF ReapCrashed
    <3>2. s \notin Oneshot /\ svc[s].flags \cap {"DISABLED", "RESET"} = {}
      <4>1. Reaped(s, svc[s]).flags \cap {"DISABLED", "RESET"} = {}
        BY <3>1, Zenon DEF Unwanted
      <4>2. Reaped(s, svc[s]).flags = (svc[s].flags \ {"RUNNING"})
                                      \cup (IF s \in Oneshot THEN {"DISABLED"} ELSE {})
        BY <1>0, ReapedFields, ZenonT(30)
      <4> QED
        BY <4>1, <4>2, Zenon
    <3>3. svc[s].prop = "running"
      BY <2>0, <3>1, <3>2, Zenon DEF RecOK, FlagsOK, ReportOK
    <3>4. svc'[s] = Crashed(s, svc[s]) /\ Reaped(s, svc[s]) \in ServiceRec
      BY <1>0, <2>1, <2>2, ReapedFields, Zenon
    <3>5. svc'[s].prop = "restarting"
      BY <3>4, CountCrashOK, SMTT(30) DEF Crashed, ServiceRec
    <3> QED
      BY <3>2, <3>3, <3>5, Zenon DEF Moved, Status!Moves
  <2>3. CASE u # s /\ s \in OnRestart[u]
    BY <2>0, <2>1, <2>3, RestartReport, Zenon
  <2>4. CASE u # s /\ s \notin OnRestart[u]
    BY <1>1, <2>1, <2>4, Zenon
  <2> QED
    BY <2>2, <2>3, <2>4, Zenon
<1>6. ASSUME NEW u \in Services, Reboot(u) PROVE svc'[s].prop = svc[s].prop
  <2>1. CASE u = s
    <3>1. svc'[s] = CountCrash(s, Reaped(s, svc[s]))
      BY <1>0, <1>6, <2>1, ZenonT(30) DEF Reboot
    <3>2. Reaped(s, svc[s]) \in ServiceRec /\ Reaped(s, svc[s]).prop = svc[s].prop
      BY <1>0, ReapedFields, Zenon
    <3> QED
      BY <3>1, <3>2, CountCrashOK, SMTT(30)
  <2> QED
    BY <1>0, <1>6, <2>1, ZenonT(30) DEF Reboot
<1>7. ASSUME NEW u \in Services, ReapStray(u) PROVE svc'[s].prop = svc[s].prop
  BY <1>0, <1>7, Zenon DEF ReapStray, ServiceRec
<1>8. ASSUME NEW u \in Services, ChildSetpgid(u) \/ KilledExit(u) \/ OwnExit(u)
      PROVE  svc'[s].prop = svc[s].prop
  <2>1. \E p \in Live : \E q \in PState \ {p} : ProcMove(u, p, q)
    BY <1>8, Zenon DEF ChildSetpgid, KilledExit, OwnExit, PState, Live
  <2> QED
    BY <1>0, <2>1, MoveKeeps, Zenon
<1>9. CASE Tick
  BY <1>0, <1>1, <1>9, ZenonT(30) DEF Tick, ServiceRec
<1>10. CASE ExecuteOther \/ SignalInit \/ PollReturn \/ HandleSignal \/ ReapDone
            \/ SigchldHandler \/ vars' = vars
  BY <1>1, <1>10, Zenon DEF ExecuteOther, SignalInit, PollReturn, HandleSignal, ReapDone,
                     SigchldHandler, vars
<1> QED
  BY <1>1, <1>2, <1>3, <1>4, <1>5, <1>6, <1>7, <1>8, <1>9, <1>10, ZenonT(30) DEF Next, InitStep

(* InitSupervisor implements ServiceStatus: clients of init.svc.<name> see *)
(* only the lives it describes.                                            *)
THEOREM StatusRefinement == Spec => ImplementsStatus
<1> DEFINE st == [s \in Services |-> svc[s].prop]
<1>1. Init => Status!SInit
  BY SMTT(30) DEF Init, Status!SInit
<1>2. IInv /\ IInv' /\ [Next]_vars => [Status!SNext]_st
  <2> SUFFICES ASSUME IInv, IInv', [Next]_vars PROVE Status!SNext
    BY SMTT(30)
  <2>1. \A s \in Services : Moved(s, svc[s].prop, svc'[s].prop)
    BY StepReport, Zenon
  <2>2. \A s \in Services : svc'[s].prop \in Report
    BY Zenon DEF IInv, TypeOK, ServiceRec
  <2> QED
    BY <2>1, <2>2, Zenon DEF Status!SNext, Moved, Report
<1> QED
  BY <1>1, <1>2, Invariance, PTL DEF Spec, ImplementsStatus, Status!SSpec
=============================================================================
