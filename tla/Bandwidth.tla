---------------------------- MODULE Bandwidth ----------------------------
(***************************************************************************)
(* The bandwidth controller of netd (netd/BandwidthController.cpp): its    *)
(* lists of quotas, alerts and penalised applications in memory, and the   *)
(* iptables chains it keeps in step with them by running one command after *)
(* another.  Any command may fail, the kernel's rules outlive a restart of *)
(* netd, and a counter named in a rule lives as long as some rule names it.*)
(* Calls come one at a time (BandwidthController.cpp:20).  bw_OUTPUT, raw  *)
(* and mangle get the twins of the commands on bw_INPUT and stay out, and  *)
(* a command that fails for one IP version is a command that fails.        *)
(***************************************************************************)
EXTENDS Integers, Sequences, FiniteSets, SequencesExt

CONSTANTS
    Ifaces,        \* interfaces (strings)
    Uids,          \* application ids (strings)
    Bytes,         \* quota and global alert sizes, positive
    CostlyAlerts,  \* sizes of the alerts of costly chains
    MaxFails,      \* iptables commands that may fail
    MaxNats,       \* tethers at a time
    MaxRestarts,   \* restarts of netd
    MaxCalls       \* commands netd is given

VARIABLES
    chain,               \* the rules of each chain, first to last
    counter,             \* /proc/net/xt_quota: the bytes of a named counter, 0 if there is none
    quotaIfaces,         \* per interface, its quota and alert; [quota |-> 0] when not in the list
    sharedQuotaIfaces, sharedQuotaBytes, sharedAlertBytes,
    globalAlertBytes, globalAlertTetherCount,
    naughtyAppUids,
    nats,                \* tethers NatController has set up
    clean,               \* enabled, and no command has failed since
    astray,              \* bandwidth control was enabled while a tether stood
    fails, restarts, calls   \* how many so far

kernel == <<chain, counter>>
shared == <<sharedQuotaIfaces, sharedQuotaBytes, sharedAlertBytes>>
alerts == <<globalAlertBytes, globalAlertTetherCount>>
memory == <<quotaIfaces, shared, alerts, naughtyAppUids>>
vars == <<kernel, memory, nats, clean, astray, fails, restarts, calls>>

Costly == Ifaces \cup {"shared"}
Chains == Costly \cup {"bw_INPUT", "bw_FORWARD", "penalty_box"}
Counters == {<<"alert", "global">>} \cup ({"quota", "alert"} \X Costly)
NoQuota == [quota |-> 0, alert |-> 0]
NoKernel == [chain |-> [c \in Chains |-> <<>>], counter |-> [n \in Counters |-> 0]]
--------------------------------------------------------------------------
(* iptables: rules, commands and what a sequence of commands does.         *)

Alert == <<"alert", "", "">>
Quota == <<"quota", "", "">>
Box == <<"box", "", "">>                  \* --jump penalty_box
Track == <<"track", "", "">>              \* -m owner --socket-exists
Jump(i, c) == <<"jump", i, c>>            \* -i iface --jump costly_c
Reject(u) == <<"uid", u, "">>

\* A command: insertion at a position (0 appends), deletion or flush.  A soft
\* one may fail without its caller taking notice.
Ins(c, p, r, v) == [op |-> "I", c |-> c, p |-> p, r |-> r, v |-> v, soft |-> FALSE]
Del(c, r) == [op |-> "D", c |-> c, p |-> 0, r |-> r, v |-> 0, soft |-> FALSE]
Flush(c) == [op |-> "F", c |-> c, p |-> 0, r |-> Box, v |-> 0, soft |-> FALSE]
Soft(cmd) == [cmd EXCEPT !.soft = TRUE]

\* The counter a rule of chain c names.
Name(c, r) == <<r[1], IF c \in Costly THEN c ELSE "global">>

\* A counter goes with the last rule that names it.
Reap(k) ==
    LET named == UNION {{Name(c, r) : r \in Range(k.chain[c])} : c \in Chains}
    IN  [k EXCEPT !.counter = [n \in Counters |-> IF n \in named THEN @[n] ELSE 0]]

\* iptables refuses a position past the end and a rule that is not there.
Possible(k, cmd) ==
    CASE cmd.op = "I" -> cmd.p <= Len(k.chain[cmd.c]) + 1
      [] cmd.op = "D" -> cmd.r \in Range(k.chain[cmd.c])
      [] OTHER -> TRUE

Effect(k, cmd) ==
    LET s == k.chain[cmd.c]
        n == Name(cmd.c, cmd.r)
    IN  CASE cmd.op = "I" ->
                [chain |-> [k.chain EXCEPT ![cmd.c] =
                    InsertAt(s, IF cmd.p = 0 THEN Len(s) + 1 ELSE cmd.p, cmd.r)],
                 counter |-> IF n \in Counters /\ k.counter[n] = 0
                             THEN [k.counter EXCEPT ![n] = cmd.v] ELSE k.counter]
          [] cmd.op = "D" ->
                Reap([k EXCEPT !.chain[cmd.c] = RemoveAt(s, SelectInSeq(s, LAMBDA r : r = cmd.r))])
          [] OTHER -> Reap([k EXCEPT !.chain[cmd.c] = <<>>])

\* The commands one after another, the bad-th of them failing (0: none); "ok"
\* is what the caller's res tells.
Run(k, cmds, bad) ==
    FoldLeft(LAMBDA st, j :
                IF j # bad /\ Possible(st.k, cmds[j])
                THEN [st EXCEPT !.k = Effect(@, cmds[j])]
                ELSE [st EXCEPT !.ok = @ /\ cmds[j].soft],
             [k |-> k, ok |-> TRUE], [j \in 1..Len(cmds) |-> j])

Kernel == [chain |-> chain, counter |-> counter]
Becomes(k) == chain' = k.chain /\ counter' = k.counter

\* Which command of an operation's fails, if any.
Fault(bad) ==
    /\ bad > 0 => fails < MaxFails
    /\ fails' = fails + (IF bad > 0 THEN 1 ELSE 0)

\* updateQuota: it fails when the file is not there.
UpdateQuota(k, n, b) == IF k.counter[n] = 0 THEN k ELSE [k EXCEPT !.counter[n] = b]
--------------------------------------------------------------------------
FlushCommands ==
    <<Soft(Flush("bw_INPUT")), Soft(Flush("bw_FORWARD")), Soft(Flush("penalty_box")),
      Soft(Flush("shared"))>>
AccountingCommands == <<Ins("bw_INPUT", 0, Track, 0), Ins("shared", 0, Box, 0)>>

Forgotten ==
    /\ quotaIfaces' = [i \in Ifaces |-> NoQuota]
    /\ sharedQuotaIfaces' = {} /\ sharedQuotaBytes' = 0 /\ sharedAlertBytes' = 0
    /\ naughtyAppUids' = {}
    /\ globalAlertBytes' = 0 /\ globalAlertTetherCount' = 0

Init ==
    /\ chain = NoKernel.chain /\ counter = NoKernel.counter
    /\ quotaIfaces = [i \in Ifaces |-> NoQuota]
    /\ sharedQuotaIfaces = {} /\ sharedQuotaBytes = 0 /\ sharedAlertBytes = 0
    /\ naughtyAppUids = {}
    /\ globalAlertBytes = 0 /\ globalAlertTetherCount = 0
    /\ nats = 0 /\ clean = FALSE /\ astray = FALSE /\ fails = 0 /\ restarts = 0 /\ calls = 0

\* enableBandwidthControl, forced or not disabled by property: everything is
\* flushed except the costly_<iface> chains, and an accounting command that
\* fails ends the list.
Enable ==
    \E bad \in 0..Len(FlushCommands) + Len(AccountingCommands) :
        LET cmds == FlushCommands \o AccountingCommands
            run == IF bad > Len(FlushCommands) THEN SubSeq(cmds, 1, bad) ELSE cmds
        IN  /\ Fault(bad)
            /\ Becomes(Run(Kernel, run, bad).k)
            /\ Forgotten
            /\ clean' = (bad = 0)
            /\ astray' = (nats > 0)
            /\ UNCHANGED <<nats, restarts>>

\* disableBandwidthControl leaves the lists as they are.
Disable ==
    /\ Becomes(Run(Kernel, FlushCommands, 0).k)
    /\ clean' = FALSE
    /\ UNCHANGED <<memory, nats, astray, fails, restarts>>

\* netd starts again; setupIptablesHooks also flushes the NAT chains.
Restart ==
    /\ restarts < MaxRestarts
    /\ Becomes(Run(Kernel, FlushCommands, 0).k)
    /\ Forgotten
    /\ nats' = 0 /\ clean' = FALSE
    /\ restarts' = restarts + 1
    /\ UNCHANGED <<astray, fails>>
--------------------------------------------------------------------------
\* Inserting below the alert whether or not there is one.
InsertPosFirst(unused) == 1

\* ruleInsertPos: the alert rule comes first.
InsertPos(unused) == IF globalAlertBytes # 0 THEN 2 ELSE 1

\* Without the flush of what an earlier netd left in the chain.
PrepCostlyKeeps(i, c) ==
    (IF c = i THEN <<Ins(i, 0, Box, 0)>> ELSE <<>>)
    \o <<Soft(Del("bw_INPUT", Jump(i, c))), Ins("bw_INPUT", InsertPos(0), Jump(i, c), 0)>>

\* The commands of prepCostlyIface, for costly_<iface> (c = i) or costly_shared.
PrepCostly(i, c) ==
    (IF c = i THEN <<Flush(i), Ins(i, 0, Box, 0)>> ELSE <<>>)
    \o <<Soft(Del("bw_INPUT", Jump(i, c))), Ins("bw_INPUT", InsertPos(0), Jump(i, c), 0)>>

CleanupCostly(i, c) ==
    <<Del("bw_INPUT", Jump(i, c))>> \o (IF c = i THEN <<Flush(i)>> ELSE <<>>)

\* The commands of removeInterfaceSharedQuota for an interface of the list.
RemoveShared(i, ifaces, alert) ==
    CleanupCostly(i, "shared")
    \o (IF ifaces = {i} THEN <<Del("shared", Quota)>> ELSE <<>>)
    \o (IF ifaces = {i} /\ alert # 0 THEN <<Soft(Del("shared", Alert))>> ELSE <<>>)

\* What removing i from the shared list does, starting from kernel k and list
\* ifaces: all of removeInterfaceSharedQuota.
DropShared(k, i, ifaces, bad) ==
    IF i \in ifaces
    THEN /\ Becomes(Run(k, RemoveShared(i, ifaces, sharedAlertBytes), bad).k)
         /\ sharedQuotaIfaces' = ifaces \ {i}
         /\ sharedQuotaBytes' = IF ifaces = {i} THEN 0 ELSE sharedQuotaBytes
         /\ sharedAlertBytes' = IF ifaces = {i} THEN 0 ELSE sharedAlertBytes
    ELSE /\ Becomes(k)
         /\ sharedQuotaIfaces' = ifaces
         /\ UNCHANGED <<sharedQuotaBytes, sharedAlertBytes>>

Sound(bad) == clean' = (clean /\ bad = 0)

\* setInterfaceSharedQuota for a new interface: the first brings the quota
\* rule, a later one only its jump and perhaps a new size.
AddShared ==
    \E i \in Ifaces \ sharedQuotaIfaces, b \in Bytes, bad \in 0..3 :
        LET first == sharedQuotaIfaces = {}
            ran == Run(Kernel, PrepCostly(i, "shared")
                        \o (IF first THEN <<Ins("shared", 1, Quota, b)>> ELSE <<>>), bad)
            k == IF first \/ b = sharedQuotaBytes THEN ran.k
                 ELSE UpdateQuota(ran.k, <<"quota", "shared">>, b)
            ok == IF first THEN ran.ok
                  ELSE b = sharedQuotaBytes
                       \/ (ran.ok /\ ran.k.counter[<<"quota", "shared">>] # 0)
            list == IF first THEN {} ELSE sharedQuotaIfaces \cup {i}
        IN  /\ Fault(bad) /\ Sound(bad)
            /\ IF ok
               THEN /\ Becomes(k)
                    /\ sharedQuotaIfaces' = sharedQuotaIfaces \cup {i}
                    /\ sharedQuotaBytes' = b
                    /\ UNCHANGED sharedAlertBytes
               ELSE DropShared(k, i, list, 0)
            /\ UNCHANGED <<quotaIfaces, alerts, naughtyAppUids, nats, astray, restarts>>

\* setInterfaceSharedQuota for an interface of the list.
ResizeShared ==
    \E i \in sharedQuotaIfaces, b \in Bytes \ {sharedQuotaBytes} :
        /\ IF counter[<<"quota", "shared">>] # 0
           THEN /\ Becomes(UpdateQuota(Kernel, <<"quota", "shared">>, b))
                /\ sharedQuotaBytes' = b
                /\ UNCHANGED <<sharedQuotaIfaces, sharedAlertBytes>>
           ELSE DropShared(Kernel, i, sharedQuotaIfaces, 0)
        /\ UNCHANGED <<quotaIfaces, alerts, naughtyAppUids, nats, clean, astray, fails, restarts>>

RemoveSharedQuota ==
    \E i \in sharedQuotaIfaces, bad \in 0..3 :
        /\ Fault(bad) /\ Sound(bad)
        /\ DropShared(Kernel, i, sharedQuotaIfaces, bad)
        /\ UNCHANGED <<quotaIfaces, alerts, naughtyAppUids, nats, astray, restarts>>

\* setInterfaceQuota for a new interface.  The error path takes the interface
\* off the shared list.
AddQuota ==
    \E i \in Ifaces, b \in Bytes, bad \in 0..5 :
        LET ran == Run(Kernel, PrepCostly(i, i) \o <<Ins(i, 1, Quota, b)>>, bad)
        IN  /\ quotaIfaces[i].quota = 0
            /\ Fault(bad) /\ Sound(bad)
            /\ IF ran.ok
               THEN /\ Becomes(ran.k)
                    /\ quotaIfaces' = [quotaIfaces EXCEPT ![i].quota = b]
                    /\ UNCHANGED shared
               ELSE /\ DropShared(ran.k, i, sharedQuotaIfaces, 0)
                    /\ UNCHANGED quotaIfaces
            /\ UNCHANGED <<alerts, naughtyAppUids, nats, astray, restarts>>

\* setInterfaceQuota for an interface of the list.
ResizeQuota ==
    \E i \in Ifaces, b \in Bytes :
        /\ quotaIfaces[i].quota \notin {0, b}
        /\ IF counter[<<"quota", i>>] # 0
           THEN /\ Becomes(UpdateQuota(Kernel, <<"quota", i>>, b))
                /\ quotaIfaces' = [quotaIfaces EXCEPT ![i].quota = b]
                /\ UNCHANGED shared
           ELSE /\ DropShared(Kernel, i, sharedQuotaIfaces, 0)
                /\ UNCHANGED quotaIfaces
        /\ UNCHANGED <<alerts, naughtyAppUids, nats, clean, astray, fails, restarts>>

RemoveQuota ==
    \E i \in Ifaces, bad \in 0..2 :
        /\ quotaIfaces[i].quota # 0
        /\ Fault(bad) /\ Sound(bad)
        /\ Becomes(Run(Kernel, CleanupCostly(i, i), bad).k)
        /\ quotaIfaces' = [quotaIfaces EXCEPT ![i] = NoQuota]
        /\ UNCHANGED <<shared, alerts, naughtyAppUids, nats, astray, restarts>>
--------------------------------------------------------------------------
\* setCostlyAlert: the size already recorded is what an existing alert is set
\* to, and the new one is recorded whatever happened.
CostlyAlert(c, old, b) ==
    IF old # 0 THEN UpdateQuota(Kernel, <<"alert", c>>, old)
    ELSE Run(Kernel, <<Ins(c, 4, Alert, b)>>, 0).k

SetSharedAlert ==
    /\ sharedQuotaBytes # 0
    /\ \E b \in CostlyAlerts :
        /\ Becomes(CostlyAlert("shared", sharedAlertBytes, b))
        /\ sharedAlertBytes' = b
    /\ UNCHANGED <<quotaIfaces, sharedQuotaIfaces, sharedQuotaBytes, alerts, naughtyAppUids,
                   nats, clean, astray, fails, restarts>>

RemoveSharedAlert ==
    /\ sharedAlertBytes # 0
    /\ Becomes(Run(Kernel, <<Del("shared", Alert)>>, 0).k)
    /\ sharedAlertBytes' = 0
    /\ UNCHANGED <<quotaIfaces, sharedQuotaIfaces, sharedQuotaBytes, alerts, naughtyAppUids,
                   nats, clean, astray, fails, restarts>>

SetInterfaceAlert ==
    \E i \in Ifaces, b \in CostlyAlerts :
        /\ quotaIfaces[i].quota # 0
        /\ Becomes(CostlyAlert(i, quotaIfaces[i].alert, b))
        /\ quotaIfaces' = [quotaIfaces EXCEPT ![i].alert = b]
        /\ UNCHANGED <<shared, alerts, naughtyAppUids, nats, clean, astray, fails, restarts>>

RemoveInterfaceAlert ==
    \E i \in Ifaces :
        /\ quotaIfaces[i].alert # 0
        /\ Becomes(Run(Kernel, <<Del(i, Alert)>>, 0).k)
        /\ quotaIfaces' = [quotaIfaces EXCEPT ![i].alert = 0]
        /\ UNCHANGED <<shared, alerts, naughtyAppUids, nats, clean, astray, fails, restarts>>

\* setGlobalAlert; the size is recorded even when the rules did not go in.
SetGlobalAlert ==
    \E b \in Bytes, bad \in 0..2 :
        /\ bad > 0 => globalAlertBytes = 0
        /\ Fault(bad) /\ Sound(bad)
        /\ IF globalAlertBytes # 0
           THEN Becomes(UpdateQuota(Kernel, <<"alert", "global">>, b))
           ELSE Becomes(Run(Kernel, <<Ins("bw_INPUT", 1, Alert, b)>>
                    \o (IF globalAlertTetherCount > 0
                        THEN <<Ins("bw_FORWARD", 1, Alert, b)>> ELSE <<>>), bad).k)
        /\ globalAlertBytes' = b
        /\ UNCHANGED <<quotaIfaces, shared, globalAlertTetherCount, naughtyAppUids, nats,
                       astray, restarts>>

\* The rule of the forward chain left for the tether to remove.
RemoveGlobalAlertOnly ==
    /\ globalAlertBytes # 0
    /\ Fault(0) /\ Sound(0)
    /\ Becomes(Run(Kernel, <<Del("bw_INPUT", Alert)>>, 0).k)
    /\ globalAlertBytes' = 0
    /\ UNCHANGED <<quotaIfaces, shared, globalAlertTetherCount, naughtyAppUids, nats,
                   astray, restarts>>

RemoveGlobalAlert ==
    \E bad \in 0..2 :
        /\ globalAlertBytes # 0
        /\ Fault(bad) /\ Sound(bad)
        /\ Becomes(Run(Kernel, <<Del("bw_INPUT", Alert)>>
                \o (IF globalAlertTetherCount > 0
                    THEN <<Del("bw_FORWARD", Alert)>> ELSE <<>>), bad).k)
        /\ globalAlertBytes' = 0
        /\ UNCHANGED <<quotaIfaces, shared, globalAlertTetherCount, naughtyAppUids, nats,
                       astray, restarts>>

\* "nat enable": the tether stands, then setGlobalAlertInForwardChain.
NatEnable ==
    \E bad \in 0..1 :
        LET add == globalAlertBytes # 0 /\ globalAlertTetherCount = 0
        IN  /\ nats < MaxNats
            /\ bad > 0 => add
            /\ Fault(bad) /\ Sound(bad)
            /\ nats' = nats + 1
            /\ globalAlertTetherCount' = globalAlertTetherCount + 1
            /\ Becomes(IF add
                       THEN Run(Kernel, <<Ins("bw_FORWARD", 1, Alert, globalAlertBytes)>>, bad).k
                       ELSE Kernel)
            /\ UNCHANGED <<quotaIfaces, shared, globalAlertBytes, naughtyAppUids, astray, restarts>>

\* "nat disable": removeGlobalAlertInForwardChain, then the tether goes.
NatDisable ==
    \E bad \in 0..1 :
        LET del == globalAlertBytes # 0 /\ globalAlertTetherCount = 1
        IN  /\ nats > 0
            /\ bad > 0 => del
            /\ Fault(bad) /\ Sound(bad)
            /\ nats' = nats - 1
            /\ globalAlertTetherCount' =
                    IF globalAlertTetherCount = 0 THEN 0 ELSE globalAlertTetherCount - 1
            /\ Becomes(IF del THEN Run(Kernel, <<Del("bw_FORWARD", Alert)>>, bad).k ELSE Kernel)
            /\ UNCHANGED <<quotaIfaces, shared, globalAlertBytes, naughtyAppUids, astray, restarts>>
--------------------------------------------------------------------------
\* Without the check that the application is already there.
AddNaughtyTwice ==
    \E u \in Uids, bad \in 0..1 :
        LET ran == Run(Kernel, <<Ins("penalty_box", 1, Reject(u), 0)>>, bad)
        IN  /\ Len(chain["penalty_box"]) < 3
            /\ Fault(bad) /\ Sound(bad)
            /\ naughtyAppUids' = naughtyAppUids \cup {u}
            /\ Becomes(IF ran.ok THEN ran.k
                       ELSE Run(ran.k, <<Del("penalty_box", Reject(u))>>, 0).k)
            /\ UNCHANGED <<quotaIfaces, shared, alerts, nats, astray, restarts>>

\* maninpulateNaughtyApps, adding: the uid stays listed when the rule failed.
AddNaughty ==
    \E u \in Uids \ naughtyAppUids, bad \in 0..1 :
        LET ran == Run(Kernel, <<Ins("penalty_box", 1, Reject(u), 0)>>, bad)
        IN  /\ Fault(bad) /\ Sound(bad)
            /\ naughtyAppUids' = naughtyAppUids \cup {u}
            /\ Becomes(IF ran.ok THEN ran.k
                       ELSE Run(ran.k, <<Del("penalty_box", Reject(u))>>, 0).k)
            /\ UNCHANGED <<quotaIfaces, shared, alerts, nats, astray, restarts>>

\* A deletion that failed is tried once more.
RemoveNaughty ==
    \E u \in naughtyAppUids, bad \in 0..1 :
        LET ran == Run(Kernel, <<Del("penalty_box", Reject(u))>>, bad)
        IN  /\ Fault(bad) /\ Sound(bad)
            /\ naughtyAppUids' = naughtyAppUids \ {u}
            /\ Becomes(IF ran.ok THEN ran.k
                       ELSE Run(ran.k, <<Del("penalty_box", Reject(u))>>, 0).k)
            /\ UNCHANGED <<quotaIfaces, shared, alerts, nats, astray, restarts>>
--------------------------------------------------------------------------
Call ==
    \/ Enable \/ Disable \/ Restart
    \/ AddShared \/ ResizeShared \/ RemoveSharedQuota
    \/ AddQuota \/ ResizeQuota \/ RemoveQuota
    \/ SetSharedAlert \/ RemoveSharedAlert \/ SetInterfaceAlert \/ RemoveInterfaceAlert
    \/ SetGlobalAlert \/ RemoveGlobalAlert \/ NatEnable \/ NatDisable
    \/ AddNaughty \/ RemoveNaughty

\* The framework enables bandwidth control before anything else.
FrameworkEnables == calls = 0 => clean'

Next == Call /\ calls < MaxCalls /\ calls' = calls + 1

Spec == Init /\ [][Next]_vars
--------------------------------------------------------------------------
Count(c, r) == Cardinality({j \in DOMAIN chain[c] : chain[c][j] = r})

\* From an enable on, and whatever an earlier netd, a disable or a failed
\* command had left behind: bw_INPUT sends exactly the listed interfaces to their
\* costly chains, once each; a costly chain in use is the quota rule and then the
\* penalty box, and the kernel counts against the size netd reports.
\* (setInterfaceQuota, setInterfaceSharedQuota and their removals.)
QuotasExact ==
    clean =>
        /\ \A i \in Ifaces :
            /\ Count("bw_INPUT", Jump(i, i)) = (IF quotaIfaces[i].quota # 0 THEN 1 ELSE 0)
            /\ Count("bw_INPUT", Jump(i, "shared")) = (IF i \in sharedQuotaIfaces THEN 1 ELSE 0)
            /\ quotaIfaces[i].quota # 0 =>
                    /\ chain[i] = <<Quota, Box>>
                    /\ counter[<<"quota", i>>] = quotaIfaces[i].quota
        /\ chain["shared"] = (IF sharedQuotaIfaces = {} THEN <<Box>> ELSE <<Quota, Box>>)
        /\ counter[<<"quota", "shared">>] = sharedQuotaBytes

\* From an enable on the global alert is the first rule of bw_INPUT exactly while
\* netd has one, with its size, and the accounting rule the last, however quotas
\* came and went in between ("The alert rule comes 1st", BandwidthController.cpp:448;
\* "the qtaguid counting is done at the end", :72).
AlertFirstTrackLast ==
    clean =>
        /\ Last(chain["bw_INPUT"]) = Track
        /\ globalAlertBytes # 0 => Head(chain["bw_INPUT"]) = Alert
        /\ Count("bw_INPUT", Alert) = (IF globalAlertBytes # 0 THEN 1 ELSE 0)
        /\ counter[<<"alert", "global">>] = globalAlertBytes

\* The forward chain holds one copy of the global alert exactly while there are
\* both an alert and a tether, in whatever order they come and go, unless
\* bandwidth control was enabled under a standing tether (setGlobalAlert,
\* setGlobalAlertInForwardChain and their removals).
TethersCovered ==
    (clean /\ ~astray) =>
        chain["bw_FORWARD"] = (IF globalAlertBytes # 0 /\ nats > 0 THEN <<Alert>> ELSE <<>>)

\* The penalty box rejects exactly the listed applications, each with one rule.
NaughtyExact ==
    clean => \A u \in Uids :
        Count("penalty_box", Reject(u)) = (IF u \in naughtyAppUids THEN 1 ELSE 0)

\* The count of the forward chain's users is the number of tethers, as
\* BandwidthController.h has it.
TethersTracked == clean => globalAlertTetherCount = nats

\* Whatever order of quotas, alerts, tethers, penalties, failures and restarts
\* led here, the kernel's chains are the ones that BandwidthController's members
\* describe: quotas, alerts, forward chain and penalty box.
RulesExact == QuotasExact /\ AlertFirstTrackLast /\ TethersCovered /\ NaughtyExact
==========================================================================
