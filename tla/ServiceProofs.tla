--------------------------- MODULE ServiceProofs ----------------------------
(***************************************************************************)
(* Three services of the device, each on its own: the DHCP client          *)
(* configures only what it was promised, for any servers, addresses,       *)
(* number of retransmissions and packets of others; the device sleeps only *)
(* while autosuspend is enabled, and never over a wakeup event, for any    *)
(* number of calls, events and failures; and the keystore keeps what was   *)
(* stored, for any blobs, values, passwords and number of master keys,     *)
(* provided that no master key file has the old format: with one,          *)
(* readMasterKey loses the master key (run keystore_upgrade).              *)
(***************************************************************************)
EXTENDS DhcpClient, Suspend, Keystore, TLAPS

-----------------------------------------------------------------------------
(* The DHCP client.                                                        *)

\* What a server with the leases l that answers this client has said.
Promised(l, i) ==
    /\ i.server \in Servers
    /\ i.type = "offer" => i.ip = Offered[i.server]
    /\ i.type = "ack" => i.ip = Offered[i.server] /\ l[i.server] = i.ip

\* A lease is never given for anything but what the server offers, so that an
\* acknowledgement stays true; every packet for this client is a promise, and
\* so is info unless the last packet was for another one, or the client has
\* taken it for an acknowledgement.
DhcpInv ==
    /\ DOMAIN lease = Servers /\ lease = [s \in Servers |-> lease[s]]
    /\ \A p \in toClient : p.to = Me => Promised(lease, p.info)
    /\ ~stray => info.type = "none" \/ Promised(lease, info)
    /\ state = "configured" /\ info.type = "ack" => Promised(lease, info)
    /\ ConfiguredIsPromised

\* What a server does keeps the promises that have been made.
LEMMA ServeKeeps ==
    ASSUME DhcpInv, NEW s \in Servers, NEW m \in toServer, Serve(s, m), NEW i, Promised(lease, i)
    PROVE  Promised(lease', i)
<1>1. lease' = lease \/ lease' = [lease EXCEPT ![s] = Offered[s]]
    BY DEF Serve
<1> QED
    BY <1>1 DEF Promised, DhcpInv

\* Each step of the client, the servers and the wire preserves DhcpInv.
LEMMA DhcpInvStep == DhcpInv /\ [DhcpNext]_dhcpVars => DhcpInv'
<1> SUFFICES ASSUME DhcpInv, [DhcpNext]_dhcpVars PROVE DhcpInv'
    OBVIOUS
<1>1. CASE Timeout
    BY <1>1 DEF Timeout, DhcpInv, Promised, ConfiguredIsPromised, Configure, Running
<1>2. CASE GiveUp
    BY <1>2 DEF GiveUp, DhcpInv, Promised, ConfiguredIsPromised, Running
<1>3. CASE Lose
    BY <1>3 DEF Lose, DhcpInv, Promised, ConfiguredIsPromised
<1>4. CASE Stray
    BY <1>4 DEF Stray, DhcpInv, Promised, ConfiguredIsPromised, Reply, Me
<1>5. ASSUME NEW p \in toClient, Receive(p) PROVE DhcpInv'
    BY <1>5, Zenon DEF Receive, IsValidReply, Accept, Configure, Running, DhcpInv, Promised,
                          ConfiguredIsPromised
<1>6. ASSUME NEW s \in Servers, NEW m \in toServer, Serve(s, m) PROVE DhcpInv'
    <2>1. lease' = lease \/ lease' = [lease EXCEPT ![s] = Offered[s]]
        BY <1>6 DEF Serve
    <2>2. DOMAIN lease' = Servers /\ lease' = [t \in Servers |-> lease'[t]]
        BY <2>1 DEF DhcpInv
    <2>3. \A i : Promised(lease, i) => Promised(lease', i)
        BY <1>6, ServeKeeps
    <2>4. PICK p : toClient' = toClient \cup {p} /\ Promised(lease', p.info)
        <3>1. CASE m.type = "discover"
            <4>1. toClient' = toClient \cup {Reply(Me, m.xid, "offer", Offered[s], s)}
                BY <1>6, <3>1 DEF Serve
            <4>2. Promised(lease', Reply(Me, m.xid, "offer", Offered[s], s).info)
                BY DEF Promised, Reply
            <4> QED
                BY <4>1, <4>2
        <3>2. CASE m.type = "request" /\ m.ip = Offered[s]
            <4>1. /\ toClient' = toClient \cup {Reply(Me, m.xid, "ack", m.ip, s)}
                  /\ lease' = [lease EXCEPT ![s] = m.ip]
                BY <1>6, <3>2 DEF Serve
            <4>2. Promised(lease', Reply(Me, m.xid, "ack", m.ip, s).info)
                BY <3>2, <4>1 DEF Promised, Reply, DhcpInv
            <4> QED
                BY <4>1, <4>2
        <3>3. CASE m.type = "request" /\ m.ip # Offered[s]
            <4>1. toClient' = toClient \cup {Reply(Me, m.xid, "nak", 0, s)}
                BY <1>6, <3>3 DEF Serve
            <4>2. Promised(lease', Reply(Me, m.xid, "nak", 0, s).info)
                BY DEF Promised, Reply
            <4> QED
                BY <4>1, <4>2
        <3> QED
            BY <1>6, <3>1, <3>2, <3>3 DEF Serve
    <2>5. \A q \in toClient' : q.to = Me => Promised(lease', q.info)
        BY <2>3, <2>4 DEF DhcpInv
    <2>6. UNCHANGED <<info, stray, state>>
        BY <1>6 DEF Serve
    <2>7. ConfiguredIsPromised'
        BY <2>3, <2>6 DEF ConfiguredIsPromised, DhcpInv, Promised
    <2> QED
        BY <2>2, <2>3, <2>5, <2>6, <2>7 DEF DhcpInv
<1>7. CASE UNCHANGED dhcpVars
    BY <1>7 DEF dhcpVars, DhcpInv, Promised, ConfiguredIsPromised
<1> QED
    BY <1>1, <1>2, <1>3, <1>4, <1>5, <1>6, <1>7 DEF DhcpNext

\* The interface is configured only with an address that a server acknowledged,
\* or offered, to this client (dhcp_init_ifc, is_valid_reply).
THEOREM OnlyPromised == DhcpSpec => []ConfiguredIsPromised
<1>1. DhcpInit => DhcpInv
    BY DEF DhcpInit, DhcpInv, ConfiguredIsPromised, Nothing
<1>2. DhcpInv => ConfiguredIsPromised
    BY Zenon DEF DhcpInv
<1> QED
    BY <1>1, <1>2, DhcpInvStep, PTL DEF DhcpSpec

-----------------------------------------------------------------------------
(* Autosuspend.                                                            *)

\* The suspend thread has taken the semaphore and not posted it yet.
Holds == thr \in {"write", "state", "post"}

\* Nothing has happened before the first call.
Untouched ==
    ops = "none" /\ thr = "off" /\ sem = 0 /\ ~enabled /\ power = "on" /\ caller = "idle"

\* The semaphore is free exactly while autosuspend is enabled and the thread
\* does not hold it: enable posts it, disable takes it for good.
Lockout ==
    /\ sem \in {0, 1}
    /\ sem = 1 <=> enabled /\ ~Holds
    /\ Holds => enabled
    /\ caller = "disable" => enabled
    /\ caller # "enable"

\* With the other interfaces the word that was written last tells whether
\* autosuspend is, or is about to be, enabled.
Word ==
    /\ power = "mem" => enabled \/ caller = "enable"
    /\ caller = "disable" => power = "on"
    /\ thr = "off"

\* The inductive invariant.  An armed kernel has seen a fresh count, and the
\* thread writes the state only to an armed kernel.
SuspendInv ==
    /\ enabled \in BOOLEAN /\ inited \in BOOLEAN
    /\ ~inited => Untouched
    /\ ops = "none" => ~asleep
    /\ thr # "off" => ops = "wakeup"
    /\ ops = "wakeup" => Lockout
    /\ ops \in {"early", "autosleep"} => Word
    /\ thr = "state" => armed
    /\ AwakeWhenOff

USE DEF lib, early, panel, count

\* What a call finds: the interface, and what follows from it.
LEMMA CallFinds ==
    ASSUME SuspendInv, Call
    PROVE  /\ ~asleep /\ ~asleep' /\ inited' /\ caller = "idle" /\ armed' = armed
           /\ ops' = "wakeup" =>
                 sem \in {0, 1} /\ (sem = 1 <=> enabled /\ thr' \notin {"write", "state", "post"})
                                 /\ (thr' \in {"write", "state", "post"} => enabled)
           /\ ops' \in {"early", "autosleep"} => thr' = "off" /\ (power = "mem" => enabled)
           /\ thr' # "off" => ops' = "wakeup"
           /\ thr' = "state" => armed
<1>1. ~asleep /\ asleep' = asleep /\ inited' = TRUE /\ caller = "idle" /\ armed' = armed
    BY DEF Call, InitOps
<1>2. CASE inited
    <2>1. UNCHANGED <<ops, thr>>
        BY <1>2 DEF Call, InitOps
    <2> QED
        BY <1>1, <1>2, <2>1 DEF SuspendInv, Lockout, Word, Holds
<1>3. CASE ~inited
    <2>1. thr' = (IF ops' = "wakeup" THEN "read" ELSE "off")
        BY <1>3 DEF Call, InitOps, WakeupCountInit
    <2> QED
        BY <1>1, <1>3, <2>1 DEF SuspendInv, Untouched
<1> QED
    BY <1>2, <1>3

\* A call that changes nothing but the library's own state.
LEMMA CallReturns ==
    ASSUME SuspendInv, Call, enabled' = enabled, sem' = sem, power' = power,
           caller' = "idle" \/ caller' = "crashed"
               \/ (caller' = "disable" /\ ops' = "wakeup" /\ enabled)
    PROVE  SuspendInv'
BY CallFinds, Zenon DEF SuspendInv, Lockout, Word, Holds, AwakeWhenOff

\* A call that writes a word.
LEMMA CallWrites ==
    ASSUME SuspendInv, Call, ops' \in {"early", "autosleep"}, NEW word \in {"mem", "on"},
           NEW blocked \in {"enable", "disable"}, (word = "mem") <=> (blocked = "enable"),
           WriteWord(word, blocked)
    PROVE  SuspendInv'
<1>1. enabled' \in BOOLEAN
    BY Zenon DEF WriteWord, SuspendInv
<1>2. Word'
    <2>1. CASE waits'
        BY <2>1, CallFinds DEF WriteWord, Word
    <2>2. CASE ~waits'
        BY <2>2, CallFinds, Zenon DEF WriteWord, Word
    <2> QED
        BY <2>1, <2>2
<1> QED
    BY <1>1, <1>2, CallFinds, Zenon DEF SuspendInv, AwakeWhenOff

\* A step of the power manager's calls.
LEMMA CallStep == SuspendInv /\ (AutosuspendEnable \/ AutosuspendDisable) => SuspendInv'
<1>1. ASSUME SuspendInv, AutosuspendEnable PROVE SuspendInv'
    <2>1. Call
        BY <1>1 DEF AutosuspendEnable
    <2>2. CASE Return \/ WriteFails
        <3>1. enabled' = enabled /\ sem' = sem /\ power' = power /\ caller' = caller
            BY <2>2 DEF Return, WriteFails
        <3> QED
            BY <1>1, <2>1, <3>1, CallReturns, CallFinds
    <2>3. CASE caller' = "crashed" /\ UNCHANGED <<enabled, sem, power>>
        BY <1>1, <2>1, <2>3, CallReturns
    <2>4. CASE ~enabled /\ ops' = "wakeup" /\ sem' = sem + 1 /\ enabled' = TRUE
               /\ UNCHANGED <<caller, power>>
        <3>1. sem = 0 /\ thr' \notin {"write", "state", "post"}
            BY <1>1, <2>1, <2>4, CallFinds
        <3>2. sem' = 1 /\ caller' = "idle" /\ enabled'
            BY <1>1, <2>1, <2>4, <3>1, CallFinds
        <3>3. Lockout'
            BY <3>1, <3>2 DEF Lockout, Holds
        <3> QED
            BY <1>1, <2>1, <2>4, <3>3, CallFinds, Zenon DEF SuspendInv, AwakeWhenOff
    <2>5. CASE ops' \in {"early", "autosleep"} /\ WriteWord("mem", "enable")
        BY <1>1, <2>1, <2>5, CallWrites
    <2> QED
        BY <1>1, <2>2, <2>3, <2>4, <2>5, Zenon DEF AutosuspendEnable
<1>2. ASSUME SuspendInv, AutosuspendDisable PROVE SuspendInv'
    <2>1. Call
        BY <1>2 DEF AutosuspendDisable
    <2>2. CASE Return \/ WriteFails
        <3>1. enabled' = enabled /\ sem' = sem /\ power' = power /\ caller' = caller
            BY <2>2 DEF Return, WriteFails
        <3> QED
            BY <1>2, <2>1, <3>1, CallReturns, CallFinds
    <2>3. CASE enabled /\ ops' = "wakeup" /\ caller' = "disable" /\ UNCHANGED <<enabled, sem, power>>
        BY <1>2, <2>1, <2>3, CallReturns
    <2>4. CASE ops' \in {"early", "autosleep"} /\ WriteWord("on", "disable")
        BY <1>2, <2>1, <2>4, CallWrites
    <2> QED
        BY <1>2, <2>2, <2>3, <2>4 DEF AutosuspendDisable
<1> QED
    BY <1>1, <1>2

\* A call that waits gets what it waited for.
LEMMA ReturnStep == SuspendInv /\ (DisableTakesSem \/ PanelSeen) => SuspendInv'
<1> SUFFICES ASSUME SuspendInv, DisableTakesSem \/ PanelSeen PROVE SuspendInv'
    BY SMTT(30)
<1> USE DEF SuspendInv, Untouched, AwakeWhenOff
<1>1. CASE DisableTakesSem
    <2>1. inited /\ UNCHANGED <<inited, ops, thr, asleep, armed, power>> /\ caller' = "idle" /\ ~asleep
        BY <1>1 DEF DisableTakesSem
    <2>2. CASE sem > 0 /\ sem' = sem - 1 /\ enabled' = FALSE
        <3>1. sem = 1 /\ sem' = 0 /\ ~Holds
            BY <1>1, <2>2 DEF DisableTakesSem, Lockout
        <3>2. Lockout'
            BY <2>1, <2>2, <3>1 DEF Lockout, Holds
        <3>3. ops = "wakeup" /\ enabled' \in BOOLEAN
            BY <1>1, <2>2, Zenon DEF DisableTakesSem
        <3> QED
            BY <2>1, <3>2, <3>3
    <2>3. CASE UNCHANGED <<sem, enabled>>
        BY <1>1, <2>1, <2>3 DEF DisableTakesSem, Lockout, Holds
    <2> QED
        BY <1>1, <2>2, <2>3, Zenon DEF DisableTakesSem
<1>2. CASE PanelSeen
    BY <1>2, Zenon DEF PanelSeen, Word
<1> QED
    BY <1>1, <1>2

\* A step of the suspend thread.
LEMMA ThreadSteps == SuspendInv /\ Thread => SuspendInv'
<1> SUFFICES ASSUME SuspendInv, Thread PROVE SuspendInv'
    BY Zenon
<1> USE DEF SuspendInv, Untouched, AwakeWhenOff, ThreadStep, Lockout, Holds
<1>1. ops = "wakeup" /\ inited
    BY Zenon DEF Thread, ThrRead, ThrWait, ThrWrite, ThrState, ThrPost
<1>2. CASE ThrRead
    BY <1>1, <1>2 DEF ThrRead
<1>3. CASE ThrWait
    BY <1>1, <1>3 DEF ThrWait, Fail
<1>4. CASE ThrWrite
    BY <1>1, <1>4 DEF ThrWrite
<1>5. CASE ThrState
    BY <1>1, <1>5 DEF ThrState, Fail
<1>6. CASE ThrPost
    BY <1>1, <1>6, SMTT(30) DEF ThrPost
<1> QED
    BY <1>2, <1>3, <1>4, <1>5, <1>6, Zenon DEF Thread

\* A step of the watcher and of the kernel.
LEMMA KernelSteps ==
    SuspendInv /\ (Watcher \/ Event \/ EventDone \/ PanelFollow \/ KernelSleep \/ Wake) => SuspendInv'
<1> SUFFICES ASSUME SuspendInv, Watcher \/ Event \/ EventDone \/ PanelFollow \/ KernelSleep \/ Wake
             PROVE  SuspendInv'
    OBVIOUS
<1> USE DEF SuspendInv, Untouched, AwakeWhenOff, Lockout, Word, Holds, Kernel
<1>1. CASE Watcher
    BY <1>1, ZenonT(30) DEF Watcher
<1>2. CASE Event \/ EventDone \/ PanelFollow
    BY <1>2, SMTT(30) DEF Event, EventDone, PanelFollow
<1>3. CASE KernelSleep
    BY <1>3 DEF KernelSleep
<1>4. CASE Wake
    BY <1>4 DEF Wake
<1> QED
    BY <1>1, <1>2, <1>3, <1>4, Zenon

\* SuspendInv is inductive.
LEMMA SuspendInvHolds == Spec => []SuspendInv
<1>1. Init => SuspendInv
    BY Zenon DEF Init, SuspendInv, Untouched, AwakeWhenOff, Lockout, Word, Holds
<1>2. SuspendInv /\ [Next]_vars => SuspendInv'
    <2> SUFFICES ASSUME SuspendInv, [Next]_vars PROVE SuspendInv'
        OBVIOUS
    <2>1. CASE UNCHANGED vars
        BY <2>1 DEF vars, SuspendInv, Untouched, AwakeWhenOff, Lockout, Word, Holds
    <2> QED
        BY <2>1, CallStep, ReturnStep, ThreadSteps, KernelSteps, SMTT(30) DEF Next, Thread
<1> QED
    BY <1>1, <1>2, PTL DEF Spec

\* The device is awake whenever autosuspend is off: when disable has returned,
\* the suspend thread does not write the state any more
\* (autosuspend_wakeup_count_disable, suspend_thread_func).
THEOREM SleepsOnlyEnabled == Spec => []AwakeWhenOff
<1>1. SuspendInv => AwakeWhenOff
    BY DEF SuspendInv
<1> QED
    BY <1>1, SuspendInvHolds, PTL

\* The device does not fall asleep over an event that came after the suspend
\* thread read the wakeup count (suspend_thread_func).
THEOREM WakeupsAreKept == Spec => NoLostWakeup
<1>1. SuspendInv /\ [Next]_vars => [SleepsFresh]_vars
    <2> SUFFICES ASSUME SuspendInv, Next, ops = "wakeup", ~asleep, asleep' PROVE fresh
        BY DEF SleepsFresh, vars
    <2>1. thr = "state" /\ (armed => fresh)
        BY Zenon DEF Next, AutosuspendEnable, AutosuspendDisable, Call, DisableTakesSem, PanelSeen,
               ThrRead, ThrWait, ThrWrite, ThrState, ThrPost, ThreadStep, Watcher, Event,
               EventDone, PanelFollow, KernelSleep, Wake, Kernel
    <2> QED
        BY <2>1 DEF SuspendInv
<1> QED
    BY <1>1, SuspendInvHolds, PTL DEF Spec, NoLostWakeup

-----------------------------------------------------------------------------
(* The keystore.                                                           *)

\* Besides KeysKept: every master key file has a salt, so that readMasterKey
\* never writes it; a store without password keeps nothing, so that a new
\* master key makes nothing unreadable; and retries and wrong passwords add up
\* in every state, not only in LOCKED.
KeysInv ==
    /\ KeptRecoverable /\ KeyInMemoryIsKeyOnDisk
    /\ files = [f \in Files |-> files[f]] /\ kept = [f \in Files |-> kept[f]]
    /\ master # None => master.salt
    /\ mState \in {"UNINITIALIZED", "LOCKED", "NO_ERROR"}
    /\ mState = "UNINITIALIZED" => \A f \in Files : kept[f] = None
    /\ mRetry \in Nat /\ wrongs \in Nat /\ mRetry + wrongs = MaxRetry
    /\ mState # "LOCKED" => wrongs = 0

LEMMA KeysInvInit == ASSUME OldMaster = FALSE, KeystoreInit PROVE KeysInv
<1>1. master # None => master.salt /\ master.key = 1
    BY Zenon DEF KeystoreInit
<1>2. /\ files = [f \in Files |-> files[f]] /\ kept = [f \in Files |-> kept[f]]
      /\ \A f \in Files : files[f] # None => files[f].key = 1
    BY Zenon DEF KeystoreInit
<1>3. KeptRecoverable
    BY <1>1, <1>2, Zenon DEF KeystoreInit, KeptRecoverable
<1> QED
    BY <1>1, <1>2, <1>3 DEF KeystoreInit, KeysInv, KeyInMemoryIsKeyOnDisk, MaxRetry

\* A master key file or a blob is not the absence of one.
LEMMA NotNone ==
    /\ \A k, p, s : [key |-> k, pw |-> p, salt |-> s] # None
    /\ \A v, k, y, t : [val |-> v, key |-> k, type |-> t, version |-> y] # None
    BY Zenon DEF None

LEMMA PasswordKeeps ==
    ASSUME KeysInv, NEW pw \in Pws, NEW ok \in BOOLEAN, Password(pw, ok)
    PROVE  KeysInv'
<1>1. CASE mState = "UNINITIALIZED" /\ Initialize(pw, ok)
    BY <1>1, NotNone DEF Initialize, SetState, KeysInv, KeptRecoverable, KeyInMemoryIsKeyOnDisk, MaxRetry
<1>2. CASE mState = "NO_ERROR" /\ ok /\ Change(pw)
    BY <1>2, NotNone, ZenonT(30) DEF Change, KeysInv, KeptRecoverable, KeyInMemoryIsKeyOnDisk, MaxRetry
<1>3. CASE mState = "LOCKED" /\ master # None /\ ReadMasterKey(pw, ok)
    BY <1>3 DEF ReadMasterKey, ResetStore, SetState, KeysInv, KeptRecoverable,
                KeyInMemoryIsKeyOnDisk, MaxRetry
<1> QED
    BY <1>1, <1>2, <1>3, ZenonT(30) DEF Password

\* Each request, and each death of the daemon, preserves KeysInv.
LEMMA KeysInvStep == KeysInv /\ [KeystoreNext]_keystoreVars => KeysInv'
<1> SUFFICES ASSUME KeysInv, [KeystoreNext]_keystoreVars PROVE KeysInv'
    OBVIOUS
<1> USE DEF KeysInv, KeptRecoverable, KeyInMemoryIsKeyOnDisk, MaxRetry
<1>1. ASSUME NEW pw \in Pws, NEW ok \in BOOLEAN, Password(pw, ok) PROVE KeysInv'
    BY <1>1, PasswordKeeps, Zenon
<1>2. CASE Lock
    BY <1>2 DEF Lock, SetState
<1>3. CASE Reset
    BY <1>3 DEF Reset, ResetStore, SetState
<1>4. CASE ResetDies
    BY <1>4 DEF ResetDies, Restarted
<1>5. CASE Dies
    BY <1>5, SMTT(30) DEF Dies, Restarted
<1>6. ASSUME NEW f \in Files, NEW type \in {"generic", "pair"}, Get(f, type) PROVE KeysInv'
    BY <1>6, NotNone, ZenonT(30) DEF Get, Upgraded, Readable
<1>7. ASSUME NEW f \in Files, NEW type \in {"generic", "pair"}, Del(f, type) PROVE KeysInv'
    BY <1>7, NotNone DEF Del, Upgraded, Readable
<1>8. ASSUME NEW f \in Files, NEW type \in {"generic", "pair"}, NEW v \in Vals, NEW ok \in BOOLEAN,
             Put(f, v, type, ok)
      PROVE  KeysInv'
    BY <1>8, NotNone DEF Put
<1>9. CASE UNCHANGED keystoreVars
    BY <1>9 DEF keystoreVars
<1> HIDE DEF KeysInv, KeptRecoverable, KeyInMemoryIsKeyOnDisk, MaxRetry
<1> QED
    BY <1>1, <1>2, <1>3, <1>4, <1>5, <1>6, <1>7, <1>8, <1>9, Zenon DEF KeystoreNext

\* What a client stored, and nobody deleted or reset, stays readable with the
\* password, the key in memory is the one on disk, and the fifth wrong password
\* and no earlier one wipes the store: KeyStore of keystore.cpp, whatever the
\* requests, the failing writes and the restarts.
THEOREM StoredIsKept ==
    ASSUME OldMaster = FALSE
    PROVE  KeystoreSpec => []KeysKept
<1>1. KeystoreInit => KeysInv
    BY KeysInvInit, Zenon
<1>2. KeysInv => KeysKept
    BY DEF KeysInv, KeysKept, RetryExact
<1> QED
    BY <1>1, <1>2, KeysInvStep, PTL DEF KeystoreSpec
=============================================================================
