------------------------------ MODULE MCNetVold -----------------------------
(* The daemons of the network and of storage, of which a behaviour shows   *)
(* one part: a socket listener of netd or vold with its handler threads    *)
(* and broadcasts, the monitor of service discovery, a volume of vold      *)
(* under commands and kernel events, or the encryption of the device.      *)
EXTENDS Integers, Sequences, SocketListener, Cryptfs

CONSTANTS c1, h1, h2, b1    \* model values

\* A USB volume with two disks or with partitions, and a card slot that is primary storage.
UsbAndCard ==
    {[udisk |-> TRUE, primary |-> FALSE, slots |-> 2, fails |-> 1, tables |-> {{1}}],
     [udisk |-> TRUE, primary |-> FALSE, slots |-> 1, fails |-> 1, tables |-> {{}, {1, 3}}],
     [udisk |-> FALSE, primary |-> TRUE, slots |-> 1, fails |-> 2, tables |-> {{}, {1, 2}, {1, 3}}]}

\* One volume besides /data.
OneVolume == <<"sd">>

VARIABLES part, v1, v2, v3, v4, v5, v6, v7, v8, v9, v10, v11, v12, v13, v14, v15, v16, v17,
    v18, v19, v20, v21, v22, v23, v24, v25

Mdns == INSTANCE MDnsMonitor WITH
   list <- v1, elem <- v2, live <- v3, bytes <- v4, cmd <- v5, mon <- v6, polls <- v7,
    size <- v8, todo <- v9, ctl <- v10, running <- v11, deleted <- v12, misuse <- v13,
    reqs <- v14, stops <- v15, fails <- v16, doubled <- v17, Ids <- {1, 2}, MaxReqs <- 3,
    MaxStops <- 2, MaxFails <- 1, PollSize <- 2, Spare <- 1, FirstLive <- {0, 1}

Vol == INSTANCE VoldVolume WITH
   kind <- v1, state <- v2, retry <- v3, kdev <- v4, mDisk <- v5, first <- v6, nparts <- v7,
    minors <- v8, mask <- v9, extra <- v10, ums <- v11, saved <- v12, dirty <- v13,
    stg <- v14, mnt <- v15, asec <- v16, present <- v17, chan <- v18, th <- v19,
    raced <- v20, astray <- v21, undone <- v22, plugs <- v23, cmds <- v24, fails <- v25,
    Disks <- {1, 2}, MaxPartitions <- 3, ExtraNum <- 4, Kinds <- UsbAndCard, MaxPlugs <- 2,
    MaxCmds <- 2

all == <<part, listenerVars, cryptVars, v1, v2, v3, v4, v5, v6, v7, v8, v9, v10, v11, v12,
        v13, v14, v15, v16, v17, v18, v19, v20, v21, v22, v23, v24, v25>>

\* What a part does not use stays 0.
MCInit ==
    \/ part = "listener" /\ ListenerInit
       /\ CryptInit
       /\ v1 = 0 /\ v2 = 0 /\ v3 = 0 /\ v4 = 0 /\ v5 = 0 /\ v6 = 0 /\ v7 = 0 /\ v8 = 0 /\
          v9 = 0 /\ v10 = 0 /\ v11 = 0 /\ v12 = 0 /\ v13 = 0 /\ v14 = 0 /\ v15 = 0 /\
          v16 = 0 /\ v17 = 0 /\ v18 = 0 /\ v19 = 0 /\ v20 = 0 /\ v21 = 0 /\ v22 = 0 /\
          v23 = 0 /\ v24 = 0 /\ v25 = 0
    \/ part = "mdns" /\ Mdns!Init
       /\ ListenerInit
       /\ CryptInit
       /\ v18 = 0 /\ v19 = 0 /\ v20 = 0 /\ v21 = 0 /\ v22 = 0 /\ v23 = 0 /\ v24 = 0 /\
          v25 = 0
    \/ part = "volume" /\ Vol!Init
       /\ ListenerInit
       /\ CryptInit
    \/ part = "crypt" /\ CryptInit
       /\ ListenerInit
       /\ v1 = 0 /\ v2 = 0 /\ v3 = 0 /\ v4 = 0 /\ v5 = 0 /\ v6 = 0 /\ v7 = 0 /\ v8 = 0 /\
          v9 = 0 /\ v10 = 0 /\ v11 = 0 /\ v12 = 0 /\ v13 = 0 /\ v14 = 0 /\ v15 = 0 /\
          v16 = 0 /\ v17 = 0 /\ v18 = 0 /\ v19 = 0 /\ v20 = 0 /\ v21 = 0 /\ v22 = 0 /\
          v23 = 0 /\ v24 = 0 /\ v25 = 0

MCNext ==
    \/ part = "listener" /\ ListenerNext
       /\ UNCHANGED <<part, cryptVars, v1, v2, v3, v4, v5, v6, v7, v8, v9, v10, v11, v12, v13, v14,
              v15, v16, v17, v18, v19, v20, v21, v22, v23, v24, v25>>
    \/ part = "mdns" /\ Mdns!Next
       /\ UNCHANGED <<part, listenerVars, cryptVars, v18, v19, v20, v21, v22, v23, v24, v25>>
    \/ part = "volume" /\ Vol!Next /\ Vol!Followed
       /\ UNCHANGED <<part, listenerVars, cryptVars>>
    \/ part = "crypt" /\ CryptNext
       /\ UNCHANGED <<part, listenerVars, v1, v2, v3, v4, v5, v6, v7, v8, v9, v10, v11, v12, v13, v14,
              v15, v16, v17, v18, v19, v20, v21, v22, v23, v24, v25>>

MCSpec ==
    /\ MCInit /\ [][MCNext]_all
    /\ WF_all(part = "listener" /\ (Listen)
            /\ UNCHANGED <<part, cryptVars, v1, v2, v3, v4, v5, v6, v7, v8, v9, v10, v11, v12, v13, v14,
              v15, v16, v17, v18, v19, v20, v21, v22, v23, v24, v25>>)
    /\ \A h \in {h1, h2} : WF_all(part = "listener" /\ (Handle(h))
            /\ UNCHANGED <<part, cryptVars, v1, v2, v3, v4, v5, v6, v7, v8, v9, v10, v11, v12, v13, v14,
              v15, v16, v17, v18, v19, v20, v21, v22, v23, v24, v25>>)
    /\ \A x \in Casters : WF_all(part = "listener" /\ (Broadcast(x))
            /\ UNCHANGED <<part, cryptVars, v1, v2, v3, v4, v5, v6, v7, v8, v9, v10, v11, v12, v13, v14,
              v15, v16, v17, v18, v19, v20, v21, v22, v23, v24, v25>>)
    /\ WF_all(part = "listener" /\ (TakeAnswer(c1))
            /\ UNCHANGED <<part, cryptVars, v1, v2, v3, v4, v5, v6, v7, v8, v9, v10, v11, v12, v13, v14,
              v15, v16, v17, v18, v19, v20, v21, v22, v23, v24, v25>>)
    /\ WF_all(part = "volume" /\ (Vol!CmdStep /\ Vol!Followed)
            /\ UNCHANGED <<part, listenerVars, cryptVars>>)
    /\ WF_all(part = "volume" /\ (Vol!NlStep /\ Vol!Followed)
            /\ UNCHANGED <<part, listenerVars, cryptVars>>)

-----------------------------------------------------------------------------
(* The list, the arrays of the monitor and the daemon agree although two   *)
(* threads change them: one element per request, no freed element polled,  *)
(* no array overrun, mdnsd running while a connection to it is open, and,  *)
(* when nothing is going on, exactly the requests polled that were started *)
(* and not stopped.                                                        *)
MonitorSafe == part = "mdns" => Mdns!MonitorSafe

(* Between events the state that vold announces is the state of the disks, *)
(* the mounts, the secure containers' directory, the extra partitions and  *)
(* the shared luns, however commands and kernel events interleaved.        *)
VolumeTruthful == part = "volume" => Vol!VolumeTruthful

(* A volume does not stay Pending: the partitions announced by NPARTS all  *)
(* arrive, or the disk goes.                                               *)
PendingEnds == part = "volume" /\ Vol!Pending ~> (part # "volume" \/ Vol!PendingOver)

(* "Failure handling - try to restore everything back the way it was": an  *)
(* unmount that fails leaves the volume mounted, unless a mount that is to *)
(* restore it fails too.                                                   *)
UndoRestores == part = "volume" => Vol!UndoRestores
=============================================================================
