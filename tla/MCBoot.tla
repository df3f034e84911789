------------------------------- MODULE MCBoot -------------------------------
(* Parts of init, and daemons that it starts, of which a behaviour shows   *)
(* one: the action queue at boot, the crash window of a critical service,  *)
(* the property area with its readers, the property service with its       *)
(* files, ueventd with its devices or its firmware requests, the file      *)
(* transfer of adbd, or the file system of the SD card.                    *)
EXTENDS IntrusiveList, InitCrashWindow, PropertyArea

(* The boot queue in small: "init" sets a property that another action     *)
(* waits for and triggers the event "fs"; "ps" starts the property         *)
(* service, "trig" enables the property triggers.  "p1", "pany" and "q1"   *)
(* have property triggers, and "p1" sets the property "q1" waits for.      *)
List == <<"init", "p1", "fs", "pany", "boot", "q1", "ps", "trig">>
AllActions == {List[i] : i \in 1 .. Len(List)}
BootQueue == <<"init", "ps", "boot", "trig">>

Setprop(n, v) == [op |-> "setprop", name |-> n, value |-> v]
Other == [op |-> "other"]

CommandsOf ==
    [init |-> <<Setprop("r", "2"), [op |-> "trigger", name |-> "fs"]>>,
     fs   |-> <<Other>>,
     ps   |-> <<[op |-> "start_property_service"]>>,
     boot |-> <<>>,
     trig |-> <<[op |-> "queue_property_triggers"]>>,
     p1   |-> <<Other, Setprop("q", "1")>>,
     pany |-> <<Setprop("r", "1")>>,
     q1   |-> <<Other>>]

On(n, v) == [prop |-> n, value |-> v]
TriggerOf ==
    [init |-> On("", "init"), fs |-> On("", "fs"), ps |-> On("", "ps"),
     boot |-> On("", "boot"), trig |-> On("", "trig"),
     p1 |-> On("p", "1"), pany |-> On("p", "*"), q1 |-> On("q", "1")]

AreaValues == {<<>>, <<"a">>, <<"b", "a">>}

\* A debuggable device with two default values for "persist.a", one in /system
\* and one in local.prop, and a stored one; local.prop is on devices that are not
\* encrypted.
AllNames == {"ro.debuggable", "sys.x", "net.a", "net.b", "net.change", "persist.a",
             "persist.maindev", "persist.app2sd"}
PlainLocal == [e \in BOOLEAN |-> IF e THEN <<>> ELSE <<<<"persist.a", "local">>>>]
StoredFiles ==
    [n \in {"persist.a", "persist.maindev", "persist.app2sd"} |->
        CASE n = "persist.a" -> "old"
          [] n = "persist.app2sd" -> "true"
          [] n = "persist.maindev" -> "unset"]

\* A platform device with a partition, and a second platform device below it
\* with another partition of the same name.
ParentOf == [plat |-> "root", sub |-> "plat", blk |-> "sub", mmc |-> "plat", tty |-> "root"]
KindOf == [plat |-> "platform", sub |-> "platform", blk |-> "block", mmc |-> "block",
           tty |-> "char"]
PartOf == [blk |-> "system", mmc |-> "system"]
FileOn == [wlan |-> "data", gps |-> "nowhere"]

\* A critical service for the crash window.
OneClass == [s \in {"sm"} |-> "core"]
NoRestarts == [s \in {"sm"} |-> {}]

Lower(n) == IF n = "A" THEN "a" ELSE n
TwoLevels == {<<"a">>, <<"b">>, <<"a", "b">>}

VARIABLES part, v1, v2, v3, v4, v5, v6, v7, v8, v9, v10, v11, v12, v13, v14, v15, v16, v17,
    v18, v19, v20

Queue == INSTANCE InitActionQueue WITH
   action_queue <- v1, cur_action <- v2, cur_command <- v3, props <- v4,
    property_triggers_enabled <- v5, listening <- v6, pc <- v7, sets <- v8, ran <- v9,
    ActionList <- List, Trigger <- TriggerOf, Commands <- CommandsOf, Boot <- BootQueue,
    Names <- {"p", "q", "r"}, Values <- {"1", "2"}, ReadOnly <- {"p", "q", "r"},
    MaxSets <- 5

Props == INSTANCE InitProperties WITH
   area <- v1, fired <- v2, lastNet <- v3, todo <- v4, temp <- v5, files <- v6, views <- v7,
    lost <- v8, encrypted <- v9, data <- v10, loadDue <- v11,
    persistent_properties_loaded <- v12, pc <- v13, asked <- v14, sets <- v15,
    crashes <- v16, Names <- AllNames, ReadOnly <- {"ro.debuggable"},
    Rewritable <- {"ro.debuggable"}, Net <- {"net.a", "net.b", "net.change"},
    Persist <- {"persist.a", "persist.maindev", "persist.app2sd"},
    NetChange <- "net.change", Debuggable <- "ro.debuggable", MainDev <- "persist.maindev",
    App2Sd <- "persist.app2sd", Ramdisk <- <<<<"ro.debuggable", "1">>>>,
    Build <- <<<<"persist.a", "build">>>>, Local <- PlainLocal, Stored <- StoredFiles,
    ClientNames <- {"sys.x", "net.a", "net.b", "persist.a", "ro.debuggable"},
    ClientValues <- {"new", "1"}, Encrypted <- {TRUE, FALSE}, CountMax <- 7, MaxSets <- 3,
    MaxCrashes <- 1

Udev == INSTANCE Ueventd WITH
   devs <- v1, sock <- v2, pc <- v3, poked <- v4, due <- v5, done <- v6, platforms <- v7,
    node <- v8, link <- v9, fixed <- v10, booting <- v11, mounted <- v12, req <- v13,
    child <- v14, sawBooting <- v15, old <- v16, missed <- v17, plugs <- v18, deaths <- v19,
    fails <- v20, Devices <- {"plat", "sub", "blk", "mmc", "tty"}, Parent <- ParentOf,
    Root <- "root", Kind <- KindOf, PartName <- PartOf, Present <- {"plat", "mmc", "tty"},
    Cap <- 3, Requests <- {}, FwOn <- FileOn, LatePlatforms <- TRUE, MaxPlugs <- 3,
    MaxDeaths <- 1, MaxFails <- 0

Fw == INSTANCE Ueventd WITH
   devs <- v1, sock <- v2, pc <- v3, poked <- v4, due <- v5, done <- v6, platforms <- v7,
    node <- v8, link <- v9, fixed <- v10, booting <- v11, mounted <- v12, req <- v13,
    child <- v14, sawBooting <- v15, old <- v16, missed <- v17, plugs <- v18, deaths <- v19,
    fails <- v20, Devices <- {"tty"}, Parent <- ParentOf, Root <- "root", Kind <- KindOf,
    PartName <- PartOf, Present <- {"tty"}, Cap <- 2, Requests <- {"wlan", "gps"},
    FwOn <- FileOn, LatePlatforms <- TRUE, MaxPlugs <- 0, MaxDeaths <- 1, MaxFails <- 1

Sync == INSTANCE AdbSync WITH
   local <- v1, remote <- v2, pulled <- v3, up <- v4, down <- v5, open <- v6, cl <- v7,
    sv <- v8, runs <- v9, faults <- v10, Files <- {"a", "b"}, Size <- <<2, 2>>,
    Stuck <- {"b"}, Room <- 1, MaxRuns <- 2, MaxFaults <- 1

Sd == INSTANCE Sdcard WITH
   node <- v1, child <- v2, disk <- v3, req <- v4, look <- v5, cached <- v6, forgets <- v7,
    sent <- v8, Nodes <- {1, 2, 3}, Names <- {"a", "b"}, Fold <- Lower, Threads <- {1, 2},
    Paths <- TwoLevels, MaxLook <- 2, MaxReqs <- 4

all == <<part, hvars, areaVars, v1, v2, v3, v4, v5, v6, v7, v8, v9, v10, v11, v12, v13, v14,
        v15, v16, v17, v18, v19, v20>>

\* What a part does not use stays 0.
MCInit ==
    \/ part = "queue" /\ Queue!Init
       /\ HInit
       /\ AreaInit
       /\ v10 = 0 /\ v11 = 0 /\ v12 = 0 /\ v13 = 0 /\ v14 = 0 /\ v15 = 0 /\ v16 = 0 /\
          v17 = 0 /\ v18 = 0 /\ v19 = 0 /\ v20 = 0
    \/ part = "crash" /\ HInit
       /\ AreaInit
       /\ v1 = 0 /\ v2 = 0 /\ v3 = 0 /\ v4 = 0 /\ v5 = 0 /\ v6 = 0 /\ v7 = 0 /\ v8 = 0 /\
          v9 = 0 /\ v10 = 0 /\ v11 = 0 /\ v12 = 0 /\ v13 = 0 /\ v14 = 0 /\ v15 = 0 /\
          v16 = 0 /\ v17 = 0 /\ v18 = 0 /\ v19 = 0 /\ v20 = 0
    \/ part = "area" /\ AreaInit
       /\ HInit
       /\ v1 = 0 /\ v2 = 0 /\ v3 = 0 /\ v4 = 0 /\ v5 = 0 /\ v6 = 0 /\ v7 = 0 /\ v8 = 0 /\
          v9 = 0 /\ v10 = 0 /\ v11 = 0 /\ v12 = 0 /\ v13 = 0 /\ v14 = 0 /\ v15 = 0 /\
          v16 = 0 /\ v17 = 0 /\ v18 = 0 /\ v19 = 0 /\ v20 = 0
    \/ part = "properties" /\ Props!Init
       /\ HInit
       /\ AreaInit
       /\ v17 = 0 /\ v18 = 0 /\ v19 = 0 /\ v20 = 0
    \/ part = "devices" /\ Udev!Init
       /\ HInit
       /\ AreaInit
    \/ part = "firmware" /\ Fw!Init
       /\ HInit
       /\ AreaInit
    \/ part = "sync" /\ Sync!Init
       /\ HInit
       /\ AreaInit
       /\ v11 = 0 /\ v12 = 0 /\ v13 = 0 /\ v14 = 0 /\ v15 = 0 /\ v16 = 0 /\ v17 = 0 /\
          v18 = 0 /\ v19 = 0 /\ v20 = 0
    \/ part = "sdcard" /\ Sd!Init
       /\ HInit
       /\ AreaInit
       /\ v9 = 0 /\ v10 = 0 /\ v11 = 0 /\ v12 = 0 /\ v13 = 0 /\ v14 = 0 /\ v15 = 0 /\
          v16 = 0 /\ v17 = 0 /\ v18 = 0 /\ v19 = 0 /\ v20 = 0

MCNext ==
    \/ part = "queue" /\ Queue!Next
       /\ UNCHANGED <<part, hvars, areaVars, v10, v11, v12, v13, v14, v15, v16, v17, v18, v19, v20>>
    \/ part = "crash" /\ HNext
       /\ UNCHANGED <<part, areaVars, v1, v2, v3, v4, v5, v6, v7, v8, v9, v10, v11, v12, v13, v14,
              v15, v16, v17, v18, v19, v20>>
    \/ part = "area" /\ AreaNext
       /\ UNCHANGED <<part, hvars, v1, v2, v3, v4, v5, v6, v7, v8, v9, v10, v11, v12, v13, v14, v15,
              v16, v17, v18, v19, v20>>
    \/ part = "properties" /\ Props!Next
       /\ UNCHANGED <<part, hvars, areaVars, v17, v18, v19, v20>>
    \/ part = "devices" /\ Udev!Next
       /\ UNCHANGED <<part, hvars, areaVars>>
    \/ part = "firmware" /\ Fw!Next
       /\ UNCHANGED <<part, hvars, areaVars>>
    \/ part = "sync" /\ Sync!Next
       /\ UNCHANGED <<part, hvars, areaVars, v11, v12, v13, v14, v15, v16, v17, v18, v19, v20>>
    \/ part = "sdcard" /\ Sd!Next
       /\ UNCHANGED <<part, hvars, areaVars, v9, v10, v11, v12, v13, v14, v15, v16, v17, v18, v19, v20>>

MCSpec ==
    /\ MCInit /\ [][MCNext]_all
    /\ WF_all(part = "queue" /\ (Queue!Execute)
            /\ UNCHANGED <<part, hvars, areaVars, v10, v11, v12, v13, v14, v15, v16, v17, v18, v19, v20>>)
    /\ WF_all(part = "queue" /\ (Queue!PollNow)
            /\ UNCHANGED <<part, hvars, areaVars, v10, v11, v12, v13, v14, v15, v16, v17, v18, v19, v20>>)
    /\ WF_all(part = "area" /\ (Write)
            /\ UNCHANGED <<part, hvars, v1, v2, v3, v4, v5, v6, v7, v8, v9, v10, v11, v12, v13, v14, v15,
              v16, v17, v18, v19, v20>>)
    /\ WF_all(part = "area" /\ (Read("r"))
            /\ UNCHANGED <<part, hvars, v1, v2, v3, v4, v5, v6, v7, v8, v9, v10, v11, v12, v13, v14, v15,
              v16, v17, v18, v19, v20>>)
    /\ WF_all(part = "sync" /\ (Sync!Client)
            /\ UNCHANGED <<part, hvars, areaVars, v11, v12, v13, v14, v15, v16, v17, v18, v19, v20>>)
    /\ WF_all(part = "sync" /\ (Sync!Service)
            /\ UNCHANGED <<part, hvars, areaVars, v11, v12, v13, v14, v15, v16, v17, v18, v19, v20>>)

-----------------------------------------------------------------------------
(* The handover at queue_property_triggers loses and repeats nothing: the  *)
(* action of a property trigger that holds has run or waits exactly once   *)
(* after the triggers are enabled, whether the property was set before the *)
(* handover or after it, and never before.  (For properties that are set   *)
(* once, such as ro.*.)                                                    *)
FiredOnce == part = "queue" => Queue!FiredOnce

(* init implements the queue readme.txt describes: actions are taken in    *)
(* the order in which their events occurred, and one that is on the queue  *)
(* already is not added again.                                             *)
ImplementsFifo ==
    (part = "queue" => Queue!FifoInit) /\ [][part = "queue" => Queue!FifoStep]_all

(* The persistent properties in memory and on disk agree: files hold only  *)
(* values that somebody asked for, and what was loaded or set is what the  *)
(* file holds, over power failures, failed writes and a second load after  *)
(* decryption.                                                             *)
PersistExact == part = "properties" => Props!PersistExact

(* When ueventd has read its socket empty, /dev mirrors the kernel.  There *)
(* is a node for exactly the kernel's devices, and their sysfs attributes  *)
(* have the permissions of ueventd.rc: the cold boot and the events that   *)
(* arrive during it neither lose a device nor bring one back (do_coldboot, *)
(* handle_device), except one whose event was lost with a full or closed   *)
(* socket.  No link below /dev/block/platform dangles, and a block device  *)
(* below a platform device has a link of its own name: the removal         *)
(* computes the links that the creation made, though from the platform     *)
(* list of a later moment (parse_platform_block_device,                    *)
(* find_platform_device, remove_link).  That list is lost when ueventd     *)
(* dies.  Already when the cold boot is reported done, every device that   *)
(* was there before ueventd has its node.                                  *)
DevMirrorsKernel == part = "devices" => Udev!DevMirrorsKernel

(* A request is refused only if no file system has the file: a child that  *)
(* finds no file while the system boots looks for it again after the boot  *)
(* has ended (process_firmware_event: "we may be missing filesystems       *)
(* needed for firmware, wait and retry").                                  *)
RefusedOnlyIfNowhere == part = "firmware" => Fw!RefusedOnlyIfNowhere

(* No part of a file passes for the file: a sync skips only files that the *)
(* device has, all of them (those it can unlink), and a pull leaves a file *)
(* whole or not at all, over broken streams, failing calls, losses of      *)
(* power and edits.                                                        *)
CopiesWhole == part = "sync" => Sync!CopiesWhole

(* Every run ends, and so does its service: each SEND has exactly one      *)
(* answer, with failing writes too, and each side reads as much as the     *)
(* other writes.                                                           *)
RunEnds == part = "sync" /\ Sync!Busy ~> (part # "sync" \/ Sync!AtRest)

(* Under requests of two threads the node tree stays consistent: the       *)
(* counts are exactly the references, no request or child holds a freed    *)
(* node, and what the kernel has cached for a name is the node that has    *)
(* it.                                                                     *)
TreeExact == part = "sdcard" => Sd!TreeExact
=============================================================================
