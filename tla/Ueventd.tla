------------------------------ MODULE Ueventd ------------------------------
(***************************************************************************)
(* ueventd: the process that turns the kernel's events into the nodes and  *)
(* links of /dev and that answers the kernel's requests for firmware       *)
(* (src/core/init/devices.c, ueventd.c).                                   *)
(*                                                                         *)
(* The kernel adds and removes devices at any time, a parent before its    *)
(* children and after them, and queues an event in the socket of ueventd,  *)
(* if it is open and has room.  Devices that were there before the socket  *)
(* was opened are found by the cold boot: ueventd walks /sys and makes the *)
(* kernel repeat the "add" event of each, draining the socket after each   *)
(* one.  A firmware request is handled by a child process.                 *)
(***************************************************************************)
EXTENDS Naturals, Sequences, FiniteSets, SequencesExt

CONSTANTS
    Devices,        \* everything that can appear below /sys/devices
    Parent,         \* its parent directory: a device, or Root
    Root,
    Kind,           \* "platform", "block", "char", or "plain" (no node)
    PartName,       \* the sanitized partition name of a block device
    Present,        \* the devices that are there when ueventd starts
    Cap,            \* the events that the buffer of the socket holds
    Requests,       \* the firmware requests of drivers
    FwOn,           \* where the file is: "rootfs", "data" (mounted late), "nowhere"
    LatePlatforms,  \* platform devices are not added while the cold boot runs
    MaxPlugs,       \* bound: devices added or removed while ueventd runs
    MaxDeaths,      \* bound: deaths of ueventd
    MaxFails        \* bound: forks that fail, firmware files that cannot be copied

VARIABLES
    devs,       \* the kernel's devices
    sock,       \* the events in the socket of ueventd
    pc,         \* "down", "walk" (cold boot), "drain" (after a poke), "loop"
    poked,      \* directories the walk has been to
    due,        \* directories it is to enter: listed in the one above them
    done,       \* /dev/.coldboot_done exists
    platforms,  \* platform_names, oldest first
    node,       \* the nodes of /dev
    link,       \* the links of /dev/block/platform: what each one points to
    fixed,      \* devices whose sysfs attributes have their permissions
    booting,    \* /dev/.booting exists
    mounted,    \* the file systems that init mounts are there
    req,        \* a request: "none", "asked", "loading", "loaded", "failed", "refused"
    child,      \* its process in ueventd: "none", "try", "wait", "copy", "gone"
    sawBooting, \* the variable booting of the child
    old,        \* history: devices that have been there since before the socket
    missed,     \* history: devices of which an event was lost
    plugs, deaths, fails

kvars == <<devs, old, plugs>>
dvars == <<platforms, node, link, fixed>>
fvars == <<req, child, sawBooting>>
bvars == <<booting, mounted>>
vars == <<kvars, sock, pc, poked, due, done, dvars, fvars, bvars, missed, deaths, fails>>

RECURSIVE Ancestors(_)
Ancestors(d) == IF Parent[d] = Root THEN {} ELSE {Parent[d]} \cup Ancestors(Parent[d])
Below(d) == {e \in Devices : d \in Ancestors(e)}

HasNode(d) == Kind[d] \in {"block", "char"}
NoLink == "nolink"
Platforms == {d \in Devices : Kind[d] = "platform"}
Blocks == {d \in Devices : Kind[d] = "block"}
\* by-name/<partition> and the device's own name, below a platform device
LinkNames == {<<p, "by-name", PartName[d]>> : p \in Platforms, d \in Blocks}
             \cup {<<p, "dev", d>> : p \in Platforms, d \in Blocks}

Event == [action : {"add", "remove"}, dev : Devices]
         \cup [action : {"firmware"}, dev : Requests]

Init ==
    /\ devs = Present /\ old = Present /\ plugs = 0
    /\ sock = <<>> /\ pc = "down" /\ poked = {} /\ due = {} /\ done = FALSE
    /\ platforms = <<>> /\ node = {} /\ fixed = {}
    /\ link = [n \in LinkNames |-> NoLink]
    /\ booting = TRUE /\ mounted = FALSE
    /\ req = [r \in Requests |-> "none"]
    /\ child = [r \in Requests |-> "none"]
    /\ sawBooting = [r \in Requests |-> FALSE]
    /\ missed = {} /\ deaths = 0 /\ fails = 0

----------------------------------------------------------------------------
(* The kernel and init *)

\* An event reaches the socket if ueventd has one and its buffer has room.
Broadcast(e) ==
    IF pc # "down" /\ Len(sock) < Cap
    THEN /\ sock' = Append(sock, e)
         /\ UNCHANGED missed
    ELSE /\ missed' = missed \cup {e.dev}
         /\ UNCHANGED sock

Plug(d) ==
    /\ plugs < MaxPlugs /\ d \notin devs
    /\ Parent[d] \in devs \cup {Root}
    /\ LatePlatforms /\ Kind[d] = "platform" => pc = "loop"
    /\ devs' = devs \cup {d}
    /\ plugs' = plugs + 1
    /\ fixed' = fixed \ {d}
    /\ Broadcast([action |-> "add", dev |-> d])
    /\ UNCHANGED <<old, pc, poked, due, done, platforms, node, link, fvars, bvars, deaths, fails>>

Unplug(d) ==
    /\ plugs < MaxPlugs /\ d \in devs
    /\ Below(d) \cap devs = {}
    /\ devs' = devs \ {d}
    /\ old' = old \ {d}
    /\ plugs' = plugs + 1
    /\ Broadcast([action |-> "remove", dev |-> d])
    /\ due' = due \ {d}
    /\ UNCHANGED <<pc, poked, done, dvars, fvars, bvars, deaths, fails>>

RequestFirmware(r) ==
    /\ req[r] = "none"
    /\ req' = [req EXCEPT ![r] = "asked"]
    /\ Broadcast([action |-> "firmware", dev |-> r])
    /\ UNCHANGED <<kvars, pc, poked, due, done, dvars, child, sawBooting, bvars, deaths, fails>>

\* init mounts the file systems, and later removes /dev/.booting.
Mount ==
    /\ ~mounted /\ mounted' = TRUE
    /\ UNCHANGED <<kvars, sock, pc, poked, due, done, dvars, fvars, booting, missed, deaths, fails>>

Booted ==
    /\ mounted /\ booting
    /\ booting' = FALSE
    /\ UNCHANGED <<kvars, sock, pc, poked, due, done, dvars, fvars, mounted, missed, deaths, fails>>

----------------------------------------------------------------------------
(* Events of devices *)

\* The device is below an entry of the list: it is not added.
Covered(d) == \E i \in DOMAIN platforms : platforms[i] \in Ancestors(d)

AddPlatformDevice(d) == IF Covered(d) THEN platforms ELSE Append(platforms, d)

\* The list is searched from its newest entry.
RemovePlatformDevice(d) ==
    LET is == {i \in DOMAIN platforms : platforms[i] = d}
    IN  IF is = {} THEN platforms
        ELSE RemoveAt(platforms, CHOOSE i \in is : \A j \in is : j <= i)

\* Mutation: only the directory right above the device is looked for.
FindPlatformDirect(d) == {platforms[i] : i \in DOMAIN platforms} \cap {Parent[d]}

FindPlatformDevice(d) ==
    LET is == {i \in DOMAIN platforms : platforms[i] \in Ancestors(d)}
    IN  IF is = {} THEN {}
        ELSE {platforms[CHOOSE i \in is : \A j \in is : j <= i]}

ParsePlatformBlockDevice(d) ==
    {<<p, "by-name", PartName[d]>> : p \in FindPlatformDevice(d)}
    \cup {<<p, "dev", d>> : p \in FindPlatformDevice(d)}

Links(d) == IF Kind[d] = "block" THEN ParsePlatformBlockDevice(d) ELSE {}

\* A link that exists is left alone.
MakeLink(d) == [n \in LinkNames |-> IF n \in Links(d) /\ link[n] = NoLink THEN d ELSE link[n]]

\* A link is removed if it points to the device.
RemoveLink(d) == [n \in LinkNames |-> IF n \in Links(d) /\ link[n] = d THEN NoLink ELSE link[n]]

HandleDevice(action, d) ==
    \/ /\ action = "add"
       /\ node' = node \cup {d}
       /\ link' = MakeLink(d)
    \/ /\ action = "remove"
       /\ link' = RemoveLink(d)
       /\ node' = node \ {d}

HandlePlatformDeviceEvent(action, d) ==
    \/ action = "add" /\ platforms' = AddPlatformDevice(d)
    \/ action = "remove" /\ platforms' = RemovePlatformDevice(d)

\* fixup_sys_perms opens nothing if the device has gone again.
HandleDeviceEvent(action, d) ==
    /\ fixed' = IF action = "add" /\ d \in devs THEN fixed \cup {d} ELSE fixed
    /\ IF HasNode(d) THEN HandleDevice(action, d) ELSE UNCHANGED <<node, link>>
    /\ IF Kind[d] = "platform" THEN HandlePlatformDeviceEvent(action, d) ELSE UNCHANGED platforms

----------------------------------------------------------------------------
(* Firmware *)

\* handle_firmware_event forks; the child reads whether the system boots.
HandleFirmwareEvent(r) ==
    \/ /\ child' = [child EXCEPT ![r] = "try"]
       /\ sawBooting' = [sawBooting EXCEPT ![r] = booting]
       /\ UNCHANGED <<req, missed, fails>>
    \/ /\ fails < MaxFails
       /\ fails' = fails + 1
       /\ missed' = missed \cup {r}
       /\ UNCHANGED <<req, child, sawBooting>>

FileThere(r) == FwOn[r] = "rootfs" \/ (FwOn[r] = "data" /\ mounted)

FwUnchanged == UNCHANGED <<kvars, sock, pc, poked, due, done, dvars, bvars, missed, deaths>>

FwOpen(r) ==
    /\ child[r] = "try"
    /\ \/ /\ FileThere(r)
          /\ child' = [child EXCEPT ![r] = "copy"]
          /\ UNCHANGED req
       \/ /\ ~FileThere(r) /\ sawBooting[r]
          /\ child' = [child EXCEPT ![r] = "wait"]
          /\ UNCHANGED req
       \/ /\ ~FileThere(r) /\ ~sawBooting[r]
          /\ child' = [child EXCEPT ![r] = "gone"]
          /\ req' = [req EXCEPT ![r] = "refused"]
    /\ UNCHANGED <<sawBooting, fails>>
    /\ FwUnchanged

\* Mutation: when the system has booted meanwhile, the child gives up at once.
FwWaitGivesUp(r) ==
    /\ child[r] = "wait"
    /\ sawBooting' = [sawBooting EXCEPT ![r] = booting]
    /\ child' = [child EXCEPT ![r] = IF booting THEN "try" ELSE "gone"]
    /\ req' = [req EXCEPT ![r] = IF booting THEN @ ELSE "refused"]
    /\ UNCHANGED fails
    /\ FwUnchanged

\* After the pause the child looks at /dev/.booting, then tries once more.
FwWait(r) ==
    /\ child[r] = "wait"
    /\ sawBooting' = [sawBooting EXCEPT ![r] = booting]
    /\ child' = [child EXCEPT ![r] = "try"]
    /\ UNCHANGED <<req, fails>>
    /\ FwUnchanged

\* load_firmware: "1", the data, then "0", or "-1" if a read or write failed.
LoadFirmware(r) ==
    /\ child[r] = "copy"
    /\ \/ /\ req[r] = "asked"
          /\ req' = [req EXCEPT ![r] = "loading"]
          /\ UNCHANGED <<child, fails>>
       \/ /\ req[r] = "loading"
          /\ req' = [req EXCEPT ![r] = "loaded"]
          /\ child' = [child EXCEPT ![r] = "gone"]
          /\ UNCHANGED fails
       \/ /\ req[r] = "loading" /\ fails < MaxFails
          /\ fails' = fails + 1
          /\ req' = [req EXCEPT ![r] = "failed"]
          /\ child' = [child EXCEPT ![r] = "gone"]
    /\ UNCHANGED sawBooting
    /\ FwUnchanged

----------------------------------------------------------------------------
(* The loop of ueventd *)

\* handle_device_fd takes one event from the socket.
HandleDeviceFd ==
    /\ sock # <<>>
    /\ sock' = Tail(sock)
    /\ LET e == Head(sock)
       IN  IF e.action = "firmware"
           THEN HandleFirmwareEvent(e.dev) /\ UNCHANGED dvars
           ELSE HandleDeviceEvent(e.action, e.dev) /\ UNCHANGED <<fvars, missed, fails>>

Loop ==
    /\ pc = "loop"
    /\ HandleDeviceFd
    /\ UNCHANGED <<kvars, pc, poked, due, done, bvars, deaths>>

\* What a directory certainly lists when it is read.
Entries(dir) == {d \in devs : Parent[d] = dir}

\* device_init: the socket, then the cold boot, unless it has been done.
Start ==
    /\ pc = "down"
    /\ pc' = IF done THEN "loop" ELSE "walk"
    /\ poked' = {}
    /\ due' = IF done THEN {} ELSE Entries(Root)
    /\ old' = IF done THEN old ELSE devs
    /\ missed' = IF done THEN missed ELSE missed \ devs
    /\ UNCHANGED <<devs, plugs, sock, done, dvars, fvars, bvars, deaths, fails>>

\* Mutation: the walk goes on without reading the socket.
PokeOnly(d) ==
    /\ pc = "walk" /\ d \in devs \ poked
    /\ Parent[d] \in poked \cup {Root}
    /\ poked' = poked \cup {d}
    /\ due' = due \cup Entries(d)
    /\ Broadcast([action |-> "add", dev |-> d])
    /\ UNCHANGED <<kvars, pc, done, dvars, fvars, bvars, deaths, fails>>

\* do_coldboot: a directory is entered after its parent; the write to its
\* uevent file makes the kernel send "add" at once.
Poke(d) ==
    /\ pc = "walk" /\ d \in devs \ poked
    /\ Parent[d] \in poked \cup {Root}
    /\ poked' = poked \cup {d}
    /\ due' = due \cup Entries(d)
    /\ Broadcast([action |-> "add", dev |-> d])
    /\ pc' = "drain"
    /\ UNCHANGED <<kvars, done, dvars, fvars, bvars, deaths, fails>>

Drain ==
    /\ pc = "drain"
    /\ \/ /\ HandleDeviceFd
          /\ UNCHANGED pc
       \/ /\ sock = <<>>
          /\ pc' = "walk"
          /\ UNCHANGED <<sock, dvars, fvars, missed, fails>>
    /\ UNCHANGED <<kvars, poked, due, done, bvars, deaths>>

\* The walk has been to every directory it found listed; one that appeared
\* after the directory above it was read may have been passed over.
ColdbootDone ==
    /\ pc = "walk" /\ due \subseteq poked
    /\ done' = TRUE
    /\ pc' = "loop"
    /\ UNCHANGED <<kvars, sock, poked, due, dvars, fvars, bvars, missed, deaths, fails>>

\* ueventd dies: its socket and its list go with it; its children stay.
Die ==
    /\ pc # "down" /\ deaths < MaxDeaths
    /\ deaths' = deaths + 1
    /\ pc' = "down"
    /\ missed' = missed \cup {sock[i].dev : i \in DOMAIN sock}
    /\ sock' = <<>>
    /\ platforms' = <<>>
    /\ UNCHANGED <<kvars, poked, due, done, node, link, fixed, fvars, bvars, fails>>

Daemon == Start \/ Loop \/ Drain \/ ColdbootDone \/ \E d \in Devices : Poke(d)
Child(r) == FwOpen(r) \/ FwWait(r) \/ LoadFirmware(r)

Next ==
    \/ Daemon
    \/ \E d \in Devices : Plug(d) \/ Unplug(d)
    \/ \E r \in Requests : RequestFirmware(r) \/ Child(r)
    \/ Mount \/ Booted \/ Die

Spec ==
    /\ Init /\ [][Next]_vars
    /\ WF_vars(Daemon) /\ WF_vars(Mount) /\ WF_vars(Booted)
    /\ \A r \in Requests : WF_vars(Child(r))

----------------------------------------------------------------------------
(* Properties *)

AtRest == pc = "loop" /\ sock = <<>>

\* init goes on when /dev/.coldboot_done appears.  The walk itself never fills
\* the socket, because do_coldboot drains it after each directory: only a burst
\* of other events can.
ReadyWhenDone ==
    done /\ deaths = 0
         /\ plugs + Cardinality({r \in Requests : req[r] # "none"}) < Cap
        => \A d \in old : HasNode(d) => d \in node

NodesExact ==
    \A d \in Devices \ missed :
        /\ HasNode(d) => (d \in node <=> d \in devs)
        /\ d \in devs => d \in fixed

LinksExact ==
    /\ \A n \in LinkNames : link[n] = NoLink \/ link[n] \in devs
    /\ \A d \in devs \cap Blocks :
           Ancestors(d) \cap Platforms # {} =>
               \E p \in Platforms : link[<<p, "dev", d>>] = d

\* When ueventd has read its socket empty, /dev mirrors the kernel.  There is a
\* node for exactly the kernel's devices, and their sysfs attributes have the
\* permissions of ueventd.rc: the cold boot and the events that arrive during
\* it neither lose a device nor bring one back (do_coldboot, handle_device),
\* except one whose event was lost with a full or closed socket.  No link below
\* /dev/block/platform dangles, and a block device below a platform device has
\* a link of its own name: the removal computes the links that the creation
\* made, though from the platform list of a later moment
\* (parse_platform_block_device, find_platform_device, remove_link).  That list
\* is lost when ueventd dies.  Already when the cold boot is reported done,
\* every device that was there before ueventd has its node.
DevMirrorsKernel ==
    /\ ReadyWhenDone
    /\ AtRest => /\ NodesExact
                 /\ deaths = 0 /\ missed = {} => LinksExact

\* A request is refused only if no file system has the file: a child that finds
\* no file while the system boots looks for it again after the boot has ended
\* (process_firmware_event: "we may be missing filesystems needed for
\* firmware, wait and retry").
RefusedOnlyIfNowhere ==
    \A r \in Requests : req[r] = "refused" => FwOn[r] = "nowhere"

\* Every request whose event arrived and found a process is answered.
Asked(r) == req[r] \in {"asked", "loading"} /\ r \notin missed
Answered(r) == ~Asked(r)
FirmwareAnswered == \A r \in Requests : Asked(r) ~> Answered(r)
=============================================================================
