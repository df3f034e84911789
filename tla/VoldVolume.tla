------------------------------ MODULE VoldVolume ------------------------------
(***************************************************************************)
(* A removable volume of vold (Volume.cpp, DirectVolume.cpp and the volume *)
(* commands of VolumeManager.cpp).  Two threads use it without a lock: the *)
(* command thread ("cmd") serves the framework and the netlink thread      *)
(* ("nl") the uevents of the kernel.  A step ends at a call that may       *)
(* block: a mount, an unmount, a check, a format, a write to the UMS lun   *)
(* file, a sleep, or the broadcast at the end of setState.                 *)
(*                                                                         *)
(* A device is <<disk, partition>>; partition 0 is the whole disk.         *)
(***************************************************************************)
EXTENDS Integers, Sequences, FiniteSets

CONSTANTS
    Disks,          \* disks that may be plugged in, numbers above 0
    MaxPartitions,  \* MAX_PARTITIONS
    ExtraNum,       \* EXTRA_UDISK_NUM
    Kinds,          \* kinds of volumes: is_udisk, primaryStorage, how many disks it has,
                    \* the sets of partition numbers of a disk and, as a bound, how many
                    \* calls fail on a disk that is there
    MaxPlugs,       \* bound: disks plugged in
    MaxCmds         \* bound: commands of the framework

Threads == {"cmd", "nl"}
NoDev == <<0, 0>>
Top(s) == s[Len(s)]
Pop(s) == SubSeq(s, 1, Len(s) - 1)

VARIABLES
    kind,                       \* what kind of volume this is
    state, retry, kdev,         \* mState, mRetryMount, mCurrentlyMountedKdev
    mDisk, first,               \* mDiskMajor:mDiskMinor, first_udisk_major:minor
    nparts, minors, mask,       \* mDiskNumParts, mPartMinors, mPendingPartMap
    extra,                      \* extra_udisk_devpath of the valid entries
    ums, saved, dirty,          \* mUmsSharingCount, mSavedDirtyRatio, the ratio
    stg, mnt, asec,             \* mounts on the staging directory, the mount point and asec
    present, chan,              \* the disks and the uevents of each, in order
    th,                         \* the two threads
    raced, astray,                \* history: see Overlap and WrongDisk
    undone,                     \* history: how the last failed unmount left the volume
    plugs, cmds, fails

vol == <<state, retry>>
disks == <<mDisk, first, nparts, minors, mask>>
share == <<ums, saved, dirty>>
mounts == <<stg, mnt, asec>>
kernel == <<present, chan, plugs>>
vars == <<kind, vol, kdev, disks, extra, share, mounts, kernel, th, raced, astray, undone,
          cmds, fails>>

Idle == [pc |-> "idle", then |-> "idle", nodes |-> <<>>, i |-> 0, slot |-> 0]
Absent == {0}       \* the table of a disk that is not there
Devs == {<<d, p>> : d \in Disks, p \in 0 .. MaxPartitions}
There(dev) == dev[1] \in Disks /\ present[dev[1]] # Absent
              /\ dev[2] \in present[dev[1]] \cup {0}
States == {"NoMedia", "Idle", "Pending", "Checking", "Mounted", "Unmounting", "Formatting",
           "Shared"}

(* The type invariant.                                                     *)
TypeOK ==
    /\ state \in States /\ retry \in BOOLEAN /\ kdev \in Devs \cup {NoDev}
    /\ mDisk \in Disks \cup {0} /\ first \in Disks \cup {0}
    /\ nparts \in 0 .. MaxPartitions /\ mask \in 0 .. 2 ^ (MaxPartitions + 1)
    /\ minors \in [1 .. MaxPartitions -> Devs \cup {NoDev}]
    /\ extra \in [1 .. ExtraNum -> Devs \cup {NoDev}]
    /\ dirty \in {"normal", "low"} /\ saved \in BOOLEAN
    /\ asec \in Nat
    /\ \A t \in Threads : th[t].slot \in 0 .. ExtraNum

Init ==
    /\ kind \in Kinds
    /\ state = "NoMedia" /\ retry = FALSE /\ kdev = NoDev
    /\ mDisk = 0 /\ first = 0 /\ nparts = 0 /\ mask = 0
    /\ minors = [p \in 1 .. MaxPartitions |-> NoDev]
    /\ extra = [j \in 1 .. ExtraNum |-> NoDev]
    /\ ums = 0 /\ saved = FALSE /\ dirty = "normal"
    /\ stg = <<>> /\ mnt = <<>> /\ asec = 0
    /\ present = [d \in Disks |-> Absent] /\ chan = [d \in Disks |-> <<>>]
    /\ th = [t \in Threads |-> Idle]
    /\ raced = FALSE /\ astray = FALSE /\ undone = "none"
    /\ plugs = 0 /\ cmds = 0 /\ fails = 0

Ok == UNCHANGED fails
Fail == fails < kind.fails /\ fails' = fails + 1

(* A call on dev fails if the disk is gone, and may fail if it is not.     *)
FailOn(dev) == IF There(dev) THEN Fail ELSE Ok

Go(t, pc) == th' = [th EXCEPT ![t].pc = pc]
Call(t, pc, then) == th' = [th EXCEPT ![t].pc = pc, ![t].then = then]

(* Returns to the caller of the operation.                                 *)
Return(t) == th' = [th EXCEPT ![t] = [Idle EXCEPT !.pc = th[t].then]]

(* One thread changes the state of the volume while the other is between   *)
(* two steps of an operation.                                              *)
Overlap(t) == \E u \in Threads \ {t} : th[u].pc \notin {"idle", "prem"}
Races(t) == raced' = (raced \/ Overlap(t))

-----------------------------------------------------------------------------
(* The kernel.                                                             *)

InOrder(table) == CHOOSE s \in [1 .. Cardinality(table) -> table] :
                      \A i, j \in 1 .. Cardinality(table) : i < j => s[i] < s[j]
Event(type, p, n) == [type |-> type, part |-> p, n |-> n]
Each(type, table) == LET s == InOrder(table)
                     IN [i \in 1 .. Len(s) |-> Event(type, s[i], 0)]

(* A disk announces itself, then its partitions.  It comes back only after *)
(* the events of its removal were read.                                    *)
Plug(d, table) ==
    /\ d <= kind.slots /\ present[d] = Absent /\ chan[d] = <<>>
    /\ plugs < MaxPlugs /\ plugs' = plugs + 1
    /\ present' = [present EXCEPT ![d] = table]
    /\ chan' = [chan EXCEPT ![d] = @ \o <<Event("dadd", 0, Cardinality(table))>>
                                     \o Each("padd", table)]
    /\ UNCHANGED <<kind, vol, kdev, disks, extra, share, mounts, th, raced, astray, undone,
                   cmds, fails>>

(* The partitions of a disk that is pulled out go before the disk.         *)
Unplug(d) ==
    /\ present[d] # Absent
    /\ present' = [present EXCEPT ![d] = Absent]
    /\ chan' = [chan EXCEPT ![d] = @ \o Each("prem", present[d]) \o <<Event("drem", 0, 0)>>]
    /\ UNCHANGED <<kind, vol, kdev, disks, extra, share, mounts, th, raced, astray, undone,
                   plugs, cmds, fails>>

(* A new partition table, with one partition, is read from disk d.         *)
Reread(d) ==
    /\ present' = [present EXCEPT ![d] = {1}]
    /\ chan' = [chan EXCEPT ![d] = @ \o Each("prem", present[d])
                                     \o <<Event("dchg", 0, 1), Event("padd", 1, 0)>>]

-----------------------------------------------------------------------------
(* Volume.cpp.                                                             *)

(* A state set again changes nothing.  A volume that leaves Pending and    *)
(* does not become Idle forgets the mount it was asked for.                *)
SetState(s) ==
    /\ state' = s
    /\ retry' = (retry /\ (state = "Pending" => s \in {"Pending", "Idle"}))

GetDeviceNodes ==
    IF nparts = 0 THEN <<<<mDisk, 0>>>> ELSE [p \in 1 .. nparts |-> minors[p]]

(* The loop of mountVol goes on with the first node that has a minor, and  *)
(* gives up after the last one.                                            *)
Consider(t, nodes, from) ==
    LET left == {k \in from .. Len(nodes) : nodes[k] # NoDev}
    IN  \/ /\ left # {} /\ SetState("Checking")
           /\ th' = [th EXCEPT ![t].pc = "check", ![t].nodes = nodes,
                               ![t].i = CHOOSE k \in left : \A m \in left : k <= m]
        \/ left = {} /\ SetState("Idle") /\ Return(t)

(* The disk that was plugged in last is taken for the first one.           *)
WrongDisk == state = "Idle" /\ mDisk # first

MountVol(t) ==
    /\ th[t].pc = "mount" /\ astray' = (astray \/ (nparts = 0 /\ WrongDisk))
    /\ \/ state = "Idle" /\ mnt = <<>> /\ Consider(t, GetDeviceNodes, 1)
       \/ state = "Idle" /\ mnt # <<>> /\ SetState("Mounted") /\ Return(t)
       \/ state = "Pending" /\ retry' = TRUE /\ UNCHANGED state /\ Return(t)
       \/ state \notin {"Idle", "Pending"} /\ UNCHANGED vol /\ Return(t)
    /\ UNCHANGED <<kind, kdev, disks, extra, share, mounts, kernel, raced, undone, cmds, fails>>

Node(t) == th[t].nodes[th[t].i]

(* A volume that a removal took out of Checking is not mounted.            *)
MountCheck(t) ==
    /\ th[t].pc = "check"
    /\ \/ FailOn(Node(t)) /\ Consider(t, th[t].nodes, th[t].i + 1)
       \/ There(Node(t)) /\ Ok /\ state = "Checking" /\ Go(t, "stage") /\ UNCHANGED vol
       \/ There(Node(t)) /\ Ok /\ state # "Checking" /\ Return(t) /\ UNCHANGED vol
    /\ UNCHANGED <<kind, kdev, disks, extra, share, mounts, kernel, raced, astray, undone, cmds>>

(* The file system is mounted out of sight.                                *)
MountStage(t) ==
    /\ th[t].pc = "stage"
    /\ \/ FailOn(Node(t)) /\ Consider(t, th[t].nodes, th[t].i + 1) /\ UNCHANGED stg
       \/ /\ There(Node(t)) /\ Ok
          /\ stg' = Append(stg, [dev |-> Node(t), tmpfs |-> FALSE])
          /\ Go(t, IF kind.primary THEN "bind" ELSE "move") /\ UNCHANGED vol
    /\ UNCHANGED <<kind, kdev, disks, extra, share, mnt, asec, kernel, raced, astray, undone,
                   cmds>>

(* On failure the staging directory is unmounted, but a bind mount that is *)
(* already there stays: the path given to umount is not the one mounted.   *)
CreateBindMounts(t) ==
    /\ th[t].pc = "bind"
    /\ \/ /\ Ok /\ asec' = asec + 1
          /\ stg' = [stg EXCEPT ![Len(stg)].tmpfs = TRUE]
          /\ Go(t, "move") /\ UNCHANGED <<vol, astray>>
       \/ /\ Fail /\ stg' = Pop(stg) /\ UNCHANGED <<asec, astray>>
          /\ Consider(t, th[t].nodes, th[t].i + 1)
       \/ /\ Fail /\ stg' = Pop(stg) /\ asec' = asec + 1 /\ astray' = TRUE
          /\ Consider(t, th[t].nodes, th[t].i + 1)
    /\ UNCHANGED <<kind, kdev, disks, extra, share, mnt, kernel, raced, undone, cmds>>

(* On failure the staging directory is unmounted, unless the tmpfs inside  *)
(* keeps it busy.                                                          *)
MountMove(t) ==
    /\ th[t].pc = "move"
    /\ \/ /\ Ok /\ mnt' = Append(mnt, Top(stg)) /\ stg' = Pop(stg)
          /\ SetState("Mounted") /\ Go(t, "kdev") /\ UNCHANGED astray
       \/ /\ Fail /\ UNCHANGED mnt
          /\ stg' = IF Top(stg).tmpfs THEN stg ELSE Pop(stg)
          /\ astray' = (astray \/ Top(stg).tmpfs)
          /\ Consider(t, th[t].nodes, th[t].i + 1)
    /\ UNCHANGED <<kind, kdev, disks, extra, share, asec, kernel, raced, undone, cmds>>

MountKdev(t) ==
    /\ th[t].pc = "kdev" /\ kdev' = Node(t)
    /\ IF th[t].i < Len(th[t].nodes)
       THEN th' = [th EXCEPT ![t].pc = "epick", ![t].i = @ + 1]
       ELSE Return(t)
    /\ UNCHANGED <<kind, vol, disks, extra, share, mounts, kernel, raced, astray, undone, cmds,
                   fails>>

(* mountExtraPartition takes the first free entry, and one past the table  *)
(* if there is none.  The semaphore does not exclude: sem_open is not told *)
(* to create it.                                                           *)
ExtraPick(t) ==
    LET free == {j \in 1 .. ExtraNum : extra[j] = NoDev} IN
    /\ th[t].pc = "epick"
    /\ th' = [th EXCEPT ![t].pc = "emount",
                        ![t].slot = IF free = {} THEN ExtraNum + 1
                                    ELSE CHOOSE j \in free : \A k \in free : j <= k]
    /\ raced' = (raced \/ \E u \in Threads \ {t} : th[u].pc \in {"epick", "emount"})
    /\ UNCHANGED <<kind, vol, kdev, disks, extra, share, mounts, kernel, astray, undone, cmds,
                   fails>>

ExtraMount(t) ==
    /\ th[t].pc = "emount"
    /\ \/ FailOn(Node(t)) /\ UNCHANGED extra
       \/ There(Node(t)) /\ Ok /\ extra' = [extra EXCEPT ![th[t].slot] = Node(t)]
    /\ IF th[t].i < Len(th[t].nodes)
       THEN th' = [th EXCEPT ![t].pc = "epick", ![t].i = @ + 1, ![t].slot = 0]
       ELSE Return(t)
    /\ UNCHANGED <<kind, vol, kdev, disks, share, mounts, kernel, raced, astray, undone, cmds>>

-----------------------------------------------------------------------------
(* Volume::unmountVol.  An unmount of a path where nothing is mounted      *)
(* succeeds.                                                               *)
UnmountVol(t) ==
    /\ th[t].pc = "unmount" /\ Races(t)
    /\ \/ state = "Mounted" /\ SetState("Unmounting") /\ Go(t, "um_asec")
       \/ state # "Mounted" /\ UNCHANGED vol /\ Return(t)
    /\ UNCHANGED <<kind, kdev, disks, extra, share, mounts, kernel, astray, undone, cmds, fails>>

(* Mutants: the bind mount is taken off where there is none; it is not     *)
(* taken off.                                                              *)
UnmountAsecBlind(t) ==
    /\ th[t].pc = "um_asec" /\ Ok /\ asec' = asec - 1 /\ Go(t, "um_tmpfs")
    /\ UNCHANGED <<kind, vol, kdev, disks, extra, share, stg, mnt, kernel, raced, astray, undone,
                   cmds>>
UnmountAsecSkipped(t) ==
    /\ th[t].pc = "um_asec" /\ Ok /\ Go(t, "um_tmpfs")
    /\ UNCHANGED <<kind, vol, kdev, disks, extra, share, mounts, kernel, raced, astray, undone,
                   cmds>>

UnmountAsec(t) ==
    /\ th[t].pc = "um_asec"
    /\ \/ Ok /\ asec' = (IF asec = 0 THEN 0 ELSE asec - 1) /\ Go(t, "um_tmpfs")
       \/ asec > 0 /\ Fail /\ UNCHANGED asec /\ Go(t, "undo_tmpfs")
    /\ UNCHANGED <<kind, vol, kdev, disks, extra, share, stg, mnt, kernel, raced, astray, undone,
                   cmds>>

UnmountTmpfs(t) ==
    LET over == mnt # <<>> /\ Top(mnt).tmpfs IN
    /\ th[t].pc = "um_tmpfs"
    /\ \/ /\ Ok /\ Go(t, "um_fs")
          /\ mnt' = IF over THEN [mnt EXCEPT ![Len(mnt)].tmpfs = FALSE] ELSE mnt
       \/ over /\ Fail /\ UNCHANGED mnt /\ Go(t, "undo_move")
    /\ UNCHANGED <<kind, vol, kdev, disks, extra, share, stg, asec, kernel, raced, astray, undone,
                   cmds>>

UnmountFs(t) ==
    /\ th[t].pc = "um_fs"
    /\ \/ /\ Ok /\ mnt' = (IF mnt = <<>> THEN mnt ELSE Pop(mnt))
          /\ SetState("Idle") /\ Go(t, "um_kdev")
       \/ mnt # <<>> /\ Fail /\ Go(t, "undo_bind") /\ UNCHANGED <<vol, mnt>>
    /\ UNCHANGED <<kind, kdev, disks, extra, share, stg, asec, kernel, raced, astray, undone,
                   cmds>>

UnmountKdev(t) ==
    /\ th[t].pc = "um_kdev" /\ kdev' = NoDev /\ Return(t)
    /\ UNCHANGED <<kind, vol, disks, extra, share, mounts, kernel, raced, astray, undone, cmds,
                   fails>>

(* The failure handling of unmountVol: fail_recreate_bindmount,            *)
(* fail_remount_tmpfs and fail_republish.  Each names a path under the     *)
(* staging directory, so it fails if nothing is mounted there.             *)
UndoStep(pc) ==
    CASE pc = "undo_bind"  -> asec' = asec + 1 /\ UNCHANGED <<stg, mnt>>
      [] pc = "undo_tmpfs" -> /\ stg' = [stg EXCEPT ![Len(stg)].tmpfs = TRUE]
                              /\ UNCHANGED <<mnt, asec>>
      [] pc = "undo_move"  -> /\ mnt' = Append(mnt, Top(stg)) /\ stg' = Pop(stg)
                              /\ UNCHANGED asec
AfterUndo == [undo_bind |-> "undo_tmpfs", undo_tmpfs |-> "undo_move"]

Undo(t) ==
    /\ th[t].pc \in {"undo_bind", "undo_tmpfs", "undo_move"} /\ astray' = TRUE
    /\ \/ /\ stg # <<>> /\ Ok /\ UndoStep(th[t].pc)
          /\ IF th[t].pc = "undo_move"
             THEN SetState("Mounted") /\ undone' = "restored" /\ Return(t)
             ELSE Go(t, AfterUndo[th[t].pc]) /\ UNCHANGED <<vol, undone>>
       \/ /\ IF stg = <<>> THEN Ok /\ undone' = "offline" ELSE Fail /\ undone' = "failed"
          /\ SetState("NoMedia") /\ Return(t) /\ UNCHANGED mounts
    /\ UNCHANGED <<kind, kdev, disks, extra, share, kernel, raced, cmds>>

-----------------------------------------------------------------------------
(* shareVolume and unshareVolume of VolumeManager.cpp.                     *)
ShareVolume ==
    /\ th["cmd"].pc = "share"
    /\ IF state = "Idle" THEN Go("cmd", "lun_on") ELSE Return("cmd")
    /\ UNCHANGED <<kind, vol, kdev, disks, extra, share, mounts, kernel, raced, astray, undone,
                   cmds, fails>>

(* The first share lowers the dirty ratio, if it can be read.              *)
ShareLun ==
    /\ th["cmd"].pc = "lun_on" /\ Return("cmd")
    /\ \/ Fail /\ UNCHANGED <<vol, share>>
       \/ /\ SetState("Shared") /\ ums' = ums + 1
          /\ \/ ums = 0 /\ Ok /\ saved' = TRUE /\ dirty' = "low"
             \/ ums = 0 /\ Fail /\ saved' = FALSE /\ UNCHANGED dirty
             \/ ums # 0 /\ Ok /\ UNCHANGED <<saved, dirty>>
    /\ UNCHANGED <<kind, kdev, disks, extra, mounts, kernel, raced, astray, undone, cmds>>

UnshareVolume(t) ==
    /\ th[t].pc = "unshare"
    /\ IF state = "Shared" THEN Go(t, "lun_off") ELSE Return(t)
    /\ UNCHANGED <<kind, vol, kdev, disks, extra, share, mounts, kernel, raced, astray, undone,
                   cmds, fails>>

(* The last unshare puts the saved dirty ratio back.                       *)
UnshareLun(t) ==
    /\ th[t].pc = "lun_off" /\ Return(t) /\ Races(t)
    /\ \/ Fail /\ astray' = (astray \/ t = "nl") /\ UNCHANGED <<vol, share>>
       \/ /\ Ok /\ SetState("Idle") /\ ums' = ums - 1 /\ UNCHANGED astray
          /\ IF ums = 1 /\ saved THEN saved' = FALSE /\ dirty' = "normal"
                                 ELSE UNCHANGED <<saved, dirty>>
    /\ UNCHANGED <<kind, kdev, disks, extra, mounts, kernel, undone, cmds>>

-----------------------------------------------------------------------------
(* Volume::formatVol, for a volume that is the whole disk.                 *)
FormatVol ==
    /\ th["cmd"].pc = "format" /\ astray' = (astray \/ WrongDisk)
    /\ \/ /\ state = "Idle" /\ mnt = <<>> /\ SetState("Formatting")
          /\ th' = [th EXCEPT !["cmd"].pc = "mbr", !["cmd"].nodes = <<<<mDisk, 0>>>>,
                              !["cmd"].i = 1]
       \/ state = "Idle" /\ mnt # <<>> /\ SetState("Mounted") /\ Return("cmd")
       \/ state # "Idle" /\ UNCHANGED vol /\ Return("cmd")
    /\ UNCHANGED <<kind, kdev, disks, extra, share, mounts, kernel, raced, undone, cmds, fails>>

(* The new partition table makes the kernel read the disk again, which it  *)
(* refuses while a partition of it is mounted.                             *)
FormatMbr ==
    LET disk == Node("cmd")[1]
        busy == \E j \in 1 .. ExtraNum : extra[j][1] = disk
    IN  /\ th["cmd"].pc = "mbr"
        /\ \/ /\ There(Node("cmd")) /\ ~busy /\ Ok /\ Reread(disk) /\ Go("cmd", "mkfs")
              /\ UNCHANGED vol
           \/ /\ IF There(Node("cmd")) /\ ~busy THEN Fail ELSE Ok
              /\ SetState("Idle") /\ Return("cmd") /\ UNCHANGED <<present, chan>>
        /\ UNCHANGED <<kind, kdev, disks, extra, share, mounts, plugs, raced, astray, undone,
                       cmds>>

(* The state is the same whether mkfs succeeds or not.                     *)
FormatFat ==
    /\ th["cmd"].pc = "mkfs" /\ SetState("Idle") /\ Return("cmd")
    /\ UNCHANGED <<kind, kdev, disks, extra, share, mounts, kernel, raced, astray, undone, cmds,
                   fails>>

-----------------------------------------------------------------------------
(* The commands of the framework.                                          *)
RunCommand(op) ==
    /\ th["cmd"].pc = "idle" /\ cmds < MaxCmds /\ cmds' = cmds + 1
    /\ th' = [th EXCEPT !["cmd"] = [Idle EXCEPT !.pc = op]]
    /\ Races("cmd")
    /\ UNCHANGED <<kind, vol, kdev, disks, extra, share, mounts, kernel, astray, undone, fails>>

-----------------------------------------------------------------------------
(* DirectVolume.cpp: the handlers of the netlink thread.                   *)

Take(d, type) ==
    /\ th["nl"].pc = "idle" /\ chan[d] # <<>> /\ Head(chan[d]).type = type
    /\ chan' = [chan EXCEPT ![d] = Tail(@)]

(* Mutant: the mask has one bit too many.                                  *)
MaskWide(n) == 2 ^ (n + 2) - 2

Mask(n) == 2 ^ (n + 1) - 2

(* Any disk becomes the disk of the volume; only the first one changes its *)
(* state.                                                                  *)
HandleDiskAdded(d) ==
    LET n == Head(chan[d]).n IN
    /\ Take(d, "dadd") /\ mDisk' = d
    /\ IF first = 0
       THEN /\ first' = d /\ nparts' = n /\ mask' = Mask(n) /\ Races("nl")
            /\ SetState(IF n = 0 THEN "Idle" ELSE "Pending")
       ELSE UNCHANGED <<vol, first, nparts, mask, raced>>
    /\ UNCHANGED <<kind, kdev, minors, extra, share, mounts, present, plugs, th, astray, undone,
                   cmds, fails>>

(* A partition, of any disk, is counted off mPendingPartMap; the last one  *)
(* makes the volume Idle.  A partition that arrives when the volume is     *)
(* already in use is mounted elsewhere.                                    *)
HandlePartitionAdded(d) ==
    LET p == Head(chan[d]).part
        left == IF mask > 1 THEN mask \div 2 ELSE mask
    IN  /\ Take(d, "padd")
        /\ \/ /\ mnt # <<>> \/ (kind.udisk /\ state # "Pending")
              /\ th' = [th EXCEPT !["nl"] = [Idle EXCEPT !.pc = "epick", !.nodes = <<<<d, p>>>>,
                                                         !.i = 1]]
              /\ UNCHANGED <<vol, nparts, minors, mask, raced, astray>>
           \/ /\ mnt = <<>> /\ (kind.udisk => state = "Pending")
              /\ nparts' = IF p > nparts THEN p ELSE nparts
              /\ minors' = IF p < MaxPartitions THEN [minors EXCEPT ![p] = <<d, p>>] ELSE minors
              /\ mask' = left
              /\ IF left = 1 /\ state # "Formatting"
                 THEN SetState("Idle") /\ Go("nl", "retry")
                 ELSE UNCHANGED <<vol, th>>
              /\ Races("nl") /\ astray' = (astray \/ d # first)
        /\ UNCHANGED <<kind, kdev, mDisk, first, extra, share, mounts, present, plugs, undone,
                       cmds, fails>>

(* Mutant: the request is forgotten.                                       *)
RetryMountForgets ==
    /\ th["nl"].pc = "retry" /\ retry' = FALSE /\ Go("nl", "idle")
    /\ UNCHANGED <<kind, state, kdev, disks, extra, share, mounts, kernel, raced, astray, undone,
                   cmds, fails>>

(* The mount that was asked for while the volume was Pending.              *)
RetryMount ==
    /\ th["nl"].pc = "retry" /\ retry' = FALSE
    /\ th' = [th EXCEPT !["nl"] = [Idle EXCEPT !.pc = IF retry THEN "mount" ELSE "idle"]]
    /\ UNCHANGED <<kind, state, kdev, disks, extra, share, mounts, kernel, raced, astray, undone,
                   cmds, fails>>

(* The events of a format may be read when the next command already uses   *)
(* the volume.                                                             *)
HandleDiskChanged(d) ==
    LET n == Head(chan[d]).n IN
    /\ Take(d, "dchg")
    /\ raced' = (raced \/ Overlap("nl") \/ state \in {"Mounted", "Shared", "Checking"})
    /\ astray' = (astray \/ (d = first /\ d # mDisk))
    /\ \/ /\ d = mDisk /\ nparts' = n /\ mask' = Mask(n)
          /\ IF state = "Formatting" THEN UNCHANGED vol
             ELSE SetState(IF n = 0 THEN "Idle" ELSE "Pending")
       \/ d # mDisk /\ UNCHANGED <<vol, nparts, mask>>
    /\ UNCHANGED <<kind, kdev, mDisk, first, minors, extra, share, mounts, present, plugs, th,
                   undone, cmds, fails>>

(* Mutant: the entry stays valid.                                          *)
PartitionRemovedKeeps(d) ==
    /\ Take(d, "prem") /\ Ok
    /\ IF \E j \in 1 .. ExtraNum : extra[j] = <<d, Head(chan[d]).part>>
       THEN UNCHANGED th
       ELSE th' = [th EXCEPT !["nl"] = [Idle EXCEPT !.pc = "prem", !.i = 1,
                                               !.nodes = <<<<d, Head(chan[d]).part>>>>]]
    /\ UNCHANGED <<kind, vol, kdev, disks, extra, share, mounts, present, plugs, raced, astray,
                   undone, cmds>>

(* A partition mounted elsewhere is unmounted.                             *)
HandlePartitionRemoved(d) ==
    LET dev == <<d, Head(chan[d]).part>>
        slots == {j \in 1 .. ExtraNum : extra[j] = dev}
        slot == CHOOSE j \in slots : \A k \in slots : j <= k
    IN  /\ Take(d, "prem")
        /\ \/ /\ slots # {} /\ Ok /\ extra' = [extra EXCEPT ![slot] = NoDev]
              /\ UNCHANGED <<th, astray>>
           \/ slots # {} /\ Fail /\ astray' = TRUE /\ UNCHANGED <<th, extra>>
           \/ /\ slots = {} /\ Ok /\ UNCHANGED <<extra, astray>>
              /\ th' = [th EXCEPT !["nl"] = [Idle EXCEPT !.pc = "prem", !.nodes = <<dev>>,
                                                         !.i = 1]]
        /\ UNCHANGED <<kind, vol, kdev, disks, share, mounts, present, plugs, raced, undone,
                       cmds>>

(* Mutant: the removal does not wait for the check.                        *)
PartitionGoneAtOnce ==
    /\ th["nl"].pc = "prem" /\ raced' = (raced \/ (state # "Checking" /\ Overlap("nl")))
    /\ \/ state \in {"Mounted", "Shared"} /\ Node("nl") = kdev /\ Call("nl", "unmount", "idle")
       \/ state = "Shared" /\ Node("nl") # kdev /\ Call("nl", "unshare", "idle")
       \/ /\ state # "Shared" /\ (state = "Mounted" => Node("nl") # kdev)
          /\ Return("nl")
    /\ UNCHANGED <<kind, vol, kdev, disks, extra, share, mounts, kernel, astray, undone, cmds,
                   fails>>

(* The removal waits until the volume is no longer Checking, and takes the *)
(* volume down if the partition was in use.                                *)
PartitionGone ==
    /\ th["nl"].pc = "prem" /\ state # "Checking" /\ Races("nl")
    /\ \/ state \in {"Mounted", "Shared"} /\ Node("nl") = kdev /\ Call("nl", "unmount", "idle")
       \/ state = "Shared" /\ Node("nl") # kdev /\ Call("nl", "unshare", "idle")
       \/ /\ state # "Shared" /\ (state = "Mounted" => Node("nl") # kdev)
          /\ Return("nl")
    /\ UNCHANGED <<kind, vol, kdev, disks, extra, share, mounts, kernel, astray, undone, cmds,
                   fails>>

UnmountDisk == IF nparts = 0 THEN Call("nl", "unmount", "gone") ELSE Go("nl", "gone")

(* Mutant: a shared volume is not unshared.                                *)
DiskRemovedShared(d) ==
    /\ Take(d, "drem")
    /\ \/ first \notin {0, d} /\ UNCHANGED <<first, th, raced>>
       \/ first \in {0, d} /\ first' = 0 /\ Races("nl") /\ UnmountDisk
    /\ UNCHANGED <<kind, vol, kdev, mDisk, nparts, minors, mask, extra, share, mounts, present,
                   plugs, astray, undone, cmds, fails>>

(* The removal of a disk other than the first one is ignored.              *)
HandleDiskRemoved(d) ==
    /\ Take(d, "drem")
    /\ \/ first \notin {0, d} /\ UNCHANGED <<first, th, raced>>
       \/ /\ first \in {0, d} /\ first' = 0 /\ Races("nl")
          /\ IF state = "Shared" THEN Call("nl", "unshare", "drem") ELSE UnmountDisk
    /\ UNCHANGED <<kind, vol, kdev, mDisk, nparts, minors, mask, extra, share, mounts, present,
                   plugs, astray, undone, cmds, fails>>

DiskUnmount ==
    /\ th["nl"].pc = "drem" /\ UnmountDisk
    /\ UNCHANGED <<kind, vol, kdev, disks, extra, share, mounts, kernel, raced, astray, undone,
                   cmds, fails>>

DiskGone ==
    /\ th["nl"].pc = "gone" /\ SetState("NoMedia") /\ Races("nl")
    /\ th' = [th EXCEPT !["nl"] = Idle]
    /\ UNCHANGED <<kind, kdev, disks, extra, share, mounts, kernel, astray, undone, cmds, fails>>

-----------------------------------------------------------------------------
Step(t) ==
    \/ MountVol(t) \/ MountCheck(t) \/ MountStage(t) \/ CreateBindMounts(t) \/ MountMove(t)
    \/ MountKdev(t) \/ ExtraPick(t) \/ ExtraMount(t)
    \/ UnmountVol(t) \/ UnmountAsec(t) \/ UnmountTmpfs(t) \/ UnmountFs(t) \/ UnmountKdev(t)
    \/ Undo(t) \/ UnshareVolume(t) \/ UnshareLun(t)

CmdStep == Step("cmd") \/ ShareVolume \/ ShareLun \/ FormatVol \/ FormatMbr \/ FormatFat

NlStep ==
    \/ Step("nl") \/ RetryMount \/ PartitionGone \/ DiskUnmount \/ DiskGone
    \/ \E d \in Disks : \/ HandleDiskAdded(d) \/ HandlePartitionAdded(d) \/ HandleDiskChanged(d)
                        \/ HandlePartitionRemoved(d) \/ HandleDiskRemoved(d)

Next ==
    \/ \E d \in Disks : Unplug(d) \/ \E table \in kind.tables : Plug(d, table)
    \/ \E op \in {"mount", "unmount", "share", "unshare", "format"} : RunCommand(op)
    \/ CmdStep \/ NlStep

(* A bound for checking: a behaviour is followed until the threads race    *)
(* and, with two disks, until the volume goes astray.                      *)
Followed == ~raced /\ (astray => kind.slots = 1)

Spec == Init /\ [][Next]_vars

(* A command that was begun is finished, and uevents that are there are    *)
(* read: neither thread waits for the other, but for the sleep of          *)
(* PartitionGone.                                                          *)
FairSpec == Spec /\ WF_vars(CmdStep) /\ WF_vars(NlStep)

-----------------------------------------------------------------------------
AtRest == \A t \in Threads : th[t].pc = "idle"
Caught == AtRest /\ \A d \in Disks : chan[d] = <<>>
Calm == Caught /\ ~raced /\ ~astray

(* The state of the volume tells the truth about the mounts once all       *)
(* uevents are handled: it is Mounted exactly if the file system of a disk *)
(* that is there is on the mount point, and NoMedia exactly if the first   *)
(* disk is gone.  This holds across removals during a check, the case      *)
(* getState is called again for, and across every failing check and mount. *)
(* It is not claimed if the netlink thread acted in the middle of another  *)
(* command (raced) or a mount was left behind (astray).                      *)
MediaTruthful ==
    Calm => /\ (state = "Mounted") = (mnt # <<>>)
            /\ (state = "NoMedia") = (first = 0)
            /\ state = "Mounted" => There(kdev) /\ Top(mnt).dev = kdev
            /\ stg = <<>>
            /\ state \in {"NoMedia", "Idle", "Pending", "Mounted", "Shared"}

(* The bind mount of .android_secure and the tmpfs that hides it come and  *)
(* go with the file system.                                                *)
SecureTogether ==
    Calm => asec = (IF kind.primary /\ state = "Mounted" THEN 1 ELSE 0)
            /\ (mnt # <<>> => Top(mnt).tmpfs = kind.primary)

(* Each partition mounted beside the volume has one entry in the table,    *)
(* never more than the table holds, and it is not the one of the volume.   *)
ExtrasExact ==
    Calm => \A j \in 1 .. ExtraNum : extra[j] # NoDev =>
                /\ There(extra[j]) /\ (state = "Mounted" => extra[j] # kdev)
                /\ \A k \in 1 .. ExtraNum : extra[k] = extra[j] => k = j

(* mUmsSharingCount counts the volumes that are shared, and the dirty      *)
(* ratio is lowered only while one is.                                     *)
SharingExact ==
    Calm => /\ ums = (IF state = "Shared" THEN 1 ELSE 0)
            /\ dirty = "low" => ums = 1

(* A volume does not stay Pending: the partitions announced by NPARTS all  *)
(* arrive, or the disk goes.                                               *)
Pending == state = "Pending"
PendingOver == ~Pending \/ raced \/ astray
PendingEnds == Pending ~> PendingOver

(* A mount asked for while the volume was Pending is tried once it is      *)
(* Idle, unless the disk goes or another command comes first.              *)
RetryWanted == retry
RetryDone == state \notin {"Pending", "Idle"} \/ raced \/ astray
RetryHonoured == RetryWanted ~> RetryDone

(* "Failure handling - try to restore everything back the way it was": an  *)
(* unmount that fails leaves the volume mounted, unless a mount that is to *)
(* restore it fails too.                                                   *)
UndoRestores == undone # "offline"

\* Between events the state that vold announces is the state of the disks, the
\* mounts, the secure containers' directory, the extra partitions and the shared
\* luns, however commands and kernel events interleaved.
VolumeTruthful == MediaTruthful /\ SecureTogether /\ ExtrasExact /\ SharingExact
=============================================================================
