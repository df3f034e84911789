--------------------------- MODULE VoldContainers ---------------------------
(***************************************************************************)
(* The ASEC and OBB containers of vold: image files on the volume, the     *)
(* loop devices and device mapper devices made for them (named by the hash *)
(* of the container's id), their mounts, and mActiveContainers.  Commands  *)
(* run one at a time in the command thread; the netlink thread unmounts    *)
(* all containers of a volume whose partition has gone.  A step ends where *)
(* the code makes a system call that the other thread can get ahead of.    *)
(***************************************************************************)
EXTENDS Integers, Sequences, FiniteSets, SequencesExt

CONSTANTS
    Asecs,       \* container ids
    Obbs,        \* image files mounted as OBBs
    Loops,       \* loop devices, a set of numbers above 0
    MaxImages,   \* image files ever created
    MaxRaces,    \* operations begun while the other thread is at work
    MaxFails,    \* system calls that fail
    MaxRestarts  \* times vold dies and is started again

VARIABLES
    img,     \* img[c]: the file, a number, or 0
    file,    \* file[n]: [fs, crypt], what the file holds
    loop,    \* loop[l]: [hash, file], or Free
    dm,      \* dm[c]: the loop device below, Half, or 0
    mnt,     \* mnt[c]: [dev, ro], the device "loop" or "dm" is on; or NotMounted
    active,  \* mActiveContainers
    at,      \* at[t]: what a thread does: [op, c, step, key, lo, rest]
    raced,   \* history: operations begun while the other thread was at work
    fails, restarts

kernel == <<img, file, loop, dm, mnt>>
vars == <<kernel, active, at, raced, fails, restarts>>

Ids == Asecs \cup Obbs
Threads == {"cmd", "nl"}
Free == [hash |-> "none", file |-> 0]
NotMounted == [on |-> "none", lo |-> 0, ro |-> FALSE]
Half == 0 - 1    \* a device mapper device without a table
Idle == [op |-> "idle", c |-> "none", step |-> "", key |-> FALSE, lo |-> 0, rest |-> <<>>]
ImageFiles == 1 .. MaxImages + Cardinality(Obbs)

TypeOK ==
    /\ img \in [Ids -> {0} \cup ImageFiles] /\ DOMAIN file \subseteq ImageFiles
    /\ \A l \in Loops : loop[l] = Free \/ loop[l].hash \in Ids \cup {"none"}
    /\ dm \in [Ids -> {0, Half} \cup Loops] /\ DOMAIN mnt = Ids
    /\ active \in Seq(Ids) /\ DOMAIN at = Threads /\ raced \in 0 .. MaxRaces
    /\ fails \in 0 .. MaxFails /\ restarts \in 0 .. MaxRestarts

(* The OBBs are on the volume, unencrypted; there is no ASEC.              *)
Init ==
    /\ \E f \in [Ids -> {0} \cup ImageFiles] :
           /\ img = f /\ \A c \in Asecs : f[c] = 0
           /\ \A c \in Obbs : f[c] > MaxImages /\ \A d \in Obbs : f[c] = f[d] => c = d
    /\ file = [n \in MaxImages + 1 .. MaxImages + Cardinality(Obbs) |-> [fs |-> TRUE, crypt |-> FALSE]]
    /\ loop = [l \in Loops |-> Free] /\ dm = [c \in Ids |-> 0]
    /\ mnt = [c \in Ids |-> NotMounted] /\ active = <<>>
    /\ at = [t \in Threads |-> Idle] /\ raced = 0 /\ fails = 0 /\ restarts = 0

Fail == fails < MaxFails /\ fails' = fails + 1
Ok == UNCHANGED fails
Go(t, step) == at' = [at EXCEPT ![t].step = step]
GoLoop(t, step, l) == at' = [at EXCEPT ![t].step = step, ![t].lo = l]
Keep == UNCHANGED <<active, raced, restarts>>
Start(t) ==
    /\ raced' = IF \E u \in Threads \ {t} : at[u] # Idle THEN raced + 1 ELSE raced
    /\ raced' <= MaxRaces /\ UNCHANGED <<active, restarts>>

(* The end of an operation: the next container of a cleanup, the unlink of *)
(* destroyAsec, or nothing more.                                           *)
Return(t) ==
    at' = [at EXCEPT ![t] = IF @.rest = <<>> THEN Idle
                            ELSE [@ EXCEPT !.c = Head(at[t].rest), !.rest = Tail(at[t].rest), !.step = "check"]]
-----------------------------------------------------------------------------
Mounted(c) == mnt[c].on # "none"
Bound(c) == {l \in Loops : loop[l].hash = c}
InUse(l) == \E c \in Ids : dm[c] = l \/ (mnt[c].on = "loop" /\ mnt[c].lo = l)

(* Loop::create: the first free device.  When LOOP_SET_STATUS64 fails the  *)
(* device stays bound, without a name.                                     *)
LoopCreate(c, n, l) ==
    /\ loop[l] = Free /\ \A k \in Loops : loop[k] = Free => l <= k
    /\ loop' = [loop EXCEPT ![l] = [hash |-> c, file |-> n]]
LoopFails(n) ==
    IF \A l \in Loops : loop[l] # Free THEN Ok /\ UNCHANGED loop
    ELSE Fail /\ (UNCHANGED loop \/ \E l \in Loops : LoopCreate("none", n, l))

(* Loop::destroyByDevice: LOOP_CLR_FD fails on a device that is in use.    *)
LoopDestroy(l) == loop' = [loop EXCEPT ![l] = IF InUse(l) THEN @ ELSE Free]

(* Devmapper::create that fails, perhaps after the device was made.        *)
DmFails(c) == \E d \in {0, Half} : dm' = [dm EXCEPT ![c] = d]

(* Loop::destroyByDevice after Devmapper::destroy: both fail if in use.    *)
DmDestroyed(c) == [dm EXCEPT ![c] = IF mnt[c].on = "dm" THEN @ ELSE 0]
DestroyBoth(c, l) ==
    /\ dm' = DmDestroyed(c)
    /\ loop' = [loop EXCEPT ![l] =
           IF \E d \in Ids : DmDestroyed(c)[d] = l \/ (mnt[d].on = "loop" /\ mnt[d].lo = l)
           THEN @ ELSE Free]

(* The mount of an image through a device works if the device leads to a   *)
(* file system, with the mapping if it is encrypted.                       *)
Readable(c, l, key) ==
    /\ loop[l] # Free /\ loop[l].file \in DOMAIN file /\ file[loop[l].file].fs
    /\ file[loop[l].file].crypt = key /\ (key => dm[c] = l)
-----------------------------------------------------------------------------
(* A loop device that has the hash is used again, or one is made.          *)
MountLoop(t) ==
    LET c == at[t].c IN
    \/ \E l \in Bound(c) : GoLoop(t, "dm", l) /\ Ok /\ UNCHANGED kernel
    \/ /\ Bound(c) = {} /\ Ok /\ UNCHANGED <<img, file, dm, mnt>>
       /\ \E l \in Loops : LoopCreate(c, img[c], l) /\ GoLoop(t, "dm", l)
    \/ /\ Bound(c) = {} /\ LoopFails(img[c]) /\ Return(t) /\ UNCHANGED <<img, file, dm, mnt>>

(* mountAsec: refused when there is no image or it is mounted.             *)
MountAsec(t) ==
    LET c == at[t].c IN
    /\ at[t].step = "check" /\ at[t].op = "mount" /\ c \in Asecs /\ Keep
    /\ IF img[c] = 0 \/ Mounted(c) THEN Return(t) /\ Ok /\ UNCHANGED kernel ELSE MountLoop(t)

(* mountObb: the caller names the file itself; there is no superblock.     *)
MountObb(t) ==
    LET c == at[t].c IN
    /\ at[t].step = "check" /\ at[t].op = "mount" /\ c \in Obbs /\ Keep
    /\ IF Mounted(c) THEN Return(t) /\ Ok /\ UNCHANGED kernel ELSE MountLoop(t)

(* Devmapper::create or lookupActive when there is a key.                  *)
MountDm(t) ==
    LET c == at[t].c l == at[t].lo IN
    /\ at[t].step = "dm" /\ at[t].op = "mount"
    /\ IF ~at[t].key \/ dm[c] # 0 THEN Go(t, "mount") /\ Ok /\ UNCHANGED kernel
       ELSE \/ Go(t, "mount") /\ Ok /\ dm' = [dm EXCEPT ![c] = l] /\ UNCHANGED <<img, file, loop, mnt>>
            \/ Fail /\ DmFails(c) /\ LoopDestroy(l) /\ Return(t) /\ UNCHANGED <<img, file, mnt>>
    /\ Keep

(* Mutant: the device mapper device is forgotten. *)
MountFsKeepsDm(t) ==
    LET c == at[t].c l == at[t].lo IN
    /\ at[t].step = "mount" /\ at[t].op = "mount"
    /\ \/ /\ Readable(c, l, at[t].key) /\ Ok /\ Go(t, "record")
          /\ mnt' = [mnt EXCEPT ![c] = [on |-> IF at[t].key THEN "dm" ELSE "loop", lo |-> l, ro |-> TRUE]]
          /\ UNCHANGED <<img, file, loop, dm>>
       \/ /\ IF Readable(c, l, at[t].key) THEN Fail ELSE Ok
          /\ LoopDestroy(l) /\ Return(t) /\ UNCHANGED <<img, file, dm, mnt>>
    /\ Keep

(* mkdir and mount, read-only; both devices are given up if that fails.    *)
MountFs(t) ==
    LET c == at[t].c l == at[t].lo IN
    /\ at[t].step = "mount" /\ at[t].op = "mount"
    /\ \/ /\ Readable(c, l, at[t].key) /\ Ok /\ Go(t, "record")
          /\ mnt' = [mnt EXCEPT ![c] = [on |-> IF at[t].key THEN "dm" ELSE "loop", lo |-> l, ro |-> TRUE]]
          /\ UNCHANGED <<img, file, loop, dm>>
       \/ /\ IF Readable(c, l, at[t].key) THEN Fail ELSE Ok
          /\ IF at[t].key THEN DestroyBoth(c, l) ELSE LoopDestroy(l) /\ UNCHANGED dm
          /\ Return(t) /\ UNCHANGED <<img, file, mnt>>
    /\ Keep

Record(t) ==
    /\ at[t].step = "record" /\ active' = Append(active, at[t].c) /\ Return(t)
    /\ Ok /\ UNCHANGED <<kernel, raced, restarts>>
-----------------------------------------------------------------------------
(* createAsec: the id must be new; image file and loop device.             *)
CreateCheck(t) ==
    LET c == at[t].c IN
    /\ at[t].step = "check" /\ at[t].op = "create"
    /\ IF img[c] # 0 THEN Return(t) /\ Ok /\ UNCHANGED kernel
       ELSE \/ \E l \in Loops, n \in 1 .. MaxImages :
                   /\ n \notin DOMAIN file /\ \A m \in 1 .. n - 1 : m \in DOMAIN file
                   /\ LoopCreate(c, n, l) /\ GoLoop(t, "dm", l) /\ Ok
                   /\ img' = [img EXCEPT ![c] = n]
                   /\ file' = [m \in DOMAIN file \cup {n} |->
                          IF m = n THEN [fs |-> FALSE, crypt |-> at[t].key] ELSE file[m]]
                   /\ UNCHANGED <<dm, mnt>>
            \/ LoopFails(MaxImages) /\ Return(t) /\ UNCHANGED <<img, file, dm, mnt>>
    /\ Keep

CreateDm(t) ==
    LET c == at[t].c l == at[t].lo IN
    /\ at[t].step = "dm" /\ at[t].op = "create"
    /\ IF ~at[t].key THEN Go(t, "mount") /\ Ok /\ UNCHANGED kernel
       ELSE \/ /\ dm[c] = 0 /\ dm' = [dm EXCEPT ![c] = l] /\ Go(t, "mount") /\ Ok
               /\ UNCHANGED <<img, file, loop, mnt>>
            \/ /\ IF dm[c] = 0 THEN Fail /\ DmFails(c) ELSE Ok /\ UNCHANGED dm
               /\ LoopDestroy(l) /\ img' = [img EXCEPT ![c] = 0] /\ Return(t)
               /\ UNCHANGED <<file, mnt>>
    /\ Keep

Formattable(c, l, key) == loop[l].file = img[c] /\ img[c] # 0 /\ (key => dm[c] = l)

(* Mutant: the loop device is forgotten. *)
CreateFsKeepsLoop(t) ==
    LET c == at[t].c l == at[t].lo IN
    /\ at[t].step = "mount" /\ at[t].op = "create"
    /\ \/ /\ Formattable(c, l, at[t].key) /\ Ok /\ Go(t, "record")
          /\ file' = [file EXCEPT ![img[c]].fs = TRUE]
          /\ mnt' = [mnt EXCEPT ![c] = [on |-> IF at[t].key THEN "dm" ELSE "loop", lo |-> l, ro |-> FALSE]]
          /\ UNCHANGED <<img, loop, dm>>
       \/ /\ Fail /\ img' = [img EXCEPT ![c] = 0] /\ dm' = [dm EXCEPT ![c] = 0]
          /\ Return(t) /\ UNCHANGED <<file, loop, mnt>>
    /\ Keep

(* Superblock, format, mkdir and mount, writable; after a failure devices  *)
(* and file go.                                                            *)
CreateFs(t) ==
    LET c == at[t].c l == at[t].lo IN
    /\ at[t].step = "mount" /\ at[t].op = "create"
    /\ \/ /\ Formattable(c, l, at[t].key) /\ Ok /\ Go(t, "record")
          /\ file' = [file EXCEPT ![img[c]].fs = TRUE]
          /\ mnt' = [mnt EXCEPT ![c] = [on |-> IF at[t].key THEN "dm" ELSE "loop", lo |-> l, ro |-> FALSE]]
          /\ UNCHANGED <<img, loop, dm>>
       \/ /\ IF Formattable(c, l, at[t].key) THEN Fail ELSE Ok
          /\ IF at[t].key THEN DestroyBoth(c, l) ELSE LoopDestroy(l) /\ UNCHANGED dm
          /\ img' = [img EXCEPT ![c] = 0] /\ Return(t) /\ UNCHANGED <<file, mnt>>
    /\ Keep

-----------------------------------------------------------------------------
(* finalizeAsec: a read-only remount of what is mounted, for which the     *)
(* loop device must be found.                                              *)
Finalize(t) ==
    LET c == at[t].c IN
    /\ at[t].step = "check" /\ at[t].op = "finalize"
    /\ IF img[c] # 0 /\ Bound(c) # {} /\ Mounted(c)
       THEN \/ mnt' = [mnt EXCEPT ![c].ro = TRUE] /\ Ok
            \/ UNCHANGED mnt /\ Fail
       ELSE UNCHANGED mnt /\ Ok
    /\ Return(t) /\ UNCHANGED <<img, file, loop, dm>> /\ Keep

(* Mutant: the old name may be mounted. *)
RenameMounted(t) ==
    LET c == at[t].c IN
    /\ at[t].step = "check" /\ at[t].op = "rename" /\ Return(t) /\ Ok /\ Keep
    /\ \E d \in Asecs \ {c} :
           IF img[c] = 0 \/ Mounted(d) \/ img[d] # 0 THEN UNCHANGED img
           ELSE img' = [img EXCEPT ![c] = 0, ![d] = img[c]]
    /\ UNCHANGED <<file, loop, dm, mnt>>

(* fixupAsecPermissions: writable and read-only again, on ext4; a failure  *)
(* of the second remount leaves it writable.                               *)
Fixup(t) ==
    LET c == at[t].c IN
    /\ at[t].step = "check" /\ at[t].op = "fixperms"
    /\ IF img[c] # 0 /\ Bound(c) # {} /\ Mounted(c)
       THEN \/ mnt' = [mnt EXCEPT ![c].ro = TRUE] /\ Ok
            \/ UNCHANGED mnt /\ Ok
            \/ Fail /\ (UNCHANGED mnt \/ mnt' = [mnt EXCEPT ![c].ro = FALSE])
       ELSE UNCHANGED mnt /\ Ok
    /\ Return(t) /\ UNCHANGED <<img, file, loop, dm>> /\ Keep

(* renameAsec: neither may be mounted, and the new name must be free.      *)
Rename(t) ==
    LET c == at[t].c IN
    /\ at[t].step = "check" /\ at[t].op = "rename" /\ Return(t) /\ Ok /\ Keep
    /\ \E d \in Asecs \ {c} :
           IF img[c] = 0 \/ Mounted(c) \/ Mounted(d) \/ img[d] # 0 THEN UNCHANGED img
           ELSE img' = [img EXCEPT ![c] = 0, ![d] = img[c]]
    /\ UNCHANGED <<file, loop, dm, mnt>>

-----------------------------------------------------------------------------
(* unmountLoopImage, on the way of unmountAsec (which needs the file),     *)
(* unmountObb, destroyAsec and cleanupAsec.                                *)
Unmounts == {"unmount", "destroy", "cleanup"}

UnmountCheck(t) ==
    LET c == at[t].c IN
    /\ at[t].step = "check" /\ at[t].op \in Unmounts
    /\ IF Mounted(c) /\ (c \in Obbs \/ img[c] # 0) THEN Go(t, "umount")
       ELSE IF at[t].op = "destroy" /\ img[c] # 0 THEN Go(t, "unlink")
       ELSE Return(t)
    /\ Ok /\ UNCHANGED kernel /\ Keep

(* umount, tried again; a file system that is gone meanwhile is fine.      *)
Umount(t) ==
    LET c == at[t].c IN
    /\ at[t].step = "umount"
    /\ \/ mnt' = [mnt EXCEPT ![c] = NotMounted] /\ Go(t, "dmdestroy") /\ Ok
       \/ Mounted(c) /\ Fail /\ Return(t) /\ UNCHANGED mnt
    /\ UNCHANGED <<img, file, loop, dm>> /\ Keep

UnmountDm(t) ==
    /\ at[t].step = "dmdestroy" /\ dm' = DmDestroyed(at[t].c) /\ Go(t, "loopdestroy")
    /\ Ok /\ UNCHANGED <<img, file, loop, mnt>> /\ Keep

(* Mutant: the loop device is looked for under another name. *)
UnmountLoopLost(t) ==
    /\ at[t].step = "loopdestroy" /\ UNCHANGED loop
    /\ Go(t, "erase") /\ Ok /\ UNCHANGED <<img, file, dm, mnt>> /\ Keep

UnmountLoop(t) ==
    /\ at[t].step = "loopdestroy"
    /\ \/ \E l \in Bound(at[t].c) : LoopDestroy(l)
       \/ Bound(at[t].c) = {} /\ UNCHANGED loop
    /\ Go(t, "erase") /\ Ok /\ UNCHANGED <<img, file, dm, mnt>> /\ Keep

(* Mutant: nothing is erased. *)
EraseNot(t) ==
    /\ at[t].step = "erase" /\ active' = active
    /\ IF at[t].op = "destroy" THEN Go(t, "unlink") ELSE Return(t)
    /\ Ok /\ UNCHANGED <<kernel, raced, restarts>>

(* The first entry of mActiveContainers with the id is erased.             *)
Erase(t) ==
    LET c == at[t].c IN
    /\ at[t].step = "erase"
    /\ active' = IF Contains(active, c) THEN ReplaceFirstSubSeq(<<>>, <<c>>, active) ELSE active
    /\ IF at[t].op = "destroy" THEN Go(t, "unlink") ELSE Return(t)
    /\ Ok /\ UNCHANGED <<kernel, raced, restarts>>

(* destroyAsec: the image file is unlinked.                                *)
Unlink(t) ==
    /\ at[t].step = "unlink" /\ Return(t) /\ Keep
    /\ \/ Ok /\ img' = [img EXCEPT ![at[t].c] = 0]
       \/ Fail /\ UNCHANGED img
    /\ UNCHANGED <<file, loop, dm, mnt>>
-----------------------------------------------------------------------------
(* A command of the framework starts in the command thread.                *)
Command ==
    /\ at["cmd"] = Idle
    /\ \E c \in Ids, key \in BOOLEAN, op \in {"mount", "create", "finalize", "fixperms", "rename", "destroy", "unmount"} :
           /\ c \in Obbs => op \in {"mount", "unmount"}
           /\ key => (op \in {"mount", "create"} /\ c \in Asecs)
           /\ at' = [at EXCEPT !["cmd"] = [Idle EXCEPT !.op = op, !.c = c, !.key = key, !.step = "check"]]
    /\ Ok /\ UNCHANGED kernel /\ Start("cmd")

(* cleanupAsec: the images in the directory of ASECs, whether mounted or   *)
(* not, and then the OBBs that are active.  The netlink thread when the    *)
(* partition has gone, or the command thread for `volume unmount`.         *)
CleanupAsec(t) ==
    /\ at[t] = Idle
    /\ \E s \in {q \in SetToAllKPermutations({c \in Asecs : img[c] # 0}) :
                     Len(q) = Cardinality({c \in Asecs : img[c] # 0})} :
           LET all == s \o <<"obbs">> IN
           at' = [at EXCEPT ![t] = [Idle EXCEPT !.op = "cleanup", !.c = Head(all), !.rest = Tail(all),
                                                !.step = "check"]]
    /\ Ok /\ UNCHANGED kernel /\ Start(t)

(* Mutant: the first OBB ends the search. *)
CleanupObbsNone(t) ==
    /\ at[t].op = "cleanup" /\ at[t].c = "obbs" /\ at' = [at EXCEPT ![t] = Idle]
    /\ Ok /\ UNCHANGED kernel /\ Keep

(* The OBBs are looked up when the ASECs are done.                         *)
CleanupObbs(t) ==
    /\ at[t].op = "cleanup" /\ at[t].c = "obbs"
    /\ LET obbs == SelectSeq(active, LAMBDA c : c \in Obbs) IN
       at' = [at EXCEPT ![t] = IF obbs = <<>> THEN Idle
                               ELSE [@ EXCEPT !.c = Head(obbs), !.rest = Tail(obbs)]]
    /\ Ok /\ UNCHANGED kernel /\ Keep

(* vold dies and init starts it again: the mounts stay.                    *)
Restart ==
    /\ restarts < MaxRestarts /\ restarts' = restarts + 1
    /\ active' = <<>> /\ at' = [t \in Threads |-> Idle] /\ Ok /\ UNCHANGED <<kernel, raced>>

Step(t) ==
    \/ /\ at[t].c \in Ids
       /\ \/ MountAsec(t) \/ MountObb(t) \/ MountDm(t) \/ MountFs(t) \/ Record(t)
          \/ CreateCheck(t) \/ CreateDm(t) \/ CreateFs(t)
          \/ Finalize(t) \/ Fixup(t) \/ Rename(t)
          \/ UnmountCheck(t) \/ Umount(t) \/ UnmountDm(t) \/ UnmountLoop(t) \/ Erase(t) \/ Unlink(t)
    \/ CleanupObbs(t)

Next == Command \/ (\E t \in Threads : CleanupAsec(t) \/ Step(t)) \/ Restart

\* A bound for checking: one race, failure or restart in a behaviour.
OneFault == raced' + fails' + restarts' <= 1

Spec == Init /\ [][Next]_vars
-----------------------------------------------------------------------------
AtRest == at = [t \in Threads |-> Idle]
Undisturbed == raced = 0 /\ restarts = 0

(* mActiveContainers, by which cleanupAsec finds the OBBs, has exactly the *)
(* mounted containers when no thread is at work.                           *)
ActiveExact ==
    AtRest /\ Undisturbed => /\ ToSet(active) = {c \in Ids : Mounted(c)}
                             /\ Len(active) = Cardinality(ToSet(active))

(* No loop device and no device mapper device is left behind, but for the  *)
(* ones whose setup failed halfway.                                        *)
NothingLeft ==
    AtRest /\ Undisturbed => /\ \A l \in Loops : loop[l].hash # "none" => InUse(l)
                             /\ \A c \in Ids : dm[c] \in Loops => mnt[c].on = "dm"

(* An image is never behind two loop devices, whose caches would disagree. *)
OneLoopPerImage ==
    LET named == {l \in Loops : loop[l].hash # "none"} IN
    Undisturbed => \A k, l \in named : k # l => loop[k].file # loop[l].file

(* What is mounted as a container is the image that has its name.          *)
RightImage ==
    \A c \in Ids : Mounted(c) /\ AtRest => img[c] # 0 /\ loop[mnt[c].lo].file = img[c]

(* "Find the remaining OBB files that are on external storage": when a     *)
(* cleanup of the command thread ends and nothing failed, no container is  *)
(* mounted.                                                                *)
CleanupEmpties ==
    at["cmd"].op = "cleanup" /\ at'["cmd"] = Idle /\ Undisturbed' /\ fails' = 0
        => \A c \in Ids : ~Mounted(c)'
CleanupComplete == [][CleanupEmpties]_vars

\* Between commands the list of active containers, the mounts, the device mapper
\* and the loop devices tell one story: the listed ones are mounted, nothing is
\* left of the others, no image has two loop devices, and what is mounted under
\* an id is that id's image (mountAsec, mountObb, renameAsec, unmountLoopImage
\* and the unwinding in their error paths).
ContainersExact == ActiveExact /\ NothingLeft /\ OneLoopPerImage /\ RightImage
=============================================================================
