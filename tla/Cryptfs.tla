------------------------------- MODULE Cryptfs -------------------------------
(***************************************************************************)
(* Encryption of /data and of the volumes of vold (vold/cryptfs.c), with   *)
(* the boot that finds out what is on the disk (fs_mgr_mount_all and       *)
(* do_mount_all).  A power cut is possible between any two steps.          *)
(*                                                                         *)
(* A block of the disk is the sequence of master keys it was encrypted     *)
(* with, so a plain block is <<>>.  Block 1 holds the superblock: it alone *)
(* decides whether a mount succeeds.  Pages of one device reach the disk   *)
(* in order.  The last close of a device writes its pages, so a footer is  *)
(* on the disk when put_crypt_ftr_and_key returns, unless a dm-crypt       *)
(* mapping keeps the device open: then it is only in the cache.            *)
(***************************************************************************)
EXTENDS Integers, Sequences

CONSTANTS
    Volumes,       \* encryptable volumes of vold, in the order of the list
    Blocks,        \* number of blocks of each device
    Passwords,
    WipeOnFail,    \* the values ro.vold.wipe_on_crypt_fail may have
    MaxKeys,       \* bound: master keys created
    MaxWrong,      \* bound: failed_decrypt_count
    MaxCallFails,  \* bound: failing system calls
    MaxCuts,       \* bound: power cuts
    MaxBadBoots,   \* bound: boots on which a later file system cannot be mounted
    MaxPutFails    \* bound: footers that cannot be written

(* vold has a volume on its list once, and /data is not one of them.       *)
ASSUME CryptfsConstants ==
    /\ Blocks \in Nat \ {0} /\ Volumes \in Seq(STRING)
    /\ \A i, j \in 1 .. Len(Volumes) : Volumes[i] = Volumes[j] => i = j
    /\ \A i \in 1 .. Len(Volumes) : Volumes[i] # "data"

Devices == <<"data">> \o Volumes
Names == {Devices[i] : i \in 1 .. Len(Devices)}
Keys == 1 .. MaxKeys
NoFooter == [prog |-> FALSE, failed |-> 0, pw |-> "none", key |-> 0]
Half == 0 - 1      \* a mapping that was created and could not be loaded

VARIABLES
    disk, ftr,          \* what survives a power cut
    cache,              \* the footer as a read sees it
    up, crypto,         \* whether the device runs; ro.crypto.state
    mnt,                \* what is mounted on /data
    fw,                 \* class main: all of it, what a tmpfs /data allows, or stopped
    ui,                 \* what cryptocomplete told the framework
    saved, restarted,   \* saved_master_key, restart_successful
    dm,                 \* the mapping of each device
    progress,           \* vold.encrypt_progress
    cmd,                \* the command being executed
    wrongs,             \* failed attempts since the last good one (history)
    wiped,              \* a wipe was begun and not finished (history)
    nkeys, fails, cuts, badBoots, putFails

volatile == <<cache, up, crypto, mnt, fw, ui, saved, restarted, dm, progress, cmd>>
history == <<wrongs, wiped>>
bounds == <<nkeys, fails, cuts, badBoots, putFails>>
cryptVars == <<disk, ftr, volatile, history, bounds>>

Idle == [pc |-> "idle", how |-> "none", pw |-> "none", dev |-> 1, todo |-> {}, rc |-> 0]
NoMaps == [d \in Names |-> 0]
Plain == [d \in Names |-> [b \in 1 .. Blocks |-> <<>>]]

(* The type invariant.                                                     *)
CryptTypeOK ==
    /\ \A d \in Names, b \in 1 .. Blocks : Len(disk[d][b]) <= MaxKeys
    /\ {ftr, cache} \subseteq [prog : BOOLEAN, failed : 0 .. MaxWrong,
                               pw : Passwords \cup {"none"}, key : 0 .. MaxKeys]
    /\ up \in BOOLEAN /\ crypto \in {"encrypted", "unencrypted"}
    /\ mnt \in {"none", "real", "tmpfs", "crypto"}
    /\ fw \in {"main", "min", "stopped"} /\ ui \in {"none", "ask", "wipe", "error"}
    /\ saved \in 0 .. MaxKeys /\ restarted \in BOOLEAN
    /\ dm \in [Names -> Half .. MaxKeys]
    /\ progress \in {"", "0", "100", "error_not_encrypted", "error_partially_encrypted"}
    /\ cmd.pc \in {"idle", "unmount", "tmpfs", "footer", "work", "finish", "reboot",
                   "r_unmount", "r_prep"}
    /\ cmd.dev \in 1 .. Len(Devices) /\ cmd.todo \subseteq 1 .. Blocks /\ cmd.rc \in {0 - 1, 0}

CryptInit ==
    /\ disk = Plain /\ ftr = NoFooter /\ cache = NoFooter
    /\ up = FALSE /\ crypto = "unencrypted" /\ mnt = "none" /\ fw = "stopped" /\ ui = "none"
    /\ saved = 0 /\ restarted = FALSE /\ dm = NoMaps /\ progress = "" /\ cmd = Idle
    /\ wrongs = 0 /\ wiped = FALSE
    /\ nkeys = 0 /\ fails = 0 /\ cuts = 0 /\ badBoots = 0 /\ putFails = 0

Fail == fails < MaxCallFails /\ fails' = fails + 1
Ok == UNCHANGED fails

-----------------------------------------------------------------------------
(* Power and boot.                                                         *)

(* Everything that is not on the disk is lost.                             *)
Off(footer) ==
    /\ ftr' = footer /\ cache' = footer
    /\ up' = FALSE /\ crypto' = "unencrypted" /\ mnt' = "none" /\ fw' = "stopped" /\ ui' = "none"
    /\ saved' = 0 /\ restarted' = FALSE /\ dm' = NoMaps /\ progress' = "" /\ cmd' = Idle

PowerCut ==
    /\ up /\ cuts < MaxCuts /\ cuts' = cuts + 1
    /\ Off(ftr)
    /\ UNCHANGED <<disk, history, nkeys, fails, badBoots, putFails>>

(* android_reboot writes the cache first.                                  *)
Reboot ==
    /\ up /\ cmd.pc = "reboot"
    /\ Off(cache)
    /\ UNCHANGED <<disk, history, bounds>>

(* The kernel writes the page of the footer.                               *)
Flush ==
    /\ up /\ ftr # cache /\ ftr' = cache
    /\ UNCHANGED <<disk, volatile, history, bounds>>

(* fs_mgr_mount_all mounts /data if its superblock is plain and puts a     *)
(* tmpfs there if not.  Its result is -1 if one of the file systems that   *)
(* follow cannot be mounted.                                               *)
MountAll(ret) ==
    LET plain == disk["data"][1] = <<>> IN
    /\ mnt' = IF plain THEN "real" ELSE "tmpfs"
    /\ fw' = IF plain THEN "main" ELSE "min"
    /\ \/ ret = (IF plain THEN 0 ELSE 1) /\ UNCHANGED badBoots
       \/ ret = 0 - 1 /\ badBoots < MaxBadBoots /\ badBoots' = badBoots + 1

(* do_mount_all takes every result but 1 for "unencrypted".                *)
Boot ==
    /\ ~up /\ up' = TRUE
    /\ \E ret \in {0 - 1, 0, 1} :
          MountAll(ret) /\ crypto' = IF ret = 1 THEN "encrypted" ELSE "unencrypted"
    /\ UNCHANGED <<disk, ftr, cache, ui, saved, restarted, dm, progress, cmd, history, nkeys,
                   fails, cuts, putFails>>

(* Recovery formats the partition and its footer.                          *)
Recovery ==
    /\ disk' = Plain /\ wrongs' = 0 /\ wiped' = FALSE /\ Off(NoFooter)

(* The user takes the offer to wipe the device.                            *)
FactoryReset ==
    /\ up /\ cmd.pc = "idle" /\ ui = "wipe"
    /\ Recovery
    /\ UNCHANGED bounds

-----------------------------------------------------------------------------
(* Commands of the framework, one at a time.  All of them but enablecrypto *)
(* are for the framework on a tmpfs.                                       *)

Command == up /\ cmd.pc = "idle" /\ fw # "stopped"

(* get_crypt_ftr_and_key finds the magic number.                           *)
GetCryptFtr == cache.key # 0

(* Mutant: the flag is not looked at.                                      *)
CryptoCompleteBlind ==
    /\ Command
    /\ ui' = (CASE crypto # "encrypted" -> "none"
                [] crypto = "encrypted" /\ ~GetCryptFtr -> "error"
                [] OTHER -> "ask")
    /\ UNCHANGED <<disk, ftr, cache, up, crypto, mnt, fw, saved, restarted, dm, progress, cmd,
                   history, bounds>>

(* do_crypto_complete: 1, -1, -2 or 0.                                     *)
CryptoComplete ==
    /\ Command
    /\ ui' = (CASE crypto # "encrypted" -> "none"
                [] crypto = "encrypted" /\ ~GetCryptFtr -> "error"
                [] crypto = "encrypted" /\ GetCryptFtr /\ cache.prog -> "wipe"
                [] OTHER -> "ask")
    /\ UNCHANGED <<disk, ftr, cache, up, crypto, mnt, fw, saved, restarted, dm, progress, cmd,
                   history, bounds>>

(* decrypt_master_key: only the right password gives the key.              *)
DecryptMasterKey(pw) == IF pw = cache.pw THEN cache.key ELSE 0

(* encrypt_master_key.                                                     *)
EncryptMasterKey(pw, key) == [cache EXCEPT !.pw = pw, !.key = key]

(* put_crypt_ftr_and_key while no mapping holds the device open.           *)
PutCryptFtr(f) == ftr' = f /\ cache' = f

(* put_crypt_ftr_and_key while one does.                                   *)
PutCached(f) == cache' = f /\ UNCHANGED ftr

CheckFrame ==
    UNCHANGED <<disk, up, crypto, mnt, fw, ui, restarted, progress, cmd, wiped, nkeys, cuts,
                badBoots, putFails>>

(* Mutant: the footer is written before the mapping is deleted.            *)
CheckPasswdCached(pw) ==
    /\ Command /\ ui = "ask" /\ crypto = "encrypted" /\ saved = 0 /\ GetCryptFtr
    /\ dm["data"] = 0
    /\ \/ /\ disk["data"][1] = <<DecryptMasterKey(pw)>> /\ Ok
          /\ PutCached([cache EXCEPT !.failed = 0])
          /\ saved' = cache.key /\ dm' = [dm EXCEPT !["data"] = cache.key] /\ wrongs' = 0
       \/ /\ IF disk["data"][1] = <<DecryptMasterKey(pw)>> THEN Fail ELSE Ok
          /\ cache.failed < MaxWrong
          /\ PutCached([cache EXCEPT !.failed = @ + 1])
          /\ wrongs' = wrongs + 1 /\ UNCHANGED <<saved, dm>>
       \/ Fail /\ dm' = [dm EXCEPT !["data"] = Half] /\ UNCHANGED <<ftr, cache, saved, wrongs>>
    /\ CheckFrame

(* test_mount_encrypted_fs.  A mapping that cannot be loaded stays behind, *)
(* and no other can be made after it.  On a failed mount the mapping is    *)
(* gone when the count is written, on a good one it is there.              *)
CheckPasswd(pw) ==
    /\ Command /\ ui = "ask" /\ crypto = "encrypted" /\ saved = 0 /\ GetCryptFtr
    /\ dm["data"] = 0
    /\ \/ /\ disk["data"][1] = <<DecryptMasterKey(pw)>> /\ Ok
          /\ PutCached([cache EXCEPT !.failed = 0])
          /\ saved' = cache.key /\ dm' = [dm EXCEPT !["data"] = cache.key] /\ wrongs' = 0
       \/ /\ IF disk["data"][1] = <<DecryptMasterKey(pw)>> THEN Fail ELSE Ok
          /\ cache.failed < MaxWrong
          /\ PutCryptFtr([cache EXCEPT !.failed = @ + 1])
          /\ wrongs' = wrongs + 1 /\ UNCHANGED <<saved, dm>>
       \/ Fail /\ dm' = [dm EXCEPT !["data"] = Half] /\ UNCHANGED <<ftr, cache, saved, wrongs>>
    /\ CheckFrame

(* Mutant: a new master key goes under the new password.                   *)
ChangePwNewKey(pw) ==
    /\ Command /\ saved # 0 /\ nkeys < MaxKeys /\ nkeys' = nkeys + 1
    /\ PutCached(EncryptMasterKey(pw, nkeys'))
    /\ UNCHANGED <<disk, up, crypto, mnt, fw, ui, saved, restarted, dm, progress, cmd, history,
                   fails, cuts, badBoots, putFails>>

(* cryptfs_changepw: the saved master key under the new password.          *)
ChangePw(pw) ==
    /\ Command /\ saved # 0
    /\ PutCached(EncryptMasterKey(pw, saved))
    /\ UNCHANGED <<disk, up, crypto, mnt, fw, ui, saved, restarted, dm, progress, cmd, history,
                   bounds>>

(* cryptfs_verify_passwd: 0 if the key under the password is the saved one.*)
VerifyPasswd(pw) ==
    CASE crypto # "encrypted" -> 0 - 2
      [] crypto = "encrypted" /\ saved = 0 -> 0 - 1
      [] OTHER -> IF DecryptMasterKey(pw) = saved THEN 0 ELSE 1

-----------------------------------------------------------------------------
(* cryptfs_restart.                                                        *)

Step(pc) == up /\ cmd.pc = pc
Go(pc) == cmd' = [cmd EXCEPT !.pc = pc]
Done == cmd' = Idle

(* wait_and_unmount gives up after some seconds, prep_data_fs too.         *)
WaitAndUnmount(done) == IF done THEN Ok ELSE Fail
PrepDataFs(done) == IF done THEN Ok ELSE Fail

Restart ==
    /\ Command /\ saved # 0 /\ ~restarted
    /\ fw' = "stopped" /\ Go("r_unmount")
    /\ UNCHANGED <<disk, ftr, cache, up, crypto, mnt, ui, saved, restarted, dm, progress, history,
                   bounds>>

(* Once the tmpfs is gone the result of the mount is not looked at.        *)
RestartMount ==
    /\ Step("r_unmount")
    /\ \/ WaitAndUnmount(TRUE) /\ mnt' = "crypto" /\ Go("r_prep")
       \/ Fail /\ mnt' = "none" /\ Go("r_prep")
       \/ WaitAndUnmount(FALSE) /\ Done /\ UNCHANGED mnt
    /\ UNCHANGED <<disk, ftr, cache, up, crypto, fw, ui, saved, restarted, dm, progress, history,
                   nkeys, cuts, badBoots, putFails>>

(* Mutant: trigger_restart_framework is not set.                           *)
RestartPrepQuiet ==
    /\ Step("r_prep") /\ Done
    /\ \/ PrepDataFs(TRUE) /\ restarted' = TRUE /\ UNCHANGED fw
       \/ PrepDataFs(FALSE) /\ UNCHANGED <<fw, restarted>>
    /\ UNCHANGED <<disk, ftr, cache, up, crypto, mnt, ui, saved, dm, progress, history, nkeys,
                   cuts, badBoots, putFails>>

(* prep_data_fs: init answers in time or not.                              *)
RestartPrep ==
    /\ Step("r_prep") /\ Done
    /\ \/ PrepDataFs(TRUE) /\ fw' = "main" /\ restarted' = TRUE
       \/ PrepDataFs(FALSE) /\ UNCHANGED <<fw, restarted>>
    /\ UNCHANGED <<disk, ftr, cache, up, crypto, mnt, ui, saved, dm, progress, history, nkeys,
                   cuts, badBoots, putFails>>

(* create_crypto_blk_dev: a mapping whose table cannot be loaded stays, and *)
(* its name is taken.                                                      *)
CreateCryptoBlkDev(d, key) ==
    /\ dm[d] = 0
    /\ \/ Ok /\ dm' = [dm EXCEPT ![d] = key]
       \/ Fail /\ dm' = [dm EXCEPT ![d] = Half]

DeleteCryptoBlkDev(d) == dm' = [dm EXCEPT ![d] = 0]

(* cryptfs_setup_volume and cryptfs_revert_volume, called when vold mounts *)
(* or formats a volume.  The result of the mapping is not looked at.       *)
SetupVolume(v) ==
    /\ Command /\ saved # 0
    /\ CreateCryptoBlkDev(v, saved)
    /\ UNCHANGED <<disk, ftr, cache, up, crypto, mnt, fw, ui, saved, restarted, progress, cmd,
                   history, nkeys, cuts, badBoots, putFails>>

RevertVolume(v) ==
    /\ Command /\ dm[v] # 0
    /\ DeleteCryptoBlkDev(v)
    /\ UNCHANGED <<disk, ftr, cache, up, crypto, mnt, fw, ui, saved, restarted, progress, cmd,
                   history, bounds>>

-----------------------------------------------------------------------------
(* cryptfs_enable.                                                         *)

(* The checks, the volumes, trigger_shutdown_framework.                    *)
Enable(how, pw) ==
    /\ Command /\ fw = "main"
    /\ \/ crypto # "unencrypted" /\ progress' = "error_not_encrypted"
          /\ UNCHANGED <<fw, cmd, wiped, fails>>
       \/ crypto = "unencrypted" /\ Fail /\ progress' = "error_not_encrypted"
          /\ UNCHANGED <<fw, cmd, wiped>>
       \/ /\ crypto = "unencrypted" /\ nkeys < MaxKeys
          /\ fw' = "stopped" /\ wiped' = (how = "wipe" \/ wiped)
          /\ cmd' = [Idle EXCEPT !.pc = "unmount", !.how = how, !.pw = pw]
          /\ UNCHANGED <<progress, fails>>
    /\ UNCHANGED <<disk, ftr, cache, up, crypto, mnt, ui, saved, restarted, dm, wrongs, nkeys,
                   cuts, badBoots, putFails>>

(* /data, and the fuse sdcard on it, is unmounted; if not, reboot.         *)
EnableUnmount ==
    /\ Step("unmount")
    /\ \/ WaitAndUnmount(TRUE) /\ mnt' = "none"
          /\ Go(IF cmd.how = "inplace" THEN "tmpfs" ELSE "footer")
       \/ WaitAndUnmount(FALSE) /\ Go("reboot") /\ UNCHANGED mnt
    /\ UNCHANGED <<disk, ftr, cache, up, crypto, fw, ui, saved, restarted, dm, progress, history,
                   nkeys, cuts, badBoots, putFails>>

(* A tmpfs and the framework that shows the progress.                      *)
EnableTmpfs ==
    /\ Step("tmpfs")
    /\ \/ PrepDataFs(TRUE) /\ mnt' = "tmpfs" /\ progress' = "0" /\ fw' = "min" /\ Go("footer")
       \/ PrepDataFs(FALSE) /\ Go("reboot") /\ UNCHANGED <<mnt, progress, fw>>
    /\ UNCHANGED <<disk, ftr, cache, up, crypto, ui, saved, restarted, dm, history, nkeys, cuts,
                   badBoots, putFails>>

NewFooter == [prog |-> TRUE, failed |-> 0, pw |-> cmd.pw, key |-> nkeys + 1]

(* Mutant: the footer is written when all is done.                         *)
EnableFooterLate ==
    /\ Step("footer") /\ nkeys' = nkeys + 1
    /\ cache' = NewFooter /\ UNCHANGED <<ftr, putFails, fails, progress>>
    /\ dm' = [d \in Names |-> nkeys + 1]
    /\ cmd' = [cmd EXCEPT !.pc = "work", !.dev = 1, !.todo = 1 .. Blocks]
    /\ UNCHANGED <<disk, up, crypto, mnt, fw, ui, saved, restarted, history, cuts, badBoots>>

(* A master key, the footer that says "in progress", the mappings.  If the *)
(* key cannot be made the error is the one for a framework that still      *)
(* runs.  Neither the footer nor a mapping is checked.                     *)
EnableFooter ==
    /\ Step("footer")
    /\ \/ Fail /\ progress' = "error_not_encrypted" /\ Done
          /\ UNCHANGED <<ftr, cache, dm, nkeys, putFails>>
       \/ /\ nkeys' = nkeys + 1
          /\ \/ PutCryptFtr(NewFooter) /\ UNCHANGED putFails
             \/ putFails < MaxPutFails /\ putFails' = putFails + 1 /\ UNCHANGED <<ftr, cache>>
          /\ \/ Ok /\ dm' = [d \in Names |-> nkeys + 1]
             \/ Fail /\ \E d \in Names :
                           dm' = [e \in Names |-> IF e = d THEN Half ELSE nkeys + 1]
          /\ cmd' = [cmd EXCEPT !.pc = "work", !.dev = 1, !.todo = 1 .. Blocks]
          /\ UNCHANGED progress
    /\ UNCHANGED <<disk, up, crypto, mnt, fw, ui, saved, restarted, history, cuts, badBoots>>

Device == Devices[cmd.dev]

(* Mutant: the blocks are encrypted from the last to the first.            *)
EnableBackwards(b) ==
    /\ cmd.how = "inplace" /\ \A c \in cmd.todo : c <= b
    /\ disk' = [disk EXCEPT ![Device][b] = Append(@, dm[Device])]

(* cryptfs_enable_inplace reads a block and writes it through the mapping, *)
(* from the first to the last; cryptfs_enable_wipe makes a new file system *)
(* through it, in any order.                                               *)
EnableInplace(b) ==
    /\ cmd.how = "inplace" /\ \A c \in cmd.todo : b <= c
    /\ disk' = [disk EXCEPT ![Device][b] = Append(@, dm[Device])]

EnableWipe(b) ==
    /\ cmd.how = "wipe"
    /\ disk' = [disk EXCEPT ![Device][b] = <<dm[Device]>>]

(* Mutant: one device too many.                                            *)
NextDevicePast(rc) ==
    cmd' = IF cmd.dev > Len(Devices) \/ (Device = "data" /\ rc # 0)
             THEN [cmd EXCEPT !.pc = "finish", !.rc = rc, !.todo = {}]
             ELSE [cmd EXCEPT !.dev = @ + 1, !.rc = rc, !.todo = 1 .. Blocks]

(* The next device, or the end.  A failure on /data ends the work; one on  *)
(* a volume does not, and is forgotten if the next volume succeeds.        *)
NextDevice(rc) ==
    cmd' = IF cmd.dev = Len(Devices) \/ (Device = "data" /\ rc # 0)
             THEN [cmd EXCEPT !.pc = "finish", !.rc = rc, !.todo = {}]
             ELSE [cmd EXCEPT !.dev = @ + 1, !.rc = rc, !.todo = 1 .. Blocks]

(* Mutant: a device with an error counts as done.                          *)
EnableWorkForgets ==
    /\ Step("work")
    /\ \/ /\ dm[Device] > 0 /\ cmd.todo # {} /\ Ok
          /\ \E b \in cmd.todo :
                /\ EnableInplace(b) \/ EnableWipe(b)
                /\ cmd' = [cmd EXCEPT !.todo = @ \ {b}]
       \/ cmd.todo = {} /\ NextDevice(0) /\ Ok /\ UNCHANGED disk
       \/ dm[Device] > 0 /\ cmd.todo # {} /\ Fail /\ NextDevice(0) /\ UNCHANGED disk
       \/ dm[Device] <= 0 /\ Ok /\ NextDevice(0) /\ UNCHANGED disk
    /\ UNCHANGED <<ftr, cache, up, crypto, mnt, fw, ui, saved, restarted, dm, progress, history,
                   nkeys, cuts, badBoots, putFails>>

(* The work on one device after the other.                                 *)
EnableWork ==
    /\ Step("work")
    /\ \/ /\ dm[Device] > 0 /\ cmd.todo # {} /\ Ok
          /\ \E b \in cmd.todo :
                /\ EnableInplace(b) \/ EnableWipe(b)
                /\ cmd' = [cmd EXCEPT !.todo = @ \ {b}]
       \/ cmd.todo = {} /\ NextDevice(0) /\ Ok /\ UNCHANGED disk
       \/ dm[Device] > 0 /\ cmd.todo # {} /\ Fail /\ NextDevice(0 - 1) /\ UNCHANGED disk
       \/ dm[Device] <= 0 /\ Ok /\ NextDevice(0 - 1) /\ UNCHANGED disk
    /\ UNCHANGED <<ftr, cache, up, crypto, mnt, fw, ui, saved, restarted, dm, progress, history,
                   nkeys, cuts, badBoots, putFails>>

(* Mutant: the error of the unencrypted device.                            *)
EnableFinishMisreports ==
    /\ Step("finish")
    /\ \/ /\ cmd.rc = 0
          /\ IF cache.key = nkeys THEN PutCryptFtr([cache EXCEPT !.prog = FALSE])
             ELSE UNCHANGED <<ftr, cache>>
          /\ progress' = IF cmd.how = "inplace" THEN "100" ELSE progress
          /\ dm' = NoMaps /\ Go("reboot") /\ wiped' = (wiped /\ cmd.how # "wipe")
          /\ UNCHANGED <<disk, up, crypto, mnt, fw, ui, saved, restarted, wrongs>>
       \/ /\ cmd.rc # 0 /\ TRUE \in WipeOnFail
          /\ Recovery
       \/ /\ cmd.rc # 0 /\ FALSE \in WipeOnFail
          /\ progress' = "error_not_encrypted" /\ dm' = NoMaps /\ Done
          /\ UNCHANGED <<disk, ftr, cache, up, crypto, mnt, fw, ui, saved, restarted, history>>
    /\ UNCHANGED bounds

(* The mappings are deleted, then the flag is cleared and the device       *)
(* rebooted, or the failure reported or left to recovery.  The last put    *)
(* writes the footer without key and salt: after a first put that failed   *)
(* there is none, which the model writes as NoFooter.                      *)
EnableFinish ==
    /\ Step("finish")
    /\ \/ /\ cmd.rc = 0
          /\ IF cache.key = nkeys THEN PutCryptFtr([cache EXCEPT !.prog = FALSE])
             ELSE UNCHANGED <<ftr, cache>>
          /\ progress' = IF cmd.how = "inplace" THEN "100" ELSE progress
          /\ dm' = NoMaps /\ Go("reboot") /\ wiped' = (wiped /\ cmd.how # "wipe")
          /\ UNCHANGED <<disk, up, crypto, mnt, fw, ui, saved, restarted, wrongs>>
       \/ /\ cmd.rc # 0 /\ TRUE \in WipeOnFail
          /\ Recovery
       \/ /\ cmd.rc # 0 /\ FALSE \in WipeOnFail
          /\ progress' = "error_partially_encrypted" /\ dm' = NoMaps /\ Done
          /\ UNCHANGED <<disk, ftr, cache, up, crypto, mnt, fw, ui, saved, restarted, history>>
    /\ UNCHANGED bounds

-----------------------------------------------------------------------------

Vold ==
    \/ RestartMount \/ RestartPrep \/ Reboot
    \/ EnableUnmount \/ EnableTmpfs \/ EnableFooter \/ EnableWork \/ EnableFinish

CryptNext ==
    \/ PowerCut \/ Flush \/ Boot \/ FactoryReset \/ CryptoComplete \/ Restart
    \/ RestartMount \/ RestartPrep \/ Reboot
    \/ EnableUnmount \/ EnableTmpfs \/ EnableFooter \/ EnableWork \/ EnableFinish
    \/ \E pw \in Passwords : CheckPasswd(pw) \/ ChangePw(pw)
    \/ \E pw \in Passwords, how \in {"inplace", "wipe"} : Enable(how, pw)
    \/ \E v \in Names \ {"data"} : SetupVolume(v) \/ RevertVolume(v)

CryptSpec == CryptInit /\ [][CryptNext]_cryptVars

(* vold goes on with a command it has begun; a device that is off is       *)
(* switched on.                                                            *)
CryptFairSpec == CryptSpec /\ WF_cryptVars(Vold) /\ WF_cryptVars(Boot)

-----------------------------------------------------------------------------
(* If cryptocomplete has said 0, every block of /data and of the volumes   *)
(* is encrypted once and with the key of the footer, whatever power cuts   *)
(* and failures there were before.                                         *)
CompleteTruthful ==
    ui = "ask" /\ ~wiped => \A d \in Names, b \in 1 .. Blocks : disk[d][b] = <<cache.key>>

(* When the plain /data is mounted no block of it has been encrypted: a    *)
(* power cut in the middle never leaves a half encrypted file system that  *)
(* the next boot takes for a plain one.                                    *)
PlainIntact == mnt = "real" /\ ~wiped => disk = Plain

(* A block that is encrypted can be decrypted: the footer on the disk has  *)
(* its key under a password.  Neither a cut during the encryption nor one  *)
(* after a change of the password loses it.                                *)
KeyRecoverable ==
    ~wiped => \A d \in Names, b \in 1 .. Blocks :
        disk[d][b] # <<>> => disk[d][b] = <<ftr.key>> /\ ftr.pw \in Passwords

(* verifypw accepts the password that was last set.                        *)
VerifyWorks == saved # 0 => VerifyPasswd(cache.pw) = 0

(* failed_decrypt_count on the disk is at least the number of failed       *)
(* attempts since the last good one: switching the device off does not     *)
(* make it forget one.                                                     *)
WrongsCounted == ftr.failed >= wrongs

(* On a device that has booted plain "error_not_encrypted" means that      *)
(* nothing was encrypted.                                                  *)
NotEncrypted ==
    cmd.pc = "idle" /\ crypto = "unencrypted" /\ progress = "error_not_encrypted" /\ ~wiped
        => disk = Plain

(* ro.crypto.state says "unencrypted" only if /data is plain at boot.      *)
StateTruthful == up /\ crypto = "unencrypted" /\ cmd.pc = "idle" /\ progress = "" =>
                     disk["data"][1] = <<>>

(* Where no system call fails, a framework that vold has stopped comes     *)
(* back.                                                                   *)
FrameworkDown == up /\ fw = "stopped"
FrameworkUp == fw # "stopped" \/ fails > 0
FrameworkBack == FrameworkDown ~> FrameworkUp

\* At every moment, the power failing at any of them, the user's data is there:
\* plain where it is mounted plain, and otherwise under a key that the footer
\* still gives to someone who knows the password.
DataSafe == PlainIntact /\ KeyRecoverable /\ VerifyWorks

\* What vold tells init and the framework about the encryption is so: the
\* password is asked for only if the device is wholly encrypted, "not encrypted"
\* is said only of plain data, and no failed attempt is forgotten.
ReportsTrue == CompleteTruthful /\ WrongsCounted /\ NotEncrypted
=============================================================================
