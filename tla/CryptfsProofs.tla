---------------------------- MODULE CryptfsProofs ----------------------------
(***************************************************************************)
(* Crash safety of the encryption of /data (src/vold/cryptfs.c), proved    *)
(* for every number of blocks, volumes and passwords: whatever power cuts, *)
(* failing calls and wrong passwords there are, and in whatever order the  *)
(* framework gives its commands, the data of the user is either plain or   *)
(* under the key that the footer holds (DataIsSafe), and what vold says of *)
(* it is so (ReportsAreTrue).                                              *)
(*                                                                         *)
(* The invariant relates the three places that a power cut tears apart:    *)
(* the blocks (DiskOK), the footer on the disk and in the cache            *)
(* (FooterOK), and what the running vold believes (SessionOK, EnableOK,    *)
(* WorkOK).  The superblock of /data is the hinge: the next boot decides   *)
(* by it alone whether the device is encrypted, so it has to be the first  *)
(* block that cryptfs_enable_inplace writes.                               *)
(***************************************************************************)
EXTENDS Cryptfs, TLAPS

Disks == [Names -> [1 .. Blocks -> Seq(Int)]]
Footers == [prog : BOOLEAN, failed : Nat, pw : Passwords \cup {"none"}, key : Nat]
Commands == [pc : {"idle", "unmount", "tmpfs", "footer", "work", "finish", "reboot",
                   "r_unmount", "r_prep"},
             how : {"none", "inplace", "wipe"}, pw : Passwords \cup {"none"},
             dev : 1 .. Len(Devices), todo : SUBSET (1 .. Blocks), rc : {0 - 1, 0}]

CryptShapes ==
    /\ disk \in Disks /\ ftr \in Footers /\ cache \in Footers /\ cmd \in Commands
    /\ crypto \in {"encrypted", "unencrypted"} /\ wiped \in BOOLEAN /\ dm \in [Names -> Int]
    /\ wrongs \in Nat /\ nkeys \in Nat /\ fails \in Nat /\ putFails \in Nat

(* Every footer could be written.                                          *)
Written == putFails = 0

(* cryptfs_enable has heard of every failure.  It keeps the result of the  *)
(* last volume only, so with two volumes a call that fails for the first   *)
(* is forgotten when the second succeeds.                                  *)
Heard == Len(Volumes) <= 1 \/ fails = 0

Superblock == disk["data"][1]
Under(d, k) == \A b \in 1 .. Blocks : disk[d][b] = <<k>>
Blank(d) == \A b \in 1 .. Blocks : disk[d][b] = <<>>
OneKey == \A d \in Names, b \in 1 .. Blocks : disk[d][b] \in {<<>>, <<nkeys>>}

(* The volumes come after /data.                                           *)
Fresh == Superblock = <<>> => \A d \in Names \ {"data"} : Blank(d)

(* The footer on the disk and the one in the cache differ in the password  *)
(* and in the count only.                                                  *)
FooterOK ==
    /\ ftr.key = cache.key /\ ftr.prog = cache.prog
    /\ ftr.key # 0 => ftr.pw \in Passwords /\ cache.pw \in Passwords
    /\ ftr.failed >= wrongs /\ cache.failed >= wrongs
    /\ wrongs > 0 => Superblock # <<>>

(* What the device knows since it was booted.                              *)
SessionOK ==
    /\ ~up => crypto = "unencrypted" /\ cmd.pc = "idle" /\ progress = ""
    /\ ui = "ask" => crypto = "encrypted" /\ cache.key # 0 /\ ~cache.prog
    /\ saved # 0 => crypto = "encrypted" /\ saved = cache.key
    /\ crypto = "encrypted" => Superblock # <<>> /\ cmd.pc \in {"idle", "r_unmount", "r_prep"}
    /\ cmd.pc \in {"r_unmount", "r_prep"} => crypto = "encrypted"
    /\ mnt = "real" => Superblock = <<>>
    /\ fw = "main" /\ crypto = "unencrypted" => Superblock = <<>> /\ cmd.pc = "idle"
    /\ progress = "error_not_encrypted" /\ crypto = "unencrypted" /\ cmd.pc = "idle" =>
           Superblock = <<>>

(* cryptfs_enable before the footer is written: the disk is as it was.     *)
EnableOK ==
    cmd.pc \in {"unmount", "tmpfs", "footer", "work", "finish"} =>
        /\ cmd.how \in {"inplace", "wipe"} /\ (cmd.how = "wipe" => wiped)
        /\ cmd.pc \notin {"work", "finish"} => Superblock = <<>> /\ cmd.pw \in Passwords
        /\ cmd.pc # "unmount" => mnt # "real"

(* Whether what it writes is what is on the disk: not if it encrypts in    *)
(* place what an unfinished wipe has left.                                 *)
Counts == cmd.how = "wipe" \/ ~wiped

(* cryptfs_enable at work: it goes device after device, and in place block *)
(* after block from the superblock of /data on.  UsesKey: with the key of  *)
(* the footer.  Order: what it has done is written, what is to come is     *)
(* not.  Behind: what it has done is under the key.  Ahead: what is to     *)
(* come is plain.  Whole: what is so when it has no failure to report.     *)
UsesKey ==
    /\ cache.key = nkeys /\ nkeys > 0 /\ cache.prog
    /\ \A d \in Names : dm[d] \in {Half, nkeys} /\ (fails = 0 => dm[d] = nkeys)

Order ==
    /\ cmd.dev # 1 => Superblock # <<>>
    /\ \A b \in (1 .. Blocks) \ cmd.todo : disk[Device][b] # <<>>
    /\ \A j \in cmd.dev + 1 .. Len(Devices) : Blank(Devices[j])

Behind ==
    /\ cmd.dev # 1 => Under("data", nkeys) /\ OneKey
    /\ Heard => \A j \in 1 .. cmd.dev - 1 : Under(Devices[j], nkeys)
    /\ \A b \in (1 .. Blocks) \ cmd.todo : disk[Device][b] = <<nkeys>>

Ahead ==
    /\ \A b \in cmd.todo : disk[Device][b] = <<>>
    /\ 1 \in cmd.todo => cmd.todo = 1 .. Blocks

Whole == Under("data", nkeys) /\ OneKey /\ (Heard => \A d \in Names : Under(d, nkeys))

WorkOK ==
    /\ cmd.pc \in {"work", "finish"} => UsesKey
    /\ cmd.pc = "work" => Order /\ (Counts => Behind) /\ (~wiped => Ahead)
    /\ cmd.pc = "finish" /\ cmd.rc = 0 /\ Counts => Whole

(* The disk: plain as long as its superblock is, else under the key of the *)
(* footer, and all of it if the footer says so.                            *)
DiskOK ==
    /\ Superblock = <<>> => \A d \in Names : Blank(d)
    /\ \A d \in Names, b \in 1 .. Blocks :
           disk[d][b] # <<>> => disk[d][b] = <<cache.key>> /\ cache.key # 0
    /\ Heard /\ cache.key # 0 /\ ~cache.prog /\ Superblock # <<>> =>
           \A d \in Names : Under(d, cache.key)

(* The inductive invariant.                                                *)
CryptInv ==
    /\ CryptShapes /\ FooterOK /\ SessionOK /\ EnableOK
    /\ Written => Fresh /\ WorkOK /\ (~wiped => DiskOK)
-----------------------------------------------------------------------------
\* The devices: /data first, none of them twice.
LEMMA DeviceFacts ==
    /\ Len(Volumes) \in Nat /\ Len(Devices) = Len(Volumes) + 1
    /\ Devices[1] = "data" /\ "data" \in Names
    /\ \A i \in 1 .. Len(Devices) : Devices[i] \in Names
    /\ \A d \in Names : \E i \in 1 .. Len(Devices) : d = Devices[i]
    /\ \A i, j \in 1 .. Len(Devices) : Devices[i] = Devices[j] => i = j
<1>1. Len(Volumes) \in Nat /\ Len(Devices) = Len(Volumes) + 1 /\ Devices[1] = "data"
    BY CryptfsConstants DEF Devices
<1>2. \A i \in 2 .. Len(Devices) : i - 1 \in 1 .. Len(Volumes) /\ Devices[i] = Volumes[i - 1]
    BY CryptfsConstants, <1>1 DEF Devices
<1>3. \A i, j \in 1 .. Len(Devices) : Devices[i] = Devices[j] => i = j
    <2> SUFFICES ASSUME NEW i \in 1 .. Len(Devices), NEW j \in 1 .. Len(Devices),
                        Devices[i] = Devices[j]
                 PROVE  i = j
        OBVIOUS
    <2>1. CASE i = 1 \/ j = 1
        BY CryptfsConstants, <1>1, <1>2, <2>1
    <2>2. CASE i \in 2 .. Len(Devices) /\ j \in 2 .. Len(Devices)
        BY CryptfsConstants, <1>1, <1>2, <2>2, SMTT(30)
    <2> QED
        BY <1>1, <2>1, <2>2
<1> QED
    BY <1>1, <1>3 DEF Names

-----------------------------------------------------------------------------
(* Steps that leave the disk alone.                                        *)

\* What a step keeps that changes neither the disk nor the key and the flag of the
\* footer, and after which cryptfs_enable is not at work.
LEMMA Calm ==
    ASSUME CryptInv, disk' = disk, ~wiped' => ~wiped, Written' => Written,
           Heard' => Heard, cache'.key = cache.key, cache'.prog = cache.prog,
           cmd'.pc \notin {"work", "finish"}
    PROVE  Written' => Fresh' /\ WorkOK' /\ (~wiped' => DiskOK')
<1>1. WorkOK'
    BY DEF WorkOK
<1>2. (DiskOK => DiskOK') /\ (Fresh => Fresh')
    BY DEF DiskOK, Fresh, Superblock, Blank, Under
<1> QED
    BY <1>1, <1>2 DEF CryptInv

\* The command and the mappings when vold is at rest have their types.
LEMMA IdleFacts == Idle \in Commands /\ NoMaps \in [Names -> Int]
<1>1. 1 \in 1 .. Len(Devices)
    BY DeviceFacts
<1> QED
    BY <1>1 DEF Idle, NoMaps, Commands

\* The mark of a mapping that could not be loaded is a number.
LEMMA HalfInt == Half \in Int
    BY SMTT(30) DEF Half

\* What the writers of the footer change in it.
LEMMA FooterFields ==
    ASSUME NEW f \in Footers
    PROVE  /\ \A n \in Nat : LET g == [f EXCEPT !.failed = n] IN
                 /\ g \in Footers /\ g.failed = n
                 /\ g.key = f.key /\ g.prog = f.prog /\ g.pw = f.pw
           /\ \A p \in Passwords, k \in Nat : LET g == [f EXCEPT !.pw = p, !.key = k] IN
                 /\ g \in Footers /\ g.pw = p /\ g.key = k
                 /\ g.prog = f.prog /\ g.failed = f.failed
           /\ LET g == [f EXCEPT !.prog = FALSE] IN
                 /\ g \in Footers /\ g.prog = FALSE
                 /\ g.key = f.key /\ g.pw = f.pw /\ g.failed = f.failed
    BY Zenon DEF Footers

\* A footer with one field changed is a footer.
LEMMA FooterTypes ==
    ASSUME NEW f \in Footers
    PROVE  f.key \in Nat /\ f.key \in Int /\ f.failed \in Nat
<1>1. f.key \in Nat /\ f.failed \in Nat
    BY DEF Footers
<1> QED
    BY <1>1

\* The device goes off: what is on the disk is kept.
LEMMA OffKeeps ==
    ASSUME CryptInv, NEW f \in {ftr, cache}, Off(f), disk' = disk, UNCHANGED <<wrongs, wiped>>,
           UNCHANGED <<nkeys, fails, putFails>>
    PROVE  CryptInv'
<1>0. Idle \in Commands /\ NoMaps \in [Names -> Int]
    BY IdleFacts
<1>1. CryptShapes'
    BY <1>0 DEF CryptInv, CryptShapes, Off
<1>2. FooterOK'
    BY DEF CryptInv, FooterOK, Off, Superblock
<1>3. SessionOK' /\ EnableOK'
    BY DEF CryptInv, SessionOK, EnableOK, Off, Idle
<1>4. cache'.key = cache.key /\ cache'.prog = cache.prog /\ cmd'.pc = "idle"
    BY DEF CryptInv, FooterOK, Off, Idle
<1> QED
    BY <1>1, <1>2, <1>3, <1>4, Calm DEF CryptInv, Written, Heard

\* A power cut, and the reboot at the end of cryptfs_enable.
LEMMA PowerKeeps ==
    ASSUME CryptInv, PowerCut \/ Reboot
    PROVE  CryptInv'
    BY OffKeeps DEF PowerCut, Reboot, history, bounds

\* The footer in the cache differs from the one on the disk in what may change.
LEMMA FlushKeeps ==
    ASSUME CryptInv, Flush
    PROVE  CryptInv'
<1>1. CryptShapes' /\ FooterOK' /\ SessionOK' /\ EnableOK'
    BY Zenon
       DEF CryptInv, CryptShapes, FooterOK, SessionOK, EnableOK, Flush, volatile, history, bounds,
           Superblock
<1>2. (Written' <=> Written) /\ (WorkOK => WorkOK') /\ wiped' = wiped
    BY Zenon DEF Flush, volatile, history, bounds, Written, Heard, WorkOK, UsesKey, Order, Behind,
           Ahead, Whole, OneKey, Superblock, Under, Blank, Counts, Device
<1>3. (DiskOK => DiskOK') /\ (Fresh => Fresh')
    BY Zenon DEF Flush, volatile, bounds, Heard, DiskOK, Fresh, Superblock, Under, Blank
<1> QED
    BY <1>1, <1>2, <1>3 DEF CryptInv

\* init mounts /data plain if its superblock is, else asks for the password.
LEMMA BootKeeps ==
    ASSUME CryptInv, Boot
    PROVE  CryptInv'
<1>1. CryptShapes' /\ FooterOK'
    BY DEF CryptInv, CryptShapes, FooterOK, Boot, MountAll, history, Superblock
<1>2. /\ crypto = "unencrypted" /\ cmd.pc = "idle" /\ progress = ""
      /\ disk' = disk /\ ui' = ui /\ saved' = saved /\ cmd' = cmd /\ progress' = progress /\ up'
    BY DEF CryptInv, SessionOK, Boot
<1>3. /\ mnt' = "real" \/ fw' = "main" => Superblock = <<>>
      /\ crypto' = "encrypted" => Superblock # <<>>
    BY DEF Boot, MountAll, Superblock
<1>4. SessionOK' /\ EnableOK' /\ cmd'.pc = "idle"
    BY <1>2, <1>3 DEF CryptInv, SessionOK, EnableOK, Superblock
<1> QED
    BY <1>1, <1>4, Calm DEF CryptInv, Boot, history, Written, Heard

\* Recovery leaves a new device.
LEMMA RecoveryKeeps ==
    ASSUME CryptInv, Recovery, UNCHANGED bounds
    PROVE  CryptInv'
<1>1. Plain \in Disks /\ NoFooter \in Footers /\ NoFooter.key = 0 /\ NoFooter.failed = 0
    BY CryptfsConstants DEF Plain, Disks, NoFooter, Footers
<1>2. CryptShapes'
    BY <1>1, IdleFacts DEF CryptInv, CryptShapes, Recovery, Off, bounds
<1>3. \A d \in Names, b \in 1 .. Blocks : disk'[d][b] = <<>>
    BY DEF Recovery, Plain
<1>4. Superblock' = <<>>
    BY <1>3, DeviceFacts, CryptfsConstants DEF Superblock
<1>5. /\ ftr' = NoFooter /\ cache' = NoFooter /\ wrongs' = 0
      /\ ui' = "none" /\ saved' = 0 /\ cmd'.pc = "idle" /\ crypto' = "unencrypted"
      /\ progress' = ""
    BY DEF Recovery, Off, Idle
<1>6. FooterOK'
    <2>1. ftr' = cache' /\ ftr'.key = 0 /\ ftr'.failed = 0 /\ cache'.failed = 0
        BY <1>1, <1>5, Zenon
    <2>2. ftr'.key = cache'.key /\ ftr'.prog = cache'.prog
        BY <2>1, Zenon
    <2>3. ftr'.failed >= wrongs' /\ cache'.failed >= wrongs' /\ ~(wrongs' > 0)
        <3>1. wrongs' = 0
            BY <1>5
        <3> QED
            BY <2>1, <3>1
    <2> QED
        BY <2>1, <2>2, <2>3, Zenon DEF FooterOK
<1>7. SessionOK' /\ EnableOK'
    BY <1>4, <1>5 DEF SessionOK, EnableOK
<1>8. WorkOK' /\ DiskOK' /\ Fresh'
    BY <1>1, <1>3, Zenon DEF WorkOK, DiskOK, Fresh, Recovery, Off, Idle, Blank
<1> QED
    BY <1>2, <1>6, <1>7, <1>8 DEF CryptInv

\* The user gives up and wipes the device.
LEMMA FactoryResetKeeps ==
    ASSUME CryptInv, FactoryReset
    PROVE  CryptInv'
    BY RecoveryKeeps DEF FactoryReset

-----------------------------------------------------------------------------
(* The commands of the framework on a tmpfs.                               *)

\* The framework asks with cryptocomplete whether the device is encrypted.
LEMMA CryptoCompleteKeeps ==
    ASSUME CryptInv, CryptoComplete
    PROVE  CryptInv'
<1>1. CryptShapes' /\ FooterOK' /\ EnableOK'
    BY DEF CryptInv, CryptShapes, FooterOK, EnableOK, CryptoComplete, Command, history, bounds,
           Superblock
<1>2. SessionOK' /\ cmd'.pc = "idle"
    BY DEF CryptInv, CryptShapes, SessionOK, CryptoComplete, Command, GetCryptFtr, history,
           bounds, Superblock
<1> QED
    BY <1>1, <1>2, Calm DEF CryptInv, CryptoComplete, history, bounds, Written, Heard

\* A wrong password is counted on the disk before the next one can be tried.
LEMMA CheckPasswdKeeps ==
    ASSUME CryptInv, NEW pw \in Passwords, CheckPasswd(pw)
    PROVE  CryptInv'
<1>1. /\ cmd.pc = "idle" /\ up /\ crypto = "encrypted" /\ cache.key # 0 /\ ~cache.prog
      /\ disk' = disk /\ crypto' = crypto /\ cmd' = cmd /\ wiped' = wiped /\ up' = up
      /\ nkeys' = nkeys /\ putFails' = putFails /\ mnt' = mnt /\ fw' = fw /\ ui' = ui
      /\ progress' = progress
    BY DEF CheckPasswd, CheckFrame, Command, GetCryptFtr, CryptInv, SessionOK
<1>2. fails' = fails \/ fails' = fails + 1
    BY DEF CheckPasswd, Fail, Ok
<1>3. /\ ftr' \in Footers /\ cache' \in Footers /\ wrongs' \in Nat /\ dm' \in [Names -> Int]
      /\ ftr'.key = ftr.key /\ cache'.key = cache.key /\ ftr'.prog = ftr.prog
      /\ cache'.prog = cache.prog /\ ftr'.pw \in Passwords /\ cache'.pw \in Passwords
      /\ ftr'.failed >= wrongs' /\ cache'.failed >= wrongs'
      /\ saved' # 0 => saved' = cache.key
    <2>1. /\ ftr \in Footers /\ cache \in Footers /\ wrongs \in Nat /\ dm \in [Names -> Int]
          /\ cache.key \in Int /\ cache.failed \in Nat /\ ftr.failed \in Nat /\ Half \in Int
        BY FooterTypes, HalfInt DEF CryptInv, CryptShapes
    <2>2. /\ ftr.failed >= wrongs /\ cache.failed >= wrongs /\ ftr.key = cache.key
          /\ ftr.prog = cache.prog /\ (saved # 0 => saved = cache.key)
          /\ ftr.pw \in Passwords /\ cache.pw \in Passwords
        BY <1>1 DEF CryptInv, FooterOK, SessionOK
    <2>3. CASE /\ PutCached([cache EXCEPT !.failed = 0]) /\ saved' = cache.key /\ wrongs' = 0
               /\ dm' = [dm EXCEPT !["data"] = cache.key]
        <3>1. cache' = [cache EXCEPT !.failed = 0] /\ ftr' = ftr
            BY <2>3, SMTT(30) DEF PutCached
        <3>2. /\ cache' \in Footers /\ cache'.failed = 0 /\ cache'.key = cache.key
              /\ cache'.prog = cache.prog /\ cache'.pw = cache.pw
            BY <2>1, <3>1, FooterFields, ZenonT(30)
        <3>3. dm' \in [Names -> Int]
            BY <2>1, <2>3, Zenon
        <3> QED
            BY <2>1, <2>2, <2>3, <3>1, <3>2, <3>3
    <2>4. CASE /\ PutCryptFtr([cache EXCEPT !.failed = @ + 1])
               /\ wrongs' = wrongs + 1 /\ UNCHANGED <<saved, dm>>
        <3>1. cache' = [cache EXCEPT !.failed = cache.failed + 1] /\ ftr' = cache'
            BY <2>4 DEF PutCryptFtr
        <3>2. cache.failed + 1 \in Nat
            BY <2>1
        <3>3. /\ cache' \in Footers /\ cache'.failed = cache.failed + 1 /\ cache'.key = cache.key
              /\ cache'.prog = cache.prog /\ cache'.pw = cache.pw
            BY <2>1, <3>1, <3>2, FooterFields, ZenonT(30)
        <3> QED
            BY <2>1, <2>2, <2>4, <3>1, <3>3
    <2>5. CASE dm' = [dm EXCEPT !["data"] = Half] /\ UNCHANGED <<ftr, cache, saved, wrongs>>
        BY <2>1, <2>2, <2>5, ZenonT(30)
    <2> QED
        BY <2>3, <2>4, <2>5 DEF CheckPasswd
<1>4. CryptShapes'
    BY <1>1, <1>2, <1>3 DEF CryptInv, CryptShapes
<1>5. FooterOK' /\ SessionOK' /\ EnableOK'
    BY <1>1, <1>3, Zenon DEF CryptInv, FooterOK, SessionOK, EnableOK, Superblock
<1> QED
    BY <1>1, <1>2, <1>3, <1>4, <1>5, Calm DEF CryptInv, CryptShapes, Written, Heard

\* A new password for the same key.
LEMMA ChangePwKeeps ==
    ASSUME CryptInv, NEW pw \in Passwords, ChangePw(pw)
    PROVE  CryptInv'
<1>1. /\ cache' \in Footers /\ cache'.key = cache.key /\ cache'.prog = cache.prog
      /\ cache'.pw \in Passwords /\ cache'.failed = cache.failed /\ ftr' = ftr
    BY Zenon DEF ChangePw, PutCached, EncryptMasterKey, CryptInv, CryptShapes, SessionOK, Footers
<1>2. CryptShapes' /\ FooterOK'
    BY <1>1, Zenon DEF CryptInv, CryptShapes, FooterOK, ChangePw, history, bounds, Superblock
<1>3. SessionOK' /\ EnableOK' /\ cmd'.pc = "idle"
    BY <1>1 DEF CryptInv, SessionOK, EnableOK, ChangePw, Command, history, bounds, Superblock
<1> QED
    BY <1>1, <1>2, <1>3, Calm DEF CryptInv, ChangePw, history, bounds, Written, Heard

\* The restart of the framework on the decrypted /data.
LEMMA RestartKeeps ==
    ASSUME CryptInv, Restart \/ RestartMount \/ RestartPrep
    PROVE  CryptInv'
<1>1. /\ disk' = disk /\ ftr' = ftr /\ cache' = cache /\ crypto' = crypto /\ ui' = ui /\ up' = up
      /\ saved' = saved /\ dm' = dm /\ progress' = progress /\ wrongs' = wrongs /\ wiped' = wiped
      /\ nkeys' = nkeys /\ putFails' = putFails
    BY Zenon DEF Restart, RestartMount, RestartPrep, history, bounds
<1>2. fails' = fails \/ fails' = fails + 1
    BY DEF Restart, RestartMount, RestartPrep, bounds, WaitAndUnmount, PrepDataFs, Fail, Ok
<1>3. /\ crypto = "encrypted" /\ cmd' \in Commands /\ up
      /\ cmd'.pc \in {"idle", "r_unmount", "r_prep"}
    BY IdleFacts DEF Restart, RestartMount, RestartPrep, Command, Step, Go, Done, Idle, CryptInv,
                     CryptShapes, SessionOK, Commands
<1>4. mnt' = "real" => mnt = "real"
    BY Zenon DEF Restart, RestartMount, RestartPrep
<1>5. CryptShapes' /\ FooterOK'
    BY <1>1, <1>2, <1>3 DEF CryptInv, CryptShapes, FooterOK, Superblock
<1>6. SessionOK' /\ EnableOK'
    BY <1>1, <1>3, <1>4 DEF CryptInv, SessionOK, EnableOK, Superblock
<1> QED
    BY <1>1, <1>2, <1>3, <1>5, <1>6, Calm DEF CryptInv, CryptShapes, Written, Heard

\* cryptfs_setup_volume and cryptfs_revert_volume map a volume with the saved key.
LEMMA VolumeKeeps ==
    ASSUME CryptInv, NEW v \in Names \ {"data"}, SetupVolume(v) \/ RevertVolume(v)
    PROVE  CryptInv'
<1>1. /\ disk' = disk /\ ftr' = ftr /\ cache' = cache /\ crypto' = crypto /\ ui' = ui /\ up' = up
      /\ saved' = saved /\ mnt' = mnt /\ fw' = fw /\ cmd' = cmd /\ cmd.pc = "idle"
      /\ progress' = progress /\ wrongs' = wrongs /\ wiped' = wiped
      /\ nkeys' = nkeys /\ putFails' = putFails
    BY DEF SetupVolume, RevertVolume, Command, history, bounds
<1>2. fails' = fails \/ fails' = fails + 1
    BY DEF SetupVolume, RevertVolume, CreateCryptoBlkDev, bounds, Fail, Ok
<1>3. dm' \in [Names -> Int]
    <2>1. dm \in [Names -> Int] /\ Half \in Int /\ cache.key \in Int
        BY FooterTypes, HalfInt DEF CryptInv, CryptShapes
    <2>2. saved # 0 => saved = cache.key
        BY DEF CryptInv, SessionOK
    <2> QED
        BY <2>1, <2>2 DEF SetupVolume, RevertVolume, CreateCryptoBlkDev, DeleteCryptoBlkDev
<1>4. CryptShapes' /\ FooterOK'
    BY <1>1, <1>2, <1>3, SMTT(30) DEF CryptInv, CryptShapes, FooterOK, Superblock
<1>5. SessionOK' /\ EnableOK'
    BY <1>1, Zenon DEF CryptInv, SessionOK, EnableOK, Superblock
<1> QED
    BY <1>1, <1>2, <1>4, <1>5, Calm DEF CryptInv, CryptShapes, Written, Heard

-----------------------------------------------------------------------------
(* cryptfs_enable.                                                         *)

\* The steps before the footer is written, which leave the disk alone.
LEMMA PrepareKeeps ==
    ASSUME CryptInv,
           \/ \E pw \in Passwords, how \in {"inplace", "wipe"} : Enable(how, pw)
           \/ EnableUnmount \/ EnableTmpfs
    PROVE  CryptInv'
<1>1. /\ disk' = disk /\ ftr' = ftr /\ cache' = cache /\ crypto' = crypto /\ ui' = ui /\ up' = up
      /\ saved' = saved /\ dm' = dm /\ wrongs' = wrongs /\ nkeys' = nkeys /\ putFails' = putFails
      /\ up
    BY ZenonT(30) DEF Enable, EnableUnmount, EnableTmpfs, history, Command, Step
<1>2. fails' = fails \/ fails' = fails + 1
    BY ZenonT(30) DEF Enable, EnableUnmount, EnableTmpfs, WaitAndUnmount, PrepDataFs, Fail, Ok
<1>3. wiped' \in BOOLEAN /\ (~wiped' => ~wiped)
    BY ZenonT(30) DEF Enable, EnableUnmount, EnableTmpfs, history, CryptInv, CryptShapes
<1>4. Superblock = <<>> \/ crypto = "encrypted"
    BY Zenon
       DEF Enable, EnableUnmount, EnableTmpfs, Step, CryptInv, CryptShapes, SessionOK, EnableOK
<1>5. /\ cmd' \in Commands /\ cmd'.pc \in {"idle", "unmount", "tmpfs", "footer", "reboot"}
      /\ cmd'.pc \in {"unmount", "tmpfs", "footer"} =>
             /\ cmd'.how \in {"inplace", "wipe"} /\ (cmd'.how = "wipe" => wiped')
             /\ cmd'.pw \in Passwords
      /\ cmd'.pc # "idle" => crypto = "unencrypted"
    <2>1. CASE \E pw \in Passwords, how \in {"inplace", "wipe"} : Enable(how, pw)
        <3>1. PICK pw \in Passwords, how \in {"inplace", "wipe"} : Enable(how, pw)
            BY <2>1, SMTT(30)
        <3>2. CASE cmd' = cmd
            BY <3>1, <3>2, Zenon DEF Enable, Command, CryptInv, CryptShapes
        <3>3. CASE /\ crypto = "unencrypted" /\ wiped' = (how = "wipe" \/ wiped)
                   /\ cmd' = [Idle EXCEPT !.pc = "unmount", !.how = how, !.pw = pw]
            <4>1. /\ cmd' \in Commands /\ cmd'.pc = "unmount" /\ cmd'.how = how
                  /\ cmd'.pw = pw
                BY <3>3, IdleFacts, Zenon DEF Commands
            <4> QED
                BY <3>3, <4>1, Zenon
        <3> QED
            BY <3>1, <3>2, <3>3, Zenon DEF Enable
    <2>2. CASE EnableUnmount \/ EnableTmpfs
        BY <2>2, Zenon
           DEF EnableUnmount, EnableTmpfs, Step, Go, Commands, history, CryptInv, CryptShapes,
                    SessionOK, EnableOK
    <2> QED
        BY <2>1, <2>2, SMTT(30)
<1>6. /\ mnt' = "real" => mnt = "real"
      /\ cmd'.pc \in {"tmpfs", "footer"} => mnt' # "real"
      /\ fw' = "main" => fw = "main" /\ cmd'.pc = "idle"
    BY <1>5, ZenonT(30)
       DEF Enable, EnableUnmount, EnableTmpfs, Step, Go, Commands, CryptInv, CryptShapes,
                SessionOK, Command, Idle
<1>7. CryptShapes' /\ FooterOK'
    BY <1>1, <1>2, <1>3, <1>5 DEF CryptInv, CryptShapes, FooterOK, Superblock
<1>8. SessionOK'
    BY <1>1, <1>4, <1>5, <1>6, Zenon DEF CryptInv, CryptShapes, SessionOK, Superblock
<1>9. EnableOK'
    BY <1>1, <1>4, <1>5, <1>6, Zenon DEF CryptInv, CryptShapes, EnableOK, Superblock
<1> QED
    BY <1>1, <1>2, <1>3, <1>5, <1>7, <1>8, <1>9, Calm, SMTT(30)
       DEF CryptInv, CryptShapes, Written, Heard

\* The footer says "in progress" before the first block is written.
LEMMA EnableFooterKeeps ==
    ASSUME CryptInv, EnableFooter
    PROVE  CryptInv'
<1>1. /\ cmd.pc = "footer" /\ up /\ Superblock = <<>> /\ cmd.pw \in Passwords /\ mnt # "real"
      /\ cmd.how \in {"inplace", "wipe"} /\ (cmd.how = "wipe" => wiped)
      /\ crypto = "unencrypted" /\ fw # "main" /\ ui # "ask" /\ saved = 0
      /\ wrongs \in Nat /\ ~(wrongs > 0)
    BY DEF EnableFooter, Step, CryptInv, CryptShapes, FooterOK, SessionOK, EnableOK
<1>2. /\ disk' = disk /\ up' = up /\ crypto' = crypto /\ mnt' = mnt /\ fw' = fw /\ ui' = ui
      /\ saved' = saved /\ wrongs' = wrongs /\ wiped' = wiped
    BY DEF EnableFooter, history
<1>3. CASE /\ Fail /\ progress' = "error_not_encrypted" /\ Done
           /\ UNCHANGED <<ftr, cache, dm, nkeys, putFails>>
    <2>1. cmd' = Idle /\ fails' = fails + 1
        BY <1>3, Zenon DEF Done, Fail
    <2>2. CryptShapes' /\ FooterOK'
        BY <1>2, <1>3, <2>1, IdleFacts, SMTT(30) DEF CryptInv, CryptShapes, FooterOK, Superblock
    <2>3. SessionOK' /\ EnableOK'
        BY <1>1, <1>2, <2>1, Zenon DEF SessionOK, EnableOK, Superblock, Idle
    <2> QED
        BY <1>2, <1>3, <2>1, <2>2, <2>3, Calm DEF CryptInv, CryptShapes, Written, Heard, Idle
<1>4. CASE /\ nkeys' = nkeys + 1
           /\ \/ PutCryptFtr(NewFooter) /\ UNCHANGED putFails
              \/ putFails' = putFails + 1 /\ UNCHANGED <<ftr, cache>>
           /\ \/ Ok /\ dm' = [d \in Names |-> nkeys + 1]
              \/ Fail /\ \E d \in Names :
                            dm' = [e \in Names |-> IF e = d THEN Half ELSE nkeys + 1]
           /\ cmd' = [cmd EXCEPT !.pc = "work", !.dev = 1, !.todo = 1 .. Blocks]
           /\ UNCHANGED progress
    <2>1. /\ cmd' \in Commands /\ cmd'.pc = "work" /\ cmd'.dev = 1 /\ cmd'.todo = 1 .. Blocks
          /\ cmd'.how = cmd.how
        <3>1. cmd \in Commands /\ 1 \in 1 .. Len(Devices)
            BY DeviceFacts DEF CryptInv, CryptShapes
        <3> QED
            BY <1>4, <3>1, Zenon DEF Commands
    <2>2. /\ nkeys \in Nat /\ nkeys' \in Nat /\ nkeys' > 0
          /\ fails \in Nat /\ (fails' = fails \/ fails' = fails + 1)
          /\ putFails \in Nat /\ (putFails' = putFails \/ putFails' = putFails + 1)
        BY <1>4 DEF CryptInv, CryptShapes, Ok, Fail
    <2>3. \A d \in Names : dm'[d] \in {Half, nkeys'} /\ (fails' = 0 => dm'[d] = nkeys')
        BY <1>4, <2>2 DEF Ok, Fail
    <2>4. dm' \in [Names -> Int]
        BY <1>4, <2>2, HalfInt
    <2>5. /\ NewFooter \in Footers /\ NewFooter.prog /\ NewFooter.key = nkeys'
          /\ NewFooter.pw \in Passwords /\ NewFooter.failed = 0
        BY <1>1, <1>4, <2>2 DEF NewFooter, Footers
    <2>6. ftr' \in Footers /\ cache' \in Footers
        BY <1>4, <2>5, Zenon DEF PutCryptFtr, CryptInv, CryptShapes
    <2>7. CryptShapes'
        BY <1>2, <2>1, <2>2, <2>4, <2>6 DEF CryptInv, CryptShapes
    <2>8. FooterOK'
        <3>1. CASE ftr' = NewFooter /\ cache' = NewFooter
            BY <1>1, <1>2, <2>2, <2>5, <3>1 DEF FooterOK
        <3>2. CASE ftr' = ftr /\ cache' = cache
            BY <1>2, <3>2, Zenon DEF CryptInv, FooterOK, Superblock
        <3> QED
            BY <1>4, <3>1, <3>2 DEF PutCryptFtr
    <2>9. SessionOK' /\ EnableOK'
        BY <1>1, <1>2, <2>1, Zenon DEF SessionOK, EnableOK
    <2>10. ASSUME Written' PROVE Fresh' /\ WorkOK' /\ (~wiped' => DiskOK')
        <3>1. Written /\ cache' = NewFooter
            BY <1>4, <2>2, <2>10, SMTT(30) DEF Written, PutCryptFtr
        <3>2. ~wiped' => \A d \in Names, b \in 1 .. Blocks : disk'[d][b] = <<>>
            BY <1>1, <1>2, <3>1, Zenon DEF CryptInv, DiskOK, Blank
        <3>3. ~wiped' => DiskOK'
            BY <2>5, <3>1, <3>2, DeviceFacts, CryptfsConstants DEF DiskOK, Blank, Superblock
        <3>4. Device' = "data" /\ \A j \in 2 .. Len(Devices) : Devices[j] \in Names \ {"data"}
            BY <2>1, DeviceFacts, SMTT(30) DEF Device
        <3>5. \A d \in Names \ {"data"} : Blank(d)'
            BY <1>1, <1>2, <3>1 DEF CryptInv, Fresh, Blank
        <3>6. UsesKey'
            BY <2>2, <2>3, <2>5, <3>1 DEF UsesKey
        <3>7. Order'
            BY <2>1, <3>4, <3>5 DEF Order
        <3>8. Behind' /\ (~wiped' => Ahead')
            BY <2>1, <3>2, <3>4, DeviceFacts DEF Behind, Ahead
        <3> QED
            BY <2>1, <3>3, <3>5, <3>6, <3>7, <3>8 DEF WorkOK, Fresh
    <2> QED
        BY <2>7, <2>8, <2>9, <2>10 DEF CryptInv
<1> QED
    BY <1>3, <1>4 DEF EnableFooter

-----------------------------------------------------------------------------
(* cryptfs_enable at work.                                                 *)

\* A block is written: in place the next one, which was plain, or any one by a wipe.
LEMMA BlockKeeps ==
    ASSUME CryptInv, Step("work"), NEW b \in cmd.todo, dm[Device] > 0,
           EnableInplace(b) \/ EnableWipe(b), cmd' = [cmd EXCEPT !.todo = @ \ {b}],
           UNCHANGED <<ftr, cache, up, crypto, mnt, fw, ui, saved, restarted, dm, progress,
                       wrongs, wiped, nkeys, fails, putFails>>
    PROVE  CryptInv'
<1>1. /\ cmd \in Commands /\ disk \in Disks /\ dm \in [Names -> Int] /\ b \in 1 .. Blocks
      /\ cmd.dev \in 1 .. Len(Devices) /\ Device \in Names /\ cmd.pc = "work"
    BY DeviceFacts, SMTT(30) DEF CryptInv, CryptShapes, Commands, Device, Step
<1>2. /\ cmd' \in Commands /\ cmd'.pc = "work" /\ cmd'.dev = cmd.dev /\ cmd'.how = cmd.how
      /\ cmd'.todo = cmd.todo \ {b} /\ Device' = Device
    <2>1. cmd' \in Commands /\ cmd'.pc = "work" /\ cmd'.dev = cmd.dev /\ cmd'.how = cmd.how
          /\ cmd'.todo = cmd.todo \ {b}
        BY <1>1 DEF Commands
    <2> QED
        BY <2>1 DEF Device
<1> DEFINE new == IF cmd.how = "wipe" THEN <<dm[Device]>> ELSE Append(disk[Device][b], dm[Device])
<1>3. /\ new \in Seq(Int) /\ new # <<>> /\ disk' = [disk EXCEPT ![Device][b] = new]
      /\ cmd.how = "wipe" \/ disk[Device][b] = <<>> => new = <<dm[Device]>>
    <2>1. disk[Device][b] \in Seq(Int) /\ dm[Device] \in Int
        BY <1>1, Zenon DEF Disks
    <2>2. Append(disk[Device][b], dm[Device]) \in Seq(Int) /\ <<dm[Device]>> \in Seq(Int)
        BY <2>1
    <2>3. Append(disk[Device][b], dm[Device]) # <<>> /\ <<dm[Device]>> # <<>>
        BY <2>1
    <2>4. disk[Device][b] = <<>> => Append(disk[Device][b], dm[Device]) = <<dm[Device]>>
        OBVIOUS
    <2>5. disk' = [disk EXCEPT ![Device][b] = new]
        BY DEF EnableInplace, EnableWipe
    <2> QED
        BY <2>2, <2>3, <2>4, <2>5, SMTT(30)
<1> HIDE DEF new
<1>4. /\ disk' \in Disks /\ disk'[Device][b] = new
      /\ \A d \in Names, c \in 1 .. Blocks :
            d # Device \/ c # b => disk'[d][c] = disk[d][c]
    BY <1>1, <1>3, Zenon DEF Disks
<1>5. CryptShapes'
    BY <1>2, <1>4 DEF CryptInv, CryptShapes
<1>6. Superblock # <<>> => Superblock' # <<>>
    <2>1. "data" \in Names /\ 1 \in 1 .. Blocks
        BY DeviceFacts, CryptfsConstants
    <2> QED
        BY <1>3, <1>4, <2>1 DEF Superblock
<1>7. FooterOK'
    BY <1>6 DEF CryptInv, FooterOK
<1>8. SessionOK' /\ EnableOK'
    BY <1>1, <1>2, <1>6 DEF CryptInv, CryptShapes, SessionOK, EnableOK
<1>9. ASSUME Written' PROVE Fresh' /\ WorkOK' /\ (~wiped' => DiskOK')
    <2>1. /\ Written /\ Fresh /\ UsesKey /\ Order /\ (Counts => Behind) /\ (~wiped => Ahead)
          /\ ~wiped => DiskOK
        BY <1>1, <1>9 DEF Written, CryptInv, WorkOK
    <2>2. (Counts' <=> Counts) /\ (Heard' <=> Heard) /\ Device' = Device /\ UsesKey'
        BY <1>2, <2>1 DEF Counts, Heard, Device, UsesKey
    <2>3. dm[Device] = nkeys /\ nkeys = cache.key /\ cache.prog /\ nkeys > 0
        BY <1>1, <2>1 DEF UsesKey, Half
    <2>4. Counts => new = <<nkeys>>
        BY <1>1, <1>3, <2>1, <2>3 DEF Ahead, Counts
    <2>5. \A j \in 1 .. Len(Devices) : j # cmd.dev => Devices[j] \in Names /\ Devices[j] # Device
        BY <1>1, DeviceFacts DEF Device
    <2>6. cmd'.dev = cmd.dev /\ \A c \in (1 .. Blocks) \ cmd'.todo : c # b => c \notin cmd.todo
        BY <1>1, <1>2
    <2>7. Order'
        <3>1. \A j \in cmd.dev + 1 .. Len(Devices) : j \in 1 .. Len(Devices) /\ j # cmd.dev
            BY <1>1, DeviceFacts, SMTT(30)
        <3>2. \A j \in cmd.dev + 1 .. Len(Devices) : Blank(Devices[j])'
            BY <1>4, <2>1, <2>5, <3>1 DEF Order, Blank
        <3>3. \A c \in (1 .. Blocks) \ cmd'.todo : disk'[Device][c] # <<>>
            BY <1>1, <1>3, <1>4, <2>1, <2>6 DEF Order
        <3>4. cmd.dev # 1 => Superblock' # <<>>
            BY <1>6, <2>1 DEF Order
        <3> QED
            BY <2>2, <2>6, <3>2, <3>3, <3>4 DEF Order
    <2>8. ASSUME Counts PROVE Behind'
        <3>1. cmd.dev # 1 => Under("data", nkeys)' /\ OneKey'
            <4>1. cmd.dev # 1 => "data" # Device /\ "data" \in Names
                BY <1>1, <2>5, DeviceFacts, SMTT(30)
            <4>2. cmd.dev # 1 => Under("data", nkeys)'
                BY <1>4, <2>1, <2>8, <4>1 DEF Behind, Under
            <4>3. cmd.dev # 1 => OneKey'
                BY <1>4, <2>1, <2>4, <2>8 DEF Behind, OneKey
            <4> QED
                BY <4>2, <4>3
        <3>2. ASSUME Heard PROVE \A j \in 1 .. cmd.dev - 1 : Under(Devices[j], nkeys)'
            <4>1. \A j \in 1 .. cmd.dev - 1 : Devices[j] \in Names /\ Devices[j] # Device
                BY <1>1, DeviceFacts DEF Device
            <4>2. \A j \in 1 .. cmd.dev - 1 : Under(Devices[j], nkeys)
                BY <2>1, <2>8, <3>2 DEF Behind
            <4> QED
                BY <1>4, <4>1, <4>2, SMTT(30) DEF Under
        <3>3. \A c \in (1 .. Blocks) \ cmd'.todo : disk'[Device][c] = <<nkeys>>
            BY <1>1, <1>4, <2>1, <2>4, <2>6, <2>8 DEF Behind
        <3> QED
            BY <2>2, <2>6, <3>1, <3>2, <3>3 DEF Behind
    <2>9. ASSUME ~wiped PROVE Ahead' /\ 1 \notin cmd'.todo
        <3>1. \A c \in cmd'.todo : c \in 1 .. Blocks /\ c # b /\ c \in cmd.todo
            BY <1>1, <1>2 DEF Commands
        <3>2. \A c \in cmd'.todo : disk'[Device][c] = <<>>
            BY <1>1, <1>4, <2>1, <2>9, <3>1 DEF Ahead
        <3>3. \A c \in cmd.todo : b <= c
            BY <1>1, <2>9 DEF EnableInplace, EnableWipe, CryptInv, EnableOK
        <3>4. 1 \in cmd.todo => b = 1
            BY <1>1, <3>3
        <3> QED
            BY <2>2, <3>1, <3>2, <3>4 DEF Ahead
    <2>10. WorkOK'
        BY <1>2, <2>2, <2>7, <2>8, <2>9 DEF WorkOK
    <2>11. Fresh'
        <3>1. cmd.dev = 1 => Device = "data"
            BY DeviceFacts DEF Device
        <3>2. Superblock' = <<>> => Device = "data" /\ \A d \in Names \ {"data"} : Blank(d)
            BY <1>6, <2>1, <3>1 DEF Fresh, Order
        <3> QED
            BY <1>4, <3>2 DEF Fresh, Blank
    <2>12. ASSUME ~wiped PROVE DiskOK'
        <3>1. new = <<nkeys>> /\ DiskOK
            BY <2>1, <2>4, <2>12 DEF Counts
        <3>2. \A d \in Names, c \in 1 .. Blocks :
                 disk'[d][c] # <<>> => disk'[d][c] = <<cache.key>> /\ cache.key # 0
            BY <1>4, <2>3, <3>1 DEF DiskOK
        <3>3. Superblock' # <<>>
            <4>1. "data" \in Names /\ 1 \in 1 .. Blocks /\ Devices[1] = "data"
                BY DeviceFacts, CryptfsConstants
            <4>2. cmd.dev = 1 => 1 \notin cmd'.todo /\ Device' = "data"
                BY <2>2, <2>9, <2>12, <4>1, Zenon DEF Device
            <4> QED
                BY <2>6, <2>7, <4>1, <4>2 DEF Order, Superblock
        <3> QED
            BY <2>3, <3>2, <3>3 DEF DiskOK
    <2> QED
        BY <2>10, <2>11, <2>12
<1> QED
    BY <1>5, <1>7, <1>8, <1>9 DEF CryptInv

\* A device is done or given up, and the next one is next, if there is one.
LEMMA NextDeviceKeeps ==
    ASSUME CryptInv, Step("work"), NEW rc \in {0 - 1, 0}, NextDevice(rc),
           UNCHANGED <<disk, ftr, cache, up, crypto, mnt, fw, ui, saved, restarted, dm, progress,
                       wrongs, wiped, nkeys, putFails>>,
           \/ rc = 0 /\ cmd.todo = {} /\ fails' = fails
           \/ rc # 0 /\ fails' = fails + 1
           \/ rc # 0 /\ fails' = fails /\ dm[Device] <= 0
    PROVE  CryptInv'
<1>1. /\ cmd \in Commands /\ cmd.dev \in 1 .. Len(Devices) /\ Device \in Names /\ cmd.pc = "work"
      /\ fails \in Nat /\ Len(Devices) \in Nat
    BY DeviceFacts, SMTT(30) DEF CryptInv, CryptShapes, Commands, Device, Step
<1>2. /\ cmd' \in Commands /\ cmd'.pc \in {"work", "finish"} /\ cmd'.how = cmd.how
      /\ cmd'.pc = "finish" => cmd'.rc = rc /\ (cmd.dev = Len(Devices) \/ rc # 0)
      /\ cmd'.pc = "work" => /\ cmd.dev # Len(Devices) /\ ~(Device = "data" /\ rc # 0)
                             /\ cmd'.dev = cmd.dev + 1 /\ cmd'.todo = 1 .. Blocks
    <2>1. CASE cmd.dev = Len(Devices) \/ (Device = "data" /\ rc # 0)
        <3>1. cmd' = [cmd EXCEPT !.pc = "finish", !.rc = rc, !.todo = {}]
            BY <2>1 DEF NextDevice
        <3>2. cmd' \in Commands /\ cmd'.pc = "finish" /\ cmd'.how = cmd.how /\ cmd'.rc = rc
            BY <1>1, <3>1, Zenon DEF Commands
        <3> QED
            BY <2>1, <3>2
    <2>2. CASE ~(cmd.dev = Len(Devices) \/ (Device = "data" /\ rc # 0))
        <3>1. cmd' = [cmd EXCEPT !.dev = cmd.dev + 1, !.rc = rc, !.todo = 1 .. Blocks]
            BY <2>2 DEF NextDevice
        <3>2. cmd.dev + 1 \in 1 .. Len(Devices)
            BY <1>1, <2>2
        <3>3. /\ cmd' \in Commands /\ cmd'.pc = "work" /\ cmd'.how = cmd.how
              /\ cmd'.dev = cmd.dev + 1 /\ cmd'.todo = 1 .. Blocks
            BY <1>1, <3>1, <3>2, ZenonT(30) DEF Commands
        <3> QED
            BY <2>2, <3>3
    <2> QED
        BY <2>1, <2>2, Zenon
<1>3. CryptShapes' /\ FooterOK'
    BY <1>1, <1>2, SMTT(30) DEF CryptInv, CryptShapes, FooterOK, Superblock
<1>4. SessionOK' /\ EnableOK'
    BY <1>1, <1>2, Zenon DEF CryptInv, CryptShapes, SessionOK, EnableOK, Superblock
<1>5. ASSUME Written' PROVE Fresh' /\ WorkOK' /\ (~wiped' => DiskOK')
    <2>1. /\ Written /\ Fresh /\ UsesKey /\ Order /\ (Counts => Behind) /\ (~wiped => DiskOK)
        BY <1>1, <1>5, Zenon DEF Written, CryptInv, WorkOK
    <2>2. (Counts' <=> Counts) /\ (Heard' => Heard) /\ (rc = 0 => cmd.todo = {})
        BY <1>1, <1>2, SMTT(30) DEF Counts, Heard
    <2>3. rc # 0 => fails' # 0
        <3>1. nkeys \in Int /\ fails \in Int /\ (dm[Device] <= 0 => dm[Device] # nkeys)
            BY <1>1, <2>1, SMTT(30) DEF CryptInv, CryptShapes, UsesKey
        <3> QED
            BY <1>1, <2>1, <3>1, SMTT(30) DEF UsesKey
    <2>4. UsesKey' /\ Fresh' /\ (~wiped' => DiskOK')
        <3>1. UsesKey'
            BY <1>1, <2>1, <2>3, Zenon DEF UsesKey
        <3>2. Fresh'
            BY <2>1, Zenon DEF Fresh, Superblock, Blank
        <3>3. ~wiped' => DiskOK'
            BY <2>1, <2>2, Zenon DEF DiskOK, Superblock, Blank, Under
        <3> QED
            BY <3>1, <3>2, <3>3, Zenon
    <2>5. cmd.dev = 1 => Device = "data"
        BY DeviceFacts, Zenon DEF Device
    <2>6. Counts /\ rc = 0 => Under(Device, nkeys)
        BY <1>1, <2>1, <2>2, Zenon DEF Under, Behind
    <2>7. Counts /\ (rc = 0 \/ Device # "data") => Under("data", nkeys)' /\ OneKey'
        <3>1. Counts /\ (rc = 0 \/ Device # "data") => Under("data", nkeys)
            BY <2>1, <2>5, <2>6, Zenon DEF Behind
        <3>2. cmd.dev = 1 => \A d \in Names \ {"data"} : Blank(d)
            <4>1. \A d \in Names \ {"data"} : \E j \in 2 .. Len(Devices) : d = Devices[j]
                BY DeviceFacts
            <4> QED
                BY <2>1, <4>1, SMTT(30) DEF Order
        <3>3. Counts /\ (rc = 0 \/ Device # "data") => OneKey
            <4>1. CASE cmd.dev # 1
                BY <2>1, <4>1, Zenon DEF Behind
            <4>2. CASE cmd.dev = 1
                BY <3>1, <3>2, <4>2, Zenon DEF OneKey, Under, Blank
            <4> QED
                BY <4>1, <4>2, Zenon
        <3> QED
            BY <3>1, <3>3, Zenon DEF Under, OneKey
    <2>8. Counts /\ Heard' /\ rc = 0 => \A j \in 1 .. cmd.dev : Under(Devices[j], nkeys)'
        <3>1. Counts /\ Heard' => \A j \in 1 .. cmd.dev - 1 : Under(Devices[j], nkeys)
            BY <2>1, <2>2, Zenon DEF Behind
        <3>2. \A j \in 1 .. cmd.dev : j = cmd.dev \/ j \in 1 .. cmd.dev - 1
            BY <1>1
        <3>3. Counts /\ Heard' /\ rc = 0 => \A j \in 1 .. cmd.dev : Under(Devices[j], nkeys)
            BY <2>6, <3>1, <3>2, Zenon DEF Device
        <3> QED
            BY <3>3, Zenon DEF Under
    <2>9. CASE cmd'.pc = "finish"
        <3>1. Counts' /\ cmd'.rc = 0 => rc = 0 /\ cmd.dev = Len(Devices) /\ Counts
            BY <1>2, <2>2, <2>9, Zenon
        <3>2. Counts' /\ cmd'.rc = 0 /\ Heard' => \A d \in Names : Under(d, nkeys)'
            <4>1. \A d \in Names : \E j \in 1 .. Len(Devices) : d = Devices[j]
                BY Zenon DEF Names
            <4> QED
                BY <2>8, <3>1, <4>1, Zenon
        <3>3. Counts' /\ cmd'.rc = 0 => Whole'
            BY <2>7, <3>1, <3>2, Zenon DEF Whole
        <3> QED
            BY <2>4, <2>9, <3>3, Zenon DEF WorkOK
    <2>10. CASE cmd'.pc = "work"
        <3>1. rc = 0 \/ Device # "data"
            BY <1>2, <2>10, Zenon
        <3>2. Heard' => rc = 0
            BY <1>1, <1>2, <2>3, <2>5, <2>10, <3>1, DeviceFacts, SMTT(30) DEF Heard
        <3>3. /\ cmd'.dev = cmd.dev + 1 /\ cmd'.dev - 1 = cmd.dev /\ cmd'.todo = 1 .. Blocks
              /\ cmd'.dev \in cmd.dev + 1 .. Len(Devices)
            BY <1>1, <1>2, <2>10, SMTT(30)
        <3>4. (1 .. Blocks) \ cmd'.todo = {}
            BY <3>3
        <3>5. Counts => Behind'
            BY <2>7, <2>8, <3>1, <3>2, <3>3, <3>4, Zenon DEF Behind
        <3>6. Blank(Device)'
            BY <2>1, <3>3, Zenon DEF Order, Blank, Device
        <3>7. Ahead'
            BY <3>3, <3>6, Zenon DEF Ahead, Blank
        <3>8. Superblock' # <<>>
            <4>1. 1 \in 1 .. Blocks
                BY CryptfsConstants
            <4> QED
                BY <2>1, <2>2, <2>5, <3>1, <4>1, Zenon DEF Order, Superblock
        <3>9. Order'
            <4>1. \A j \in cmd'.dev + 1 .. Len(Devices) : Blank(Devices[j])'
                BY <1>1, <2>1, <3>3, SMTT(30) DEF Order, Blank
            <4> QED
                BY <3>4, <3>8, <4>1, Zenon DEF Order
        <3> QED
            BY <2>2, <2>4, <2>10, <3>5, <3>7, <3>9, Zenon DEF WorkOK
    <2> QED
        BY <1>2, <2>9, <2>10, Zenon
<1> QED
    BY <1>3, <1>4, <1>5, Zenon DEF CryptInv

\* A block, the end of a device, a failure, or a device that is not mapped.
LEMMA EnableWorkKeeps ==
    ASSUME CryptInv, EnableWork
    PROVE  CryptInv'
<1>1. /\ Step("work")
      /\ UNCHANGED <<ftr, cache, up, crypto, mnt, fw, ui, saved, restarted, dm, progress, wrongs,
                     wiped, nkeys, putFails>>
    BY DEF EnableWork, history
<1>2. CASE /\ dm[Device] > 0 /\ Ok
           /\ \E b \in cmd.todo : /\ EnableInplace(b) \/ EnableWipe(b)
                                  /\ cmd' = [cmd EXCEPT !.todo = @ \ {b}]
    BY <1>1, <1>2, BlockKeeps, Zenon DEF Ok
<1>3. CASE cmd.todo = {} /\ NextDevice(0) /\ Ok /\ UNCHANGED disk
    BY <1>1, <1>3, NextDeviceKeeps, Zenon DEF Ok
<1>4. CASE Fail /\ NextDevice(0 - 1) /\ UNCHANGED disk
    BY <1>1, <1>4, NextDeviceKeeps, SMTT(30) DEF Fail
<1>5. CASE dm[Device] <= 0 /\ Ok /\ NextDevice(0 - 1) /\ UNCHANGED disk
    BY <1>1, <1>5, NextDeviceKeeps DEF Ok
<1> QED
    BY <1>2, <1>3, <1>4, <1>5, Zenon DEF EnableWork

\* The flag is cleared when every block is under the key.
LEMMA EnableFinishKeeps ==
    ASSUME CryptInv, EnableFinish
    PROVE  CryptInv'
<1>1. /\ cmd.pc = "finish" /\ cmd \in Commands /\ cache \in Footers /\ crypto = "unencrypted"
      /\ fw # "main" /\ ui # "ask" /\ saved = 0 /\ mnt # "real" /\ up
      /\ cmd.how \in {"inplace", "wipe"} /\ (cmd.how = "wipe" => wiped) /\ wiped \in BOOLEAN
    BY DEF EnableFinish, Step, CryptInv, CryptShapes, SessionOK, EnableOK
<1>2. UNCHANGED <<nkeys, fails, putFails>>
    BY DEF EnableFinish, bounds
<1>3. CASE /\ cmd.rc = 0
           /\ IF cache.key = nkeys THEN PutCryptFtr([cache EXCEPT !.prog = FALSE])
              ELSE UNCHANGED <<ftr, cache>>
           /\ dm' = NoMaps /\ Go("reboot") /\ wiped' = (wiped /\ cmd.how # "wipe")
           /\ UNCHANGED <<disk, up, crypto, mnt, fw, ui, saved, restarted, wrongs>>
    <2>1. /\ cmd' \in Commands /\ cmd'.pc = "reboot" /\ wiped' \in BOOLEAN
        BY <1>1, <1>3 DEF Go, Commands
    <2>2. /\ ftr' \in Footers /\ cache' \in Footers
          /\ ftr'.key = ftr.key /\ cache'.key = cache.key
          /\ ftr'.prog = cache'.prog /\ ftr'.failed >= wrongs /\ cache'.failed >= wrongs
          /\ cache.key # 0 => ftr'.pw \in Passwords /\ cache'.pw \in Passwords
        <3>1. CASE ftr' = [cache EXCEPT !.prog = FALSE] /\ cache' = [cache EXCEPT !.prog = FALSE]
            BY <1>1, <3>1, FooterFields, Zenon DEF CryptInv, FooterOK
        <3>2. CASE ftr' = ftr /\ cache' = cache
            BY <3>2 DEF CryptInv, CryptShapes, FooterOK
        <3> QED
            BY <1>3, <3>1, <3>2 DEF PutCryptFtr
    <2>3. CryptShapes'
        BY <1>2, <1>3, <2>1, <2>2, IdleFacts DEF CryptInv, CryptShapes
    <2>4. FooterOK'
        BY <1>3, <2>2 DEF CryptInv, FooterOK, Superblock
    <2>5. SessionOK' /\ EnableOK'
        BY <1>1, <1>3, <2>1, SMTT(30) DEF SessionOK, EnableOK
    <2>6. ASSUME Written' PROVE Fresh' /\ WorkOK' /\ (~wiped' => DiskOK')
        <3>1. Written /\ Fresh /\ UsesKey /\ (Counts => Whole)
            BY <1>1, <1>2, <1>3, <2>6 DEF Written, CryptInv, WorkOK
        <3>2. Fresh' /\ WorkOK'
            BY <1>3, <2>1, <3>1 DEF Fresh, Superblock, Blank, WorkOK
        <3>3. ASSUME ~wiped' PROVE DiskOK'
            <4>1. Whole /\ disk' = disk /\ cache'.key = nkeys /\ nkeys # 0 /\ (Heard' => Heard)
                <5>1. Counts
                    BY <1>3, <3>3, Zenon DEF Counts
                <5> QED
                    BY <1>2, <1>3, <2>2, <3>1, <5>1 DEF UsesKey, Heard
            <4>2. "data" \in Names /\ 1 \in 1 .. Blocks /\ <<nkeys>> # <<>>
                BY DeviceFacts, CryptfsConstants
            <4>3. Superblock' # <<>>
                BY <4>1, <4>2, Zenon DEF Whole, Under, Superblock
            <4>4. \A d \in Names, b \in 1 .. Blocks : disk'[d][b] \in {<<>>, <<cache'.key>>}
                BY <4>1 DEF Whole, OneKey
            <4>5. Heard' => \A d \in Names : Under(d, cache.key)'
                BY <4>1 DEF Whole, Under
            <4> QED
                BY <4>1, <4>3, <4>4, <4>5, Zenon DEF DiskOK
        <3> QED
            BY <3>2, <3>3
    <2> QED
        BY <2>3, <2>4, <2>5, <2>6 DEF CryptInv
<1>4. CASE Recovery
    BY <1>4, RecoveryKeeps, Zenon DEF EnableFinish
<1>5. CASE /\ progress' = "error_partially_encrypted" /\ dm' = NoMaps /\ Done
           /\ UNCHANGED <<disk, ftr, cache, up, crypto, mnt, fw, ui, saved, restarted, history>>
    <2>1. CryptShapes' /\ FooterOK'
        BY <1>2, <1>5, IdleFacts, Zenon
           DEF CryptInv, CryptShapes, FooterOK, Superblock, Done, history
    <2>2. SessionOK' /\ EnableOK' /\ cmd'.pc = "idle"
        BY <1>1, <1>5, Zenon DEF SessionOK, EnableOK, Done, Idle
    <2> QED
        BY <1>2, <1>5, <2>1, <2>2, Calm, Zenon DEF CryptInv, Written, Heard, history
<1> QED
    BY <1>3, <1>4, <1>5, Zenon DEF EnableFinish

-----------------------------------------------------------------------------
(* All together.                                                           *)

\* Every step of vold, init and the framework preserves the invariant.
LEMMA CryptStep == CryptInv /\ [CryptNext]_cryptVars => CryptInv'
<1> SUFFICES ASSUME CryptInv, [CryptNext]_cryptVars PROVE CryptInv'
    OBVIOUS
<1>1. CASE UNCHANGED cryptVars
    <2>1. CryptShapes' /\ FooterOK' /\ Written' = Written
        BY <1>1, Zenon
           DEF cryptVars, volatile, history, bounds, CryptInv, CryptShapes, FooterOK,
                    Superblock, Written
    <2>2. SessionOK' /\ EnableOK'
        BY <1>1, Zenon
           DEF cryptVars, volatile, history, bounds, CryptInv, SessionOK, EnableOK, Superblock
    <2>3. (WorkOK => WorkOK') /\ wiped' = wiped
        BY <1>1, Zenon
           DEF cryptVars, volatile, history, bounds, WorkOK, UsesKey, Order, Behind, Ahead, Whole,
               OneKey, Heard, Counts, Device, Under, Blank, Superblock
    <2>4. (DiskOK => DiskOK') /\ (Fresh => Fresh')
        BY <1>1, Zenon
           DEF cryptVars, volatile, bounds, DiskOK, Fresh, Heard, Superblock, Under, Blank
    <2> QED
        BY <2>1, <2>2, <2>3, <2>4, Zenon DEF CryptInv
<1>2. CASE \E v \in Names \ {"data"} : SetupVolume(v) \/ RevertVolume(v)
    BY <1>2, VolumeKeeps
<1>3. CASE \E pw \in Passwords : CheckPasswd(pw) \/ ChangePw(pw)
    BY <1>3, CheckPasswdKeeps, ChangePwKeeps
<1>4. CASE \/ \E pw \in Passwords, how \in {"inplace", "wipe"} : Enable(how, pw)
           \/ EnableUnmount \/ EnableTmpfs
    BY <1>4, PrepareKeeps
<1> QED
    BY <1>1, <1>2, <1>3, <1>4, PowerKeeps, FlushKeeps, BootKeeps, FactoryResetKeeps,
       CryptoCompleteKeeps, RestartKeeps, EnableFooterKeeps, EnableWorkKeeps, EnableFinishKeeps
       DEF CryptNext

\* A new device.
LEMMA CryptStart == CryptInit => CryptInv
<1> SUFFICES ASSUME CryptInit PROVE CryptInv
    BY Zenon
<1>1. /\ Plain \in Disks /\ NoFooter \in Footers /\ NoFooter.key = 0 /\ NoFooter.failed = 0
      /\ Idle.pc = "idle"
    BY CryptfsConstants DEF Plain, Disks, NoFooter, Footers, Idle
<1>2. CryptShapes
    BY <1>1, IdleFacts, Zenon DEF CryptInit, CryptShapes
<1>3. \A d \in Names, b \in 1 .. Blocks : disk[d][b] = <<>>
    BY DEF CryptInit, Plain
<1>4. Superblock = <<>>
    BY <1>3, DeviceFacts, CryptfsConstants DEF Superblock
<1>5. ftr = cache /\ ftr.key = 0 /\ ftr.failed = 0 /\ wrongs = 0
    BY <1>1 DEF CryptInit
<1>6. FooterOK
    BY <1>5, SMTT(30) DEF FooterOK
<1>7. SessionOK /\ EnableOK
    BY <1>1, <1>4, Zenon DEF CryptInit, SessionOK, EnableOK
<1>8. WorkOK /\ DiskOK /\ Fresh
    BY <1>1, <1>3, <1>5, Zenon DEF CryptInit, WorkOK, DiskOK, Fresh, Blank
<1> QED
    BY <1>2, <1>6, <1>7, <1>8 DEF CryptInv

\* What the invariant says of a device that is mounted plain.
LEMMA BlankIsPlain ==
    ASSUME CryptShapes, \A d \in Names : Blank(d)
    PROVE  disk = Plain
    BY Zenon DEF CryptShapes, Disks, Blank, Plain

\* The invariant holds throughout.
LEMMA CryptInvariance == CryptSpec => []CryptInv
    BY CryptStart, CryptStep, PTL DEF CryptSpec

\* Whatever power cuts, failing calls and wrong passwords there are, and for any
\* number of blocks and volumes, the user's data is there as long as the footer can
\* be written: cryptfs_enable never leaves it half encrypted where the next boot
\* takes it for plain, nor under a key that the footer has lost, and
\* cryptfs_verify_passwd knows the password of the running device.
THEOREM DataIsSafe == CryptSpec => [](Written => DataSafe)
<1>1. CryptInv => (Written => DataSafe)
    <2> SUFFICES ASSUME CryptInv, Written PROVE PlainIntact /\ KeyRecoverable /\ VerifyWorks
        BY SMTT(30) DEF DataSafe
    <2>1. PlainIntact
        BY BlankIsPlain, Zenon DEF CryptInv, PlainIntact, SessionOK, DiskOK
    <2>2. KeyRecoverable
        BY Zenon DEF CryptInv, KeyRecoverable, DiskOK, FooterOK
    <2>3. VerifyWorks
        BY DEF CryptInv, VerifyWorks, VerifyPasswd, DecryptMasterKey, SessionOK
    <2> QED
        BY <2>1, <2>2, <2>3
<1> QED
    BY <1>1, CryptInvariance, PTL

\* If cryptfs_enable has heard of every failure as well, what vold reports is true:
\* cryptfs_crypto_complete says that the device is encrypted only if all of it is,
\* "error_not_encrypted" is said of plain data, and the count in the footer has
\* every failed attempt.
THEOREM ReportsAreTrue == CryptSpec => [](Written /\ Heard => ReportsTrue)
<1>1. CryptInv => (Written /\ Heard => ReportsTrue)
    <2> SUFFICES ASSUME CryptInv, Written, Heard
                 PROVE  CompleteTruthful /\ WrongsCounted /\ NotEncrypted
        BY Zenon DEF ReportsTrue
    <2>1. CompleteTruthful
        BY Zenon DEF CryptInv, CompleteTruthful, SessionOK, DiskOK, Under
    <2>2. WrongsCounted
        BY Zenon DEF CryptInv, WrongsCounted, FooterOK
    <2>3. NotEncrypted
        BY BlankIsPlain, Zenon DEF CryptInv, NotEncrypted, SessionOK, DiskOK
    <2> QED
        BY <2>1, <2>2, <2>3
<1> QED
    BY <1>1, CryptInvariance, PTL

=============================================================================
