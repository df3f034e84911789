------------------------------ MODULE Keystore ------------------------------
(***************************************************************************)
(* The credential store (security/keystore/keystore.cpp).  Blobs are files *)
(* encrypted with a master key; the master key is a file encrypted with a  *)
(* key made from the password.  The daemon serves one request at a time; a *)
(* write goes to ".tmp" and is renamed, so a request either replaces a     *)
(* file or leaves it, and the daemon may die after any of them.            *)
(***************************************************************************)
EXTENDS Naturals, FiniteSets

CONSTANTS
    Files,      \* the names of blobs, <uid>_<key>
    Vals,       \* what is stored in them
    Pws,        \* passwords
    MaxKeys,    \* bound on the master keys that are generated
    OldMaster   \* TRUE: the store may start with a master key file without salt

MaxRetry == 4
None == [none |-> TRUE]
Zero == 0       \* the cleared (or never set) mMasterKey

VARIABLES
    mState, mRetry, mMasterKey,
    master,     \* .masterkey: [key, pw, salt], or None
    files,      \* files[f] = [val, key, type, version], or None
    keys,       \* master keys generated so far
    reply,      \* the last value sent: [file, val], or None
    kept,       \* history: what a client has stored in each file, or None
    wrongs      \* history: wrong passwords since the store was locked

keystoreVars == <<mState, mRetry, mMasterKey, master, files, keys, reply, kept, wrongs>>

Garbled == "garbled"
Blobs == [val : Vals, key : 0 .. MaxKeys, type : {"generic", "pair"}, version : {0, 1}]

KeystoreTypeOK ==
    /\ mState \in {"UNINITIALIZED", "LOCKED", "NO_ERROR"} /\ mRetry \in 0 .. MaxRetry
    /\ mMasterKey \in 0 .. keys /\ keys \in 0 .. MaxKeys /\ wrongs \in 0 .. MaxRetry + 1
    /\ master \in [key : 0 .. MaxKeys, pw : Pws, salt : BOOLEAN] \cup {None}
    /\ \A f \in Files : files[f] \in Blobs \cup {None} /\ kept[f] \in Vals \cup {None}

(* The constructor: no key in memory, locked when there is a key file.     *)
KeystoreInit ==
    /\ mRetry = MaxRetry /\ mMasterKey = Zero /\ keys = 1 /\ reply = None /\ wrongs = 0
    /\ master \in [key : {1}, pw : Pws, salt : IF OldMaster THEN BOOLEAN ELSE {TRUE}] \cup {None}
    /\ mState = IF master = None THEN "UNINITIALIZED" ELSE "LOCKED"
    /\ files \in [Files -> [val : Vals, key : {1}, type : {"generic"}, version : {0, 1}] \cup {None}]
    /\ master = None => \A f \in Files : files[f] = None
    /\ kept = [f \in Files |-> IF files[f] = None THEN None ELSE files[f].val]

(* Mutant: unlocking does not give the retries back.                       *)
SetStateStingy(s) ==
    mState' = s /\ mRetry' = IF s = "UNINITIALIZED" THEN MaxRetry ELSE mRetry

(* setState: two of the three states give the retries back.                *)
SetState(s) ==
    /\ mState' = s
    /\ mRetry' = IF s \in {"NO_ERROR", "UNINITIALIZED"} THEN MaxRetry ELSE mRetry

(* Mutant: changing the password makes a new master key.                   *)
ChangeNewKey(pw) ==
    /\ keys < MaxKeys /\ keys' = keys + 1 /\ mMasterKey' = keys + 1
    /\ master' = [key |-> keys + 1, pw |-> pw, salt |-> TRUE]
    /\ UNCHANGED <<mState, mRetry, files, kept, wrongs>>

(* password() while unlocked: writeMasterKey.                              *)
Change(pw) ==
    /\ master' = [key |-> mMasterKey, pw |-> pw, salt |-> TRUE]
    /\ UNCHANGED <<mState, mRetry, mMasterKey, files, keys, kept, wrongs>>

(* Mutant: the outcome of the write is not looked at.                      *)
InitializeBlind(pw, ok) ==
    /\ keys < MaxKeys /\ keys' = keys + 1 /\ mMasterKey' = keys + 1 /\ SetState("NO_ERROR")
    /\ master' = IF ok THEN [key |-> keys + 1, pw |-> pw, salt |-> TRUE] ELSE master
    /\ UNCHANGED <<files, kept, wrongs>>

(* password() the first time: generateMasterKey, writeMasterKey (which may *)
(* fail and leave the new key in memory) and setupMasterKeys.              *)
Initialize(pw, ok) ==
    /\ keys < MaxKeys /\ keys' = keys + 1 /\ mMasterKey' = keys + 1
    /\ IF ok THEN /\ master' = [key |-> keys + 1, pw |-> pw, salt |-> TRUE]
                  /\ SetState("NO_ERROR")
             ELSE UNCHANGED <<master, mState, mRetry>>
    /\ UNCHANGED <<files, kept, wrongs>>

(* reset: clears the key, then removes what it can list.  `left` is what   *)
(* stays behind: nothing, or everything when the directory does not open.  *)
ResetStore(left) ==
    /\ mMasterKey' = Zero /\ SetState("UNINITIALIZED")
    /\ files' = [f \in Files |-> IF f \in left THEN files[f] ELSE None]
    /\ kept' = [f \in Files |-> None] /\ wrongs' = 0

(* readMasterKey.  A file without salt is written again, with what is in   *)
(* mMasterKey at that point, before the key that was read is put there.    *)
ReadMasterKey(pw, ok) ==
    \/ /\ master.pw = pw /\ master.salt
       /\ mMasterKey' = master.key /\ SetState("NO_ERROR") /\ wrongs' = 0
       /\ UNCHANGED <<master, files, keys, kept>>
    \/ /\ master.pw = pw /\ ~master.salt /\ ok
       /\ master' = [key |-> mMasterKey, pw |-> pw, salt |-> TRUE]
       /\ mMasterKey' = master.key /\ SetState("NO_ERROR") /\ wrongs' = 0
       /\ UNCHANGED <<files, keys, kept>>
    \/ /\ master.pw # pw /\ mRetry > 0
       /\ mRetry' = mRetry - 1 /\ wrongs' = wrongs + 1
       /\ UNCHANGED <<mState, mMasterKey, master, files, keys, kept>>
    \/ /\ master.pw # pw /\ mRetry = 0
       /\ ResetStore({}) /\ master' = None /\ UNCHANGED keys

Password(pw, ok) ==
    /\ reply' = None
    /\ \/ mState = "UNINITIALIZED" /\ Initialize(pw, ok)
       \/ mState = "NO_ERROR" /\ ok /\ Change(pw)
       \/ mState = "LOCKED" /\ master # None /\ ReadMasterKey(pw, ok)

Lock ==
    /\ mState = "NO_ERROR" /\ mMasterKey' = Zero /\ SetState("LOCKED") /\ reply' = None
    /\ UNCHANGED <<master, files, keys, kept, wrongs>>

(* The reset request; the directory may fail to open.                      *)
Reset ==
    /\ reply' = None /\ UNCHANGED keys
    /\ \/ ResetStore({}) /\ master' = None
       \/ ResetStore(Files) /\ UNCHANGED master

(* The daemon dies in the middle of a reset and is started again; it also  *)
(* dies and restarts between two requests.                                 *)
Restarted ==
    /\ mMasterKey' = Zero /\ mRetry' = MaxRetry /\ reply' = None /\ wrongs' = 0
    /\ mState' = IF master' = None THEN "UNINITIALIZED" ELSE "LOCKED"
    /\ UNCHANGED keys
ResetDies ==
    /\ master' \in {master, None} /\ Restarted /\ kept' = [f \in Files |-> None]
    /\ \E left \in SUBSET Files :
          files' = [f \in Files |-> IF f \in left THEN files[f] ELSE None]
Dies == UNCHANGED <<master, files, kept>> /\ Restarted

(* KeyStore::get finds a blob under the key in memory; an old one is given *)
(* the type that is asked for and written back, encrypted where it lies in *)
(* memory, and what is left there is what the caller then sees.            *)
Readable(f) == files[f] # None /\ files[f].key = mMasterKey
Upgraded(f, type) == [val |-> files[f].val, key |-> mMasterKey, version |-> 1,
                      type |-> IF files[f].version = 0 THEN type ELSE files[f].type]
Finds(f, type) == Readable(f) /\ Upgraded(f, type).type = type
Seen(f) == IF files[f].version = 0 THEN Garbled ELSE files[f].val

(* get, and get_pubkey, sign and verify (which ask for a key pair).        *)
Get(f, type) ==
    /\ mState = "NO_ERROR" /\ Readable(f)
    /\ files' = [files EXCEPT ![f] = Upgraded(f, type)]
    /\ reply' = IF Finds(f, type) THEN [file |-> f, val |-> Seen(f)] ELSE None
    /\ UNCHANGED <<mState, mRetry, mMasterKey, master, keys, kept, wrongs>>

(* Mutant: a failed write has already truncated the file.                  *)
PutInPlace(f, v, type, ok) ==
    /\ mState = "NO_ERROR" /\ reply' = None
    /\ files' = [files EXCEPT ![f] = IF ok THEN [val |-> v, key |-> mMasterKey, type |-> type, version |-> 1]
                                     ELSE None]
    /\ kept' = [kept EXCEPT ![f] = IF ok THEN v ELSE @]
    /\ UNCHANGED <<mState, mRetry, mMasterKey, master, keys, wrongs>>

(* insert, generate and import: put, which may fail.                       *)
Put(f, v, type, ok) ==
    /\ mState = "NO_ERROR" /\ reply' = None
    /\ IF ok THEN /\ files' = [files EXCEPT ![f] = [val |-> v, key |-> mMasterKey, type |-> type,
                                                    version |-> 1]]
                  /\ kept' = [kept EXCEPT ![f] = v]
             ELSE UNCHANGED <<files, kept>>
    /\ UNCHANGED <<mState, mRetry, mMasterKey, master, keys, wrongs>>

(* del and del_key, in any state: a blob that cannot be read stays.        *)
Del(f, type) ==
    /\ Readable(f) /\ reply' = None
    /\ IF Finds(f, type) THEN /\ files' = [files EXCEPT ![f] = None]
                              /\ kept' = [kept EXCEPT ![f] = None]
                         ELSE /\ files' = [files EXCEPT ![f] = Upgraded(f, type)]
                              /\ UNCHANGED kept
    /\ UNCHANGED <<mState, mRetry, mMasterKey, master, keys, wrongs>>

KeystoreNext ==
    \/ \E pw \in Pws, ok \in BOOLEAN : Password(pw, ok)
    \/ Lock \/ Reset \/ ResetDies \/ Dies
    \/ \E f \in Files, type \in {"generic", "pair"} :
          Get(f, type) \/ Del(f, type) \/ \E v \in Vals, ok \in BOOLEAN : Put(f, v, type, ok)

KeystoreSpec == KeystoreInit /\ [][KeystoreNext]_keystoreVars
-----------------------------------------------------------------------------
(* "This avoids permanent damages of the existing data": what a client has *)
(* stored, and nobody has deleted or reset, is in its file under the       *)
(* master key that the password opens, after any sequence of locks, wrong  *)
(* and new passwords, failed writes and restarts.                          *)
KeptRecoverable ==
    \A f \in Files : kept[f] # None =>
        /\ files[f] # None /\ files[f].val = kept[f]
        /\ master # None /\ files[f].key = master.key

(* While unlocked the key in memory is the one in the master key file, so  *)
(* that what is written now can be read after the next unlock.             *)
KeyInMemoryIsKeyOnDisk == mState = "NO_ERROR" => master # None /\ mMasterKey = master.key

(* The retries that are left are the ones not used since the store was     *)
(* locked or the daemon started: the fifth wrong password, and no earlier  *)
(* one, wipes the store.                                                   *)
RetryExact == mState = "LOCKED" => mRetry + wrongs = MaxRetry

\* What was stored can be read back after any sequence of password changes,
\* locks, resets and interrupted writes; the key in memory is the key that the
\* master key file on disk protects; and of the wrong passwords the fifth, and no
\* earlier one, wipes the store.
KeysKept == KeptRecoverable /\ KeyInMemoryIsKeyOnDisk /\ RetryExact
=============================================================================
