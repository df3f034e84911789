--------------------------- MODULE InitProperties ---------------------------
(***************************************************************************)
(* The property service of init (core/init/property_service.c): what a     *)
(* boot loads and in which order, what property_set accepts, derives and   *)
(* writes to /data/property, and what a power failure leaves of that.      *)
(*                                                                         *)
(* The kinds of properties are sets of names.  On an encrypted device      *)
(* /data is a tmpfs until vold has the key (cryptfs_restart in             *)
(* vold/cryptfs.c); then the real file system is mounted and init is told  *)
(* to load the persistent properties a second time.                        *)
(***************************************************************************)
EXTENDS Integers, FiniteSets, Sequences, SequencesExt

CONSTANTS
    Names,         \* the properties
    ReadOnly,      \* those named ro.*
    Rewritable,    \* ro.secure and ro.debuggable
    Net,           \* those named net.*
    Persist,       \* those named persist.*
    NetChange, Debuggable, MainDev, App2Sd,   \* properties the code names
    Ramdisk, Build,  \* the lines of /default.prop and of the files in /system
    Local,         \* those of /data/local.prop, if /data is encrypted and if not
    Stored,        \* what is in /data/property when the device is first used
    ClientNames,   \* what clients set
    ClientValues,  \* and to what
    Encrypted,     \* whether /data may be encrypted, may be plain, or both
    CountMax,      \* PA_COUNT_MAX
    MaxSets,       \* bound: requests of clients
    MaxCrashes     \* bound: power failures

Unset == "unset"

PropertyConstants ==
    /\ ReadOnly \cup Net \cup Persist \cup ClientNames \subseteq Names
    /\ Rewritable \subseteq ReadOnly
    /\ {NetChange} \subseteq Net /\ {MainDev, App2Sd} \subseteq Persist
    /\ {ReadOnly \cap Net, ReadOnly \cap Persist, Net \cap Persist} = {{}}
    /\ Encrypted \subseteq BOOLEAN
    /\ CountMax \in Nat /\ MaxSets \in Nat /\ MaxCrashes \in Nat

VARIABLES
    area,      \* the property area: the values of the names that are set
    fired,     \* the value property_changed last saw of each name
    lastNet,   \* the net.* property, net.change apart, that was set last
    todo,      \* calls of write_persistent_property to come, first one first
    temp,      \* /data/property/.temp: the file system and the contents
    files,     \* the files in /data/property of the real /data
    views,     \* the states of these files a power failure may leave
    lost,      \* properties whose last write failed
    encrypted, \* whether this device's /data is
    data,      \* what is mounted on /data
    loadDue,   \* vold has triggered load_persist_props
    persistent_properties_loaded,
    pc,        \* how far init is with loading
    asked,     \* values someone asked for, of each persistent property
    sets, crashes   \* what the bounds count

store == <<area, fired, lastNet, todo>>
disk == <<temp, files, views, lost>>
vars == <<store, disk, encrypted, data, loadDue, persistent_properties_loaded, pc, asked, sets, crashes>>

Lines(L) == {L[i] : i \in 1 .. Len(L)}
AllValues == {l[2] : l \in Lines(Ramdisk \o Build \o Local[TRUE] \o Local[FALSE])} \cup ClientValues \cup Names
             \cup {Stored[n] : n \in Persist} \cup {"0", "1"}

(* The type invariant; the area never has more than PA_COUNT_MAX entries.  *)
TypeOK ==
    /\ DOMAIN area \subseteq Names /\ \A n \in DOMAIN area : area[n] \in AllValues
    /\ Cardinality(DOMAIN area) <= CountMax
    /\ DOMAIN fired \subseteq Names
    /\ lastNet \in Net \cup {Unset}
    /\ \A i \in 1 .. Len(todo) : todo[i] \in Persist \X AllValues
    /\ \A F \in views \cup {files} : F \in [Persist -> AllValues \cup {Unset}]
    /\ lost \subseteq Persist
    /\ encrypted \in Encrypted
    /\ data \in {"tmpfs", "real"}
    /\ loadDue \in BOOLEAN /\ persistent_properties_loaded \in BOOLEAN
    /\ pc \in {"start", "readdir", "maindev", "run"}

-----------------------------------------------------------------------------
(* property_set, on a record of the variables in store.                    *)

Here == [area |-> area, fired |-> fired, net |-> lastNet, todo |-> todo]
Becomes(s) == area' = s.area /\ fired' = s.fired /\ lastNet' = s.net /\ todo' = s.todo

(* Mutant: the area has no limit.                                          *)
RefusedIfReadOnly(s, n) == n \in DOMAIN s.area /\ n \in ReadOnly \ Rewritable

(* property_set returns -1: a read-only property that is set already, or a *)
(* new one when the area is full.                                          *)
Refused(s, n) ==
    IF n \in DOMAIN s.area THEN n \in ReadOnly \ Rewritable
    ELSE Cardinality(DOMAIN s.area) = CountMax

Override(f, n, v) == [m \in DOMAIN f \cup {n} |-> IF m = n THEN v ELSE f[m]]
Put(s, n, v) == IF Refused(s, n) THEN s ELSE [s EXCEPT !.area = Override(@, n, v)]
Changed(s, n, v) == [s EXCEPT !.fired = Override(@, n, v)]

(* Mutant: net.change is set only the first time.                          *)
SetNetOnce(s, n, v) ==
    IF NetChange \in DOMAIN s.area THEN [Put(s, n, v) EXCEPT !.net = n]
    ELSE [Put(Put(s, n, v), NetChange, n) EXCEPT !.net = n]

(* The nested property_set("net.change", name); net.change itself returns  *)
(* before property_changed.                                                *)
SetNet(s, n, v) == [Put(Put(s, n, v), NetChange, n) EXCEPT !.net = n]

(* Mutant: defaults are written to disk as well.                           *)
WritesDefaults(s, n, v) ==
    CASE Refused(s, n) -> s
      [] ~Refused(s, n) /\ n = NetChange -> Put(s, n, v)
      [] ~Refused(s, n) /\ n \in Net \ {NetChange} -> Changed(SetNet(s, n, v), n, v)
      [] ~Refused(s, n) /\ n \in Persist ->
             Changed([Put(s, n, v) EXCEPT !.todo = Append(@, <<n, v>>)], n, v)
      [] ~Refused(s, n) /\ n \notin Net \cup Persist -> Changed(Put(s, n, v), n, v)

(* Mutant: setting a net.* property returns what the nested call returns.  *)
ReturnsNested(s, n, v) ==
    CASE Refused(s, n) -> s
      [] ~Refused(s, n) /\ n = NetChange -> Put(s, n, v)
      [] ~Refused(s, n) /\ n \in Net \ {NetChange} -> SetNet(s, n, v)
      [] ~Refused(s, n) /\ n \in Persist /\ persistent_properties_loaded ->
             Changed([Put(s, n, v) EXCEPT !.todo = Append(@, <<n, v>>)], n, v)
      [] ~Refused(s, n) /\ n \notin Net /\ (n \in Persist => ~persistent_properties_loaded) ->
             Changed(Put(s, n, v), n, v)

PropertySet(s, n, v) ==
    CASE Refused(s, n) -> s
      [] ~Refused(s, n) /\ n = NetChange -> Put(s, n, v)
      [] ~Refused(s, n) /\ n \in Net \ {NetChange} -> Changed(SetNet(s, n, v), n, v)
      [] ~Refused(s, n) /\ n \in Persist /\ persistent_properties_loaded ->
             Changed([Put(s, n, v) EXCEPT !.todo = Append(@, <<n, v>>)], n, v)
      [] ~Refused(s, n) /\ n \notin Net /\ (n \in Persist => ~persistent_properties_loaded) ->
             Changed(Put(s, n, v), n, v)

(* load_properties: one property_set per line.                             *)
Load(s, lines) == FoldLeft(LAMBDA t, l : PropertySet(t, l[1], l[2]), s, lines)

(* load_override_properties; local.prop is a file on the real /data.       *)
LoadOverride(s) ==
    IF data = "real" /\ Debuggable \in DOMAIN s.area /\ s.area[Debuggable] = "1"
    THEN Load(s, Local[encrypted]) ELSE s

-----------------------------------------------------------------------------
(* Booting: property_load_boot_defaults has run.  None of the lines of the *)
(* ramdisk is refused or persistent.                                       *)
BootArea == [n \in {l[1] : l \in Lines(Ramdisk)} |->
                (CHOOSE l \in Lines(Ramdisk) : l[1] = n)[2]]

BootData == IF encrypted THEN "tmpfs" ELSE "real"

Init ==
    /\ area = BootArea /\ fired = BootArea /\ lastNet = Unset /\ todo = <<>>
    /\ temp = <<>> /\ lost = {}
    /\ encrypted \in Encrypted
    /\ data = BootData
    /\ loadDue = FALSE /\ persistent_properties_loaded = FALSE
    /\ pc = "start"
    /\ files = Stored /\ views = {Stored}
    /\ asked = [n \in Persist |-> {Stored[n]} \ {Unset}]
    /\ sets = 0 /\ crashes = 0

(* init's thread is not inside write_persistent_property.                  *)
Free == todo = <<>>

(* start_property_service up to load_persistent_properties.                *)
StartPropertyService ==
    /\ pc = "start"
    /\ Becomes(LoadOverride(Load(Here, Build)))
    /\ pc' = "readdir"
    /\ UNCHANGED <<disk, encrypted, data, loadDue, persistent_properties_loaded, asked, sets, crashes>>

OnDisk == IF data = "real" THEN {n \in Persist : files[n] # Unset} ELSE {}

(* Mutant: a property that has a value already is not loaded.              *)
LoadPersistentIfUnset ==
    /\ pc = "readdir" /\ Free
    /\ \E order \in SetToSeqs(OnDisk \ DOMAIN area) :
          Becomes(Load(Here, [i \in DOMAIN order |-> <<order[i], files[order[i]]>>]))
    /\ lost' = lost \ OnDisk
    /\ persistent_properties_loaded' = TRUE
    /\ pc' = IF persistent_properties_loaded THEN "run" ELSE "maindev"
    /\ UNCHANGED <<temp, files, views, encrypted, data, loadDue, asked, sets, crashes>>

(* load_persistent_properties, in whatever order readdir has the files.    *)
LoadPersistent ==
    /\ pc = "readdir" /\ Free
    /\ \E order \in SetToSeqs(OnDisk) :
          Becomes(Load(Here, [i \in DOMAIN order |-> <<order[i], files[order[i]]>>]))
    /\ lost' = lost \ OnDisk
    /\ persistent_properties_loaded' = TRUE
    /\ pc' = IF persistent_properties_loaded THEN "run" ELSE "maindev"
    /\ UNCHANGED <<temp, files, views, encrypted, data, loadDue, asked, sets, crashes>>

Value(n) == IF n \in DOMAIN area THEN area[n] ELSE Unset

(* The rest of start_property_service: with app2sd enabled, the boot       *)
(* loader's parameter decides persist.wmt.maindev.  Then init listens.     *)
StartMainDev ==
    /\ pc = "maindev"
    /\ \E dev \in {"sdcard", "other", ""} :
          LET want == IF dev = "sdcard" THEN "1" ELSE "0"
              need == Value(App2Sd) = "true" /\ (dev = "" \/ Value(MainDev) # want)
          IN  /\ Becomes(IF need THEN PropertySet(Here, MainDev, want) ELSE Here)
              /\ asked' = IF need THEN [asked EXCEPT ![MainDev] = @ \cup {want}] ELSE asked
    /\ pc' = "run"
    /\ UNCHANGED <<disk, encrypted, data, loadDue, persistent_properties_loaded, sets, crashes>>

-----------------------------------------------------------------------------
(* Running.                                                                *)

(* handle_property_set_fd, for a client that may set n.                    *)
HandlePropertySetFd(n, v) ==
    /\ pc = "run" /\ Free /\ sets < MaxSets
    /\ sets' = sets + 1
    /\ Becomes(PropertySet(Here, n, v))
    /\ asked' = IF n \in Persist THEN [asked EXCEPT ![n] = @ \cup {v}] ELSE asked
    /\ UNCHANGED <<disk, encrypted, data, loadDue, persistent_properties_loaded, pc, crashes>>

(* cryptfs_restart: the tmpfs is unmounted, the real /data mounted and     *)
(* vold.decrypt set to trigger_load_persist_props.                         *)
CryptfsRestart ==
    /\ pc = "run" /\ data = "tmpfs"
    /\ data' = "real"
    /\ loadDue' = TRUE
    /\ UNCHANGED <<store, disk, encrypted, persistent_properties_loaded, pc, asked, sets, crashes>>

(* load_persist_props, which init executes when it gets to the trigger.    *)
LoadPersistProps ==
    /\ pc = "run" /\ Free /\ loadDue
    /\ Becomes(LoadOverride(Here))
    /\ pc' = "readdir"
    /\ loadDue' = FALSE
    /\ UNCHANGED <<disk, encrypted, data, persistent_properties_loaded, asked, sets, crashes>>

-----------------------------------------------------------------------------
(* write_persistent_property.                                              *)

Done == todo' = Tail(todo) /\ temp' = <<>> /\ UNCHANGED <<area, fired, lastNet>>
Rest == <<encrypted, data, loadDue, persistent_properties_loaded, pc, asked, sets, crashes>>

(* The temporary file is written.                                          *)
WriteTemp ==
    /\ ~Free /\ temp = <<>>
    /\ temp' = <<data, todo[1][2]>>
    /\ UNCHANGED <<store, files, views, lost, Rest>>

(* Mutant: the file is truncated and written in place.                     *)
RenameInPlace ==
    /\ ~Free /\ temp # <<>> /\ temp[1] = data
    /\ LET n == todo[1][1]
       IN  /\ files' = IF data = "real" THEN [files EXCEPT ![n] = temp[2]] ELSE files
           /\ views' = views \cup {files', [files EXCEPT ![n] = ""]}
           /\ lost' = lost \ {n}
    /\ Done
    /\ UNCHANGED Rest

(* rename replaces the file; it is not forced to disk.                     *)
Rename ==
    /\ ~Free /\ temp # <<>> /\ temp[1] = data
    /\ LET n == todo[1][1]
       IN  /\ files' = IF data = "real" THEN [files EXCEPT ![n] = temp[2]] ELSE files
           /\ views' = views \cup {files'}
           /\ lost' = lost \ {n}
    /\ Done
    /\ UNCHANGED Rest

(* open or rename fails; the error is only logged.                         *)
WriteFails ==
    /\ ~Free
    /\ lost' = lost \cup {todo[1][1]}
    /\ Done
    /\ UNCHANGED <<files, views, Rest>>

(* The kernel writes back.                                                 *)
Sync ==
    /\ views # {files}
    /\ views' = {files}
    /\ UNCHANGED <<store, temp, files, lost, Rest>>

(* The power fails; data reaches the disk before the rename that makes it  *)
(* visible, but the last renames may be undone.                            *)
PowerFailure ==
    /\ crashes < MaxCrashes
    /\ crashes' = crashes + 1
    /\ \E F \in views : files' = F /\ views' = {F}
    /\ Becomes([area |-> BootArea, fired |-> BootArea, net |-> Unset, todo |-> <<>>])
    /\ temp' = <<>> /\ lost' = {}
    /\ data' = BootData
    /\ loadDue' = FALSE /\ persistent_properties_loaded' = FALSE
    /\ pc' = "start"
    /\ UNCHANGED <<encrypted, asked, sets>>

Next ==
    \/ StartPropertyService \/ LoadPersistent \/ StartMainDev
    \/ \E n \in ClientNames, v \in ClientValues : HandlePropertySetFd(n, v)
    \/ CryptfsRestart \/ LoadPersistProps
    \/ WriteTemp \/ Rename \/ WriteFails
    \/ Sync \/ PowerFailure

Spec == Init /\ [][Next]_vars

-----------------------------------------------------------------------------
(* Properties.                                                             *)

(* The comment in property_set: properties are not written to disk until   *)
(* all defaults have been read "to prevent them from being overwritten by  *)
(* default values".  Whatever a power failure leaves in /data/property,    *)
(* every file holds a value somebody set; never one of a .prop file.       *)
DefaultsStayOffDisk ==
    \A F \in views : \A n \in Persist : F[n] \in asked[n] \cup {Unset}

(* Once the files of the real /data are loaded, memory and disk agree on   *)
(* every persistent property, unless its last write failed or the area was *)
(* full: a stored value wins over every default and over what was set      *)
(* while /data was a tmpfs.                                                *)
StoredValueWins ==
    pc = "run" /\ Free /\ data = "real" /\ ~loadDue =>
        \A n \in (Persist \cap DOMAIN area) \ lost : files[n] \in {area[n], Unset}

(* net.change names the net.* property that was set last, if it found room *)
(* in the area.                                                            *)
NetChangeTracks ==
    lastNet # Unset /\ NetChange \in DOMAIN area => area[NetChange] = lastNet

(* property_changed sees every value a property gets, the nested call and  *)
(* the several ways to set one notwithstanding, so that its triggers can   *)
(* be queued.  The exception is net.change, for which property_set returns *)
(* early.                                                                  *)
TriggersSeeAll ==
    \A n \in DOMAIN area \ {NetChange} : n \in DOMAIN fired /\ fired[n] = area[n]

\* The persistent properties in memory and on disk agree: files hold only values
\* that somebody asked for, and what was loaded or set is what the file holds,
\* over power failures, failed writes and a second load after decryption.
PersistExact == DefaultsStayOffDisk /\ StoredValueWins
=============================================================================
