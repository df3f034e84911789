------------------------------ MODULE MCTables ------------------------------
(* Components of which a behaviour shows one and safety is the question:   *)
(* tables, lists and counts, the life of a transport of the debug bridge,  *)
(* the DHCP client, and the suspend thread.                                *)
EXTENDS Integers, Keystore, AdbTransport, DhcpClient, Suspend

CONSTANTS fileA, fileB, valA, valB, pwA, pwB    \* model values

Offers == [s |-> 1, t |-> 2]

VARIABLES part, v1, v2, v3, v4, v5, v6, v7, v8, v9, v10, v11, v12, v13, v14, v15

Bw == INSTANCE Bandwidth WITH
   chain <- v1, counter <- v2, quotaIfaces <- v3, sharedQuotaIfaces <- v4,
    sharedQuotaBytes <- v5, sharedAlertBytes <- v6, globalAlertBytes <- v7,
    globalAlertTetherCount <- v8, naughtyAppUids <- v9, nats <- v10, clean <- v11,
    astray <- v12, fails <- v13, restarts <- v14, calls <- v15, Ifaces <- {"r", "w"},
    Uids <- {"u"}, Bytes <- {1, 2}, CostlyAlerts <- {1}, MaxFails <- 1, MaxNats <- 2,
    MaxRestarts <- 1, MaxCalls <- 4

Tether == INSTANCE NatTables WITH
   tab <- v1, fwd <- v2, masq <- v3, natCount <- v4, nats <- v5, used <- v6, odd <- v7,
    lost <- v8, fails <- v9, gone <- v10, Ints <- {"a", "b"}, Exts <- {"e", "f"},
    Dests <- {"d", "h"}, Slots <- {1, 2}, MaxFails <- 1, MaxGone <- 1

Asec == INSTANCE VoldContainers WITH
   img <- v1, file <- v2, loop <- v3, dm <- v4, mnt <- v5, active <- v6, at <- v7,
    raced <- v8, fails <- v9, restarts <- v10, Asecs <- {"a", "b"}, Obbs <- {"o"},
    Loops <- {1, 2}, MaxImages <- 1, MaxRaces <- 1, MaxFails <- 1, MaxRestarts <- 1

Fde == INSTANCE Fdevent WITH
   fde <- v1, select_n <- v2, list <- v3, call <- v4, bad <- v5, Fds <- {0, 1, 2}

Sparse == INSTANCE SparseFile WITH
   list <- v1, last_used <- v2, want <- v3, Blocks <- 5, BlockWords <- 2, Lens <- {1, 4},
    FillLens <- {2, 4}, Fills <- {1}, MaxAdds <- 4, Room <- 8, Reuse <- TRUE

Cam == INSTANCE CameraMetadata WITH
   m <- v1, was <- v2, Bufs <- {"x", "y"}, Tags <- {1, 2}, TypeSize <- <<1, 2>>,
    Kinds <- {"p", "q"}, Counts <- {1, 2}, EntryCap <- 3, DataCap <- 6, MaxTotal <- 3,
    EmptySorted <- FALSE

all == <<part, keystoreVars, transportVars, dhcpVars, vars, v1, v2, v3, v4, v5, v6, v7, v8,
        v9, v10, v11, v12, v13, v14, v15>>

\* What a part does not use stays 0.
MCInit ==
    \/ part = "bandwidth" /\ Bw!Init
       /\ KeystoreInit /\ master = None
       /\ TransportInit
       /\ DhcpInit
       /\ Init /\ backend = "none"
    \/ part = "nat" /\ Tether!Init
       /\ KeystoreInit /\ master = None
       /\ TransportInit
       /\ DhcpInit
       /\ Init /\ backend = "none"
       /\ v11 = 0 /\ v12 = 0 /\ v13 = 0 /\ v14 = 0 /\ v15 = 0
    \/ part = "containers" /\ Asec!Init
       /\ KeystoreInit /\ master = None
       /\ TransportInit
       /\ DhcpInit
       /\ Init /\ backend = "none"
       /\ v11 = 0 /\ v12 = 0 /\ v13 = 0 /\ v14 = 0 /\ v15 = 0
    \/ part = "fdevent" /\ Fde!Init
       /\ KeystoreInit /\ master = None
       /\ TransportInit
       /\ DhcpInit
       /\ Init /\ backend = "none"
       /\ v6 = 0 /\ v7 = 0 /\ v8 = 0 /\ v9 = 0 /\ v10 = 0 /\ v11 = 0 /\ v12 = 0 /\
          v13 = 0 /\ v14 = 0 /\ v15 = 0
    \/ part = "keystore" /\ KeystoreInit
       /\ TransportInit
       /\ DhcpInit
       /\ Init /\ backend = "none"
       /\ v1 = 0 /\ v2 = 0 /\ v3 = 0 /\ v4 = 0 /\ v5 = 0 /\ v6 = 0 /\ v7 = 0 /\ v8 = 0 /\
          v9 = 0 /\ v10 = 0 /\ v11 = 0 /\ v12 = 0 /\ v13 = 0 /\ v14 = 0 /\ v15 = 0
    \/ part = "sparse" /\ Sparse!Init
       /\ KeystoreInit /\ master = None
       /\ TransportInit
       /\ DhcpInit
       /\ Init /\ backend = "none"
       /\ v4 = 0 /\ v5 = 0 /\ v6 = 0 /\ v7 = 0 /\ v8 = 0 /\ v9 = 0 /\ v10 = 0 /\ v11 = 0 /\
          v12 = 0 /\ v13 = 0 /\ v14 = 0 /\ v15 = 0
    \/ part = "camera" /\ Cam!Init
       /\ KeystoreInit /\ master = None
       /\ TransportInit
       /\ DhcpInit
       /\ Init /\ backend = "none"
       /\ v3 = 0 /\ v4 = 0 /\ v5 = 0 /\ v6 = 0 /\ v7 = 0 /\ v8 = 0 /\ v9 = 0 /\ v10 = 0 /\
          v11 = 0 /\ v12 = 0 /\ v13 = 0 /\ v14 = 0 /\ v15 = 0
    \/ part = "transports" /\ TransportInit
       /\ KeystoreInit /\ master = None
       /\ DhcpInit
       /\ Init /\ backend = "none"
       /\ v1 = 0 /\ v2 = 0 /\ v3 = 0 /\ v4 = 0 /\ v5 = 0 /\ v6 = 0 /\ v7 = 0 /\ v8 = 0 /\
          v9 = 0 /\ v10 = 0 /\ v11 = 0 /\ v12 = 0 /\ v13 = 0 /\ v14 = 0 /\ v15 = 0
    \/ part = "dhcp" /\ DhcpInit
       /\ KeystoreInit /\ master = None
       /\ TransportInit
       /\ Init /\ backend = "none"
       /\ v1 = 0 /\ v2 = 0 /\ v3 = 0 /\ v4 = 0 /\ v5 = 0 /\ v6 = 0 /\ v7 = 0 /\ v8 = 0 /\
          v9 = 0 /\ v10 = 0 /\ v11 = 0 /\ v12 = 0 /\ v13 = 0 /\ v14 = 0 /\ v15 = 0
    \/ part = "suspend" /\ Init
       /\ KeystoreInit /\ master = None
       /\ TransportInit
       /\ DhcpInit
       /\ v1 = 0 /\ v2 = 0 /\ v3 = 0 /\ v4 = 0 /\ v5 = 0 /\ v6 = 0 /\ v7 = 0 /\ v8 = 0 /\
          v9 = 0 /\ v10 = 0 /\ v11 = 0 /\ v12 = 0 /\ v13 = 0 /\ v14 = 0 /\ v15 = 0

MCNext ==
    \/ part = "bandwidth" /\ Bw!Next /\ Bw!FrameworkEnables
       /\ UNCHANGED <<part, keystoreVars, transportVars, dhcpVars, vars>>
    \/ part = "nat" /\ Tether!Next /\ Tether!Regular
       /\ UNCHANGED <<part, keystoreVars, transportVars, dhcpVars, vars, v11, v12, v13, v14, v15>>
    \/ part = "containers" /\ Asec!Next /\ Asec!OneFault
       /\ UNCHANGED <<part, keystoreVars, transportVars, dhcpVars, vars, v11, v12, v13, v14, v15>>
    \/ part = "fdevent" /\ Fde!Next
       /\ UNCHANGED <<part, keystoreVars, transportVars, dhcpVars, vars, v6, v7, v8, v9, v10, v11,
              v12, v13, v14, v15>>
    \/ part = "keystore" /\ KeystoreNext
       /\ UNCHANGED <<part, transportVars, dhcpVars, vars, v1, v2, v3, v4, v5, v6, v7, v8, v9, v10,
              v11, v12, v13, v14, v15>>
    \/ part = "sparse" /\ Sparse!Next
       /\ UNCHANGED <<part, keystoreVars, transportVars, dhcpVars, vars, v4, v5, v6, v7, v8, v9, v10,
              v11, v12, v13, v14, v15>>
    \/ part = "camera" /\ Cam!Next
       /\ UNCHANGED <<part, keystoreVars, transportVars, dhcpVars, vars, v3, v4, v5, v6, v7, v8, v9,
              v10, v11, v12, v13, v14, v15>>
    \/ part = "transports" /\ TransportNext
       /\ UNCHANGED <<part, keystoreVars, dhcpVars, vars, v1, v2, v3, v4, v5, v6, v7, v8, v9, v10,
              v11, v12, v13, v14, v15>>
    \/ part = "dhcp" /\ DhcpNext
       /\ UNCHANGED <<part, keystoreVars, transportVars, vars, v1, v2, v3, v4, v5, v6, v7, v8, v9,
              v10, v11, v12, v13, v14, v15>>
    \/ part = "suspend" /\ Next
       /\ UNCHANGED <<part, keystoreVars, transportVars, dhcpVars, v1, v2, v3, v4, v5, v6, v7, v8, v9,
              v10, v11, v12, v13, v14, v15>>

MCSpec == MCInit /\ [][MCNext]_all

-----------------------------------------------------------------------------
(* Whatever order of quotas, alerts, tethers, penalties, failures and      *)
(* restarts led here, the kernel's chains are the ones that                *)
(* BandwidthController's members describe: quotas, alerts, forward chain   *)
(* and penalty box.                                                        *)
RulesExact == part = "bandwidth" => Bw!RulesExact

(* Whatever NATs and routes were added and removed, commands failed and    *)
(* interfaces vanished, the rules of the kernel and the slots of the       *)
(* secondary tables agree with the counts that NatController and           *)
(* SecondaryTableController keep.                                          *)
NatExact == part = "nat" => Tether!NatExact

(* Between commands the list of active containers, the mounts, the device  *)
(* mapper and the loop devices tell one story: the listed ones are         *)
(* mounted, nothing is left of the others, no image has two loop devices,  *)
(* and what is mounted under an id is that id's image (mountAsec,          *)
(* mountObb, renameAsec, unmountLoopImage and the unwinding in their error *)
(* paths).                                                                 *)
ContainersExact == part = "containers" => Asec!ContainersExact

(* The list of pending events and the range that select is given match the *)
(* state of the installed descriptors, though handlers remove, close and   *)
(* reopen descriptors while the list is being worked off.                  *)
WatchExact == part = "fdevent" => Fde!WatchExact

(* A sparse file holds what was added to it, in order; written out and     *)
(* read back it is the same image; and splitting it into pieces loses and  *)
(* repeats nothing.                                                        *)
FileFaithful == part = "sparse" => Sparse!FileFaithful

(* A packet of metadata keeps its contents: whatever is added, appended,   *)
(* sorted, changed and deleted, each entry has the tag and the values it   *)
(* was given (as get_camera_metadata_entry returns them), every word of    *)
(* the data array belongs to exactly one entry, so that no room is lost,   *)
(* and find_camera_metadata_entry finds each tag that there is, by halving *)
(* or one by one.                                                          *)
PacketExact == part = "camera" => Cam!PacketExact
=============================================================================
