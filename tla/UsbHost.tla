------------------------------- MODULE UsbHost -------------------------------
(***************************************************************************)
(* The USB devices of the adb server on Linux (usb_linux.c).  A thread     *)
(* looks for devices once a second, opens the new ones and kicks the ones  *)
(* that are gone.  A device that can be written to has a transport with    *)
(* two threads: the reader submits and reaps transfers, also those of the  *)
(* writer, which waits for them.  The last thread to go closes the handle, *)
(* with transport_lock held.                                               *)
(*                                                                         *)
(* A critical section under the lock of a handle is one step, since no     *)
(* thread waits for anything else in it; usb_lock and transport_lock are   *)
(* state where one is taken with the other held.                           *)
(***************************************************************************)
EXTENDS Naturals, Sequences, FiniteSets

CONSTANTS
    Names,       \* names below /dev/bus/usb
    Kinds,       \* Kinds[n]: what a device at n may allow: "rw", "ro", or "busy", since
                 \* another program has claimed it
    MaxQueue     \* bound: packets that wait for the writer

VARIABLES
    plug,       \* plug[n]: the kind of the device at n, or "out"
    h,          \* h[n]: the handle of the device, or None
    fly,        \* fly[n]: transfers that the kernel works on
    comp,       \* comp[n]: transfers that are complete and not yet reaped
    got,        \* got[n]: what REAPURB returned to the reader
    rd, wr,     \* where the threads of the transport are
    ref,        \* ref[n]: reference count of the transport
    kicked,     \* transports with t->kicked
    offline,    \* transports whose SYNC(0) the main loop has not yet read
    toIn,       \* toIn[n]: packets from the main loop to the writer
    regq,       \* registrations on their way to the main loop
    tlist,      \* transports on transport_list
    ulock,      \* usb_lock is held by the thread that looks for devices
    tlock,      \* transport_lock is held by the threads of a transport that closes
    poll        \* the thread that looks for devices

vars == <<plug, h, fly, comp, got, rd, wr, ref, kicked, offline, toIn, regq, tlist, ulock, tlock,
          poll>>
device == <<h, fly, comp>>
transport == <<got, rd, wr, ref, kicked, offline, toIn>>
lists == <<regq, tlist, ulock, tlock>>

None == [st |-> "none", rw |-> FALSE, mark |-> FALSE, dead |-> FALSE, outBusy |-> FALSE]
Listed == {n \in Names : h[n].st = "listed"}
Urb(u, ok) == [urb |-> u, ok |-> ok]
Nothing == Urb("none", FALSE)
Signal == Urb("signal", FALSE)
Error == Urb("error", FALSE)
Pending(n) == fly[n] \cup {comp[n][i].urb : i \in 1 .. Len(comp[n])}

TypeOK ==
    /\ \A n \in Names : plug[n] \in {"out"} \cup Kinds[n]
    /\ \A n \in Names : h[n].st \in {"none", "new", "listed"}
    /\ fly \in [Names -> SUBSET {"in", "out"}]
    /\ rd \in [Names -> {"none", "submit", "enter", "block", "return", "offline", "kick",
                         "unref", "close"}]
    /\ wr \in [Names -> {"none", "read", "submit", "wait", "kick", "unref", "close"}]
    /\ ref \in [Names -> 0 .. 2]
    /\ poll.pc \in {"scan", "open", "add", "lock", "kick"}

Init ==
    /\ plug = [n \in Names |-> "out"]
    /\ h = [n \in Names |-> None] /\ fly = [n \in Names |-> {}]
    /\ comp = [n \in Names |-> <<>>] /\ got = [n \in Names |-> Nothing]
    /\ rd = [n \in Names |-> "none"] /\ wr = [n \in Names |-> "none"]
    /\ ref = [n \in Names |-> 0] /\ kicked = {} /\ offline = {}
    /\ toIn = [n \in Names |-> <<>>] /\ regq = <<>> /\ tlist = {}
    /\ ulock = FALSE /\ tlock = FALSE
    /\ poll = [pc |-> "scan", todo |-> Names, dev |-> {}]

-----------------------------------------------------------------------------
(* The kernel.  A name is not used again while the device is open.         *)
Plug(n) ==
    /\ plug[n] = "out" /\ h[n] = None
    /\ \E k \in Kinds[n] : plug' = [plug EXCEPT ![n] = k]
    /\ UNCHANGED <<device, transport, lists, poll>>

Unplug(n) ==
    /\ plug[n] # "out" /\ plug' = [plug EXCEPT ![n] = "out"]
    /\ UNCHANGED <<device, transport, lists, poll>>

(* A transfer ends, and fails if the device is gone.                       *)
Complete(n) ==
    /\ \E u \in fly[n], ok \in BOOLEAN :
          /\ ok => plug[n] # "out"
          /\ fly' = [fly EXCEPT ![n] = @ \ {u}]
          /\ comp' = [comp EXCEPT ![n] = Append(@, Urb(u, ok))]
    /\ UNCHANGED <<plug, h, transport, lists, poll>>

-----------------------------------------------------------------------------
(* find_usb_device: the names in the directory, in any order; known_device *)
(* marks the ones that have a handle, the others are opened.               *)
Scan(n) ==
    /\ poll.pc = "scan" /\ n \in poll.todo
    /\ IF plug[n] # "out" /\ n \in Listed
       THEN /\ ~ulock /\ h' = [h EXCEPT ![n].mark = TRUE]
            /\ poll' = [poll EXCEPT !.todo = @ \ {n}]
       ELSE /\ poll' = IF plug[n] = "out" THEN [poll EXCEPT !.todo = @ \ {n}]
                       ELSE [pc |-> "open", todo |-> poll.todo \ {n}, dev |-> {n}]
            /\ UNCHANGED h
    /\ UNCHANGED <<plug, fly, comp, transport, lists>>

(* register_device: the device is opened, for reading only if need be, and *)
(* given up if it is gone or another program has claimed it.               *)
Open ==
    /\ poll.pc = "open"
    /\ \E n \in poll.dev :
       IF plug[n] \in {"rw", "ro"}
       THEN /\ h' = [h EXCEPT ![n] = [None EXCEPT !.st = "new", !.mark = TRUE,
                                                  !.rw = plug[n] = "rw"]]
            /\ poll' = [poll EXCEPT !.pc = "add"]
       ELSE /\ poll' = [poll EXCEPT !.pc = "scan", !.dev = {}]
            /\ UNCHANGED h
    /\ UNCHANGED <<plug, fly, comp, transport, lists>>

(* The handle goes onto the list, and its transport to the main loop.      *)
AddDevice ==
    /\ poll.pc = "add" /\ ~ulock
    /\ \E n \in poll.dev : /\ h' = [h EXCEPT ![n].st = "listed"]
                           /\ regq' = Append(regq, <<n, 1>>)
    /\ poll' = [poll EXCEPT !.pc = "scan", !.dev = {}]
    /\ UNCHANGED <<plug, fly, comp, transport, tlist, ulock, tlock>>

(* DISCARDURB, which does nothing to a transfer that is not under way.     *)
Discard(s, n, u) == IF u \in fly[n] THEN Append(s, Urb(u, FALSE)) ELSE s

(* Mutant: what the reader waits for is not cancelled.                     *)
UsbKickNoDiscard(n) ==
    IF h[n].dead THEN UNCHANGED <<device, got>>
    ELSE /\ h' = [h EXCEPT ![n].dead = TRUE, ![n].outBusy = FALSE]
         /\ got' = [got EXCEPT ![n] = IF rd[n] = "block" THEN Signal ELSE @]
         /\ UNCHANGED <<fly, comp>>

(* usb_kick of a handle that can be written to: the signal ends a REAPURB  *)
(* that has begun, the transfers are cancelled, and the writer is woken.   *)
UsbKick(n) ==
    IF h[n].dead THEN UNCHANGED <<device, got>>
    ELSE /\ h' = [h EXCEPT ![n].dead = TRUE, ![n].outBusy = FALSE]
         /\ fly' = [fly EXCEPT ![n] = {}]
         /\ comp' = [comp EXCEPT ![n] = Discard(Discard(@, n, "in"), n, "out")]
         /\ got' = [got EXCEPT ![n] = IF rd[n] = "block" THEN Signal ELSE @]

(* kick_disconnected_devices, with usb_lock held throughout.               *)
LockList ==
    /\ poll.pc = "scan" /\ poll.todo = {} /\ ~ulock
    /\ ulock' = TRUE /\ poll' = [poll EXCEPT !.pc = "kick", !.todo = Listed]
    /\ UNCHANGED <<plug, device, transport, regq, tlist, tlock>>

(* A handle without a mark is kicked; one that is read-only has its        *)
(* transport taken off the list (unregister_usb_transport).                *)
KickOrUnmark(n) ==
    /\ poll.pc = "kick" /\ n \in poll.todo
    /\ poll' = [poll EXCEPT !.todo = @ \ {n}]
    /\ \/ /\ h[n].mark /\ h' = [h EXCEPT ![n].mark = FALSE]
          /\ UNCHANGED <<fly, comp, got, tlist>>
       \/ /\ ~h[n].mark /\ (h[n].rw \/ h[n].dead) /\ UsbKick(n) /\ UNCHANGED tlist
       \/ /\ ~h[n].mark /\ ~h[n].rw /\ ~h[n].dead /\ ~tlock
          /\ h' = [h EXCEPT ![n].dead = TRUE] /\ tlist' = tlist \ {n}
          /\ UNCHANGED <<fly, comp, got>>
    /\ UNCHANGED <<plug, rd, wr, ref, kicked, offline, toIn, regq, ulock, tlock>>

UnlockList ==
    /\ poll.pc = "kick" /\ poll.todo = {}
    /\ ulock' = FALSE /\ poll' = [poll EXCEPT !.pc = "scan", !.todo = Names]
    /\ UNCHANGED <<plug, device, transport, regq, tlist, tlock>>

PollThread ==
    \/ \E n \in Names : Scan(n) \/ KickOrUnmark(n)
    \/ Open \/ AddDevice \/ LockList \/ UnlockList

-----------------------------------------------------------------------------
(* transport_registration_func: threads for a device that can be written   *)
(* to; the transport of one that is done is freed.                         *)
Registration ==
    /\ regq # <<>> /\ ~tlock /\ regq' = Tail(regq)
    /\ LET n == Head(regq)[1] IN
       \/ /\ Head(regq)[2] = 1 /\ tlist' = tlist \cup {n}
          /\ IF h[n].rw
             THEN /\ ref' = [ref EXCEPT ![n] = 2]
                  /\ rd' = [rd EXCEPT ![n] = "submit"] /\ wr' = [wr EXCEPT ![n] = "read"]
             ELSE UNCHANGED <<ref, rd, wr>>
          /\ UNCHANGED <<kicked, toIn>>
       \/ /\ Head(regq)[2] = 0 /\ tlist' = tlist \ {n}
          /\ kicked' = kicked \ {n} /\ toIn' = [toIn EXCEPT ![n] = <<>>]
          /\ UNCHANGED <<ref, rd, wr>>
    /\ UNCHANGED <<plug, device, got, offline, ulock, tlock, poll>>

(* The main loop sends a packet, and passes SYNC(0) on to the writer.      *)
SendPacket(n) ==
    /\ rd[n] \in {"submit", "enter", "block", "return", "offline"} \/ n \in offline
    /\ Len(toIn[n]) < MaxQueue
    /\ toIn' = [toIn EXCEPT ![n] = Append(@, "packet")]
    /\ UNCHANGED <<plug, device, got, rd, wr, ref, kicked, offline, lists, poll>>

HandleSync(n) ==
    /\ n \in offline /\ offline' = offline \ {n}
    /\ toIn' = [toIn EXCEPT ![n] = Append(@, "sync0")]
    /\ UNCHANGED <<plug, device, got, rd, wr, ref, kicked, lists, poll>>

-----------------------------------------------------------------------------
(* output_thread and usb_bulk_read: submit the transfer, ...               *)
ReadSubmit(n) ==
    /\ rd[n] = "submit"
    /\ IF h[n].dead \/ plug[n] = "out"
       THEN rd' = [rd EXCEPT ![n] = "offline"] /\ UNCHANGED fly
       ELSE /\ rd' = [rd EXCEPT ![n] = "enter"]
            /\ fly' = [fly EXCEPT ![n] = @ \cup {"in"}]
    /\ UNCHANGED <<plug, h, comp, got, wr, ref, kicked, offline, toIn, lists, poll>>

(* ... unlock the handle, and only then begin to wait for a transfer, ...  *)
ReadEnter(n) ==
    /\ rd[n] = "enter" /\ rd' = [rd EXCEPT ![n] = "block"]
    /\ UNCHANGED <<plug, device, got, wr, ref, kicked, offline, toIn, lists, poll>>

(* ... the first that is complete; the wait also ends with a signal, or    *)
(* when the device is gone and nothing is left to wait for.                *)
Reap(n) ==
    /\ rd[n] = "block" /\ rd' = [rd EXCEPT ![n] = "return"]
    /\ \/ /\ got[n] = Signal /\ UNCHANGED <<got, comp>>
       \/ /\ got[n] # Signal /\ comp[n] # <<>>
          /\ got' = [got EXCEPT ![n] = Head(comp[n])] /\ comp' = [comp EXCEPT ![n] = Tail(@)]
       \/ /\ got[n] # Signal /\ comp[n] = <<>> /\ fly[n] = {} /\ plug[n] = "out"
          /\ got' = [got EXCEPT ![n] = Error] /\ UNCHANGED comp
    /\ UNCHANGED <<plug, h, fly, wr, ref, kicked, offline, toIn, lists, poll>>

(* With the lock held again: a transfer of the writer lets it go on, the   *)
(* reader's own ends the read.  A packet may prove damaged (check_header,  *)
(* check_data), which ends the thread like an error.                       *)
Return(n) ==
    /\ rd[n] = "return" /\ got' = [got EXCEPT ![n] = Nothing]
    /\ \/ /\ h[n].dead \/ got[n] = Error \/ got[n] = Urb("in", FALSE)
          /\ rd' = [rd EXCEPT ![n] = "offline"] /\ UNCHANGED h
       \/ /\ ~h[n].dead /\ got[n] = Urb("in", TRUE)
          /\ \E next \in {"submit", "offline"} : rd' = [rd EXCEPT ![n] = next]
          /\ UNCHANGED h
       \/ /\ ~h[n].dead /\ \E ok \in BOOLEAN : got[n] = Urb("out", ok)
          /\ rd' = [rd EXCEPT ![n] = "enter"] /\ h' = [h EXCEPT ![n].outBusy = FALSE]
    /\ UNCHANGED <<plug, fly, comp, wr, ref, kicked, offline, toIn, lists, poll>>

(* SYNC(0) to the main loop.                                               *)
PostOffline(n) ==
    /\ rd[n] = "offline" /\ rd' = [rd EXCEPT ![n] = "kick"]
    /\ offline' = offline \cup {n}
    /\ UNCHANGED <<plug, device, got, wr, ref, kicked, toIn, lists, poll>>

-----------------------------------------------------------------------------
(* input_thread: the next packet is written, SYNC(0) ends the thread.      *)
WriterReads(n) ==
    /\ wr[n] = "read" /\ toIn[n] # <<>>
    /\ toIn' = [toIn EXCEPT ![n] = Tail(@)]
    /\ wr' = [wr EXCEPT ![n] = IF Head(toIn[n]) = "sync0" THEN "kick" ELSE "submit"]
    /\ UNCHANGED <<plug, device, got, rd, ref, kicked, offline, lists, poll>>

(* usb_bulk_write: submit the transfer, ...                                *)
WriteSubmit(n) ==
    /\ wr[n] = "submit"
    /\ IF h[n].dead \/ plug[n] = "out"
       THEN wr' = [wr EXCEPT ![n] = "read"] /\ UNCHANGED <<h, fly>>
       ELSE /\ wr' = [wr EXCEPT ![n] = "wait"]
            /\ fly' = [fly EXCEPT ![n] = @ \cup {"out"}]
            /\ h' = [h EXCEPT ![n].outBusy = TRUE]
    /\ UNCHANGED <<plug, comp, got, rd, ref, kicked, offline, toIn, lists, poll>>

(* ... and wait until the reader has reaped it or the device is dead; five *)
(* seconds without either begin the wait anew.                             *)
WriteDone(n) ==
    /\ wr[n] = "wait" /\ (h[n].dead \/ ~h[n].outBusy)
    /\ wr' = [wr EXCEPT ![n] = "read"]
    /\ UNCHANGED <<plug, device, got, rd, ref, kicked, offline, toIn, lists, poll>>

-----------------------------------------------------------------------------
(* kick_transport, at the end of each thread.                              *)
KickTransport(n) ==
    IF n \in kicked THEN UNCHANGED <<device, got, kicked>>
    ELSE ~tlock /\ kicked' = kicked \cup {n} /\ UsbKick(n)

ReaderKicks(n) ==
    /\ rd[n] = "kick" /\ rd' = [rd EXCEPT ![n] = "unref"] /\ KickTransport(n)
    /\ UNCHANGED <<plug, wr, ref, offline, toIn, lists, poll>>

WriterKicks(n) ==
    /\ wr[n] = "kick" /\ wr' = [wr EXCEPT ![n] = "unref"] /\ KickTransport(n)
    /\ UNCHANGED <<plug, rd, ref, offline, toIn, lists, poll>>

(* transport_unref: the last one keeps transport_lock until it has closed. *)
Unref(n) ==
    /\ ~tlock /\ tlock' = (ref[n] = 1) /\ ref' = [ref EXCEPT ![n] = @ - 1]
    /\ \/ /\ rd[n] = "unref" /\ UNCHANGED wr
          /\ rd' = [rd EXCEPT ![n] = IF ref[n] = 1 THEN "close" ELSE "none"]
       \/ /\ wr[n] = "unref" /\ UNCHANGED rd
          /\ wr' = [wr EXCEPT ![n] = IF ref[n] = 1 THEN "close" ELSE "none"]
    /\ UNCHANGED <<plug, device, got, kicked, offline, toIn, regq, tlist, ulock, poll>>

(* Mutant: the list is changed without usb_lock.                           *)
UsbCloseUnlocked(n) ==
    /\ "close" \in {rd[n], wr[n]}
    /\ rd' = [rd EXCEPT ![n] = "none"] /\ wr' = [wr EXCEPT ![n] = "none"]
    /\ h' = [h EXCEPT ![n] = None] /\ fly' = [fly EXCEPT ![n] = {}]
    /\ comp' = [comp EXCEPT ![n] = <<>>]
    /\ tlock' = FALSE /\ regq' = Append(regq, <<n, 0>>)
    /\ UNCHANGED <<plug, got, ref, kicked, offline, toIn, tlist, ulock, poll>>

(* usb_close, which waits for usb_lock; then remove_transport.             *)
UsbClose(n) ==
    /\ "close" \in {rd[n], wr[n]} /\ ~ulock
    /\ rd' = [rd EXCEPT ![n] = "none"] /\ wr' = [wr EXCEPT ![n] = "none"]
    /\ h' = [h EXCEPT ![n] = None] /\ fly' = [fly EXCEPT ![n] = {}]
    /\ comp' = [comp EXCEPT ![n] = <<>>]
    /\ tlock' = FALSE /\ regq' = Append(regq, <<n, 0>>)
    /\ UNCHANGED <<plug, got, ref, kicked, offline, toIn, tlist, ulock, poll>>

Reader(n) == ReadSubmit(n) \/ ReadEnter(n) \/ Reap(n) \/ Return(n) \/ PostOffline(n)
Writer(n) == WriterReads(n) \/ WriteSubmit(n) \/ WriteDone(n)
Leave(n) == ReaderKicks(n) \/ WriterKicks(n) \/ Unref(n) \/ UsbClose(n)

Next ==
    \/ PollThread \/ Registration
    \/ \E n \in Names : \/ Plug(n) \/ Unplug(n) \/ Complete(n)
                        \/ SendPacket(n) \/ HandleSync(n)
                        \/ Reader(n) \/ Writer(n) \/ Leave(n)

(* The threads run; the kernel owes nothing, a device least of all.  Locks *)
(* are held for a moment, usb_lock once a second, so who waits for one     *)
(* that is free again and again gets it.                                   *)
Spec ==
    /\ Init /\ [][Next]_vars
    /\ WF_vars(PollThread) /\ SF_vars(Registration)
    /\ \A n \in Names : /\ WF_vars(HandleSync(n)) /\ WF_vars(Reader(n)) /\ WF_vars(Writer(n))
                       /\ SF_vars(Leave(n))

-----------------------------------------------------------------------------
(* Whatever the order in which devices go, threads end and the list is     *)
(* walked, no thread uses a handle that usb_close has freed (its own       *)
(* reference keeps it, and usb_lock the walk of kick_disconnected_devices), *)
(* no transfer is submitted again before it has been reaped, and a writer  *)
(* waits only for one that its reader has yet to reap.                     *)
UsbSafe ==
    /\ \A n \in Names :
          /\ {rd[n], wr[n]} # {"none"} => n \in Listed
          /\ ref[n] = Cardinality({t \in {"rd", "wr"} :
                        (IF t = "rd" THEN rd[n] ELSE wr[n]) \notin {"none", "close"}})
          /\ rd[n] = "submit" => h[n].dead \/ "in" \notin Pending(n)
          /\ wr[n] = "submit" => h[n].dead \/ "out" \notin Pending(n)
          /\ wr[n] = "wait" /\ h[n].outBusy =>
                "out" \in Pending(n) \/ \E ok \in BOOLEAN : got[n] = Urb("out", ok)
    /\ poll.pc = "kick" => poll.todo \subseteq Listed

(* The handle of a device that can be written to is closed, and its name   *)
(* free, after the device is gone, even if nothing ends the reader's wait  *)
(* but usb_kick ("this ensures that a reader blocked on REAPURB will get   *)
(* unblocked").                                                            *)
Gone(n) == plug[n] = "out" /\ h[n].rw
Closed(n) == h[n] = None
GoneIsClosed == \A n \in Names : Gone(n) ~> Closed(n)
=============================================================================
