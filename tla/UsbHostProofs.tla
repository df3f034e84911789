---------------------------- MODULE UsbHostProofs ----------------------------
(***************************************************************************)
(* That no thread uses a closed USB handle or submits a transfer twice,    *)
(* for any number of devices, of any kinds, and any queue of packets: the  *)
(* inductive invariant, the transfers of a reader and a writer, usb_kick   *)
(* and the end of the threads, and the walks of the device poll thread.    *)
(***************************************************************************)
EXTENDS UsbHost, TLAPS

Handle == [st : {"none", "new", "listed"}, rw : BOOLEAN, mark : BOOLEAN, dead : BOOLEAN,
           outBusy : BOOLEAN]
Handles == [Names -> Handle]
Transfers == [urb : {"in", "out"}, ok : BOOLEAN]
Completions == [Names -> Seq(Transfers)]
Flights == [Names -> SUBSET {"in", "out"}]
Results == [Names -> [urb : {"none", "signal", "error", "in", "out"}, ok : BOOLEAN]]
Readers == [Names -> {"none", "submit", "enter", "block", "return", "offline", "kick", "unref",
                      "close"}]
Writers == [Names -> {"none", "read", "submit", "wait", "kick", "unref", "close"}]
Polls == [pc : {"scan", "open", "add", "kick"}, todo : SUBSET Names, dev : SUBSET Names]
Queues == Seq(Names \X {0, 1})

Shapes ==
    /\ h \in Handles /\ fly \in Flights /\ comp \in Completions /\ got \in Results
    /\ rd \in Readers /\ wr \in Writers /\ ref \in [Names -> Nat]
    /\ regq \in Queues /\ poll \in Polls

\* The transfers of a list, and that none is on it twice.
Urbs(s) == {s[i].urb : i \in 1 .. Len(s)}
Once(s) == \A i, j \in 1 .. Len(s) : s[i].urb = s[j].urb => i = j

\* The threads of a transport have its handle, and the last one closes it alone.
Idle(n) == rd[n] = "none" /\ wr[n] = "none"
Alive(s) == IF s \in {"none", "close"} THEN 0 ELSE 1
Threads(n) ==
    /\ ~Idle(n) => h[n].st = "listed" /\ h[n].rw
    /\ ref[n] = Alive(rd[n]) + Alive(wr[n])
    /\ rd[n] = "close" => wr[n] = "none"
    /\ wr[n] = "close" => rd[n] = "none"

\* A transfer is with the kernel, complete or reaped, and in one of these places
\* only; without threads there is none.
Transfer(n) ==
    /\ Idle(n) => fly[n] = {} /\ comp[n] = <<>>
    /\ Once(comp[n]) /\ fly[n] \cap Urbs(comp[n]) = {}
    /\ got[n].urb \in {"in", "out"} => got[n].urb \notin fly[n] \cup Urbs(comp[n])
    /\ got[n].urb \in {"in", "out", "error"} => rd[n] = "return"
    /\ got[n].urb = "error" => "in" \notin fly[n] \cup Urbs(comp[n])
    /\ got[n].urb = "signal" => rd[n] \in {"block", "return"} /\ h[n].dead

\* While the device is not dead, the reader's transfer is under way only while
\* it waits for one, and the writer's exactly while urb_out_busy is set.
Waiting(n) ==
    /\ ~h[n].dead /\ "in" \in fly[n] \cup Urbs(comp[n]) => rd[n] \in {"enter", "block", "return"}
    /\ h[n].dead => ~h[n].outBusy
    /\ ~h[n].dead => (h[n].outBusy <=> "out" \in fly[n] \cup Urbs(comp[n]) \cup {got[n].urb})
    /\ h[n].outBusy => wr[n] = "wait"

Device(n) == Threads(n) /\ Transfer(n) /\ Waiting(n)

\* A registration waits for threads that do not exist yet, and there is one.
Queue ==
    /\ \A i \in 1 .. Len(regq) : regq[i][2] = 1 => h[regq[i][1]].st = "listed" /\ Idle(regq[i][1])
    /\ \A i, j \in 1 .. Len(regq) :
          regq[i][2] = 1 /\ regq[j][2] = 1 /\ regq[i][1] = regq[j][1] => i = j

\* The thread that looks for devices opens one that has no handle, and goes
\* through the list with usb_lock held.
Search ==
    /\ poll.pc = "open" => \A n \in poll.dev : h[n].st = "none"
    /\ poll.pc = "add" => \A n \in poll.dev : h[n].st = "new"
    /\ \A n, m \in poll.dev : n = m
    /\ \A n \in Names : h[n].st = "new" => poll.pc = "add" /\ n \in poll.dev
    /\ poll.pc = "kick" => ulock /\ \A n \in poll.todo : h[n].st = "listed"

UsbInv == Shapes /\ (\A n \in Names : Device(n)) /\ Queue /\ Search

-----------------------------------------------------------------------------
(* Lists of transfers.                                                     *)

LEMMA EmptyOnce == <<>> \in Seq(Transfers) /\ Once(<<>>) /\ Urbs(<<>>) = {}
    BY DEF Once, Urbs

LEMMA AppendOnce ==
    ASSUME NEW s \in Seq(Transfers), Once(s), NEW e \in Transfers, e.urb \notin Urbs(s)
    PROVE  /\ Append(s, e) \in Seq(Transfers) /\ Once(Append(s, e))
           /\ Urbs(Append(s, e)) = Urbs(s) \cup {e.urb}
<1> DEFINE t == Append(s, e)
<1>1. /\ t \in Seq(Transfers) /\ Len(t) = Len(s) + 1 /\ t[Len(s) + 1] = e /\ Len(s) \in Nat
      /\ \A i \in 1 .. Len(s) : t[i] = s[i]
    OBVIOUS
<1> HIDE DEF t
<1>2. \A i \in 1 .. Len(s) : s[i].urb # e.urb
    BY DEF Urbs
<1>3. Once(t)
    BY <1>1, <1>2 DEF Once
<1>4. 1 .. Len(t) = (1 .. Len(s)) \cup {Len(s) + 1}
    BY <1>1
<1>5. Urbs(t) = Urbs(s) \cup {e.urb}
    BY <1>1, <1>4, SMTT(30) DEF Urbs
<1> QED
    BY <1>1, <1>3, <1>5 DEF t

LEMMA TailOnce ==
    ASSUME NEW s \in Seq(Transfers), s # <<>>, Once(s)
    PROVE  /\ Head(s) \in Transfers /\ Tail(s) \in Seq(Transfers) /\ Once(Tail(s))
           /\ Head(s).urb \in Urbs(s) /\ Urbs(Tail(s)) = Urbs(s) \ {Head(s).urb}
<1> DEFINE t == Tail(s)
<1>1. /\ t \in Seq(Transfers) /\ Len(t) = Len(s) - 1 /\ Len(s) \in Nat \ {0} /\ Head(s) = s[1]
      /\ \A i \in 1 .. Len(t) : t[i] = s[i + 1]
    OBVIOUS
<1>2. Head(s) \in Transfers
    BY <1>1
<1> HIDE DEF t
<1>3. Once(t)
    <2>1. SUFFICES ASSUME NEW i \in 1 .. Len(t), NEW j \in 1 .. Len(t), t[i].urb = t[j].urb
                   PROVE  i = j
        BY DEF Once
    <2>2. i + 1 \in 1 .. Len(s) /\ j + 1 \in 1 .. Len(s) /\ s[i + 1].urb = s[j + 1].urb
        BY <1>1, <2>1
    <2>3. i + 1 = j + 1
        BY <2>2, Zenon DEF Once
    <2> QED
        BY <2>3
<1>4. \A i \in 1 .. Len(t) : t[i].urb \in Urbs(s) /\ t[i].urb # s[1].urb
    BY <1>1, SMTT(30) DEF Once, Urbs
<1>5. \A i \in 1 .. Len(s) : i = 1 \/ (i - 1 \in 1 .. Len(t) /\ s[i] = t[i - 1])
    BY <1>1
<1>6. Urbs(t) = Urbs(s) \ {Head(s).urb}
    <2>1. \A u \in Urbs(t) : u \in Urbs(s) /\ u # s[1].urb
        BY <1>4, SMTT(30) DEF Urbs
    <2>2. \A u \in Urbs(s) : u # s[1].urb => u \in Urbs(t)
        BY <1>5 DEF Urbs
    <2> QED
        BY <1>1, <2>1, <2>2
<1>7. Head(s).urb \in Urbs(s)
    BY <1>1 DEF Urbs
<1> QED
    BY <1>1, <1>2, <1>3, <1>6, <1>7 DEF t

-----------------------------------------------------------------------------
(* What the steps have in common.                                          *)

\* A step leaves a device alone.
Same(n) ==
    /\ h'[n] = h[n] /\ fly'[n] = fly[n] /\ comp'[n] = comp[n] /\ got'[n] = got[n]
    /\ rd'[n] = rd[n] /\ wr'[n] = wr[n] /\ ref'[n] = ref[n]

LEMMA DeviceFrame ==
    ASSUME NEW n \in Names, Device(n), Same(n)
    PROVE  Device(n)'
<1>1. Threads(n)'
    BY DEF Device, Threads, Same, Idle
<1>2. Transfer(n)'
    BY DEF Device, Transfer, Same, Idle
<1>3. Waiting(n)'
    BY DEF Device, Waiting, Same
<1> QED
    BY <1>1, <1>2, <1>3 DEF Device

LEMMA QueueFrame ==
    ASSUME Shapes, Queue, regq' = regq,
           \A m \in Names : Idle(m) /\ h[m].st = "listed" => Idle(m)' /\ h'[m].st = "listed"
    PROVE  Queue'
<1>1. \A i \in 1 .. Len(regq) : regq[i][1] \in Names
    BY DEF Shapes, Queues
<1> QED
    BY <1>1 DEF Queue, Idle

LEMMA SearchFrame ==
    ASSUME Shapes, Search, UNCHANGED <<ulock, poll>>, \A m \in Names : h'[m].st = h[m].st
    PROVE  Search'
<1>1. poll.dev \subseteq Names /\ poll.todo \subseteq Names
    BY DEF Shapes, Polls
<1> QED
    BY <1>1 DEF Search

\* A step of the threads or the transfers of one device.
LEMMA OneDevice ==
    ASSUME UsbInv, NEW n \in Names, ~Idle(n), h'[n].st = h[n].st,
           \A m \in Names \ {n} : Same(m), Shapes', Device(n)', UNCHANGED <<regq, ulock, poll>>
    PROVE  UsbInv'
<1>1. \A m \in Names : Device(m)'
    BY DeviceFrame DEF UsbInv
<1>2. \A m \in Names : h'[m].st = h[m].st /\ (m # n => rd'[m] = rd[m] /\ wr'[m] = wr[m])
    BY DEF Same
<1>3. Queue'
    BY <1>2, QueueFrame DEF UsbInv, Idle
<1>4. Search'
    BY <1>2, SearchFrame DEF UsbInv
<1> QED
    BY <1>1, <1>3, <1>4 DEF UsbInv

-----------------------------------------------------------------------------
(* The reader.                                                             *)

LEMMA ReadEnterStep ==
    ASSUME UsbInv, NEW n \in Names, ReadEnter(n)
    PROVE  UsbInv'
<1>1. /\ rd[n] = "enter" /\ rd' = [rd EXCEPT ![n] = "block"]
      /\ UNCHANGED <<h, fly, comp, got, wr, ref, regq, ulock, poll>>
    BY DEF ReadEnter, device, lists
<1>2. rd' \in Readers /\ rd'[n] = "block" /\ \A m \in Names \ {n} : rd'[m] = rd[m]
    BY <1>1 DEF UsbInv, Shapes, Readers
<1>3. Shapes'
    BY <1>1, <1>2, Zenon DEF UsbInv, Shapes
<1>4. Device(n)'
    BY <1>1, <1>2, Zenon DEF UsbInv, Device, Threads, Transfer, Waiting, Idle, Alive
<1> QED
    BY <1>1, <1>2, <1>3, <1>4, OneDevice DEF Same, Idle

LEMMA PostOfflineStep ==
    ASSUME UsbInv, NEW n \in Names, PostOffline(n)
    PROVE  UsbInv'
<1>1. /\ rd[n] = "offline" /\ rd' = [rd EXCEPT ![n] = "kick"]
      /\ UNCHANGED <<h, fly, comp, got, wr, ref, regq, ulock, poll>>
    BY DEF PostOffline, device, lists
<1>2. rd' \in Readers /\ rd'[n] = "kick" /\ \A m \in Names \ {n} : rd'[m] = rd[m]
    BY <1>1 DEF UsbInv, Shapes, Readers
<1>3. Shapes'
    BY <1>1, <1>2, Zenon DEF UsbInv, Shapes
<1>4. Device(n)'
    BY <1>1, <1>2, Zenon DEF UsbInv, Device, Threads, Transfer, Waiting, Idle, Alive
<1> QED
    BY <1>1, <1>2, <1>3, <1>4, OneDevice DEF Same, Idle

LEMMA ReadSubmitStep ==
    ASSUME UsbInv, NEW n \in Names, ReadSubmit(n)
    PROVE  UsbInv'
<1>1. /\ rd[n] = "submit" /\ UNCHANGED <<h, comp, got, wr, ref, regq, ulock, poll>>
      /\ \/ rd' = [rd EXCEPT ![n] = "offline"] /\ fly' = fly
         \/ /\ ~h[n].dead /\ rd' = [rd EXCEPT ![n] = "enter"]
            /\ fly' = [fly EXCEPT ![n] = @ \cup {"in"}]
    BY Zenon DEF ReadSubmit, lists
<1>2. /\ rd' \in Readers /\ \A m \in Names \ {n} : rd'[m] = rd[m]
      /\ fly' \in Flights /\ \A m \in Names \ {n} : fly'[m] = fly[m]
      /\ \/ rd'[n] = "offline" /\ fly'[n] = fly[n]
         \/ ~h[n].dead /\ rd'[n] = "enter" /\ fly'[n] = fly[n] \cup {"in"}
    BY <1>1 DEF UsbInv, Shapes, Readers, Flights
<1>3. Shapes'
    BY <1>1, <1>2, Zenon DEF UsbInv, Shapes
<1>4. Device(n)'
    BY <1>1, <1>2, SMTT(30) DEF UsbInv, Device, Threads, Transfer, Waiting, Idle, Alive
<1> QED
    BY <1>1, <1>2, <1>3, <1>4, OneDevice, Zenon DEF Same, Idle

\* What REAPURB returns moves from the list to the reader.
LEMMA ReapStep ==
    ASSUME UsbInv, NEW n \in Names, Reap(n)
    PROVE  UsbInv'
<1>1. /\ rd[n] = "block" /\ rd' = [rd EXCEPT ![n] = "return"]
      /\ UNCHANGED <<h, fly, wr, ref, regq, ulock, poll>>
    BY Zenon DEF Reap, lists
<1>2. rd' \in Readers /\ rd'[n] = "return" /\ \A m \in Names \ {n} : rd'[m] = rd[m]
    BY <1>1 DEF UsbInv, Shapes, Readers
<1>3. /\ comp[n] \in Seq(Transfers) /\ Once(comp[n]) /\ got[n].urb \notin {"in", "out", "error"}
      /\ comp \in Completions /\ got \in Results
    BY <1>1 DEF UsbInv, Shapes, Completions, Device, Transfer
<1>4. CASE UNCHANGED <<got, comp>>
    <2>1. Shapes'
        BY <1>1, <1>2, <1>4, Zenon DEF UsbInv, Shapes
    <2>2. Device(n)'
        BY <1>1, <1>2, <1>4, Zenon DEF UsbInv, Device, Threads, Transfer, Waiting, Idle, Alive
    <2> QED
        BY <1>1, <1>2, <1>4, <2>1, <2>2, OneDevice DEF Same, Idle
<1>5. CASE /\ comp[n] # <<>> /\ got' = [got EXCEPT ![n] = Head(comp[n])]
           /\ comp' = [comp EXCEPT ![n] = Tail(@)]
    <2>1. /\ Head(comp[n]) \in Transfers /\ Tail(comp[n]) \in Seq(Transfers) /\ Once(Tail(comp[n]))
          /\ Head(comp[n]).urb \in Urbs(comp[n])
          /\ Urbs(Tail(comp[n])) = Urbs(comp[n]) \ {Head(comp[n]).urb}
        BY <1>3, <1>5, TailOnce
    <2>2. /\ got' \in Results /\ got'[n] = Head(comp[n]) /\ \A m \in Names \ {n} : got'[m] = got[m]
          /\ got'[n].urb \in {"in", "out"}
        BY <1>3, <1>5, <2>1 DEF Results, Transfers
    <2>3. /\ comp' \in Completions /\ comp'[n] = Tail(comp[n])
          /\ \A m \in Names \ {n} : comp'[m] = comp[m]
        BY <1>3, <1>5, <2>1 DEF Completions
    <2>4. /\ Once(comp'[n]) /\ got'[n].urb \in Urbs(comp[n])
          /\ Urbs(comp'[n]) = Urbs(comp[n]) \ {got'[n].urb}
        BY <2>1, <2>2, <2>3
    <2>5. Shapes'
        BY <1>1, <1>2, <2>2, <2>3, Zenon DEF UsbInv, Shapes
    <2>6. Device(n)'
        BY <1>1, <1>2, <1>3, <2>2, <2>4, ZenonT(30)
           DEF UsbInv, Device, Threads, Transfer, Waiting, Idle, Alive
    <2> QED
        BY <1>1, <1>2, <2>2, <2>3, <2>5, <2>6, OneDevice, SMTT(30) DEF Same, Idle
<1>6. CASE /\ comp[n] = <<>> /\ fly[n] = {} /\ got' = [got EXCEPT ![n] = Error] /\ UNCHANGED comp
    <2>1. /\ got' \in Results /\ got'[n].urb = "error" /\ \A m \in Names \ {n} : got'[m] = got[m]
        BY <1>3, <1>6 DEF Results, Error, Urb
    <2>2. Urbs(comp[n]) = {}
        BY <1>6, EmptyOnce
    <2>3. Shapes'
        BY <1>1, <1>2, <1>6, <2>1, Zenon DEF UsbInv, Shapes
    <2>4. Device(n)'
        BY <1>1, <1>2, <1>3, <1>6, <2>1, <2>2, Zenon
           DEF UsbInv, Device, Threads, Transfer, Waiting, Idle, Alive
    <2> QED
        BY <1>1, <1>2, <1>6, <2>1, <2>3, <2>4, OneDevice, Zenon DEF Same, Idle
<1> QED
    BY <1>4, <1>5, <1>6, Zenon DEF Reap

LEMMA ReturnStep ==
    ASSUME UsbInv, NEW n \in Names, Return(n)
    PROVE  UsbInv'
<1>1. /\ rd[n] = "return" /\ got' = [got EXCEPT ![n] = Nothing]
      /\ UNCHANGED <<fly, comp, wr, ref, regq, ulock, poll>>
    BY DEF Return, lists
<1>2. got' \in Results /\ got'[n].urb = "none" /\ \A m \in Names \ {n} : got'[m] = got[m]
    BY <1>1, SMTT(30) DEF UsbInv, Shapes, Results, Nothing, Urb
<1>3. CASE ~(\E ok \in BOOLEAN : got[n] = Urb("out", ok)) \/ h[n].dead
    <2>1. /\ UNCHANGED h
          /\ \/ rd' = [rd EXCEPT ![n] = "offline"] /\ (~h[n].dead => got[n].urb \in {"error", "in"})
             \/ rd' = [rd EXCEPT ![n] = "submit"] /\ ~h[n].dead /\ got[n].urb = "in"
        BY <1>3 DEF Return, Error, Urb
    <2>2. /\ rd' \in Readers /\ \A m \in Names \ {n} : rd'[m] = rd[m]
          /\ \/ rd'[n] = "offline" /\ (~h[n].dead => got[n].urb \in {"error", "in"})
             \/ rd'[n] = "submit" /\ ~h[n].dead /\ got[n].urb = "in"
        BY <2>1 DEF UsbInv, Shapes, Readers
    <2>3. Shapes'
        BY <1>1, <1>2, <2>1, <2>2 DEF UsbInv, Shapes
    <2>4. Device(n)'
        <3>1. Threads(n)'
            BY <1>1, <2>1, <2>2, Zenon DEF UsbInv, Device, Threads, Idle, Alive
        <3>2. Transfer(n)'
            BY <1>1, <1>2, <2>1, <2>2, Zenon DEF UsbInv, Device, Transfer, Idle
        <3>3. Waiting(n)'
            BY <1>1, <1>2, <2>1, <2>2, Zenon DEF UsbInv, Device, Transfer, Waiting
        <3> QED
            BY <3>1, <3>2, <3>3, SMTT(30) DEF Device
    <2> QED
        BY <1>1, <1>2, <2>1, <2>2, <2>3, <2>4, OneDevice DEF Same, Idle
<1>4. CASE (\E ok \in BOOLEAN : got[n] = Urb("out", ok)) /\ ~h[n].dead
    <2>1. /\ rd' = [rd EXCEPT ![n] = "enter"] /\ h' = [h EXCEPT ![n].outBusy = FALSE]
          /\ got[n].urb = "out"
        BY <1>4 DEF Return, Error, Urb
    <2>2. /\ rd' \in Readers /\ rd'[n] = "enter" /\ \A m \in Names \ {n} : rd'[m] = rd[m]
        BY <2>1 DEF UsbInv, Shapes, Readers
    <2>3. /\ h' \in Handles /\ \A m \in Names \ {n} : h'[m] = h[m]
          /\ h'[n].st = h[n].st /\ h'[n].rw = h[n].rw /\ ~h'[n].dead /\ ~h'[n].outBusy
        BY <1>4, <2>1, ZenonT(30) DEF UsbInv, Shapes, Handles, Handle
    <2>4. Shapes'
        BY <1>1, <1>2, <2>2, <2>3 DEF UsbInv, Shapes
    <2>5. Device(n)'
        <3>1. Threads(n)'
            BY <1>1, <2>2, <2>3, Zenon DEF UsbInv, Device, Threads, Idle, Alive
        <3>2. Transfer(n)'
            BY <1>1, <1>2, <2>2, <2>3, Zenon DEF UsbInv, Device, Transfer, Idle
        <3>3. Waiting(n)'
            BY <1>1, <1>2, <2>1, <2>2, <2>3, SMTT(30) DEF UsbInv, Device, Transfer, Waiting
        <3> QED
            BY <3>1, <3>2, <3>3, Zenon DEF Device
    <2> QED
        BY <1>1, <1>2, <2>2, <2>3, <2>4, <2>5, OneDevice, Zenon DEF Same, Idle
<1> QED
    BY <1>3, <1>4

-----------------------------------------------------------------------------
(* The writer, and the kernel.                                             *)

LEMMA WriterReadsStep ==
    ASSUME UsbInv, NEW n \in Names, WriterReads(n)
    PROVE  UsbInv'
<1>1. /\ wr[n] = "read" /\ UNCHANGED <<h, fly, comp, got, rd, ref, regq, ulock, poll>>
      /\ wr' = [wr EXCEPT ![n] = "kick"] \/ wr' = [wr EXCEPT ![n] = "submit"]
    BY Zenon DEF WriterReads, device, lists
<1>2. wr' \in Writers /\ wr'[n] \in {"kick", "submit"} /\ \A m \in Names \ {n} : wr'[m] = wr[m]
    BY <1>1 DEF UsbInv, Shapes, Writers
<1>3. Shapes'
    BY <1>1, <1>2, Zenon DEF UsbInv, Shapes
<1>4. Device(n)'
    BY <1>1, <1>2, Zenon DEF UsbInv, Device, Threads, Transfer, Waiting, Idle, Alive
<1> QED
    BY <1>1, <1>2, <1>3, <1>4, OneDevice DEF Same, Idle

LEMMA WriteDoneStep ==
    ASSUME UsbInv, NEW n \in Names, WriteDone(n)
    PROVE  UsbInv'
<1>1. /\ wr[n] = "wait" /\ (h[n].dead \/ ~h[n].outBusy) /\ wr' = [wr EXCEPT ![n] = "read"]
      /\ UNCHANGED <<h, fly, comp, got, rd, ref, regq, ulock, poll>>
    BY DEF WriteDone, device, lists
<1>2. wr' \in Writers /\ wr'[n] = "read" /\ \A m \in Names \ {n} : wr'[m] = wr[m]
    BY <1>1 DEF UsbInv, Shapes, Writers
<1>3. Shapes'
    BY <1>1, <1>2, Zenon DEF UsbInv, Shapes
<1>4. Device(n)'
    BY <1>1, <1>2, Zenon DEF UsbInv, Device, Threads, Transfer, Waiting, Idle, Alive
<1> QED
    BY <1>1, <1>2, <1>3, <1>4, OneDevice, Zenon DEF Same, Idle

LEMMA WriteSubmitStep ==
    ASSUME UsbInv, NEW n \in Names, WriteSubmit(n)
    PROVE  UsbInv'
<1>1. /\ wr[n] = "submit" /\ UNCHANGED <<comp, got, rd, ref, regq, ulock, poll>>
    BY Zenon DEF WriteSubmit, lists
<1>2. CASE wr' = [wr EXCEPT ![n] = "read"] /\ UNCHANGED <<h, fly>>
    <2>1. wr' \in Writers /\ wr'[n] = "read" /\ \A m \in Names \ {n} : wr'[m] = wr[m]
        BY <1>2 DEF UsbInv, Shapes, Writers
    <2>2. Shapes'
        BY <1>1, <1>2, <2>1, Zenon DEF UsbInv, Shapes
    <2>3. Device(n)'
        BY <1>1, <1>2, <2>1, Zenon DEF UsbInv, Device, Threads, Transfer, Waiting, Idle, Alive
    <2> QED
        BY <1>1, <1>2, <2>1, <2>2, <2>3, OneDevice, Zenon DEF Same, Idle
<1>3. CASE /\ ~h[n].dead /\ wr' = [wr EXCEPT ![n] = "wait"]
           /\ fly' = [fly EXCEPT ![n] = @ \cup {"out"}] /\ h' = [h EXCEPT ![n].outBusy = TRUE]
    <2>1. wr' \in Writers /\ wr'[n] = "wait" /\ \A m \in Names \ {n} : wr'[m] = wr[m]
        BY <1>3 DEF UsbInv, Shapes, Writers
    <2>2. /\ h' \in Handles /\ \A m \in Names \ {n} : h'[m] = h[m]
          /\ h'[n].st = h[n].st /\ h'[n].rw = h[n].rw /\ ~h'[n].dead /\ h'[n].outBusy
        BY <1>3, ZenonT(30) DEF UsbInv, Shapes, Handles, Handle
    <2>3. /\ fly' \in Flights /\ fly'[n] = fly[n] \cup {"out"}
          /\ \A m \in Names \ {n} : fly'[m] = fly[m]
        BY <1>3 DEF UsbInv, Shapes, Flights
    <2>4. Shapes'
        BY <1>1, <2>1, <2>2, <2>3 DEF UsbInv, Shapes
    <2>5. "out" \notin fly[n] \cup Urbs(comp[n]) \cup {got[n].urb}
        BY <1>1, <1>3, Zenon DEF UsbInv, Device, Waiting
    <2>6. Device(n)'
        <3>1. Threads(n)'
            BY <1>1, <2>1, <2>2, Zenon DEF UsbInv, Device, Threads, Idle, Alive
        <3>2. Transfer(n)'
            BY <1>1, <1>3, <2>1, <2>3, <2>5, SMTT(30) DEF UsbInv, Device, Transfer, Idle
        <3>3. Waiting(n)'
            BY <1>1, <1>3, <2>1, <2>2, <2>3, Zenon DEF UsbInv, Device, Waiting
        <3> QED
            BY <3>1, <3>2, <3>3, SMTT(30) DEF Device
    <2> QED
        BY <1>1, <2>1, <2>2, <2>3, <2>4, <2>6, OneDevice, Zenon DEF Same, Idle
<1> QED
    BY <1>2, <1>3 DEF WriteSubmit

\* A transfer that is under way moves to the list of the complete ones.
LEMMA CompleteStep ==
    ASSUME UsbInv, NEW n \in Names, Complete(n)
    PROVE  UsbInv'
<1>1. PICK u \in fly[n], ok \in BOOLEAN : /\ fly' = [fly EXCEPT ![n] = @ \ {u}]
                                          /\ comp' = [comp EXCEPT ![n] = Append(@, Urb(u, ok))]
    BY Zenon DEF Complete
<1>2. UNCHANGED <<h, got, rd, wr, ref, regq, ulock, poll>>
    BY DEF Complete, transport, lists
<1>3. /\ fly \in Flights /\ comp \in Completions /\ comp[n] \in Seq(Transfers) /\ Once(comp[n])
      /\ u \notin Urbs(comp[n]) /\ u \in {"in", "out"} /\ ~Idle(n)
    BY <1>1, Zenon DEF UsbInv, Shapes, Flights, Completions, Device, Transfer
<1>4. Urb(u, ok) \in Transfers /\ Urb(u, ok).urb = u
    BY <1>3 DEF Urb, Transfers
<1>5. /\ Append(comp[n], Urb(u, ok)) \in Seq(Transfers) /\ Once(Append(comp[n], Urb(u, ok)))
      /\ Urbs(Append(comp[n], Urb(u, ok))) = Urbs(comp[n]) \cup {u}
    BY <1>3, <1>4, AppendOnce
<1>6. /\ comp' \in Completions /\ comp'[n] = Append(comp[n], Urb(u, ok))
      /\ \A m \in Names \ {n} : comp'[m] = comp[m]
    BY <1>1, <1>3, <1>5 DEF Completions
<1>7. /\ fly' \in Flights /\ fly'[n] = fly[n] \ {u} /\ \A m \in Names \ {n} : fly'[m] = fly[m]
    BY <1>1, <1>3 DEF Flights
<1>8. Once(comp'[n]) /\ Urbs(comp'[n]) = Urbs(comp[n]) \cup {u}
    BY <1>5, <1>6, SMTT(30)
<1>9. Shapes'
    BY <1>2, <1>6, <1>7, SMTT(30) DEF UsbInv, Shapes
<1>10. fly'[n] \cup Urbs(comp'[n]) = fly[n] \cup Urbs(comp[n])
    BY <1>7, <1>8, SMTT(30)
<1>11. Device(n)'
    <2>1. Threads(n)'
        BY <1>2, Zenon DEF UsbInv, Device, Threads, Idle
    <2>2. Transfer(n)'
        BY <1>2, <1>3, <1>7, <1>8, <1>10, Zenon DEF UsbInv, Device, Transfer, Idle
    <2>3. Waiting(n)'
        BY <1>2, <1>10, Zenon DEF UsbInv, Device, Waiting
    <2> QED
        BY <2>1, <2>2, <2>3, Zenon DEF Device
<1> QED
    BY <1>2, <1>3, <1>6, <1>7, <1>9, <1>11, OneDevice, Zenon DEF Same

-----------------------------------------------------------------------------
(* usb_kick, and the end of the threads.                                   *)

\* The transfers that are cancelled move to the list of the complete ones.
LEMMA DiscardOnce ==
    ASSUME NEW n \in Names, NEW s \in Seq(Transfers), Once(s), NEW u \in {"in", "out"},
           u \in fly[n] => u \notin Urbs(s)
    PROVE  /\ Discard(s, n, u) \in Seq(Transfers) /\ Once(Discard(s, n, u))
           /\ Urbs(Discard(s, n, u)) = Urbs(s) \cup (fly[n] \cap {u})
<1>1. Urb(u, FALSE) \in Transfers /\ Urb(u, FALSE).urb = u
    BY DEF Urb, Transfers
<1>2. CASE u \in fly[n]
    BY <1>1, <1>2, AppendOnce, ZenonT(30) DEF Discard
<1>3. CASE u \notin fly[n]
    BY <1>3 DEF Discard
<1> QED
    BY <1>2, <1>3

\* The device is dead afterwards, whoever kicks it, and no transfer is lost.
LEMMA KickFacts ==
    ASSUME UsbInv, NEW n \in Names, UsbKick(n)
    PROVE  /\ h' \in Handles /\ fly' \in Flights /\ comp' \in Completions /\ got' \in Results
           /\ \A m \in Names \ {n} : /\ h'[m] = h[m] /\ fly'[m] = fly[m] /\ comp'[m] = comp[m]
                                     /\ got'[m] = got[m]
           /\ h'[n].st = h[n].st /\ (h'[n].rw <=> h[n].rw) /\ h'[n].dead /\ ~h'[n].outBusy
           /\ Once(comp'[n]) /\ fly'[n] \cap Urbs(comp'[n]) = {}
           /\ fly'[n] \cup Urbs(comp'[n]) = fly[n] \cup Urbs(comp[n])
           /\ got'[n] = got[n] \/ (rd[n] = "block" /\ got'[n].urb = "signal")
           /\ fly[n] = {} /\ comp[n] = <<>> => fly'[n] = {} /\ comp'[n] = <<>>
<1>1. /\ h \in Handles /\ fly \in Flights /\ comp \in Completions /\ got \in Results
      /\ Once(comp[n]) /\ fly[n] \cap Urbs(comp[n]) = {} /\ (h[n].dead => ~h[n].outBusy)
    BY Zenon DEF UsbInv, Shapes, Device, Transfer, Waiting
<1>2. CASE h[n].dead
    BY <1>1, <1>2, Zenon DEF UsbKick, device
<1>3. CASE ~h[n].dead
    <2>1. /\ h' = [h EXCEPT ![n].dead = TRUE, ![n].outBusy = FALSE] /\ fly' = [fly EXCEPT ![n] = {}]
          /\ comp' = [comp EXCEPT ![n] = Discard(Discard(comp[n], n, "in"), n, "out")]
          /\ got' = [got EXCEPT ![n] = IF rd[n] = "block" THEN Signal ELSE got[n]]
        BY <1>3, Zenon DEF UsbKick
    <2>2. /\ h' \in Handles /\ \A m \in Names \ {n} : h'[m] = h[m]
          /\ h'[n].st = h[n].st /\ (h'[n].rw <=> h[n].rw) /\ h'[n].dead /\ ~h'[n].outBusy
        BY <1>1, <2>1, ZenonT(30) DEF Handles, Handle
    <2>3. fly' \in Flights /\ fly'[n] = {} /\ \A m \in Names \ {n} : fly'[m] = fly[m]
        BY <1>1, <2>1 DEF Flights
    <2>4. /\ got' \in Results /\ \A m \in Names \ {n} : got'[m] = got[m]
          /\ got'[n] = got[n] \/ (rd[n] = "block" /\ got'[n].urb = "signal")
        BY <1>1, <2>1 DEF Results, Signal, Urb
    <2> DEFINE s == Discard(comp[n], n, "in")
               t == Discard(s, n, "out")
    <2>5. comp[n] \in Seq(Transfers) /\ fly[n] \subseteq {"in", "out"}
        BY <1>1 DEF Completions, Flights
    <2>6. s \in Seq(Transfers) /\ Once(s) /\ Urbs(s) = Urbs(comp[n]) \cup (fly[n] \cap {"in"})
        BY <1>1, <2>5, DiscardOnce
    <2>7. t \in Seq(Transfers) /\ Once(t) /\ Urbs(t) = Urbs(s) \cup (fly[n] \cap {"out"})
        <3> HIDE DEF s
        <3>1. "out" \in fly[n] => "out" \notin Urbs(s)
            BY <1>1, <2>6, SMTT(30)
        <3> QED
            BY <2>6, <3>1, DiscardOnce, Zenon
    <2>8. fly[n] = {} => t = comp[n]
        BY DEF Discard
    <2>9. comp' = [comp EXCEPT ![n] = t]
        BY <2>1, SMTT(30)
    <2> HIDE DEF s, t
    <2>10. comp' \in Completions /\ comp'[n] = t /\ \A m \in Names \ {n} : comp'[m] = comp[m]
        BY <1>1, <2>7, <2>9, SMTT(30) DEF Completions
    <2>11. Urbs(comp'[n]) = Urbs(comp[n]) \cup fly[n] /\ Once(comp'[n])
        BY <2>5, <2>6, <2>7, <2>10, SMTT(30)
    <2> QED
        BY <2>2, <2>3, <2>4, <2>8, <2>10, <2>11, Zenon
<1> QED
    BY <1>2, <1>3, Zenon

LEMMA LeaverKicks ==
    ASSUME UsbInv, NEW n \in Names, ReaderKicks(n) \/ WriterKicks(n)
    PROVE  UsbInv'
<1>1. /\ KickTransport(n) /\ UNCHANGED <<ref, regq, ulock, poll>>
      /\ \/ rd[n] = "kick" /\ rd' = [rd EXCEPT ![n] = "unref"] /\ wr' = wr
         \/ wr[n] = "kick" /\ wr' = [wr EXCEPT ![n] = "unref"] /\ rd' = rd
    BY DEF ReaderKicks, WriterKicks, lists
<1>2. /\ rd' \in Readers /\ wr' \in Writers
      /\ \A m \in Names \ {n} : rd'[m] = rd[m] /\ wr'[m] = wr[m]
      /\ \/ rd[n] = "kick" /\ rd'[n] = "unref" /\ wr'[n] = wr[n]
         \/ wr[n] = "kick" /\ wr'[n] = "unref" /\ rd'[n] = rd[n]
    BY <1>1, Zenon DEF UsbInv, Shapes, Readers, Writers
<1>3. CASE UNCHANGED <<device, got>>
    <2>1. UNCHANGED <<h, fly, comp, got>>
        BY <1>3, SMTT(30) DEF device
    <2>2. Shapes'
        BY <1>1, <1>2, <2>1 DEF UsbInv, Shapes
    <2>3. Device(n)'
        <3>1. Threads(n)'
            BY <1>1, <1>2, <2>1, Zenon DEF UsbInv, Device, Threads, Idle, Alive
        <3>2. Transfer(n)'
            BY <1>1, <1>2, <2>1, Zenon DEF UsbInv, Device, Transfer, Idle
        <3>3. Waiting(n)'
            BY <1>1, <1>2, <2>1, Zenon DEF UsbInv, Device, Waiting
        <3> QED
            BY <3>1, <3>2, <3>3, Zenon DEF Device
    <2> QED
        BY <1>1, <1>2, <2>1, <2>2, <2>3, OneDevice, Zenon DEF Same, Idle
<1>4. CASE UsbKick(n)
    <2>1. Shapes'
        BY <1>1, <1>2, <1>4, KickFacts, ZenonT(30) DEF UsbInv, Shapes
    <2>2. Threads(n)'
        BY <1>1, <1>2, <1>4, KickFacts, ZenonT(30) DEF UsbInv, Device, Threads, Idle, Alive
    <2>3. Transfer(n)'
        <3>1. /\ Transfer(n) /\ ~Idle(n) /\ ~Idle(n)'
              /\ rd[n] \in {"block", "return"} => rd'[n] = rd[n]
            BY <1>2, Zenon DEF UsbInv, Device, Idle
        <3>2. /\ Once(comp'[n]) /\ fly'[n] \cap Urbs(comp'[n]) = {} /\ h'[n].dead
              /\ fly'[n] \cup Urbs(comp'[n]) = fly[n] \cup Urbs(comp[n])
              /\ got'[n] = got[n] \/ (rd[n] = "block" /\ got'[n].urb = "signal")
            BY <1>4, KickFacts, Zenon
        <3> QED
            BY <3>1, <3>2, Zenon DEF Transfer
    <2>4. Waiting(n)'
        BY <1>4, KickFacts, Zenon DEF Waiting
    <2>5. h'[n].st = h[n].st /\ \A m \in Names \ {n} : Same(m)
        BY <1>1, <1>2, <1>4, KickFacts, ZenonT(30) DEF Same
    <2> QED
        BY <1>1, <1>2, <2>1, <2>2, <2>3, <2>4, <2>5, OneDevice, Zenon DEF Device, Idle
<1> QED
    BY <1>1, <1>3, <1>4, SMTT(30) DEF KickTransport

LEMMA UnrefStep ==
    ASSUME UsbInv, NEW n \in Names, Unref(n)
    PROVE  UsbInv'
<1>1. /\ ref' = [ref EXCEPT ![n] = @ - 1] /\ UNCHANGED <<h, fly, comp, got, regq, ulock, poll>>
      /\ \/ /\ rd[n] = "unref" /\ wr' = wr
            /\ rd' = [rd EXCEPT ![n] = IF ref[n] = 1 THEN "close" ELSE "none"]
         \/ /\ wr[n] = "unref" /\ rd' = rd
            /\ wr' = [wr EXCEPT ![n] = IF ref[n] = 1 THEN "close" ELSE "none"]
    BY DEF Unref, device
<1>2. Threads(n) /\ rd \in Readers /\ wr \in Writers /\ ref \in [Names -> Nat]
    BY SMTT(30) DEF UsbInv, Shapes, Device
<1>3. ref[n] >= 1 /\ ref[n] = Alive(rd[n]) + Alive(wr[n])
    BY <1>1, <1>2, SMTT(30) DEF Threads, Alive
<1>4. /\ rd' \in Readers /\ wr' \in Writers /\ ref' \in [Names -> Nat] /\ ref'[n] = ref[n] - 1
      /\ \A m \in Names \ {n} : rd'[m] = rd[m] /\ wr'[m] = wr[m] /\ ref'[m] = ref[m]
      /\ \/ /\ rd[n] = "unref" /\ wr'[n] = wr[n]
            /\ rd'[n] = IF ref[n] = 1 THEN "close" ELSE "none"
         \/ /\ wr[n] = "unref" /\ rd'[n] = rd[n]
            /\ wr'[n] = IF ref[n] = 1 THEN "close" ELSE "none"
    BY <1>1, <1>2, <1>3, SMTT(30) DEF Readers, Writers
<1>5. Shapes'
    BY <1>1, <1>4, SMTT(30) DEF UsbInv, Shapes
<1>6. ~Idle(n) /\ ~Idle(n)'
    BY <1>2, <1>3, <1>4, SMTT(30) DEF Idle, Threads, Alive
<1>7. Threads(n)'
    BY <1>1, <1>2, <1>3, <1>4, <1>6, SMTT(30) DEF Threads, Idle, Alive
<1>8. Transfer(n)'
    BY <1>1, <1>4, <1>6, Zenon DEF UsbInv, Device, Transfer
<1>9. Waiting(n)'
    BY <1>1, <1>4, Zenon DEF UsbInv, Device, Waiting
<1> QED
    BY <1>1, <1>4, <1>5, <1>6, <1>7, <1>8, <1>9, OneDevice, ZenonT(30) DEF Device, Same

\* Only the thread that looks for devices goes through the list, and it holds
\* usb_lock while it does.
LEMMA UsbCloseStep ==
    ASSUME UsbInv, NEW n \in Names, UsbClose(n)
    PROVE  UsbInv'
<1>1. /\ "close" \in {rd[n], wr[n]} /\ ~ulock
      /\ rd' = [rd EXCEPT ![n] = "none"] /\ wr' = [wr EXCEPT ![n] = "none"]
      /\ h' = [h EXCEPT ![n] = None] /\ fly' = [fly EXCEPT ![n] = {}]
      /\ comp' = [comp EXCEPT ![n] = <<>>] /\ regq' = Append(regq, <<n, 0>>)
      /\ UNCHANGED <<got, ref, ulock, poll>>
    BY Zenon DEF UsbClose
<1>2. /\ Shapes /\ Threads(n) /\ Transfer(n) /\ ~Idle(n) /\ h[n].st = "listed"
    BY <1>1, Zenon DEF UsbInv, Device, Threads, Idle
<1>3. None \in Handle /\ None.st = "none" /\ ~None.outBusy /\ ~None.dead
    BY SMTT(30) DEF None, Handle
<1>4. /\ rd' \in Readers /\ wr' \in Writers /\ fly' \in Flights /\ rd'[n] = "none"
      /\ wr'[n] = "none" /\ fly'[n] = {}
      /\ \A m \in Names \ {n} : rd'[m] = rd[m] /\ wr'[m] = wr[m] /\ fly'[m] = fly[m]
    BY <1>1, <1>2, SMTT(30) DEF Shapes, Readers, Writers, Flights
<1>5. h' \in Handles /\ h'[n] = None /\ \A m \in Names \ {n} : h'[m] = h[m]
    BY <1>1, <1>2, <1>3, SMTT(30) DEF Shapes, Handles
<1>6. comp' \in Completions /\ comp'[n] = <<>> /\ \A m \in Names \ {n} : comp'[m] = comp[m]
    BY <1>1, <1>2, EmptyOnce, Zenon DEF Shapes, Completions
<1>7. /\ regq' \in Queues /\ Len(regq') = Len(regq) + 1 /\ Len(regq) \in Nat
      /\ regq'[Len(regq) + 1] = <<n, 0>> /\ \A i \in 1 .. Len(regq) : regq'[i] = regq[i]
      /\ \A i \in 1 .. Len(regq) : regq[i][1] \in Names
    BY <1>1, <1>2, SMTT(30) DEF Shapes, Queues
<1>8. Shapes'
    BY <1>1, <1>2, <1>4, <1>5, <1>6, <1>7, Zenon DEF Shapes
<1>9. Device(n)'
    <2>1. got[n].urb \notin {"in", "out", "error", "signal"} /\ ref[n] = 0
        BY <1>1, <1>2, SMTT(30) DEF Threads, Transfer, Alive
    <2>2. Threads(n)'
        BY <1>1, <1>4, <2>1, SMTT(30) DEF Threads, Idle, Alive
    <2>3. Transfer(n)'
        BY <1>1, <1>4, <1>6, <2>1, EmptyOnce, Zenon DEF Transfer
    <2>4. Waiting(n)'
        BY <1>1, <1>3, <1>4, <1>5, <1>6, <2>1, EmptyOnce, Zenon DEF Waiting
    <2> QED
        BY <2>2, <2>3, <2>4, Zenon DEF Device
<1>10. \A m \in Names : Device(m)'
    <2>1. \A m \in Names \ {n} : Same(m)
        BY <1>1, <1>4, <1>5, <1>6, Zenon DEF Same
    <2> QED
        BY <1>9, <2>1, DeviceFrame, Zenon DEF UsbInv
<1>11. Queue'
    <2>1. \A i \in 1 .. Len(regq') : regq'[i][2] = 1 => i \in 1 .. Len(regq) /\ regq'[i] = regq[i]
        BY <1>7
    <2>2. \A i \in 1 .. Len(regq) : regq[i][2] = 1 =>
             /\ regq[i][1] \in Names \ {n}
             /\ h[regq[i][1]].st = "listed" /\ Idle(regq[i][1])
        BY <1>2, <1>7, Zenon DEF UsbInv, Queue
    <2>3. \A i \in 1 .. Len(regq) : regq[i][2] = 1 =>
             /\ h'[regq[i][1]].st = "listed"
             /\ rd'[regq[i][1]] = "none" /\ wr'[regq[i][1]] = "none"
        BY <1>4, <1>5, <2>2, ZenonT(30) DEF Idle
    <2> QED
        BY <2>1, <2>3, SMTT(30) DEF UsbInv, Queue, Idle
<1>12. Search'
    BY <1>1, <1>2, <1>3, <1>5, SMTT(30) DEF UsbInv, Search, Shapes, Polls
<1> QED
    BY <1>8, <1>10, <1>11, <1>12, SMTT(30) DEF UsbInv

-----------------------------------------------------------------------------
(* The thread that looks for devices, and the registration of transports.  *)

\* Marks, kicks and the way through the list and the directory.
LEMMA SearchStep ==
    ASSUME UsbInv, NEW n \in Names, \A m \in Names \ {n} : Same(m),
           h' \in Handles, h'[n].st = h[n].st, Device(n)',
           fly' \in Flights, comp' \in Completions, got' \in Results,
           UNCHANGED <<rd, wr, ref, regq>>, poll' \in Polls, Search'
    PROVE  UsbInv'
<1>1. \A m \in Names : Device(m)'
    BY DeviceFrame, Zenon DEF UsbInv
<1>2. \A m \in Names : h'[m].st = h[m].st
    BY ZenonT(30) DEF Same
<1>3. Queue'
    BY <1>2, QueueFrame DEF UsbInv, Idle
<1> QED
    BY <1>1, <1>3, Zenon DEF UsbInv, Shapes

\* The mark is nobody's business but the search's.
LEMMA MarkFacts ==
    ASSUME UsbInv, NEW n \in Names, NEW b \in BOOLEAN, h' = [h EXCEPT ![n].mark = b],
           UNCHANGED <<fly, comp, got, rd, wr, ref>>
    PROVE  /\ h' \in Handles /\ \A m \in Names : h'[m].st = h[m].st
           /\ \A m \in Names \ {n} : Same(m)
           /\ Device(n)'
<1>1. /\ h' \in Handles /\ \A m \in Names \ {n} : h'[m] = h[m]
      /\ h'[n].st = h[n].st /\ (h'[n].rw <=> h[n].rw) /\ (h'[n].dead <=> h[n].dead)
      /\ (h'[n].outBusy <=> h[n].outBusy)
    BY SMTT(30) DEF UsbInv, Shapes, Handles, Handle
<1>2. Threads(n)'
    BY <1>1 DEF UsbInv, Device, Threads, Idle
<1>3. Transfer(n)'
    BY <1>1 DEF UsbInv, Device, Transfer, Idle
<1>4. Waiting(n)'
    BY <1>1 DEF UsbInv, Device, Waiting
<1> QED
    BY <1>1, <1>2, <1>3, <1>4 DEF Device, Same

LEMMA ScanStep ==
    ASSUME UsbInv, NEW n \in Names, Scan(n)
    PROVE  UsbInv'
<1>1. /\ poll.pc = "scan" /\ UNCHANGED <<fly, comp, got, rd, wr, ref, regq, ulock>>
    BY DEF Scan, transport, lists
<1>2. poll \in Polls /\ Search
    BY Zenon DEF UsbInv, Shapes
<1>3. CASE h' = [h EXCEPT ![n].mark = TRUE] /\ poll' = [poll EXCEPT !.todo = @ \ {n}]
    <2>1. poll' \in Polls /\ poll'.pc = "scan" /\ poll'.dev = poll.dev
        BY <1>1, <1>2, <1>3 DEF Polls
    <2>2. /\ h' \in Handles /\ \A m \in Names : h'[m].st = h[m].st
          /\ \A m \in Names \ {n} : Same(m)
          /\ Device(n)'
        BY <1>1, <1>3, MarkFacts, Zenon
    <2>3. Search'
        BY <1>1, <1>2, <2>1, <2>2, Zenon DEF Search
    <2> QED
        BY <1>1, <2>1, <2>2, <2>3, SearchStep, Zenon DEF UsbInv, Shapes
<1>4. CASE UNCHANGED h /\ poll' = [poll EXCEPT !.todo = @ \ {n}]
    <2>1. poll' \in Polls /\ poll'.pc = "scan" /\ poll'.dev = poll.dev
        BY <1>1, <1>2, <1>4 DEF Polls
    <2>2. Search'
        BY <1>1, <1>2, <1>4, <2>1 DEF Search
    <2>3. \A m \in Names : Same(m)
        BY <1>1, <1>4, SMTT(30) DEF Same
    <2> QED
        BY <1>1, <1>4, <2>1, <2>2, <2>3, SearchStep, DeviceFrame, Zenon DEF UsbInv, Shapes
<1>5. CASE /\ n \notin Listed /\ UNCHANGED h
           /\ poll' = [pc |-> "open", todo |-> poll.todo \ {n}, dev |-> {n}]
    <2>1. poll' \in Polls /\ poll'.pc = "open" /\ poll'.dev = {n}
        BY <1>2, <1>5, Zenon DEF Polls
    <2>2. h[n].st = "none" /\ \A m \in Names : h[m].st # "new"
        BY <1>1, <1>2, <1>5, Zenon DEF Search, Listed, UsbInv, Shapes, Handles, Handle
    <2>3. Search'
        BY <1>5, <2>1, <2>2, Zenon DEF Search
    <2>4. \A m \in Names : Same(m)
        BY <1>1, <1>5, Zenon DEF Same
    <2> QED
        BY <1>1, <1>5, <2>1, <2>3, <2>4, SearchStep, DeviceFrame, Zenon DEF UsbInv, Shapes
<1> QED
    BY <1>3, <1>4, <1>5 DEF Scan

\* A device that is opened has no handle yet, and so no threads.
LEMMA OpenStep ==
    ASSUME UsbInv, Open
    PROVE  UsbInv'
<1>1. poll.pc = "open" /\ UNCHANGED <<fly, comp, got, rd, wr, ref, regq, ulock>>
    BY DEF Open, transport, lists
<1>2. poll \in Polls /\ Search /\ Shapes
    BY DEF UsbInv, Shapes
<1>3. PICK n \in poll.dev :
         \/ /\ h' = [h EXCEPT ![n] = [None EXCEPT !.st = "new", !.mark = TRUE,
                                                 !.rw = plug[n] = "rw"]]
            /\ poll' = [poll EXCEPT !.pc = "add"]
         \/ poll' = [poll EXCEPT !.pc = "scan", !.dev = {}] /\ UNCHANGED h
    BY Zenon DEF Open
<1>4. n \in Names /\ h[n].st = "none" /\ poll.dev = {n}
    BY <1>1, <1>2, <1>3 DEF Search, Polls
<1>5. CASE poll' = [poll EXCEPT !.pc = "scan", !.dev = {}] /\ UNCHANGED h
    <2>1. poll' \in Polls /\ poll'.pc = "scan" /\ poll'.dev = {}
        BY <1>2, <1>5, Zenon DEF Polls
    <2>2. Search'
        BY <1>1, <1>2, <1>5, <2>1 DEF Search
    <2>3. \A m \in Names : Same(m)
        BY <1>1, <1>5 DEF Same
    <2> QED
        BY <1>1, <1>2, <1>4, <1>5, <2>1, <2>2, <2>3, SearchStep, DeviceFrame,
           SMTT(30) DEF UsbInv, Shapes
<1>6. CASE /\ h' = [h EXCEPT ![n] = [None EXCEPT !.st = "new", !.mark = TRUE,
                                                !.rw = plug[n] = "rw"]]
           /\ poll' = [poll EXCEPT !.pc = "add"]
    <2>1. poll' \in Polls /\ poll'.pc = "add" /\ poll'.dev = {n}
        BY <1>2, <1>4, <1>6 DEF Polls
    <2>2. /\ h' \in Handles /\ h'[n].st = "new" /\ ~h'[n].dead /\ ~h'[n].outBusy
          /\ \A m \in Names \ {n} : h'[m] = h[m]
        BY <1>2, <1>4, <1>6, Zenon DEF Shapes, Handles, Handle, None
    <2>3. Idle(n) /\ Idle(n)' /\ fly[n] = {} /\ comp[n] = <<>>
        BY <1>1, <1>4, ZenonT(30) DEF UsbInv, Device, Threads, Transfer, Idle
    <2>4. Device(n)'
        <3>1. Threads(n)'
            BY <1>1, <1>4, <2>3, ZenonT(30) DEF UsbInv, Device, Threads
        <3>2. Transfer(n)'
            BY <1>1, <1>4, <2>3, Zenon DEF UsbInv, Device, Transfer, Idle
        <3>3. got[n].urb \notin {"in", "out", "error", "signal"}
            BY <1>4, <2>3, Zenon DEF UsbInv, Device, Transfer, Idle
        <3>4. Waiting(n)'
            BY <1>1, <1>4, <2>2, <2>3, <3>3, EmptyOnce, ZenonT(30) DEF Waiting
        <3> QED
            BY <3>1, <3>2, <3>4 DEF Device
    <2>5. Shapes'
        BY <1>1, <1>2, <2>1, <2>2, Zenon DEF Shapes
    <2>6. \A m \in Names : Device(m)'
        <3>1. \A m \in Names \ {n} : Same(m)
            BY <1>1, <2>2, Zenon DEF Same
        <3> QED
            BY <2>4, <3>1, DeviceFrame, Zenon DEF UsbInv
    <2>7. Queue'
        <3>1. \A m \in Names : h[m].st = "listed" => h'[m].st = "listed"
            BY <1>4, <2>2, SMTT(30)
        <3>2. \A i \in 1 .. Len(regq) : regq[i][1] \in Names
            BY <1>2, SMTT(30) DEF Shapes, Queues
        <3> QED
            BY <1>1, <3>1, <3>2, Zenon DEF UsbInv, Queue, Idle
    <2>8. Search'
        BY <1>1, <1>2, <1>4, <2>1, <2>2, ZenonT(30) DEF Search
    <2> QED
        BY <2>5, <2>6, <2>7, <2>8 DEF UsbInv
<1> QED
    BY <1>3, <1>5, <1>6

\* The new device is on the list before its transport is, and without threads.
LEMMA AddDeviceStep ==
    ASSUME UsbInv, AddDevice
    PROVE  UsbInv'
<1>1. /\ poll.pc = "add" /\ UNCHANGED <<fly, comp, got, rd, wr, ref, ulock>>
      /\ poll' = [poll EXCEPT !.pc = "scan", !.dev = {}]
    BY DEF AddDevice, transport
<1>2. poll \in Polls /\ Search /\ Shapes
    BY DEF UsbInv, Shapes
<1>3. PICK n \in poll.dev : h' = [h EXCEPT ![n].st = "listed"] /\ regq' = Append(regq, <<n, 1>>)
    BY Zenon DEF AddDevice
<1>4. n \in Names /\ h[n].st = "new" /\ poll.dev = {n}
    BY <1>1, <1>2, <1>3 DEF Search, Polls
<1>5. poll' \in Polls /\ poll'.pc = "scan" /\ poll'.dev = {}
    BY <1>1, <1>2, Zenon DEF Polls
<1>6. /\ h' \in Handles /\ h'[n].st = "listed" /\ (h'[n].dead <=> h[n].dead)
      /\ (h'[n].outBusy <=> h[n].outBusy) /\ \A m \in Names \ {n} : h'[m] = h[m]
    BY <1>2, <1>3, <1>4, ZenonT(30) DEF Shapes, Handles, Handle
<1>7. /\ regq' \in Queues /\ Len(regq') = Len(regq) + 1 /\ Len(regq) \in Nat
      /\ regq'[Len(regq) + 1] = <<n, 1>> /\ \A i \in 1 .. Len(regq) : regq'[i] = regq[i]
      /\ \A i \in 1 .. Len(regq) : regq[i][1] \in Names
    BY <1>2, <1>3, <1>4 DEF Shapes, Queues
<1>8. Idle(n) /\ Idle(n)'
    BY <1>1, <1>4 DEF UsbInv, Device, Threads, Idle
<1>9. Device(n)'
    <2>1. Threads(n)'
        BY <1>1, <1>4, <1>8 DEF UsbInv, Device, Threads
    <2>2. Transfer(n)'
        BY <1>1, <1>4, <1>6, <1>8 DEF UsbInv, Device, Transfer
    <2>3. Waiting(n)'
        BY <1>1, <1>4, <1>6 DEF UsbInv, Device, Waiting
    <2> QED
        BY <2>1, <2>2, <2>3 DEF Device
<1>10. \A m \in Names : Device(m)'
    <2>1. \A m \in Names \ {n} : Same(m)
        BY <1>1, <1>6 DEF Same
    <2> QED
        BY <1>9, <2>1, DeviceFrame, SMTT(30) DEF UsbInv
<1>11. Queue'
    <2>1. \A i \in 1 .. Len(regq) : regq[i][2] = 1 =>
             /\ regq[i][1] \in Names \ {n}
             /\ h[regq[i][1]].st = "listed" /\ Idle(regq[i][1])
        BY <1>4, <1>7, Zenon DEF UsbInv, Queue
    <2>2. \A i \in 1 .. Len(regq') : \/ i \in 1 .. Len(regq) /\ regq'[i] = regq[i]
                                     \/ i = Len(regq) + 1 /\ regq'[i] = <<n, 1>>
        <3>1. \A i \in 1 .. Len(regq') : i \in 1 .. Len(regq) \/ i = Len(regq) + 1
            BY <1>7, SMTT(30)
        <3> QED
            BY <1>7, <3>1, Zenon
    <2>3. \A i \in 1 .. Len(regq') : regq'[i][2] = 1 =>
             /\ h'[regq'[i][1]].st = "listed"
             /\ rd[regq'[i][1]] = "none" /\ wr[regq'[i][1]] = "none"
        BY <1>6, <1>8, <2>1, <2>2, SMTT(30) DEF Idle
    <2>4. \A i, j \in 1 .. Len(regq') :
             regq'[i][2] = 1 /\ regq'[j][2] = 1 /\ regq'[i][1] = regq'[j][1] => i = j
        BY <2>1, <2>2, SMTT(30) DEF UsbInv, Queue
    <2> QED
        BY <1>1, <2>3, <2>4, SMTT(30) DEF Queue, Idle
<1>12. Search'
    BY <1>1, <1>2, <1>4, <1>5, <1>6, ZenonT(30) DEF Search
<1> QED
    BY <1>1, <1>2, <1>5, <1>6, <1>7, <1>10, <1>11, <1>12, SMTT(30) DEF UsbInv, Shapes

LEMMA LockStep ==
    ASSUME UsbInv, LockList \/ UnlockList
    PROVE  UsbInv'
<1>1. /\ UNCHANGED <<h, fly, comp, got, rd, wr, ref, regq>>
      /\ \/ poll.pc = "scan" /\ ulock' /\ poll' = [poll EXCEPT !.pc = "kick", !.todo = Listed]
         \/ poll.pc = "kick" /\ poll' = [poll EXCEPT !.pc = "scan", !.todo = Names]
    BY DEF LockList, UnlockList, device, transport
<1>2. poll \in Polls /\ Search /\ Shapes
    BY DEF UsbInv, Shapes
<1>3. /\ poll' \in Polls /\ poll'.dev = poll.dev
      /\ \/ poll'.pc = "kick" /\ poll'.todo = Listed /\ ulock'
         \/ poll'.pc = "scan"
    BY <1>1, <1>2, ZenonT(30) DEF Polls, Listed
<1>4. Search'
    BY <1>1, <1>2, <1>3 DEF Search, Listed
<1>5. \A m \in Names : Same(m)
    BY <1>1 DEF Same
<1>6. Queue'
    BY <1>1 DEF UsbInv, Queue, Idle
<1> QED
    BY <1>1, <1>2, <1>3, <1>4, <1>5, <1>6, DeviceFrame DEF UsbInv, Shapes

\* kick_disconnected_devices: a handle is unmarked, kicked, or marked dead when
\* nobody can write to it, and then it has no threads.
LEMMA KickOrUnmarkStep ==
    ASSUME UsbInv, NEW n \in Names, KickOrUnmark(n)
    PROVE  UsbInv'
<1>1. /\ poll.pc = "kick" /\ n \in poll.todo /\ poll' = [poll EXCEPT !.todo = @ \ {n}]
      /\ UNCHANGED <<rd, wr, ref, regq, ulock>>
    BY DEF KickOrUnmark
<1>2. poll \in Polls /\ Search /\ Shapes
    BY DEF UsbInv, Shapes
<1>3. poll' \in Polls /\ poll'.pc = "kick" /\ poll'.dev = poll.dev /\ poll'.todo \subseteq poll.todo
    BY <1>1, <1>2 DEF Polls
<1>4. poll.todo \subseteq Names
    BY <1>2 DEF Polls
<1>5. ASSUME \A m \in Names : h'[m].st = h[m].st
      PROVE  Search'
    BY <1>1, <1>2, <1>3, <1>4, <1>5 DEF Search, Polls
<1>6. CASE h' = [h EXCEPT ![n].mark = FALSE] /\ UNCHANGED <<fly, comp, got>>
    <2>1. /\ h' \in Handles /\ \A m \in Names : h'[m].st = h[m].st
          /\ \A m \in Names \ {n} : Same(m)
          /\ Device(n)'
        BY <1>1, <1>6, MarkFacts, Zenon
    <2> QED
        BY <1>1, <1>2, <1>3, <1>5, <1>6, <2>1, SearchStep, Zenon DEF Shapes
<1>7. CASE UsbKick(n)
    <2>1. /\ h' \in Handles /\ fly' \in Flights /\ comp' \in Completions /\ got' \in Results
          /\ \A m \in Names : h'[m].st = h[m].st
          /\ \A m \in Names \ {n} : Same(m)
        BY <1>1, <1>7, KickFacts DEF Same
    <2>2. Threads(n)'
        BY <1>1, <1>7, KickFacts, SMTT(30) DEF UsbInv, Device, Threads, Idle
    <2>3. Transfer(n)'
        BY <1>1, <1>7, KickFacts, ZenonT(30) DEF UsbInv, Device, Transfer, Idle
    <2>4. Waiting(n)'
        BY <1>7, KickFacts, Zenon DEF Waiting
    <2> QED
        BY <1>1, <1>3, <1>5, <2>1, <2>2, <2>3, <2>4, SearchStep, SMTT(30) DEF Device
<1>8. CASE /\ ~h[n].rw /\ ~h[n].dead /\ h' = [h EXCEPT ![n].dead = TRUE]
           /\ UNCHANGED <<fly, comp, got>>
    <2>1. /\ h' \in Handles /\ \A m \in Names \ {n} : h'[m] = h[m]
          /\ h'[n].st = h[n].st /\ (h'[n].rw <=> h[n].rw) /\ h'[n].dead
          /\ (h'[n].outBusy <=> h[n].outBusy)
        BY <1>2, <1>8, ZenonT(30) DEF Shapes, Handles, Handle
    <2>2. Idle(n) /\ ~h[n].outBusy
        BY <1>8, Zenon DEF UsbInv, Device, Threads, Waiting, Idle
    <2>3. Threads(n)'
        BY <1>1, <2>1, <2>2 DEF UsbInv, Device, Threads, Idle
    <2>4. Transfer(n)'
        BY <1>1, <1>8, <2>1, <2>2, Zenon DEF UsbInv, Device, Transfer, Idle
    <2>5. Waiting(n)'
        BY <2>1, <2>2, Zenon DEF Waiting
    <2>6. (\A m \in Names : h'[m].st = h[m].st) /\ \A m \in Names \ {n} : Same(m)
        BY <1>1, <1>8, <2>1, Zenon DEF Same
    <2> QED
        BY <1>1, <1>2, <1>3, <1>5, <1>8, <2>1, <2>3, <2>4, <2>5, <2>6, SearchStep, Zenon
           DEF Device, Shapes
<1> QED
    BY <1>6, <1>7, <1>8 DEF KickOrUnmark

\* transport_registration_func starts the threads of a device that has none,
\* because there is one registration for it and it is still on the list.
LEMMA RegistrationStep ==
    ASSUME UsbInv, Registration
    PROVE  UsbInv'
<1>1. /\ regq # <<>> /\ regq' = Tail(regq) /\ UNCHANGED <<h, fly, comp, got, ulock, poll>>
    BY Zenon DEF Registration, device
<1>2. Shapes /\ Search /\ regq \in Queues
    BY DEF UsbInv, Shapes
<1>3. /\ regq' \in Queues /\ Len(regq) \in Nat \ {0} /\ Len(regq') = Len(regq) - 1
      /\ Head(regq) = regq[1] /\ \A i \in 1 .. Len(regq') : regq'[i] = regq[i + 1]
      /\ \A i \in 1 .. Len(regq) : regq[i][1] \in Names
    BY <1>1, <1>2, SMTT(30) DEF Queues
<1>4. \A i \in 1 .. Len(regq') : i + 1 \in 1 .. Len(regq) /\ i + 1 # 1
    BY <1>3
<1>5. 1 \in 1 .. Len(regq)
    BY <1>3, SMTT(30)
<1>6. PICK n \in Names : n = regq[1][1]
    BY <1>3, <1>5, Zenon
<1>7. \/ /\ regq[1][2] = 1 /\ h[n].rw /\ ref' = [ref EXCEPT ![n] = 2]
         /\ rd' = [rd EXCEPT ![n] = "submit"] /\ wr' = [wr EXCEPT ![n] = "read"]
      \/ UNCHANGED <<ref, rd, wr>>
    BY <1>3, <1>6, Zenon DEF Registration
<1>8. \A i, j \in 1 .. Len(regq') :
         regq'[i][2] = 1 /\ regq'[j][2] = 1 /\ regq'[i][1] = regq'[j][1] => i = j
    <2>1. \A i, j \in 1 .. Len(regq') : i + 1 = j + 1 => i = j
        BY <1>3
    <2> QED
        BY <1>3, <1>4, <2>1, SMTT(30) DEF UsbInv, Queue
<1>9. Search'
    BY <1>1, <1>2, Zenon DEF Search
<1>10. CASE UNCHANGED <<ref, rd, wr>>
    <2>1. \A m \in Names : Same(m)
        BY <1>1, <1>10, Zenon DEF Same
    <2>2. \A i \in 1 .. Len(regq') : regq'[i][2] = 1 =>
             /\ h[regq'[i][1]].st = "listed"
             /\ rd[regq'[i][1]] = "none" /\ wr[regq'[i][1]] = "none"
        BY <1>3, <1>4, ZenonT(30) DEF UsbInv, Queue, Idle
    <2>3. Queue'
        BY <1>1, <1>8, <1>10, <2>2, Zenon DEF Queue, Idle
    <2> QED
        BY <1>1, <1>2, <1>3, <1>9, <1>10, <2>1, <2>3, DeviceFrame, Zenon DEF UsbInv, Shapes
<1>11. CASE /\ regq[1][2] = 1 /\ h[n].rw /\ ref' = [ref EXCEPT ![n] = 2]
            /\ rd' = [rd EXCEPT ![n] = "submit"] /\ wr' = [wr EXCEPT ![n] = "read"]
    <2>1. /\ rd' \in Readers /\ wr' \in Writers /\ ref' \in [Names -> Nat]
          /\ rd'[n] = "submit" /\ wr'[n] = "read" /\ ref'[n] = 2
          /\ \A m \in Names \ {n} : rd'[m] = rd[m] /\ wr'[m] = wr[m] /\ ref'[m] = ref[m]
        BY <1>2, <1>5, <1>11, Zenon DEF Shapes, Readers, Writers
    <2>2. h[n].st = "listed" /\ Idle(n)
        BY <1>5, <1>11, <1>6, Zenon DEF UsbInv, Queue
    <2>3. \A i \in 1 .. Len(regq') : regq'[i][2] = 1 => regq'[i][1] \in Names \ {n}
        BY <1>3, <1>4, <1>5, <1>11, <1>6, ZenonT(30) DEF UsbInv, Queue
    <2>4. Device(n)'
        <3>1. fly[n] = {} /\ comp[n] = <<>> /\ got[n].urb \notin {"in", "out", "error", "signal"}
            BY <1>5, <2>2, Zenon DEF UsbInv, Device, Transfer, Idle
        <3>2. Threads(n)'
            <4>1. Alive("submit") = 1 /\ Alive("read") = 1
                BY Zenon DEF Alive
            <4>2. ref'[n] = Alive(rd'[n]) + Alive(wr'[n])
                BY <2>1, <4>1
            <4>3. h'[n].st = "listed" /\ h'[n].rw
                BY <1>1, <1>11, <2>2, Zenon
            <4> QED
                BY <2>1, <4>2, <4>3, Zenon DEF Threads
        <3>3. Transfer(n)'
            <4>1. ~Idle(n)' /\ Once(comp'[n]) /\ Urbs(comp'[n]) = {} /\ fly'[n] = {}
                BY <1>1, <2>1, <3>1, EmptyOnce, Zenon DEF Idle
            <4>2. got'[n].urb \notin {"in", "out", "error", "signal"}
                BY <1>1, <3>1, Zenon
            <4> QED
                BY <4>1, <4>2, Zenon DEF Transfer
        <3>4. ~h[n].outBusy
            BY <1>5, <2>2, Zenon DEF UsbInv, Device, Waiting, Idle
        <3>5. Waiting(n)'
            BY <1>1, <3>1, <3>4, EmptyOnce, Zenon DEF Waiting
        <3> QED
            BY <3>2, <3>3, <3>5 DEF Device
    <2>5. \A m \in Names : Device(m)'
        <3>1. \A m \in Names \ {n} : Same(m)
            BY <1>1, <2>1, Zenon DEF Same
        <3> QED
            BY <2>4, <3>1, DeviceFrame, Zenon DEF UsbInv
    <2>6. Queue'
        <3>1. \A i \in 1 .. Len(regq') : regq'[i][2] = 1 =>
                 /\ h[regq'[i][1]].st = "listed"
                 /\ rd[regq'[i][1]] = "none" /\ wr[regq'[i][1]] = "none"
            BY <1>3, <1>4, ZenonT(30) DEF UsbInv, Queue, Idle
        <3>2. \A i \in 1 .. Len(regq') : regq'[i][2] = 1 =>
                 /\ h'[regq'[i][1]].st = "listed"
                 /\ rd'[regq'[i][1]] = "none" /\ wr'[regq'[i][1]] = "none"
            BY <1>1, <2>1, <2>3, <3>1, ZenonT(30)
        <3> QED
            BY <1>8, <3>2, Zenon DEF Queue, Idle
    <2> QED
        BY <1>1, <1>2, <1>3, <1>9, <2>1, <2>5, <2>6, Zenon DEF UsbInv, Shapes
<1> QED
    BY <1>10, <1>11, <1>7, Zenon

\* The main loop's packets and what is plugged in decide nothing of this.
LEMMA OtherStep ==
    ASSUME UsbInv, UNCHANGED <<h, fly, comp, got, rd, wr, ref, regq, ulock, poll>>
    PROVE  UsbInv'
<1>1. Shapes'
    BY DEF UsbInv, Shapes
<1>2. \A n \in Names : Device(n)'
    BY DeviceFrame, Zenon DEF UsbInv, Same
<1>3. Queue'
    BY Zenon DEF UsbInv, Queue, Idle
<1>4. Search'
    BY Zenon DEF UsbInv, Search
<1> QED
    BY <1>1, <1>2, <1>3, <1>4, Zenon DEF UsbInv

-----------------------------------------------------------------------------
(* The invariant holds, and is what the property needs.                    *)

LEMMA UsbInit == Init => UsbInv
<1> SUFFICES ASSUME Init PROVE UsbInv
    OBVIOUS
<1>1. Shapes
    <2>1. None \in Handle /\ Nothing \in [urb : {"none", "signal", "error", "in", "out"}, ok : BOOLEAN]
        BY SMTT(30) DEF None, Handle, Nothing, Urb
    <2>2. h \in Handles /\ got \in Results /\ fly \in Flights
        BY <2>1, SMTT(30) DEF Init, Handles, Results, Flights
    <2>3. comp \in Completions
        BY EmptyOnce, SMTT(30) DEF Init, Completions
    <2>4. rd \in Readers /\ wr \in Writers /\ ref \in [Names -> Nat]
        BY Zenon DEF Init, Readers, Writers
    <2>5. regq \in Queues /\ poll \in Polls
        BY DEF Init, Queues, Polls
    <2> QED
        BY <2>2, <2>3, <2>4, <2>5, SMTT(30) DEF Shapes
<1>2. ASSUME NEW n \in Names PROVE Device(n)
    <2>1. /\ h[n] = None /\ fly[n] = {} /\ comp[n] = <<>> /\ got[n].urb = "none"
          /\ rd[n] = "none" /\ wr[n] = "none" /\ ref[n] = 0
        BY Zenon DEF Init, Nothing, Urb
    <2>2. Threads(n)
        BY <2>1, SMTT(30) DEF Threads, Idle, Alive
    <2>3. Transfer(n)
        BY <2>1, EmptyOnce, Zenon DEF Transfer
    <2>4. Waiting(n)
        <3>1. ~h[n].dead /\ ~h[n].outBusy
            BY <2>1 DEF None
        <3>2. Urbs(comp[n]) = {}
            BY <2>1, EmptyOnce, Zenon
        <3>3. "in" \notin fly[n] \cup Urbs(comp[n])
            BY <2>1, <3>2, Zenon
        <3>4. "out" \notin fly[n] \cup Urbs(comp[n]) \cup {got[n].urb}
            BY <2>1, <3>2, Zenon
        <3> QED
            BY <3>1, <3>3, <3>4, Zenon DEF Waiting
    <2> QED
        BY <2>2, <2>3, <2>4, Zenon DEF Device
<1>3. Queue
    <2>1. Len(regq) = 0
        BY Zenon DEF Init
    <2> QED
        BY <2>1, SMTT(30) DEF Queue
<1>4. Search
    BY Zenon DEF Init, Search, None
<1> QED
    BY <1>1, <1>2, <1>3, <1>4 DEF UsbInv

LEMMA UsbStep == UsbInv /\ [Next]_vars => UsbInv'
<1> SUFFICES ASSUME UsbInv, [Next]_vars PROVE UsbInv'
    OBVIOUS
<1>1. CASE PollThread
    BY <1>1, ScanStep, KickOrUnmarkStep, OpenStep, AddDeviceStep, LockStep DEF PollThread
<1>2. CASE Registration
    BY <1>2, RegistrationStep
<1>3. ASSUME NEW n \in Names, Plug(n) \/ Unplug(n) \/ SendPacket(n) \/ HandleSync(n)
      PROVE  UsbInv'
    <2>1. UNCHANGED <<h, fly, comp, got, rd, wr, ref, regq, ulock, poll>>
        BY <1>3, Zenon DEF Plug, Unplug, SendPacket, HandleSync, device, transport, lists
    <2> QED
        BY <2>1, OtherStep, SMTT(30)
<1>4. ASSUME NEW n \in Names, Reader(n)
      PROVE  UsbInv'
    BY <1>4, ReadSubmitStep, ReadEnterStep, ReapStep, ReturnStep, PostOfflineStep,
       SMTT(30) DEF Reader
<1>5. ASSUME NEW n \in Names, Writer(n)
      PROVE  UsbInv'
    BY <1>5, WriterReadsStep, WriteSubmitStep, WriteDoneStep DEF Writer
<1>6. ASSUME NEW n \in Names, Leave(n)
      PROVE  UsbInv'
    BY <1>6, LeaverKicks, UnrefStep, UsbCloseStep, SMTT(30) DEF Leave
<1>7. CASE UNCHANGED vars
    <2>1. UNCHANGED <<h, fly, comp, got, rd, wr, ref, regq, ulock, poll>>
        BY <1>7, Zenon DEF vars
    <2> QED
        BY <2>1, OtherStep, SMTT(30)
<1> QED
    BY <1>1, <1>2, <1>3, <1>4, <1>5, <1>6, <1>7, CompleteStep, SMTT(30) DEF Next

INSTANCE FiniteSetTheorems

\* The reference count counts the threads that have not let go of the handle.
LEMMA CountThreads ==
    ASSUME NEW r, NEW w
    PROVE  Cardinality({t \in {"rd", "wr"} : (IF t = "rd" THEN r ELSE w) \notin {"none", "close"}})
              = Alive(r) + Alive(w)
<1> DEFINE S == {t \in {"rd", "wr"} : (IF t = "rd" THEN r ELSE w) \notin {"none", "close"}}
<1>1. CASE r \in {"none", "close"} /\ w \in {"none", "close"}
    <2>1. S = {}
        BY <1>1, Zenon
    <2> QED
        BY <1>1, <2>1, FS_EmptySet, SMTT(30) DEF Alive
<1>2. CASE r \notin {"none", "close"} /\ w \in {"none", "close"}
    <2>1. S = {"rd"}
        BY <1>2, Zenon
    <2> QED
        BY <1>2, <2>1, FS_Singleton, SMTT(30) DEF Alive
<1>3. CASE r \in {"none", "close"} /\ w \notin {"none", "close"}
    <2>1. S = {"wr"}
        BY <1>3, Zenon
    <2> QED
        BY <1>3, <2>1, FS_Singleton, SMTT(30) DEF Alive
<1>4. CASE r \notin {"none", "close"} /\ w \notin {"none", "close"}
    <2>1. S = {"rd"} \cup {"wr"} /\ "wr" \notin {"rd"}
        BY <1>4, Zenon
    <2>2. IsFiniteSet({"rd"}) /\ Cardinality({"rd"}) = 1
        BY FS_Singleton, ZenonT(30)
    <2>3. Cardinality({"rd"} \cup {"wr"}) = 2
        BY <2>1, <2>2, FS_AddElement, SMTT(30)
    <2> QED
        BY <1>4, <2>1, <2>3, SMTT(30) DEF Alive
<1> QED
    BY <1>1, <1>2, <1>3, <1>4, ZenonT(30)

LEMMA UsbInvSafe == UsbInv => UsbSafe
<1> SUFFICES ASSUME UsbInv PROVE UsbSafe
    BY Zenon
<1>1. ASSUME NEW n \in Names
      PROVE  /\ {rd[n], wr[n]} # {"none"} => n \in Listed
             /\ ref[n] = Cardinality({t \in {"rd", "wr"} :
                           (IF t = "rd" THEN rd[n] ELSE wr[n]) \notin {"none", "close"}})
             /\ rd[n] = "submit" => h[n].dead \/ "in" \notin Pending(n)
             /\ wr[n] = "submit" => h[n].dead \/ "out" \notin Pending(n)
             /\ wr[n] = "wait" /\ h[n].outBusy =>
                   "out" \in Pending(n) \/ \E ok \in BOOLEAN : got[n] = Urb("out", ok)
    <2>1. Threads(n) /\ Transfer(n) /\ Waiting(n) /\ got \in Results
        BY Zenon DEF UsbInv, Device, Shapes
    <2>2. Pending(n) = fly[n] \cup Urbs(comp[n])
        BY Zenon DEF Pending, Urbs
    <2>3. {rd[n], wr[n]} # {"none"} => n \in Listed
        BY <2>1, Zenon DEF Threads, Idle, Listed
    <2>4. ref[n] = Cardinality({t \in {"rd", "wr"} :
                     (IF t = "rd" THEN rd[n] ELSE wr[n]) \notin {"none", "close"}})
        BY <2>1, CountThreads, Zenon DEF Threads
    <2>5. rd[n] = "submit" => h[n].dead \/ "in" \notin Pending(n)
        BY <2>1, <2>2, Zenon DEF Waiting
    <2>6. wr[n] = "submit" => h[n].dead \/ "out" \notin Pending(n)
        BY <2>1, <2>2, Zenon DEF Waiting
    <2>7. got[n].urb = "out" => \E ok \in BOOLEAN : got[n] = Urb("out", ok)
        <3>1. got[n] \in [urb : {"none", "signal", "error", "in", "out"}, ok : BOOLEAN]
            BY <2>1, Zenon DEF Results
        <3> QED
            BY <3>1, Zenon DEF Urb
    <2>8. h[n].outBusy => "out" \in Pending(n) \/ got[n].urb = "out"
        BY <2>1, <2>2, ZenonT(30) DEF Waiting
    <2> QED
        BY <2>3, <2>4, <2>5, <2>6, <2>7, <2>8, ZenonT(30)
<1>2. poll.pc = "kick" => poll.todo \subseteq Listed
    BY Zenon DEF UsbInv, Search, Shapes, Polls, Listed
<1> QED
    BY <1>1, <1>2, Zenon DEF UsbSafe

(* However devices come and go, and however the reader, the writer and the  *)
(* thread that looks for devices interleave: a thread of a transport has a  *)
(* handle that usb_close has not freed, the list that                      *)
(* kick_disconnected_devices walks holds no freed handle, usb_bulk_read and *)
(* usb_bulk_write submit a transfer only after its last use was reaped, and *)
(* a writer waits only for a transfer that the reader has yet to reap.     *)
THEOREM UsbIsSafe == Spec => []UsbSafe
    BY UsbInit, UsbStep, UsbInvSafe, PTL DEF Spec
=============================================================================
