------------------------- MODULE AdbTransportProofs -------------------------
(***************************************************************************)
(* Proofs about AdbTransport, for any number of transports and sockets and *)
(* any bounds: the transport that its two threads, the pipe and the main   *)
(* loop share is freed when none of them refers to it.  Transports that    *)
(* are unregistered (adb disconnect, the emulator's console) are left out, *)
(* as they are in FreedAlone.                                              *)
(***************************************************************************)
EXTENDS AdbTransport, TLAPS

Packets == {"SYNC0", "SYNC1", "CNXN", "OKAY", "OPEN"}
Sockets == [kind : {"none", "smart", "opening", "connected"}, t : Transports \cup {0}]
SmartHas == \A k \in Socks : sock[k].kind = "smart" => sock[k].t \in Transports
TransportShapes ==
    /\ life \in [Transports -> {"none", "sent", "live", "freed"}]
    /\ out \in [Transports -> {"none", "sync", "read", "offline", "kick", "unref", "done"}]
    /\ in \in [Transports -> {"none", "read", "close", "kick", "unref", "done"}]
    /\ ref \in [Transports -> Int] /\ cstate \in [Transports -> {"offline", "device"}]
    /\ toMain \in [Transports -> Seq(Packets)] /\ toIn \in [Transports -> Seq(Packets)]
    /\ regq \in Seq(Transports \X {0, 1}) /\ sock \in [Socks -> Sockets]
    /\ SmartHas

\* A transport that was never unregistered: its count is that of its threads,
\* which end before it is freed.
Running(s) == IF s \in {"none", "done"} THEN 0 ELSE 1
Counted(t) ==
    /\ in[t] = "none" <=> out[t] = "none"
    /\ life[t] \in {"none", "sent"} => out[t] = "none"
    /\ ref[t] = Running(in[t]) + Running(out[t])
    /\ life[t] = "freed" => in[t] = "done" /\ out[t] = "done" /\ t \notin listed

\* One request about it is in the pipe, to register it or to remove it.
Asked(t) ==
    /\ \A i, j \in 1 .. Len(regq) : regq[i][1] = t /\ regq[j][1] = t => i = j
    /\ \A i \in 1 .. Len(regq) : regq[i][1] = t =>
          \/ regq[i][2] = 1 /\ life[t] = "sent"
          \/ regq[i][2] = 0 /\ life[t] = "live" /\ in[t] = "done" /\ out[t] = "done"

\* SYNC(0) is the last packet of the output thread.  When it has come through the
\* main loop, no packet follows and nothing can take up the transport any more;
\* when the input thread has closed the sockets, none is left.
Leaving(s) == s \in {"kick", "unref", "done"}
SyncedOut(t) ==
    in[t] = "close" \/ Leaving(in[t]) \/ \E i \in 1 .. Len(toIn[t]) : toIn[t][i] = "SYNC0"
Closing(t) ==
    /\ \A i \in 1 .. Len(toMain[t]) :
          toMain[t][i] = "SYNC0" => i = Len(toMain[t]) /\ Leaving(out[t])
    /\ SyncedOut(t) =>
          /\ toMain[t] = <<>> /\ Leaving(out[t]) /\ cstate[t] = "offline" /\ t \notin fwd
          /\ \A k \in Socks : sock[k] # [kind |-> "connected", t |-> t]
    /\ Leaving(in[t]) => \A k \in Socks : sock[k].t # t

(* The inductive invariant.                                                *)
TransportInv ==
    TransportShapes /\ \A t \in Transports \ unreg : Counted(t) /\ Asked(t) /\ Closing(t)
-----------------------------------------------------------------------------
(* Sequences.                                                              *)

LEMMA Appended ==
    ASSUME NEW S, NEW s \in Seq(S), NEW e \in S
    PROVE  /\ Append(s, e) \in Seq(S) /\ Len(Append(s, e)) = Len(s) + 1 /\ Len(s) \in Nat
           /\ \A i \in 1 .. Len(s) + 1 :
                 \/ i \in 1 .. Len(s) /\ Append(s, e)[i] = s[i]
                 \/ i = Len(s) + 1 /\ Append(s, e)[i] = e
    OBVIOUS

LEMMA Tailed ==
    ASSUME NEW S, NEW s \in Seq(S), s # <<>>
    PROVE  /\ Tail(s) \in Seq(S) /\ Len(Tail(s)) = Len(s) - 1 /\ Len(s) \in Nat \ {0}
           /\ \A i \in 1 .. Len(s) - 1 : Tail(s)[i] = s[i + 1]
           /\ Head(s) = s[1] /\ Head(s) \in S
    OBVIOUS

-----------------------------------------------------------------------------
(* What a step leaves alone.                                               *)

LEMMA CountedKept ==
    ASSUME NEW u, Counted(u), life'[u] = life[u], in'[u] = in[u], out'[u] = out[u],
           ref'[u] = ref[u], u \in listed' => u \in listed
    PROVE  Counted(u)'
    BY DEF Counted, Running

LEMMA AskedKept ==
    ASSUME NEW u, Asked(u), regq' = regq, life'[u] = life[u], in[u] = "done" => in'[u] = "done",
           out[u] = "done" => out'[u] = "done"
    PROVE  Asked(u)'
    BY DEF Asked

LEMMA ClosingKept ==
    ASSUME NEW u, Closing(u), in'[u] = in[u], out'[u] = out[u], toMain'[u] = toMain[u],
           toIn'[u] = toIn[u], cstate'[u] = cstate[u], u \in fwd' => u \in fwd,
           \A k \in Socks : sock'[k] = sock[k] \/ sock'[k].t # u
    PROVE  Closing(u)'
    BY DEF Closing, SyncedOut, Leaving

-----------------------------------------------------------------------------
(* The threads.                                                            *)

\* What the output thread sends comes before SYNC(0).
LEMMA SendKeepsClosing ==
    ASSUME NEW t, NEW e \in Packets, Closing(t), toMain[t] \in Seq(Packets), ~Leaving(out[t]),
           toMain'[t] = Append(toMain[t], e), e = "SYNC0" => Leaving(out'[t]),
           in'[t] = in[t], toIn'[t] = toIn[t]
    PROVE  Closing(t)'
<1>1. ~SyncedOut(t) /\ \A i \in 1 .. Len(toMain[t]) : toMain[t][i] # "SYNC0"
    BY DEF Closing
<1>2. ~SyncedOut(t)' /\ ~Leaving(in'[t])
    BY <1>1 DEF SyncedOut, Leaving
<1>3. Len(toMain'[t]) = Len(toMain[t]) + 1 /\ \A i \in 1 .. Len(toMain'[t]) :
         \/ i \in 1 .. Len(toMain[t]) /\ toMain'[t][i] = toMain[t][i]
         \/ i = Len(toMain[t]) + 1 /\ toMain'[t][i] = e
    BY Appended
<1> QED  BY <1>1, <1>2, <1>3 DEF Closing

\* One lemma for each step of the two threads.
LEMMA OutSyncKeeps ==
    ASSUME TransportInv, NEW t \in Transports, OutSync(t)
    PROVE  TransportInv'
<1>1. TransportShapes'
    BY DEF TransportInv, TransportShapes, OutSync, threads, refs, Packets, Sockets, NoSocket,
           SmartHas
<1> SUFFICES ASSUME NEW u \in Transports \ unreg PROVE Counted(u)' /\ Asked(u)' /\ Closing(u)'
    BY <1>1 DEF TransportInv, OutSync
<1>2. Counted(u) /\ Asked(u) /\ Closing(u)
    BY DEF TransportInv
<1>3. Counted(u)'
    BY <1>2 DEF TransportInv, TransportShapes, OutSync, threads, Counted, Running
<1>4. Asked(u)'
    BY <1>2, AskedKept DEF TransportInv, TransportShapes, OutSync, threads
<1>5. CASE u # t
    BY <1>2, <1>3, <1>4, <1>5, ClosingKept
       DEF TransportInv, TransportShapes, OutSync, threads, refs
<1>6. CASE u = t
    <2>1. PICK e \in Packets : /\ toMain'[t] = Append(toMain[t], e)
                               /\ e = "SYNC0" => Leaving(out'[t])
        BY DEF TransportInv, TransportShapes, OutSync, Packets, Leaving
    <2>2. ~Leaving(out[t])
        BY DEF OutSync, Leaving
    <2> QED
        BY <1>2, <1>3, <1>4, <1>6, <2>1, <2>2, SendKeepsClosing, Zenon
           DEF TransportInv, TransportShapes, OutSync, threads
<1> QED  BY <1>5, <1>6

LEMMA OutReadKeeps ==
    ASSUME TransportInv, NEW t \in Transports, OutRead(t)
    PROVE  TransportInv'
<1>1. TransportShapes'
    BY DEF TransportInv, TransportShapes, OutRead, threads, refs, Packets, Sockets, NoSocket,
           SmartHas
<1> SUFFICES ASSUME NEW u \in Transports \ unreg PROVE Counted(u)' /\ Asked(u)' /\ Closing(u)'
    BY <1>1 DEF TransportInv, OutRead
<1>2. Counted(u) /\ Asked(u) /\ Closing(u)
    BY DEF TransportInv
<1>3. Counted(u)'
    BY <1>2 DEF TransportInv, TransportShapes, OutRead, threads, Counted, Running
<1>4. Asked(u)'
    BY <1>2, AskedKept DEF TransportInv, TransportShapes, OutRead, threads
<1>5. CASE u # t
    BY <1>2, <1>3, <1>4, <1>5, ClosingKept
       DEF TransportInv, TransportShapes, OutRead, threads, refs
<1>6. CASE u = t
    <2>1. PICK e \in Packets : /\ toMain'[t] = Append(toMain[t], e)
                               /\ e = "SYNC0" => Leaving(out'[t])
        BY DEF TransportInv, TransportShapes, OutRead, Packets, Leaving
    <2>2. ~Leaving(out[t])
        BY DEF OutRead, Leaving
    <2> QED
        BY <1>2, <1>3, <1>4, <1>6, <2>1, <2>2, SendKeepsClosing, Zenon
           DEF TransportInv, TransportShapes, OutRead, threads
<1> QED  BY <1>5, <1>6

LEMMA OutFailsKeeps ==
    ASSUME TransportInv, NEW t \in Transports, OutFails(t)
    PROVE  TransportInv'
<1>1. TransportShapes'
    BY DEF TransportInv, TransportShapes, OutFails, threads, refs, Packets, Sockets, NoSocket,
           SmartHas
<1> SUFFICES ASSUME NEW u \in Transports \ unreg PROVE Counted(u)' /\ Asked(u)' /\ Closing(u)'
    BY <1>1 DEF TransportInv, OutFails
<1>2. Counted(u) /\ Asked(u) /\ Closing(u)
    BY DEF TransportInv
<1>3. Counted(u)'
    BY <1>2 DEF TransportInv, TransportShapes, OutFails, threads, Counted, Running
<1>4. Asked(u)'
    BY <1>2, AskedKept DEF TransportInv, TransportShapes, OutFails, threads
<1>5. CASE u # t
    BY <1>2, <1>3, <1>4, <1>5, ClosingKept
       DEF TransportInv, TransportShapes, OutFails, threads, refs
<1>6. CASE u = t
    BY <1>2, <1>3, <1>4, <1>6
       DEF TransportInv, TransportShapes, OutFails, threads, refs, Counted, Closing, SyncedOut,
           Leaving
<1> QED  BY <1>5, <1>6

LEMMA OutOfflineKeeps ==
    ASSUME TransportInv, NEW t \in Transports, OutOffline(t)
    PROVE  TransportInv'
<1>1. TransportShapes'
    BY DEF TransportInv, TransportShapes, OutOffline, threads, refs, Packets, Sockets,
           NoSocket, SmartHas
<1> SUFFICES ASSUME NEW u \in Transports \ unreg PROVE Counted(u)' /\ Asked(u)' /\ Closing(u)'
    BY <1>1 DEF TransportInv, OutOffline
<1>2. Counted(u) /\ Asked(u) /\ Closing(u)
    BY DEF TransportInv
<1>3. Counted(u)'
    BY <1>2 DEF TransportInv, TransportShapes, OutOffline, threads, Counted, Running
<1>4. Asked(u)'
    BY <1>2, AskedKept DEF TransportInv, TransportShapes, OutOffline, threads
<1>5. CASE u # t
    BY <1>2, <1>3, <1>4, <1>5, ClosingKept
       DEF TransportInv, TransportShapes, OutOffline, threads, refs
<1>6. CASE u = t
    <2>1. PICK e \in Packets : /\ toMain'[t] = Append(toMain[t], e)
                               /\ e = "SYNC0" => Leaving(out'[t])
        BY DEF TransportInv, TransportShapes, OutOffline, Packets, Leaving
    <2>2. ~Leaving(out[t])
        BY DEF OutOffline, Leaving
    <2> QED
        BY <1>2, <1>3, <1>4, <1>6, <2>1, <2>2, SendKeepsClosing, Zenon
           DEF TransportInv, TransportShapes, OutOffline, threads
<1> QED  BY <1>5, <1>6

LEMMA OutKickKeeps ==
    ASSUME TransportInv, NEW t \in Transports, OutKick(t)
    PROVE  TransportInv'
<1>1. TransportShapes'
    BY DEF TransportInv, TransportShapes, OutKick, threads, refs, Packets, Sockets, NoSocket,
           SmartHas
<1> SUFFICES ASSUME NEW u \in Transports \ unreg PROVE Counted(u)' /\ Asked(u)' /\ Closing(u)'
    BY <1>1 DEF TransportInv, OutKick
<1>2. Counted(u) /\ Asked(u) /\ Closing(u)
    BY DEF TransportInv
<1>3. Counted(u)'
    BY <1>2 DEF TransportInv, TransportShapes, OutKick, threads, Counted, Running
<1>4. Asked(u)'
    BY <1>2, AskedKept DEF TransportInv, TransportShapes, OutKick, threads
<1>5. CASE u # t
    BY <1>2, <1>3, <1>4, <1>5, ClosingKept
       DEF TransportInv, TransportShapes, OutKick, threads, refs
<1>6. CASE u = t
    BY <1>2, <1>3, <1>4, <1>6
       DEF TransportInv, TransportShapes, OutKick, threads, refs, Counted, Closing, SyncedOut,
           Leaving
<1> QED  BY <1>5, <1>6

LEMMA InReadKeeps ==
    ASSUME TransportInv, NEW t \in Transports, InRead(t)
    PROVE  TransportInv'
<1>1. TransportShapes'
    <2>0. toIn[t] # <<>> => Tail(toIn[t]) \in Seq(Packets)
        BY DEF TransportInv, TransportShapes
    <2>1. toIn' \in [Transports -> Seq(Packets)]
        BY <2>0, Zenon DEF TransportInv, TransportShapes, InRead
    <2>2. in' \in [Transports -> {"none", "read", "close", "kick", "unref", "done"}]
        BY ZenonT(30) DEF TransportInv, TransportShapes, InRead
    <2> QED  BY <2>1, <2>2, Zenon DEF TransportInv, TransportShapes, SmartHas, InRead
<1> SUFFICES ASSUME NEW u \in Transports \ unreg PROVE Counted(u)' /\ Asked(u)' /\ Closing(u)'
    BY <1>1 DEF TransportInv, InRead
<1>2. Counted(u) /\ Asked(u) /\ Closing(u)
    BY DEF TransportInv
<1>3. Counted(u)'
    BY <1>2 DEF TransportInv, TransportShapes, InRead, threads, Counted, Running
<1>4. Asked(u)'
    BY <1>2, AskedKept DEF TransportInv, TransportShapes, InRead, threads
<1>5. CASE u # t
    BY <1>2, <1>3, <1>4, <1>5, ClosingKept, Zenon
       DEF TransportInv, TransportShapes, InRead, threads, refs
<1>6. CASE u = t
    <2>1. life[t] # "freed" /\ in[t] = "read"
        BY <1>2, <1>6 DEF InRead, Counted
    <2>2. toIn[t] # <<>> /\ toIn'[t] = Tail(toIn[t]) /\ toIn[t] \in Seq(Packets)
        BY <2>1 DEF TransportInv, TransportShapes, InRead
    <2>3. Head(toIn[t]) = "SYNC0" => SyncedOut(t)
        BY <2>2, Tailed DEF SyncedOut
    <2>4. in'[t] = "read" \/ (in'[t] = "close" /\ SyncedOut(t))
        BY <2>1, <2>2, <2>3 DEF TransportInv, TransportShapes, InRead
    <2>5. (\E i \in 1 .. Len(toIn'[t]) : toIn'[t][i] = "SYNC0") => SyncedOut(t)
        BY <2>2, Tailed DEF SyncedOut
    <2>6. (SyncedOut(t)' => SyncedOut(t)) /\ ~Leaving(in'[t])
        BY <2>4, <2>5 DEF SyncedOut, Leaving
    <2> QED  BY <1>2, <1>3, <1>4, <1>6, <2>6 DEF InRead, Closing
<1> QED  BY <1>5, <1>6

LEMMA InCloseKeeps ==
    ASSUME TransportInv, NEW t \in Transports, InClose(t)
    PROVE  TransportInv'
<1>1. TransportShapes'
    BY DEF TransportInv, TransportShapes, InClose, threads, refs, Packets, Sockets, NoSocket,
           SmartHas
<1> SUFFICES ASSUME NEW u \in Transports \ unreg PROVE Counted(u)' /\ Asked(u)' /\ Closing(u)'
    BY <1>1 DEF TransportInv, InClose
<1>2. Counted(u) /\ Asked(u) /\ Closing(u)
    BY DEF TransportInv
<1>3. Counted(u)'
    BY <1>2 DEF TransportInv, TransportShapes, InClose, threads, Counted, Running
<1>4. Asked(u)'
    BY <1>2, AskedKept DEF TransportInv, TransportShapes, InClose, threads
<1>5. CASE u # t
    BY <1>2, <1>3, <1>4, <1>5, ClosingKept, TransportNames, SMTT(30)
       DEF TransportInv, TransportShapes, InClose, threads, refs, NoSocket
<1>6. CASE u = t
    BY <1>2, <1>3, <1>4, <1>6, TransportNames
       DEF TransportInv, TransportShapes, InClose, threads, refs, Counted, Closing, SyncedOut,
           Leaving, NoSocket
<1> QED  BY <1>5, <1>6

LEMMA InKickKeeps ==
    ASSUME TransportInv, NEW t \in Transports, InKick(t)
    PROVE  TransportInv'
<1>1. TransportShapes'
    BY DEF TransportInv, TransportShapes, InKick, threads, refs, Packets, Sockets, NoSocket,
           SmartHas
<1> SUFFICES ASSUME NEW u \in Transports \ unreg PROVE Counted(u)' /\ Asked(u)' /\ Closing(u)'
    BY <1>1 DEF TransportInv, InKick
<1>2. Counted(u) /\ Asked(u) /\ Closing(u)
    BY DEF TransportInv
<1>3. Counted(u)'
    BY <1>2 DEF TransportInv, TransportShapes, InKick, threads, Counted, Running
<1>4. Asked(u)'
    BY <1>2, AskedKept DEF TransportInv, TransportShapes, InKick, threads
<1>5. CASE u # t
    BY <1>2, <1>3, <1>4, <1>5, ClosingKept
       DEF TransportInv, TransportShapes, InKick, threads, refs
<1>6. CASE u = t
    BY <1>2, <1>3, <1>4, <1>6, ZenonT(30)
       DEF TransportInv, TransportShapes, InKick, threads, refs, Counted, Closing, SyncedOut,
           Leaving
<1> QED  BY <1>5, <1>6

-----------------------------------------------------------------------------
(* The pipe.                                                               *)

Requests == Transports \X {0, 1}

\* A request about another transport.
LEMMA OtherAsked ==
    ASSUME NEW u, NEW r \in Requests, regq \in Seq(Requests), Asked(u), r[1] # u,
           regq' = Append(regq, r), life'[u] = life[u], in'[u] = in[u], out'[u] = out[u]
    PROVE  Asked(u)'
<1>1. Len(regq') = Len(regq) + 1 /\ \A i \in 1 .. Len(regq') :
         \/ i \in 1 .. Len(regq) /\ regq'[i] = regq[i]
         \/ i = Len(regq) + 1 /\ regq'[i] = r
    BY Appended
<1>2. \A i \in 1 .. Len(regq') : regq'[i][1] = u => i \in 1 .. Len(regq) /\ regq'[i] = regq[i]
    BY <1>1
<1>3. \A i, j \in 1 .. Len(regq') : regq'[i][1] = u /\ regq'[j][1] = u => i = j
    BY <1>2, SMTT(30) DEF Asked
<1>4. \A i \in 1 .. Len(regq') : regq'[i][1] = u =>
         \/ regq'[i][2] = 1 /\ life'[u] = "sent"
         \/ regq'[i][2] = 0 /\ life'[u] = "live" /\ in'[u] = "done" /\ out'[u] = "done"
    BY <1>2, SMTT(30) DEF Asked
<1> QED  BY <1>3, <1>4, Zenon DEF Asked

\* The only request about a transport.
LEMMA OwnAsked ==
    ASSUME NEW u, NEW r \in Requests, regq \in Seq(Requests), r[1] = u,
           \A i \in 1 .. Len(regq) : regq[i][1] # u, regq' = Append(regq, r),
           \/ r[2] = 1 /\ life'[u] = "sent"
           \/ r[2] = 0 /\ life'[u] = "live" /\ in'[u] = "done" /\ out'[u] = "done"
    PROVE  Asked(u)'
<1>1. Len(regq') = Len(regq) + 1 /\ \A i \in 1 .. Len(regq') :
         \/ i \in 1 .. Len(regq) /\ regq'[i] = regq[i]
         \/ i = Len(regq) + 1 /\ regq'[i] = r
    BY Appended
<1>2. \A i \in 1 .. Len(regq') : regq'[i][1] = u => i = Len(regq) + 1 /\ regq'[i] = r
    BY <1>1
<1> QED  BY <1>2 DEF Asked

\* register_transport asks for a transport that no request was about.
LEMMA RegisterKeeps ==
    ASSUME TransportInv, NEW t \in Transports, Register(t)
    PROVE  TransportInv'
<1>1. <<t, 1>> \in Requests /\ regq \in Seq(Requests) /\ regq' = Append(regq, <<t, 1>>)
    BY DEF TransportInv, TransportShapes, Register, Requests
<1>2. regq' \in Seq(Transports \X {0, 1})
    BY <1>1, Appended DEF Requests
<1>3. TransportShapes'
    BY <1>2 DEF TransportInv, TransportShapes, SmartHas, Register, threads, refs
<1> SUFFICES ASSUME NEW u \in Transports \ unreg PROVE Counted(u)' /\ Asked(u)' /\ Closing(u)'
    BY <1>3 DEF TransportInv, Register
<1>4. Counted(u) /\ Asked(u) /\ Closing(u)
    BY DEF TransportInv
<1>5. Counted(u)'
    BY <1>4 DEF TransportInv, TransportShapes, Register, threads, Counted, Running
<1>6. Closing(u)'
    BY <1>4, ClosingKept DEF Register, threads, refs
<1>7. CASE u # t
    BY <1>1, <1>4, <1>5, <1>6, <1>7, OtherAsked, Zenon
       DEF TransportInv, TransportShapes, Register, threads
<1>8. CASE u = t
    <2>1. \A i \in 1 .. Len(regq) : regq[i][1] # t
        BY <1>4, <1>8 DEF Register, Asked
    <2> QED
        BY <1>1, <1>5, <1>6, <1>8, <2>1, OwnAsked, Zenon DEF TransportInv, TransportShapes, Register
<1> QED  BY <1>7, <1>8

\* transport_unref keeps the shape, and says nothing about other transports.
LEMMA UnrefOthers ==
    ASSUME TransportShapes, NEW t \in Transports, Unref(t)
    PROVE  /\ regq' \in Seq(Transports \X {0, 1}) /\ ref' \in [Transports -> Int]
           /\ \A u \in Transports \ {t} :
                 Asked(u) /\ life'[u] = life[u] /\ in'[u] = in[u] /\ out'[u] = out[u]
                     => Asked(u)'
<1>1. <<t, 0>> \in Requests /\ regq \in Seq(Requests)
    BY DEF TransportShapes, Requests
<1>2. regq' \in Seq(Transports \X {0, 1})
    BY <1>1, Appended DEF Unref, Requests
<1>3. ref' \in [Transports -> Int]
    BY DEF TransportShapes, Unref
<1>4. ASSUME NEW u \in Transports \ {t}, Asked(u), life'[u] = life[u], in'[u] = in[u],
             out'[u] = out[u]
      PROVE  Asked(u)'
    <2>1. CASE regq' = regq
        BY <1>4, <2>1, AskedKept
    <2>2. CASE regq' = Append(regq, <<t, 0>>)
        BY <1>1, <1>4, <2>2, OtherAsked
    <2> QED  BY <2>1, <2>2 DEF Unref
<1> QED  BY <1>2, <1>3, <1>4

\* The last of the two threads asks for the removal.
LEMMA UnrefOwn ==
    ASSUME TransportShapes, NEW t \in Transports, Unref(t), Counted(t), Asked(t),
           listed' = listed, life'[t] = life[t],
           \/ in[t] = "unref" /\ in'[t] = "done" /\ out'[t] = out[t]
           \/ out[t] = "unref" /\ out'[t] = "done" /\ in'[t] = in[t]
    PROVE  Counted(t)' /\ Asked(t)'
<1>1. Counted(t)'
    BY DEF TransportShapes, Unref, Counted, Running
<1>2. <<t, 0>> \in Requests /\ regq \in Seq(Requests)
    BY DEF TransportShapes, Requests
<1>3. life[t] = "live"
    BY DEF TransportShapes, Counted
<1>4. \A i \in 1 .. Len(regq) : regq[i][1] # t
    BY <1>3 DEF Asked
<1>5. CASE ref[t] # 1
    <2>1. regq' = regq
        BY <1>5 DEF Unref
    <2> QED  BY <1>1, <1>4, <2>1 DEF Asked
<1>6. CASE ref[t] = 1
    <2>1. in'[t] = "done" /\ out'[t] = "done"
        BY <1>6 DEF TransportShapes, Counted, Running
    <2>2. regq' = Append(regq, <<t, 0>>)
        BY <1>6 DEF Unref
    <2> QED  BY <1>1, <1>2, <1>3, <1>4, <2>1, <2>2, OwnAsked, Zenon
<1> QED  BY <1>5, <1>6

\* The two threads end.
LEMMA OutUnrefKeeps ==
    ASSUME TransportInv, NEW t \in Transports, OutUnref(t)
    PROVE  TransportInv'
<1>1. TransportShapes'
    BY UnrefOthers DEF TransportInv, TransportShapes, SmartHas, OutUnref, refs
<1> SUFFICES ASSUME NEW u \in Transports \ unreg PROVE Counted(u)' /\ Asked(u)' /\ Closing(u)'
    BY <1>1 DEF TransportInv, OutUnref
<1>2. Counted(u) /\ Asked(u) /\ Closing(u) /\ TransportShapes /\ Unref(t)
    BY DEF TransportInv, OutUnref
<1>3. CASE u # t
    <2>1. Asked(u)'
        BY <1>2, <1>3, UnrefOthers DEF TransportShapes, OutUnref
    <2>2. Counted(u)'
        BY <1>2, <1>3, CountedKept DEF TransportShapes, OutUnref, Unref
    <2>3. Closing(u)'
        BY <1>2, <1>3, ClosingKept DEF TransportShapes, OutUnref, refs
    <2> QED  BY <2>1, <2>2, <2>3
<1>4. CASE u = t
    <2>1. Counted(t)' /\ Asked(t)'
        BY <1>2, <1>4, UnrefOwn DEF TransportShapes, OutUnref
    <2>2. Closing(t)'
        BY <1>2, <1>4 DEF TransportShapes, OutUnref, refs, Closing, SyncedOut, Leaving
    <2> QED  BY <1>4, <2>1, <2>2
<1> QED  BY <1>3, <1>4

LEMMA InUnrefKeeps ==
    ASSUME TransportInv, NEW t \in Transports, InUnref(t)
    PROVE  TransportInv'
<1>1. TransportShapes'
    BY UnrefOthers DEF TransportInv, TransportShapes, SmartHas, InUnref, refs
<1> SUFFICES ASSUME NEW u \in Transports \ unreg PROVE Counted(u)' /\ Asked(u)' /\ Closing(u)'
    BY <1>1 DEF TransportInv, InUnref
<1>2. Counted(u) /\ Asked(u) /\ Closing(u) /\ TransportShapes /\ Unref(t)
    BY DEF TransportInv, InUnref
<1>3. CASE u # t
    <2>1. Asked(u)'
        BY <1>2, <1>3, UnrefOthers DEF TransportShapes, InUnref
    <2>2. Counted(u)'
        BY <1>2, <1>3, CountedKept DEF TransportShapes, InUnref, Unref
    <2>3. Closing(u)'
        BY <1>2, <1>3, ClosingKept DEF TransportShapes, InUnref, refs
    <2> QED  BY <2>1, <2>2, <2>3
<1>4. CASE u = t
    <2>1. Counted(t)' /\ Asked(t)'
        BY <1>2, <1>4, UnrefOwn DEF TransportShapes, InUnref
    <2>2. Closing(t)'
        BY <1>2, <1>4 DEF TransportShapes, InUnref, refs, Closing, SyncedOut, Leaving
    <2> QED  BY <1>4, <2>1, <2>2
<1> QED  BY <1>3, <1>4

\* A transport that is unregistered is of no concern any more.
LEMMA UnregisterKeeps ==
    ASSUME TransportInv, NEW t \in Transports, Unregister(t)
    PROVE  TransportInv'
<1>1. TransportShapes'
    BY UnrefOthers DEF TransportInv, TransportShapes, SmartHas, Unregister, refs
<1> SUFFICES ASSUME NEW u \in Transports \ unreg, u # t
             PROVE  Counted(u)' /\ Asked(u)' /\ Closing(u)'
    BY <1>1 DEF TransportInv, Unregister
<1>2. Counted(u) /\ Asked(u) /\ Closing(u) /\ TransportShapes /\ Unref(t)
    BY DEF TransportInv, Unregister
<1>3. Asked(u)'
    BY <1>2, UnrefOthers DEF TransportShapes, Unregister
<1>4. Counted(u)'
    BY <1>2, CountedKept DEF TransportShapes, Unregister, Unref
<1>5. Closing(u)'
    BY <1>2, ClosingKept DEF TransportShapes, Unregister, refs
<1> QED  BY <1>3, <1>4, <1>5

-----------------------------------------------------------------------------
(* The main loop.                                                          *)

\* Of a transport at the head of the pipe nothing is left in it.
LEMMA HeadAsked ==
    ASSUME NEW u, Asked(u), regq \in Seq(Requests), regq # <<>>, regq' = Tail(regq)
    PROVE  /\ Head(regq)[1] = u => \A i \in 1 .. Len(regq') : regq'[i][1] # u
           /\ life'[u] = life[u] /\ in'[u] = in[u] /\ out'[u] = out[u] => Asked(u)'
<1>1. /\ Len(regq') = Len(regq) - 1 /\ Len(regq) \in Nat \ {0} /\ Head(regq) = regq[1]
      /\ \A i \in 1 .. Len(regq') : regq'[i] = regq[i + 1]
    BY Tailed
<1>2. Head(regq)[1] = u => \A i \in 1 .. Len(regq') : regq'[i][1] # u
    BY <1>1 DEF Asked
<1>3. ASSUME life'[u] = life[u], in'[u] = in[u], out'[u] = out[u] PROVE Asked(u)'
    <2>1. \A i, j \in 1 .. Len(regq') : regq'[i][1] = u /\ regq'[j][1] = u => i = j
        BY <1>1, SMTT(30) DEF Asked
    <2> QED  BY <1>1, <1>3, <2>1 DEF Asked
<1> QED  BY <1>2, <1>3

\* transport_registration_func, on a request to register and on one to remove.
LEMMA RegistrationFuncKeeps ==
    ASSUME TransportInv, RegistrationFunc
    PROVE  TransportInv'
<1>1. regq \in Seq(Requests) /\ regq # <<>> /\ regq' = Tail(regq)
    BY DEF TransportInv, TransportShapes, RegistrationFunc, Requests
<1>2. Head(regq) \in Requests /\ regq' \in Seq(Transports \X {0, 1})
    BY <1>1, Tailed DEF Requests
<1>3. PICK t \in Transports : Head(regq)[1] = t
    BY <1>2 DEF Requests
<1>4. CASE Head(regq)[2] = 1
    <2>1. /\ life' = [life EXCEPT ![t] = "live"] /\ listed' = listed \cup {t}
          /\ ref' = [ref EXCEPT ![t] = 2] /\ in' = [in EXCEPT ![t] = "read"]
          /\ out' = [out EXCEPT ![t] = "sync"]
          /\ UNCHANGED <<sock, fwd, cstate, toMain, toIn, unreg>>
        BY <1>3, <1>4 DEF RegistrationFunc
    <2>2. TransportShapes'
        BY <1>2, <2>1, SMTT(30) DEF TransportInv, TransportShapes, SmartHas
    <2> SUFFICES ASSUME NEW u \in Transports \ unreg
                 PROVE  Counted(u)' /\ Asked(u)' /\ Closing(u)'
        BY <2>1, <2>2 DEF TransportInv
    <2>3. Counted(u) /\ Asked(u) /\ Closing(u)
        BY DEF TransportInv
    <2>4. CASE u # t
        <3>1. Asked(u)'
            BY <1>1, <2>1, <2>3, <2>4, HeadAsked, Zenon DEF TransportInv, TransportShapes
        <3>2. Counted(u)'
            BY <2>1, <2>3, <2>4, CountedKept DEF TransportInv, TransportShapes
        <3>3. Closing(u)'
            BY <2>1, <2>3, <2>4, ClosingKept DEF TransportInv, TransportShapes
        <3> QED  BY <3>1, <3>2, <3>3
    <2>5. CASE u = t
        <3>1. life[t] = "sent"
            BY <1>1, <1>3, <1>4, <2>3, <2>5, Tailed DEF Asked
        <3>2. in[t] = "none" /\ out[t] = "none"
            BY <2>3, <2>5, <3>1, ZenonT(30) DEF Counted
        <3>3. Asked(t)'
            BY <1>1, <1>3, <2>3, <2>5, HeadAsked DEF Asked
        <3>4. Counted(t)'
            BY <2>1 DEF TransportInv, TransportShapes, Counted, Running
        <3>5. ~SyncedOut(t) /\ \A i \in 1 .. Len(toMain[t]) : toMain[t][i] # "SYNC0"
            BY <2>3, <2>5, <3>2 DEF Closing, Leaving
        <3>6. Closing(t)'
            BY <2>1, <3>5, ZenonT(30) DEF TransportInv, TransportShapes, Closing, SyncedOut, Leaving
        <3> QED  BY <2>5, <3>3, <3>4, <3>6, ZenonT(30)
    <2> QED  BY <2>4, <2>5
<1>5. CASE Head(regq)[2] = 0
    <2>1. /\ life' = [life EXCEPT ![t] = "freed"] /\ listed' = listed \ {t}
          /\ sock' = Disconnected(t) /\ fwd' = fwd \ {t}
          /\ UNCHANGED <<ref, in, out, cstate, toMain, toIn, unreg>>
        BY <1>3, <1>5 DEF RegistrationFunc
    <2>2. TransportShapes'
        BY <1>2, <2>1, Zenon
           DEF TransportInv, TransportShapes, Disconnected, Sockets, NoSocket, SmartHas
    <2> SUFFICES ASSUME NEW u \in Transports \ unreg
                 PROVE  Counted(u)' /\ Asked(u)' /\ Closing(u)'
        BY <2>1, <2>2, Zenon DEF TransportInv
    <2>3. Counted(u) /\ Asked(u) /\ Closing(u)
        BY DEF TransportInv
    <2>4. Closing(u)'
        BY <2>1, <2>3, ClosingKept, TransportNames DEF Disconnected, NoSocket
    <2>5. CASE u # t
        <3>1. Asked(u)'
            BY <1>1, <2>1, <2>3, <2>5, HeadAsked, Zenon DEF TransportInv, TransportShapes
        <3>2. Counted(u)'
            BY <2>1, <2>3, <2>5, CountedKept DEF TransportInv, TransportShapes
        <3> QED  BY <2>4, <3>1, <3>2, Zenon
    <2>6. CASE u = t
        <3>1. in[t] = "done" /\ out[t] = "done"
            BY <1>1, <1>3, <1>5, <2>3, <2>6, Tailed DEF Asked
        <3>2. Asked(t)'
            BY <1>1, <1>3, <2>3, <2>6, HeadAsked DEF Asked
        <3>3. Counted(t)'
            BY <2>1, <2>3, <2>6, <3>1, Zenon DEF TransportInv, TransportShapes, Counted
        <3> QED  BY <2>4, <2>6, <3>2, <3>3, ZenonT(30)
    <2> QED  BY <2>5, <2>6
<1> QED  BY <1>2, <1>4, <1>5 DEF Requests

LEMMA Emptied ==
    ASSUME NEW S, NEW q \in Seq(S), NEW m, 1 = m, Len(q) = m - 1
    PROVE  q = <<>>
    OBVIOUS

\* While a packet waits for the main loop, SYNC(0) has not come through; and
\* SYNC(0) is the last one.
LEMMA PacketWaits ==
    ASSUME NEW t, Closing(t), toMain[t] \in Seq(Packets), toMain[t] # <<>>,
           toMain'[t] = Tail(toMain[t]), out'[t] = out[t]
    PROVE  /\ ~SyncedOut(t)
           /\ \A i \in 1 .. Len(toMain'[t]) :
                 toMain'[t][i] = "SYNC0" => i = Len(toMain'[t]) /\ Leaving(out'[t])
           /\ Head(toMain[t]) = "SYNC0" => toMain'[t] = <<>> /\ Leaving(out[t])
<1>1. /\ Len(toMain'[t]) = Len(toMain[t]) - 1 /\ Len(toMain[t]) \in Nat \ {0}
      /\ Head(toMain[t]) = toMain[t][1] /\ toMain'[t] \in Seq(Packets)
      /\ \A i \in 1 .. Len(toMain'[t]) : toMain'[t][i] = toMain[t][i + 1]
    BY Tailed, ZenonT(30)
<1>2. ~SyncedOut(t)
    BY DEF Closing
<1> DEFINE m == Len(toMain[t])
<1>3. \A i \in 1 .. m : toMain[t][i] = "SYNC0" => i = m /\ Leaving(out[t])
    BY Zenon DEF Closing
<1> HIDE DEF m
<1>4. Len(toMain'[t]) = m - 1 /\ m \in Nat \ {0}
    BY <1>1, Zenon DEF m
<1>5. ASSUME NEW i \in 1 .. Len(toMain'[t]), toMain'[t][i] = "SYNC0"
      PROVE  i = Len(toMain'[t]) /\ Leaving(out'[t])
    <2>1. i + 1 \in 1 .. m /\ (i + 1 = m => i = m - 1)
        BY <1>4, SMTT(30)
    <2>2. toMain[t][i + 1] = "SYNC0"
        BY <1>1, <1>5, Zenon
    <2> QED  BY <1>3, <1>4, <2>1, <2>2, Zenon
<1>6. ASSUME Head(toMain[t]) = "SYNC0" PROVE toMain'[t] = <<>> /\ Leaving(out[t])
    <2>1. 1 = m /\ Leaving(out[t])
        <3>1. 1 \in 1 .. m
            BY <1>4, SMTT(30)
        <3> QED  BY <1>1, <1>3, <1>6, <3>1, Zenon
    <2>2. toMain'[t] = <<>>
        BY <1>1, <1>4, <2>1, Emptied, Zenon
    <2> QED  BY <2>1, <2>2, Zenon
<1> QED  BY <1>2, <1>5, <1>6, Zenon

\* A socket goes on to another kind.
LEMMA KindChanges ==
    ASSUME NEW k \in Socks, NEW x \in {"opening", "connected"}, sock \in [Socks -> Sockets],
           SmartHas, sock' = [sock EXCEPT ![k].kind = x]
    PROVE  sock' \in [Socks -> Sockets] /\ SmartHas' /\ \A j \in Socks : sock'[j].t = sock[j].t
<1>1. [sock[k] EXCEPT !.kind = x] \in Sockets /\ [sock[k] EXCEPT !.kind = x].t = sock[k].t
    BY DEF Sockets
<1>2. [sock[k] EXCEPT !.kind = x].kind = x
    BY DEF Sockets
<1> QED  BY <1>1, <1>2 DEF SmartHas

\* handle_packet: SYNC(0) leaves nothing of the transport, and no other packet makes
\* up for a SYNC(0) that is still to come.
LEMMA HandlePacketShapes ==
    ASSUME TransportShapes, NEW t \in Transports, HandlePacket(t)
    PROVE  TransportShapes'
<1>1. toMain' \in [Transports -> Seq(Packets)]
    BY DEF TransportShapes, HandlePacket
<1>2. toIn' \in [Transports -> Seq(Packets)]
    <2>1. /\ toIn[t] \o <<"SYNC1", "CNXN">> \in Seq(Packets)
          /\ Append(toIn[t], "SYNC0") \in Seq(Packets)
        BY DEF TransportShapes, Packets
    <2> QED  BY <2>1, ZenonT(30) DEF TransportShapes, HandlePacket
<1>3. cstate' \in [Transports -> {"offline", "device"}]
    BY Zenon DEF TransportShapes, HandlePacket
<1>4. sock' \in [Socks -> Sockets] /\ SmartHas'
    <2>1. CASE sock' = sock
        BY <2>1 DEF TransportShapes, SmartHas
    <2>2. CASE sock' = Disconnected(t)
        BY <2>2 DEF TransportShapes, SmartHas, Disconnected, Sockets, NoSocket
    <2>3. CASE \E k \in Socks : sock' = [sock EXCEPT ![k].kind = "connected"]
        BY <2>3, KindChanges, Zenon DEF TransportShapes
    <2> QED  BY <2>1, <2>2, <2>3 DEF HandlePacket
<1> QED  BY <1>1, <1>2, <1>3, <1>4 DEF TransportShapes, HandlePacket, threads

LEMMA HandlePacketKeeps ==
    ASSUME TransportInv, NEW t \in Transports, HandlePacket(t)
    PROVE  TransportInv'
<1>1. TransportShapes' /\ TransportShapes
    BY HandlePacketShapes DEF TransportInv
<1> SUFFICES ASSUME NEW u \in Transports \ unreg PROVE Counted(u)' /\ Asked(u)' /\ Closing(u)'
    BY <1>1 DEF TransportInv, HandlePacket
<1>2. Counted(u) /\ Asked(u) /\ Closing(u)
    BY DEF TransportInv
<1>3. Counted(u)' /\ Asked(u)'
    BY <1>2, CountedKept, AskedKept DEF HandlePacket, threads
<1>4. CASE u # t
    <2>1. \A k \in Socks : sock'[k] = sock[k] \/ sock'[k].t # u
        BY <1>1, <1>4, TransportNames, SMTT(30)
           DEF TransportShapes, HandlePacket, Disconnected, NoSocket, Sockets
    <2>2. in'[u] = in[u] /\ out'[u] = out[u] /\ toMain'[u] = toMain[u]
        BY <1>1, <1>4, ZenonT(30) DEF TransportShapes, HandlePacket, threads
    <2>3. toIn'[u] = toIn[u]
        <3>1. \/ toIn' = [toIn EXCEPT ![t] = @ \o <<"SYNC1", "CNXN">>]
              \/ toIn' = [toIn EXCEPT ![t] = Append(@, "SYNC0")]
              \/ toIn' = toIn
            BY Zenon DEF HandlePacket
        <3>2. toIn \in [Transports -> Seq(Packets)]
            BY <1>1, Zenon DEF TransportShapes
        <3> QED  BY <1>4, <3>1, <3>2, Zenon
    <2>4. cstate'[u] = cstate[u] /\ (u \in fwd' => u \in fwd)
        BY <1>1, <1>4, ZenonT(60) DEF TransportShapes, HandlePacket
    <2> QED  BY <1>2, <1>3, <2>1, <2>2, <2>3, <2>4, ClosingKept, Zenon
<1>5. CASE u = t
    <2> DEFINE p == Head(toMain[t])
    <2>1. /\ toMain[t] \in Seq(Packets) /\ toMain[t] # <<>> /\ toMain'[t] = Tail(toMain[t])
          /\ out'[t] = out[t] /\ in'[t] = in[t]
        BY <1>1 DEF TransportShapes, HandlePacket, threads
    <2>2. /\ ~SyncedOut(t)
          /\ \A i \in 1 .. Len(toMain'[t]) :
                toMain'[t][i] = "SYNC0" => i = Len(toMain'[t]) /\ Leaving(out'[t])
          /\ p = "SYNC0" => toMain'[t] = <<>> /\ Leaving(out[t])
        BY <1>2, <1>5, <2>1, PacketWaits, Zenon
    <2>3. ~Leaving(in'[t])
        BY <2>1, <2>2, Zenon DEF SyncedOut
    <2>4. CASE p = "SYNC0"
        <3>1. cstate'[t] = "offline" /\ t \notin fwd' /\ sock' = Disconnected(t)
            BY <1>1, <2>4, ZenonT(30) DEF TransportShapes, HandlePacket
        <3>2. \A k \in Socks : sock'[k] # [kind |-> "connected", t |-> t]
            BY <3>1, TransportNames, Zenon DEF Disconnected, NoSocket
        <3> QED  BY <1>3, <1>5, <2>1, <2>2, <2>3, <2>4, <3>1, <3>2, Zenon DEF Closing
    <2>5. CASE p # "SYNC0"
        <3>1. toIn'[t] = toIn[t] \/ toIn'[t] = toIn[t] \o <<"SYNC1", "CNXN">>
            BY <1>1, <2>5, ZenonT(30) DEF TransportShapes, HandlePacket
        <3>2. toIn[t] \in Seq(Packets) /\ \A i \in 1 .. Len(toIn[t]) : toIn[t][i] # "SYNC0"
            BY <1>1, <2>2, Zenon DEF TransportShapes, SyncedOut
        <3>3. ASSUME NEW i \in 1 .. Len(toIn[t] \o <<"SYNC1", "CNXN">>)
              PROVE  (toIn[t] \o <<"SYNC1", "CNXN">>)[i] # "SYNC0"
            <4>1. CASE i \in 1 .. Len(toIn[t])
                BY <3>2, <4>1
            <4>2. CASE i = Len(toIn[t]) + 1 \/ i = Len(toIn[t]) + 2
                BY <3>2, <4>2
            <4> QED  BY <3>2, <3>3, <4>1, <4>2, SMTT(30)
        <3>4. \A i \in 1 .. Len(toIn'[t]) : toIn'[t][i] # "SYNC0"
            BY <3>1, <3>2, <3>3, Zenon
        <3>5. ~SyncedOut(t)'
            BY <2>1, <2>2, <3>4, Zenon DEF SyncedOut, Leaving
        <3> QED  BY <1>3, <1>5, <2>2, <2>3, <3>5 DEF Closing
    <2> QED  BY <2>4, <2>5, Zenon
<1> QED  BY <1>4, <1>5

\* Only a transport that is not offline is acquired, so SYNC(0) has not come through.
LEMMA SmartTransportKeeps ==
    ASSUME TransportInv, NEW k \in Socks, NEW t \in Transports, SmartTransport(k, t)
    PROVE  TransportInv'
<1>1. TransportShapes'
    BY ZenonT(30) DEF TransportInv, TransportShapes, SmartTransport, Acquire, threads, refs, Sockets,
           Packets, SmartHas
<1> SUFFICES ASSUME NEW u \in Transports \ unreg PROVE Counted(u)' /\ Asked(u)' /\ Closing(u)'
    BY <1>1 DEF TransportInv, SmartTransport
<1>2. Counted(u) /\ Asked(u) /\ Closing(u)
    BY Zenon DEF TransportInv
<1>3. Counted(u)' /\ Asked(u)'
    BY <1>2, CountedKept, AskedKept, Zenon DEF SmartTransport, threads
<1>4. Closing(u)'
    <2>1. CASE u # t
        BY <1>2, <2>1, ClosingKept, Zenon
           DEF TransportInv, TransportShapes, SmartTransport, threads, refs
    <2>2. CASE u = t
        <3>1. ~SyncedOut(t)
            BY <1>2, <2>2, Zenon DEF Closing, SmartTransport, Acquire
        <3> QED
            BY <1>2, <2>2, <3>1, ZenonT(30)
               DEF TransportInv, TransportShapes, SmartTransport, threads, refs, Closing,
                   SyncedOut, Leaving
    <2> QED  BY <2>1, <2>2
<1> QED  BY <1>3, <1>4, Zenon

LEMMA ListenerEventKeeps ==
    ASSUME TransportInv, NEW k \in Socks, NEW t \in Transports, ListenerEvent(k, t)
    PROVE  TransportInv'
<1>1. TransportShapes'
    BY DEF TransportInv, TransportShapes, ListenerEvent, Acquire, threads, refs, Sockets,
           Packets, SmartHas
<1> SUFFICES ASSUME NEW u \in Transports \ unreg PROVE Counted(u)' /\ Asked(u)' /\ Closing(u)'
    BY <1>1, Zenon DEF TransportInv, ListenerEvent
<1>2. Counted(u) /\ Asked(u) /\ Closing(u)
    BY Zenon DEF TransportInv
<1>3. Counted(u)' /\ Asked(u)'
    BY <1>2, CountedKept, AskedKept, Zenon DEF ListenerEvent, threads
<1>4. Closing(u)'
    <2>1. CASE u # t
        BY <1>2, <2>1, ClosingKept, ZenonT(30)
           DEF TransportInv, TransportShapes, ListenerEvent, threads, refs
    <2>2. CASE u = t
        <3>1. ~SyncedOut(t)
            BY <1>2, <2>2, Zenon DEF Closing, ListenerEvent, Acquire
        <3> QED
            BY <1>2, <2>2, <3>1
               DEF TransportInv, TransportShapes, ListenerEvent, threads, refs, Closing,
                   SyncedOut, Leaving
    <2> QED  BY <2>1, <2>2, Zenon
<1> QED  BY <1>3, <1>4, Zenon

LEMMA ForwardKeeps ==
    ASSUME TransportInv, NEW t \in Transports, Forward(t)
    PROVE  TransportInv'
<1>1. TransportShapes'
    BY Zenon DEF TransportInv, TransportShapes, Forward, Acquire, threads, refs, Sockets, Packets,
           SmartHas
<1> SUFFICES ASSUME NEW u \in Transports \ unreg PROVE Counted(u)' /\ Asked(u)' /\ Closing(u)'
    BY <1>1, Zenon DEF TransportInv, Forward
<1>2. Counted(u) /\ Asked(u) /\ Closing(u)
    BY DEF TransportInv
<1>3. Counted(u)' /\ Asked(u)'
    BY <1>2, CountedKept, AskedKept, Zenon DEF Forward, threads
<1>4. Closing(u)'
    <2>1. CASE u # t
        BY <1>2, <2>1, ClosingKept, Zenon DEF TransportInv, TransportShapes, Forward, threads, refs
    <2>2. CASE u = t
        <3>1. ~SyncedOut(t)
            BY <1>2, <2>2, Zenon DEF Closing, Forward, Acquire
        <3> QED
            BY <1>2, <2>2, <3>1, ZenonT(30)
               DEF TransportInv, TransportShapes, Forward, threads, refs, Closing, SyncedOut,
                   Leaving
    <2> QED  BY <2>1, <2>2
<1> QED  BY <1>3, <1>4, Zenon

LEMMA UnplugKeeps ==
    ASSUME TransportInv, NEW t \in Transports, Unplug(t)
    PROVE  TransportInv'
<1>1. TransportShapes'
    BY DEF TransportInv, TransportShapes, Unplug, Acquire, threads, refs, Sockets, Packets,
           SmartHas
<1> SUFFICES ASSUME NEW u \in Transports \ unreg PROVE Counted(u)' /\ Asked(u)' /\ Closing(u)'
    BY <1>1, ZenonT(30) DEF TransportInv, Unplug
<1>2. Counted(u) /\ Asked(u) /\ Closing(u)
    BY DEF TransportInv
<1>3. Counted(u)' /\ Asked(u)'
    BY <1>2, CountedKept, AskedKept, Zenon DEF Unplug, threads
<1>4. Closing(u)'
    <2>1. CASE u # t
        BY <1>2, <2>1, ClosingKept, Zenon DEF TransportInv, TransportShapes, Unplug, threads, refs
    <2>2. CASE u = t
        BY <1>2, <2>2, ZenonT(30)
           DEF TransportInv, TransportShapes, Unplug, threads, refs, Closing, SyncedOut, Leaving
    <2> QED  BY <2>1, <2>2, Zenon
<1> QED  BY <1>3, <1>4, Zenon

LEMMA SmartServiceKeeps ==
    ASSUME TransportInv, NEW k \in Socks, SmartService(k)
    PROVE  TransportInv'
<1>1. TransportShapes /\ sock[k].t \in Transports /\ sock[k] \in Sockets
    BY Zenon DEF TransportInv, TransportShapes, SmartHas, SmartService
<1>2. PICK t \in Transports : t = sock[k].t
    BY <1>1, Zenon
<1>3. \/ /\ cstate[t] # "offline" /\ sock' = [sock EXCEPT ![k].kind = "opening"]
         /\ toIn' = [toIn EXCEPT ![t] = Append(@, "OPEN")]
      \/ sock' = [sock EXCEPT ![k] = NoSocket] /\ toIn' = toIn
    BY <1>2 DEF SmartService
<1>4. sock' \in [Socks -> Sockets] /\ SmartHas'
    <2>1. CASE sock' = [sock EXCEPT ![k].kind = "opening"]
        BY <1>1, <2>1, KindChanges, Zenon DEF TransportShapes
    <2>2. CASE sock' = [sock EXCEPT ![k] = NoSocket]
        BY <1>1, <2>2 DEF TransportShapes, SmartHas, Sockets, NoSocket
    <2> QED  BY <1>3, <2>1, <2>2
<1>5. toIn' \in [Transports -> Seq(Packets)]
    <2>1. Append(toIn[t], "OPEN") \in Seq(Packets)
        BY <1>1 DEF TransportShapes, Packets
    <2> QED  BY <1>1, <1>3, <2>1, ZenonT(30) DEF TransportShapes
<1>6. TransportShapes'
    BY <1>1, <1>4, <1>5, SMTT(30) DEF TransportShapes, SmartService, threads
<1> SUFFICES ASSUME NEW u \in Transports \ unreg PROVE Counted(u)' /\ Asked(u)' /\ Closing(u)'
    BY <1>6 DEF TransportInv, SmartService
<1>7. Counted(u) /\ Asked(u) /\ Closing(u)
    BY DEF TransportInv
<1>8. Counted(u)' /\ Asked(u)'
    BY <1>7, CountedKept, AskedKept DEF SmartService, threads
<1>9. \A j \in Socks : sock'[j] = sock[j] \/ sock'[j].t # u \/ (u = t /\ cstate[t] # "offline")
    BY <1>1, <1>2, <1>3, TransportNames DEF TransportShapes, Sockets, NoSocket
<1>10. Closing(u)'
    <2>1. CASE toIn'[u] = toIn[u] /\ \A j \in Socks : sock'[j] = sock[j] \/ sock'[j].t # u
        BY <1>7, <2>1, ClosingKept DEF SmartService, threads
    <2>2. CASE u = t /\ cstate[t] # "offline"
        <3>1. ~SyncedOut(t)
            BY <1>7, <2>2, Zenon DEF Closing
        <3>2. toIn[t] \in Seq(Packets) /\ \A i \in 1 .. Len(toIn[t]) : toIn[t][i] # "SYNC0"
            BY <1>1, <3>1 DEF TransportShapes, SyncedOut
        <3>3. \A i \in 1 .. Len(toIn'[t]) : toIn'[t][i] # "SYNC0"
            BY <1>1, <1>3, <3>2, SMTT(30) DEF TransportShapes
        <3>4. ~SyncedOut(t)' /\ ~Leaving(in'[t])
            BY <3>1, <3>3 DEF SmartService, threads, SyncedOut, Leaving
        <3> QED  BY <1>7, <2>2, <3>4, Zenon DEF Closing, SmartService, threads
    <2> QED  BY <1>1, <1>3, <1>9, <2>1, <2>2 DEF TransportShapes
<1> QED  BY <1>8, <1>10, Zenon

-----------------------------------------------------------------------------
(* All together.                                                           *)

LEMMA TransportStep == TransportInv /\ [TransportNext]_transportVars => TransportInv'
<1> SUFFICES ASSUME TransportInv, [TransportNext]_transportVars PROVE TransportInv'
    OBVIOUS
<1>1. CASE RegistrationFunc
    BY <1>1, RegistrationFuncKeeps
<1>2. CASE \E t \in Transports : OutStep(t)
    BY <1>2, OutSyncKeeps, OutReadKeeps, OutFailsKeeps, OutOfflineKeeps, OutKickKeeps,
       OutUnrefKeeps
       DEF OutStep
<1>3. CASE \E t \in Transports : InStep(t)
    BY <1>3, InReadKeeps, InCloseKeeps, InKickKeeps, InUnrefKeeps DEF InStep
<1>4. CASE \E t \in Transports :
              Register(t) \/ HandlePacket(t) \/ Forward(t) \/ Unregister(t) \/ Unplug(t)
    BY <1>4, RegisterKeeps, HandlePacketKeeps, ForwardKeeps, UnregisterKeeps, UnplugKeeps
<1>5. CASE \E t \in Transports, k \in Socks : SmartTransport(k, t) \/ ListenerEvent(k, t)
    BY <1>5, SmartTransportKeeps, ListenerEventKeeps
<1>6. CASE \E k \in Socks : SmartService(k)
    BY <1>6, SmartServiceKeeps
<1>7. CASE UNCHANGED transportVars
    <2>1. TransportShapes'
        BY <1>7, Zenon DEF transportVars, TransportInv, TransportShapes, SmartHas
    <2>2. ASSUME NEW u \in Transports \ unreg, Counted(u), Asked(u), Closing(u)
          PROVE  Counted(u)' /\ Asked(u)' /\ Closing(u)'
        BY <1>7, <2>2, CountedKept, AskedKept, ClosingKept, Zenon DEF transportVars
    <2> QED  BY <1>7, <2>1, <2>2 DEF transportVars, TransportInv
<1> QED  BY <1>1, <1>2, <1>3, <1>4, <1>5, <1>6, <1>7 DEF TransportNext

LEMMA TransportStart == TransportInit => TransportInv
<1> SUFFICES ASSUME TransportInit PROVE TransportInv
    OBVIOUS
<1>1. TransportShapes
    BY DEF TransportInit, TransportShapes, SmartHas, Sockets, NoSocket
<1> SUFFICES ASSUME NEW t \in Transports PROVE Counted(t) /\ Asked(t) /\ Closing(t)
    BY <1>1, ZenonT(30) DEF TransportInv
<1>2. Counted(t) /\ Asked(t)
    BY DEF TransportInit, Counted, Asked, Running
<1>3. Closing(t)
    BY DEF TransportInit, Closing, SyncedOut, Leaving
<1> QED  BY <1>2, <1>3

LEMMA TransportSafe == TransportInv => FreedAlone
    BY Zenon
       DEF TransportInv, FreedAlone, FreedLast, NoDangling, Counted, Closing, SyncedOut, Leaving

\* A transport that goes by itself is freed after both its threads have ended, and
\* then neither the list, nor a forward, nor a socket of the main loop refers to
\* it: whatever a callback of the main loop began before SYNC(0), close_all_sockets
\* and run_transport_disconnects have ended.
THEOREM TransportsAreFreedAlone == TransportSpec => []FreedAlone
    BY TransportStart, TransportStep, TransportSafe, PTL DEF TransportSpec
=============================================================================
