------------------------- MODULE SocketListenerSteps -------------------------
(***************************************************************************)
(* The inductive invariant of a socket listener, and that the far ends and *)
(* the listener's own thread preserve it.                                  *)
(***************************************************************************)
EXTENDS SocketListener, FiniteSetTheorems, TLAPS

Pieces == (Handlers \cup Casters) \X {1, 2}

\* The shape of the state, as far as the other parts need it.
Peers == [Conns -> [st : {"new", "open", "closed"}, cmds : Int, left : Int]]
Objects == [Conns -> {"none", "live", "deleted"}]
Listeners ==
    [pc : {"build", "select", "push", "pend", "work", "dispatch", "zap", "drop"},
     fds : SUBSET Conns, pending : SUBSET Conns, cur : Conns \cup {None}, batch : Int]
Threads == [Handlers -> [pc : {"none", "first", "second", "dec", "done"},
                         c : Conns \cup {None}, kind : {"binary", "pieces"}]]
Walks == [Casters -> [pc : {"start", "send", "done"}, todo : SUBSET Conns]]
Streams == [Conns -> Seq(Pieces)]
Mutexes == [Conns -> Handlers \cup {None}]
Shapes ==
    /\ peer \in Peers /\ obj \in Objects /\ ref \in [Conns -> Nat]
    /\ backlog \subseteq Conns /\ leaked \subseteq Conns /\ mClients \subseteq Conns
    /\ out \in Streams /\ writer \in Mutexes
    /\ listener \in Listeners /\ handler \in Threads /\ caster \in Walks

\* A connection waits to be accepted and then has a live object.  Who refers to
\* an object refers to a live one.
Life ==
    /\ \A c \in Conns : peer[c].st = "new" => c \notin backlog /\ obj[c] = "none"
    /\ \A c \in backlog : obj[c] = "none"
    /\ \A c \in leaked : obj[c] = "live"
    /\ \A h \in Handlers : handler[h].pc \in {"first", "second", "dec"} => handler[h].c \in Conns
    /\ NoUseAfterDelete

\* Where the listener is: the client it works on is on the list until it takes
\* it off, and so are the ones on its pending list.
Place ==
    /\ listener.pending \subseteq mClients
    /\ listener.pc \in {"dispatch", "zap"} => listener.cur \in mClients \ listener.pending
    /\ listener.pc = "drop" => listener.cur \in Conns \ mClients
    /\ listener.pc \notin {"dispatch", "zap", "drop"} => listener.cur = None

\* mClientsLock is held by who goes through the list, which loses nobody
\* meanwhile.
Locked ==
    \A b \in Casters :
        /\ caster[b].todo \subseteq mClients
        /\ caster[b].pc = "send" => clientsLock = b
        /\ caster[b].pc # "send" => caster[b].todo = {}

\* What the listener's own reference is counted for.
Listed(c) == c \in mClients \/ (listener.pc = "drop" /\ listener.cur = c)
Refs ==
    /\ \A c \in Conns : IsFiniteSet(Holding(c))
    /\ RefsExact

\* mWriteMutex is held between the two parts of a binary answer, and the first
\* part is then the last thing on the wire; a second part is on the wire only
\* when its thread is past it, so that no thread changes its kind afterwards.
Wire ==
    /\ \A h \in Handlers : handler[h].pc = "second" /\ handler[h].kind = "binary"
          => writer[handler[h].c] = h
    /\ \A c \in Conns : writer[c] # None
          => out[c] # <<>> /\ out[c][Len(out[c])] = <<writer[c], 1>>
    /\ \A c \in Conns : \A i \in 1 .. Len(out[c]) :
          out[c][i][1] \in Handlers /\ out[c][i][2] = 2
             => handler[out[c][i][1]].pc \in {"dec", "done"}
    /\ BinaryTogether

ListenerInv == Shapes /\ Life /\ Place /\ Locked /\ Refs /\ Wire

-----------------------------------------------------------------------------
(* What the steps have in common.                                          *)

\* The far ends do nothing but connect, send, hang up and read.
LEMMA FarEnds ==
    ASSUME Shapes, NEW c \in Conns,
           Connect(c) \/ SendCommand(c) \/ HangUp(c) \/ TakeAnswer(c)
    PROVE  /\ peer' \in Peers
           /\ backlog' = backlog \/ (backlog' = backlog \cup {c} /\ peer[c].st = "new")
           /\ \A d \in Conns : peer'[d].st = "new" => peer[d].st = "new" /\ (d = c => backlog' = backlog)
           /\ UNCHANGED <<obj, ref, out, writer, mClients, clientsLock, listener, handler,
                          caster, leaked>>
<1> DEFINE q(x) == [peer EXCEPT ![c].st = x]
<1>1. peer \in Peers
    BY DEF Shapes
<1>2. \A x \in {"new", "open", "closed"} :
         q(x) \in Peers /\ \A d \in Conns : q(x)[d].st = IF d = c THEN x ELSE peer[d].st
    BY <1>1 DEF Peers
<1>3. CASE Connect(c)
    BY <1>2, <1>3 DEF Connect
<1>4. CASE HangUp(c)
    BY <1>2, <1>4 DEF HangUp
<1>5. CASE SendCommand(c)
    <2> DEFINE r == [st |-> "open", cmds |-> peer[c].cmds + 1, left |-> peer[c].left - 1]
    <2>1. r \in [st : {"new", "open", "closed"}, cmds : Int, left : Int] /\ r.st = "open"
        BY <1>1 DEF Peers
    <2>2. peer' = [peer EXCEPT ![c] = r] /\ peer[c].st = "open"
        BY <1>5 DEF SendCommand
    <2> HIDE DEF r
    <2>3. peer' \in Peers /\ \A d \in Conns : peer'[d].st = peer[d].st
        BY <1>1, <2>1, <2>2 DEF Peers
    <2> QED
        BY <1>5, <2>3 DEF SendCommand
<1>6. CASE TakeAnswer(c)
    BY <1>1, <1>6 DEF TakeAnswer
<1> QED
    BY <1>3, <1>4, <1>5, <1>6

\* What is written is one piece at the end, or nothing.
LEMMA PutAppends ==
    ASSUME out \in Streams, NEW c \in Conns, NEW p \in Pieces, Put(c, p)
    PROVE  /\ out' \in Streams
           /\ out' # out => /\ out' = [out EXCEPT ![c] = Append(out[c], p)]
                            /\ Len(out'[c]) = Len(out[c]) + 1 /\ out'[c][Len(out[c]) + 1] = p
                            /\ \A i \in 1 .. Len(out[c]) : out'[c][i] = out[c][i]
           /\ \A d \in Conns \ {c} : out'[d] = out[d]
<1>1. out[c] \in Seq(Pieces) /\ Len(out[c]) \in Nat
    BY DEF Streams
<1>2. /\ Append(out[c], p) \in Seq(Pieces) /\ Len(Append(out[c], p)) = Len(out[c]) + 1
      /\ Append(out[c], p)[Len(out[c]) + 1] = p
      /\ \A i \in 1 .. Len(out[c]) : Append(out[c], p)[i] = out[c][i]
    BY <1>1
<1>3. CASE out' = [out EXCEPT ![c] = Append(@, p)]
    BY <1>2, <1>3, SMTT(30) DEF Streams
<1> QED
    BY <1>3 DEF Put

\* Without a handler thread that starts or moves, a write or a lock, the wire is as
\* good as before.
LEMMA WireFrame ==
    ASSUME Wire, UNCHANGED <<out, writer, handler>>
    PROVE  Wire'
    BY DEF Wire, BinaryTogether

\* Without a reference that comes or goes the counts are as good as before.
LEMMA RefsFrame ==
    ASSUME Refs, UNCHANGED <<obj, ref, leaked>>, \A c \in Conns : Listed(c)' = Listed(c),
           \A c \in Conns : Holding(c)' = Holding(c)
    PROVE  Refs'
    BY DEF Refs, RefsExact, Listed

LEMMA HoldingFrame ==
    ASSUME UNCHANGED handler, NEW c \in Conns
    PROVE  Holding(c)' = Holding(c)
    BY DEF Holding


\* How many threads hold a reference, and who is counted for a live client.
LEMMA Counted ==
    ASSUME Refs, NEW c \in Conns
    PROVE  /\ Cardinality(Holding(c)) \in Nat
           /\ Cardinality(Holding(c)) = 0 <=> Holding(c) = {}
           /\ obj[c] = "live" => ref[c] = Cardinality(Holding(c)) + (IF Listed(c) THEN 1 ELSE 0)
                                          + (IF c \in leaked THEN 1 ELSE 0)
<1>1. IsFiniteSet(Holding(c))
    BY DEF Refs
<1>2. Cardinality(Holding(c)) \in Nat /\ (Cardinality(Holding(c)) = 0 <=> Holding(c) = {})
    BY <1>1, FS_CardinalityType, FS_EmptySet
<1> QED
    BY <1>2 DEF Refs, RefsExact, Listed

\* decRef of a live client that is counted at least once.
LEMMA DecRefKeeps ==
    ASSUME Shapes, NEW c \in Conns, obj[c] = "live", ref[c] >= 1, DecRef(c)
    PROVE  /\ ref' \in [Conns -> Nat] /\ obj' \in Objects
           /\ \A d \in Conns \ {c} : ref'[d] = ref[d] /\ obj'[d] = obj[d]
           /\ ref[c] = 1 => obj'[c] = "deleted"
           /\ ref[c] # 1 => obj'[c] = "live" /\ ref'[c] = ref[c] - 1
<1>1. ref \in [Conns -> Nat] /\ obj \in Objects
    BY DEF Shapes
<1> QED
    BY <1>1 DEF DecRef, Objects

-----------------------------------------------------------------------------
(* The far ends.                                                           *)

LEMMA FarEndStep ==
    ASSUME ListenerInv, NEW c \in Conns,
           Connect(c) \/ SendCommand(c) \/ HangUp(c) \/ TakeAnswer(c)
    PROVE  ListenerInv'
<1>1. /\ peer' \in Peers
      /\ backlog' = backlog \/ (backlog' = backlog \cup {c} /\ peer[c].st = "new")
      /\ \A d \in Conns : peer'[d].st = "new" => peer[d].st = "new" /\ (d = c => backlog' = backlog)
      /\ UNCHANGED <<obj, ref, out, writer, mClients, clientsLock, listener, handler, caster,
                     leaked>>
    BY FarEnds DEF ListenerInv
<1>2. Shapes'
    BY <1>1 DEF ListenerInv, Shapes
<1>3. Life'
    BY <1>1 DEF ListenerInv, Life, NoUseAfterDelete
<1>4. Place' /\ Locked'
    BY <1>1 DEF ListenerInv, Place, Locked
<1>5. Refs'
    BY <1>1, RefsFrame, HoldingFrame DEF ListenerInv, Listed
<1>6. Wire'
    BY <1>1, WireFrame DEF ListenerInv
<1> QED
    BY <1>2, <1>3, <1>4, <1>5, <1>6 DEF ListenerInv

-----------------------------------------------------------------------------
(* The listener.                                                           *)

\* Steps that change nothing but where the listener is.
LEMMA MoveStep ==
    ASSUME ListenerInv,
           Build \/ Select \/ Pend \/ EndOfBatch \/ Pass \/ \E c \in Conns : EndOfFile(c)
    PROVE  ListenerInv'
<1>1. UNCHANGED <<peer, backlog, obj, ref, out, writer, mClients, clientsLock, handler, caster,
                  leaked>>
    BY Zenon DEF Build, Select, Pend, EndOfBatch, Pass, EndOfFile
<1>2. listener \in Listeners /\ mClients \subseteq Conns
    BY DEF ListenerInv, Shapes
<1> DEFINE Moved == /\ listener' \in Listeners
                    /\ listener'.pending \subseteq mClients
                    /\ listener'.pc \in {"dispatch", "zap"}
                          => listener'.cur \in mClients \ listener'.pending
                    /\ listener'.pc \notin {"dispatch", "zap"} => listener'.cur = None
                    /\ "drop" \notin {listener.pc, listener'.pc}
<1>3. Moved
    <2>1. CASE Build
        BY <1>2, <2>1, Zenon DEF ListenerInv, Place, Build, Listeners
    <2>2. CASE Select
        BY <1>2, <2>2, Zenon DEF ListenerInv, Place, Select, Readable, Listeners
    <2>3. CASE Pend
        BY <1>2, <2>3, Zenon DEF ListenerInv, Place, Pend, Listeners
    <2>4. CASE EndOfBatch
        BY <1>2, <2>4, Zenon DEF ListenerInv, Place, EndOfBatch, Listeners
    <2>5. CASE Pass
        BY <1>2, <2>5 DEF ListenerInv, Place, Pass, At, Listeners
    <2>6. ASSUME NEW c \in Conns, EndOfFile(c) PROVE Moved
        BY <1>2, <2>6, Zenon DEF ListenerInv, Place, EndOfFile, Listeners
    <2> QED
        BY <2>1, <2>2, <2>3, <2>4, <2>5, <2>6
<1>4. Place'
    BY <1>1, <1>3 DEF Place
<1>5. \A c \in Conns : Listed(c)' = Listed(c)
    BY <1>1, <1>3 DEF Listed
<1>6. Shapes'
    BY <1>1, <1>3, Zenon DEF ListenerInv, Shapes
<1>7. Life'
    BY <1>1, <1>3, Zenon DEF ListenerInv, Life, NoUseAfterDelete
<1>8. Locked'
    BY <1>1 DEF ListenerInv, Locked
<1>9. Refs'
    BY <1>1, <1>5, RefsFrame, HoldingFrame DEF ListenerInv
<1>10. Wire'
    BY <1>1, WireFrame DEF ListenerInv
<1> QED
    BY <1>4, <1>6, <1>7, <1>8, <1>9, <1>10 DEF ListenerInv

LEMMA ReadStep ==
    ASSUME ListenerInv, NEW c \in Conns, NEW n \in 1 .. MaxCommands, Read(c, n)
    PROVE  ListenerInv'
<1>1. UNCHANGED <<backlog, obj, ref, out, writer, mClients, clientsLock, handler, caster, leaked>>
    BY DEF Read
<1>2. listener \in Listeners /\ mClients \subseteq Conns /\ peer \in Peers
    BY DEF ListenerInv, Shapes
<1>3. /\ listener' = [pc |-> "dispatch", fds |-> listener.fds, pending |-> listener.pending \ {c},
                      cur |-> c, batch |-> n]
      /\ listener' \in Listeners
    <2>1. listener' = [pc |-> "dispatch", fds |-> listener.fds, pending |-> listener.pending \ {c},
                       cur |-> c, batch |-> n]
        BY <1>2, Zenon DEF Read, Listeners
    <2> QED
        BY <1>2, <2>1, ListenerAssumption DEF Listeners
<1>4. peer' \in Peers /\ \A d \in Conns : peer'[d].st = peer[d].st
    BY <1>2, ListenerAssumption DEF Read, Peers
<1>5. /\ listener'.pending \subseteq mClients /\ listener'.cur = c /\ c \in mClients \ listener'.pending
      /\ listener.pc = "work" /\ listener'.pc = "dispatch"
    BY <1>2 DEF ListenerInv, Read, Listeners, Place
<1>6. Shapes'
    BY <1>1, <1>3, <1>4, Zenon DEF ListenerInv, Shapes
<1>7. Life'
    BY <1>1, <1>4, <1>5, ZenonT(30) DEF ListenerInv, Life, NoUseAfterDelete
<1>8. Place' /\ Locked'
    BY <1>1, <1>5 DEF ListenerInv, Place, Locked
<1>9. Refs'
    BY <1>1, <1>5, RefsFrame, HoldingFrame DEF ListenerInv, Listed
<1>10. Wire'
    BY <1>1, WireFrame DEF ListenerInv
<1> QED
    BY <1>6, <1>7, <1>8, <1>9, <1>10 DEF ListenerInv

\* A new client: nobody refers to it yet but the list.
LEMMA PushStep ==
    ASSUME ListenerInv, NEW c \in Conns, Push(c)
    PROVE  ListenerInv'
<1>1. UNCHANGED <<peer, out, writer, clientsLock, handler, caster, leaked>>
    BY DEF Push
<1>2. listener \in Listeners /\ mClients \subseteq Conns /\ obj \in Objects /\ ref \in [Conns -> Nat]
    BY DEF ListenerInv, Shapes
<1>3. /\ listener' \in Listeners /\ listener'.pc = "pend" /\ listener.pc = "push"
      /\ listener'.pending = listener.pending /\ listener'.cur = listener.cur
    BY <1>2 DEF Push, At, Listeners
<1>4. /\ c \in backlog /\ backlog' = backlog \ {c} /\ mClients' = mClients \cup {c}
      /\ obj' \in Objects /\ obj'[c] = "live" /\ \A d \in Conns \ {c} : obj'[d] = obj[d]
      /\ ref' \in [Conns -> Nat] /\ ref'[c] = 1 /\ \A d \in Conns \ {c} : ref'[d] = ref[d]
    BY <1>2, Zenon DEF Push, Objects
<1>5. /\ obj[c] = "none" /\ c \notin mClients /\ c \notin leaked /\ Holding(c) = {}
      /\ peer[c].st # "new"
    BY <1>4, ZenonT(30) DEF ListenerInv, Life, NoUseAfterDelete, Holding
<1>6. Shapes'
    BY <1>1, <1>3, <1>4, Zenon DEF ListenerInv, Shapes
<1>7. Life'
    <2>1. \A d \in Conns : obj[d] = "live" => obj'[d] = "live"
        BY <1>4, <1>5, Zenon
    <2>2. NoUseAfterDelete'
        BY <1>1, <1>2, <1>3, <1>4, <2>1, ZenonT(30)
           DEF ListenerInv, Life, NoUseAfterDelete, Listeners, Locked, Place
    <2> QED
        BY <1>1, <1>4, <1>5, <2>1, <2>2, ZenonT(30) DEF ListenerInv, Life, Shapes
<1>8. Place' /\ Locked'
    BY <1>1, <1>3, <1>4, Zenon DEF ListenerInv, Place, Locked
<1>9. Refs'
    <2>1. \A d \in Conns : Holding(d)' = Holding(d)
        BY <1>1, HoldingFrame
    <2>2. \A d \in Conns \ {c} : Listed(d)' = Listed(d)
        BY <1>3, <1>4 DEF Listed
    <2>3. Listed(c)'
        BY <1>4 DEF Listed
    <2>4. Cardinality(Holding(c)) = 0
        BY <1>5, FS_EmptySet
    <2>5. ASSUME NEW d \in Conns, obj'[d] = "live"
          PROVE  ref'[d] = Cardinality(Holding(d)') + (IF Listed(d)' THEN 1 ELSE 0)
                           + (IF d \in leaked' THEN 1 ELSE 0)
        <3>1. CASE d = c
            <4>1. Cardinality(Holding(d)') = 0 /\ Listed(d)'
                BY <2>1, <2>3, <2>4, <3>1, SMTT(30)
            <4> QED
                BY <1>1, <1>4, <1>5, <3>1, <4>1
        <3>2. CASE d # c
            BY <1>1, <1>4, <2>1, <2>2, <2>5, <3>2, Counted, SMTT(30) DEF ListenerInv
        <3> QED
            BY <3>1, <3>2
    <2> QED
        BY <2>1, <2>5, Zenon DEF ListenerInv, Refs, RefsExact, Listed
<1>10. Wire'
    BY <1>1, WireFrame DEF ListenerInv
<1> QED
    BY <1>6, <1>7, <1>8, <1>9, <1>10, SMTT(30) DEF ListenerInv

\* The client leaves the list; the listener's reference is still counted.
LEMMA ZapStep ==
    ASSUME ListenerInv, Zap
    PROVE  ListenerInv'
<1>1. UNCHANGED <<peer, backlog, obj, ref, out, writer, clientsLock, handler, caster, leaked>>
    BY DEF Zap
<1>2. listener \in Listeners /\ mClients \subseteq Conns
    BY DEF ListenerInv, Shapes
<1>3. /\ listener' \in Listeners /\ listener'.pc = "drop" /\ listener.pc = "zap"
      /\ listener'.pending = listener.pending /\ listener'.cur = listener.cur
      /\ mClients' = mClients \ {listener.cur} /\ listener.cur \in mClients \ listener.pending
      /\ listener.pending \subseteq mClients
    BY <1>2, Zenon DEF ListenerInv, Zap, At, Listeners, Place
<1>4. \A b \in Casters : caster[b].todo = {}
    BY ListenerAssumption, Zenon DEF ListenerInv, Zap, Locked
<1>5. Shapes'
    BY <1>1, <1>3, Zenon DEF ListenerInv, Shapes
<1>6. Life'
    BY <1>1, <1>3, ZenonT(30) DEF ListenerInv, Life, NoUseAfterDelete
<1>7. Place'
    BY <1>2, <1>3 DEF Place
<1>8. Locked'
    BY <1>1, <1>4 DEF ListenerInv, Locked
<1>9. Refs'
    BY <1>1, <1>2, <1>3, RefsFrame, HoldingFrame DEF ListenerInv, Listed
<1>10. Wire'
    BY <1>1, WireFrame DEF ListenerInv
<1> QED
    BY <1>5, <1>6, <1>7, <1>8, <1>9, <1>10 DEF ListenerInv

\* The listener's reference is dropped, and with it perhaps the client, which
\* is then on no list.
LEMMA DropStep ==
    ASSUME ListenerInv, Drop
    PROVE  ListenerInv'
<1>1. UNCHANGED <<peer, backlog, out, writer, mClients, clientsLock, handler, caster, leaked>>
    BY DEF Drop
<1>0. PICK c \in Conns : c = listener.cur
    BY DEF ListenerInv, Drop, Place
<1>2. listener \in Listeners
    BY DEF ListenerInv, Shapes
<1>3. /\ listener' \in Listeners /\ listener'.pc = "work" /\ listener.pc = "drop"
      /\ listener'.pending = listener.pending /\ listener'.cur = None /\ DecRef(c)
    BY <1>0, <1>2, Zenon DEF Drop, Listeners
<1>4. /\ c \in Conns \ mClients /\ obj[c] = "live" /\ Listed(c) /\ listener.pending \subseteq mClients
    BY <1>0, <1>3, ListenerAssumption, Zenon DEF ListenerInv, Place, Life, NoUseAfterDelete, Listed
<1>5. /\ Cardinality(Holding(c)) \in Nat /\ (Cardinality(Holding(c)) = 0 <=> Holding(c) = {})
      /\ ref[c] = Cardinality(Holding(c)) + 1 + (IF c \in leaked THEN 1 ELSE 0)
    BY <1>4, Counted, Zenon DEF ListenerInv
<1>6. /\ ref' \in [Conns -> Nat] /\ obj' \in Objects
      /\ \A d \in Conns \ {c} : ref'[d] = ref[d] /\ obj'[d] = obj[d]
      /\ ref[c] = 1 => obj'[c] = "deleted"
      /\ ref[c] # 1 => obj'[c] = "live" /\ ref'[c] = ref[c] - 1
    BY <1>3, <1>4, <1>5, DecRefKeeps DEF ListenerInv
<1>7. Shapes'
    BY <1>1, <1>3, <1>6, Zenon DEF ListenerInv, Shapes
<1>8. Place' /\ Locked'
    BY <1>1, <1>3, Zenon DEF ListenerInv, Place, Locked
<1>9. obj'[c] # "live" => Holding(c) = {} /\ c \notin leaked
    BY <1>5, <1>6, SMTT(30)
<1>10. Life'
    <2>2. \A h \in Handlers : handler[h].pc \in {"first", "second", "dec"}
             => handler[h].c \in Conns /\ obj'[handler[h].c] = "live"
        BY <1>6, <1>9, ZenonT(30) DEF ListenerInv, Life, NoUseAfterDelete, Holding
    <2>3. \A d \in mClients : d \in Conns \ {c} /\ obj[d] = "live"
        BY <1>4, Zenon DEF ListenerInv, Life, NoUseAfterDelete, Shapes
    <2>4. \A b \in Casters : \A d \in caster[b].todo : d \in mClients
        BY Zenon DEF ListenerInv, Locked
    <2>5. NoUseAfterDelete'
        BY <1>1, <1>3, <1>4, <1>6, <2>2, <2>3, <2>4, ZenonT(30) DEF NoUseAfterDelete
    <2> QED
        BY <1>1, <1>4, <1>6, <1>9, <2>2, <2>5, ZenonT(30) DEF ListenerInv, Life, Shapes
<1>11. Refs'
    <2>1. \A d \in Conns : Holding(d)' = Holding(d)
        BY <1>1, HoldingFrame
    <2>2. /\ \A d \in Conns \ {c} : Listed(d)' = Listed(d)
          /\ ~Listed(c)'
        BY <1>0, <1>1, <1>3, <1>4 DEF Listed
    <2>3. ASSUME NEW d \in Conns, obj'[d] = "live"
          PROVE  ref'[d] = Cardinality(Holding(d)') + (IF Listed(d)' THEN 1 ELSE 0)
                           + (IF d \in leaked' THEN 1 ELSE 0)
        <3>1. CASE d = c
            <4>1. Cardinality(Holding(d)') = Cardinality(Holding(c)) /\ ~Listed(d)'
                BY <2>1, <2>2, <3>1, Zenon
            <4> QED
                BY <1>1, <1>5, <1>6, <2>3, <3>1, <4>1
        <3>2. CASE d # c
            BY <1>1, <1>6, <2>1, <2>2, <2>3, <3>2, Counted, ZenonT(30) DEF ListenerInv
        <3> QED
            BY <3>1, <3>2, Zenon
    <2> QED
        BY <2>1, <2>3, Zenon DEF ListenerInv, Refs, RefsExact, Listed
<1>12. Wire'
    BY <1>1, WireFrame, Zenon DEF ListenerInv
<1> QED
    BY <1>7, <1>8, <1>10, <1>11, <1>12 DEF ListenerInv

\* The listener runs a command of a client, which is on the list.
LEMMA Taking ==
    ASSUME ListenerInv, NEW c \in Conns, Take(c)
    PROVE  /\ listener' \in Listeners /\ listener'.pc = "dispatch" /\ listener.pc = "dispatch"
           /\ listener'.pending = listener.pending /\ listener'.cur = c /\ listener.cur = c
           /\ c \in mClients /\ obj[c] = "live" /\ UNCHANGED peer
<1>1. listener \in Listeners
    BY DEF ListenerInv, Shapes
<1>2. /\ listener' \in Listeners /\ listener'.pc = "dispatch" /\ listener.pc = "dispatch"
      /\ listener'.pending = listener.pending /\ listener'.cur = c /\ listener.cur = c
      /\ UNCHANGED peer
    BY <1>1 DEF Take, Listeners
<1> QED
    BY <1>2, Zenon DEF ListenerInv, Place, Life, NoUseAfterDelete

\* A write of a first or only piece under mWriteMutex.
LEMMA WireWrites ==
    ASSUME ListenerInv, NEW c \in Conns, NEW t \in Handlers \cup Casters, Put(c, <<t, 1>>),
           writer[c] = None, UNCHANGED <<writer, handler>>
    PROVE  out' \in Streams /\ Wire'
<1>1. out \in Streams /\ <<t, 1>> \in Pieces
    BY DEF ListenerInv, Shapes, Pieces
<1>2. /\ out' \in Streams
      /\ out' # out => /\ Len(out'[c]) = Len(out[c]) + 1 /\ out'[c][Len(out[c]) + 1] = <<t, 1>>
                       /\ \A i \in 1 .. Len(out[c]) : out'[c][i] = out[c][i]
      /\ \A d \in Conns \ {c} : out'[d] = out[d]
    BY <1>1, PutAppends
<1>3. Len(out[c]) \in Nat
    BY <1>1
<1>4. CASE out' = out
    BY <1>2, <1>4, WireFrame, Zenon DEF ListenerInv
<1>5. CASE out' # out
    <2>1. ASSUME NEW d \in Conns, NEW i \in 1 .. Len(out'[d]), out'[d][i][2] = 2
          PROVE  i \in 1 .. Len(out[d]) /\ out'[d][i] = out[d][i]
                 /\ (i > 1 => out'[d][i - 1] = out[d][i - 1])
        <3>1. Len(out[d]) \in Nat
            BY <1>1, SMTT(30)
        <3>2. CASE d = c
            <4>1. i # Len(out[c]) + 1
                BY <1>2, <1>5, <2>1, <3>2, SMTT(30)
            <4> QED
                BY <1>2, <1>5, <3>1, <3>2, <4>1, SMTT(30)
        <3> QED
            BY <1>2, <3>1, <3>2, Zenon
    <2>2. \A d \in Conns : writer'[d] # None
             => out'[d] # <<>> /\ out'[d][Len(out'[d])] = <<writer'[d], 1>>
        BY <1>2, Zenon DEF ListenerInv, Wire
    <2>3. BinaryTogether'
        <3> SUFFICES ASSUME NEW d \in Conns, NEW i \in 1 .. Len(out'[d]), out'[d][i][1] \in Handlers,
                            out'[d][i][2] = 2, handler'[out'[d][i][1]].kind = "binary"
                     PROVE  i > 1 /\ out'[d][i - 1] = <<out'[d][i][1], 1>>
            BY Zenon DEF BinaryTogether
        <3>1. /\ i \in 1 .. Len(out[d]) /\ out'[d][i] = out[d][i]
              /\ (i > 1 => out'[d][i - 1] = out[d][i - 1])
            BY <2>1, Zenon
        <3>2. i > 1 /\ out[d][i - 1] = <<out[d][i][1], 1>>
            BY <3>1, ZenonT(30) DEF ListenerInv, Wire, BinaryTogether
        <3> QED
            BY <3>1, <3>2, Zenon
    <2>4. \A d \in Conns : \A i \in 1 .. Len(out'[d]) : out'[d][i][1] \in Handlers /\ out'[d][i][2] = 2
             => handler'[out'[d][i][1]].pc \in {"dec", "done"}
        BY <2>1, ZenonT(30) DEF ListenerInv, Wire
    <2>5. \A h \in Handlers : handler'[h].pc = "second" /\ handler'[h].kind = "binary"
             => writer'[handler'[h].c] = h
        BY Zenon DEF ListenerInv, Wire
    <2> QED
        BY <1>2, <2>2, <2>3, <2>4, <2>5, Zenon DEF Wire
<1> QED
    BY <1>2, <1>4, <1>5

LEMMA AnswerStep ==
    ASSUME ListenerInv, NEW c \in Conns, Answer(c)
    PROVE  ListenerInv'
<1>1. /\ UNCHANGED <<backlog, obj, ref, writer, mClients, clientsLock, handler, caster, leaked>>
      /\ Take(c) /\ writer[c] = None /\ Put(c, <<"listener", 1>>)
    BY DEF Answer
<1>2. /\ listener' \in Listeners /\ listener'.pc = "dispatch" /\ listener.pc = "dispatch"
      /\ listener'.pending = listener.pending /\ listener'.cur = c /\ listener.cur = c
      /\ UNCHANGED peer
    BY <1>1, Taking
<1>3. out' \in Streams /\ Wire'
    <2>1. "listener" \in Handlers \cup Casters
        BY DEF Casters
    <2> QED
        BY <1>1, <2>1, WireWrites
<1>4. Shapes'
    BY <1>1, <1>2, <1>3, Zenon DEF ListenerInv, Shapes
<1>5. Life'
    BY <1>1, <1>2, ZenonT(30) DEF ListenerInv, Life, NoUseAfterDelete
<1>6. Place' /\ Locked'
    BY <1>1, <1>2, Zenon DEF ListenerInv, Place, Locked
<1>7. Refs'
    BY <1>1, <1>2, RefsFrame, HoldingFrame, ZenonT(30) DEF ListenerInv, Listed
<1> QED
    BY <1>3, <1>4, <1>5, <1>6, <1>7 DEF ListenerInv

LEMMA AnnounceStep ==
    ASSUME ListenerInv, NEW c \in Conns, Announce(c)
    PROVE  ListenerInv'
<1>1. /\ UNCHANGED <<backlog, obj, ref, out, writer, mClients, clientsLock, handler, leaked>>
      /\ Take(c)
    BY Zenon DEF Announce
<1>2. /\ listener' \in Listeners /\ listener'.pc = "dispatch" /\ listener.pc = "dispatch"
      /\ listener'.pending = listener.pending /\ listener'.cur = c /\ listener.cur = c
      /\ UNCHANGED peer
    BY <1>1, Taking, Zenon
<1>3. /\ caster' \in Walks /\ \A b \in Casters : caster'[b].todo = caster[b].todo
      /\ \A b \in Casters \ {"listener"} : caster'[b] = caster[b]
      /\ caster'["listener"].pc = "start" /\ caster["listener"].pc = "done"
    <2>1. caster \in Walks /\ "listener" \in Casters
        BY DEF ListenerInv, Shapes, Casters
    <2>2. caster' = [caster EXCEPT !["listener"].pc = "start"] /\ caster["listener"].pc = "done"
        BY Zenon DEF Announce, Take
    <2> QED
        BY <2>1, <2>2 DEF Walks
<1>4. Shapes'
    BY <1>1, <1>2, <1>3, Zenon DEF ListenerInv, Shapes
<1>5. Life'
    BY <1>1, <1>2, <1>3, ZenonT(30) DEF ListenerInv, Life, NoUseAfterDelete
<1>6. Place'
    BY <1>1, <1>2, Zenon DEF ListenerInv, Place
<1>7. Locked'
    BY <1>1, <1>3, Zenon DEF ListenerInv, Locked
<1>8. Refs'
    BY <1>1, <1>2, RefsFrame, HoldingFrame, Zenon DEF ListenerInv, Listed
<1>9. Wire'
    BY <1>1, WireFrame DEF ListenerInv
<1> QED
    BY <1>4, <1>5, <1>6, <1>7, <1>8, <1>9 DEF ListenerInv
=============================================================================
