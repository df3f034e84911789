------------------------ MODULE SocketListenerProofs ------------------------
(***************************************************************************)
(* That a client of a socket listener is deleted by the last one who uses  *)
(* it and no earlier, and that a binary answer reaches its socket in one   *)
(* piece, for any connections, handler threads and broadcasters.           *)
(***************************************************************************)
EXTENDS SocketListenerSteps

LEMMA StartHandlerFailsStep ==
    ASSUME ListenerInv, NEW c \in Conns, StartHandlerFails(c)
    PROVE  ListenerInv'
<1>1. /\ UNCHANGED <<backlog, obj, out, writer, mClients, clientsLock, handler, caster>>
      /\ Take(c) /\ c \notin leaked /\ leaked' = leaked \cup {c}
    BY Zenon DEF StartHandlerFails
<1>2. /\ listener' \in Listeners /\ listener'.pc = "dispatch" /\ listener.pc = "dispatch"
      /\ listener'.pending = listener.pending /\ listener'.cur = c /\ listener.cur = c
      /\ c \in mClients /\ obj[c] = "live" /\ UNCHANGED peer
    BY <1>1, Taking
<1>3. ref' \in [Conns -> Nat] /\ ref'[c] = ref[c] + 1 /\ \A d \in Conns \ {c} : ref'[d] = ref[d]
    BY DEF ListenerInv, Shapes, StartHandlerFails
<1>4. Shapes'
    BY <1>1, <1>2, <1>3, SMTT(30) DEF ListenerInv, Shapes
<1>5. Life'
    BY <1>1, <1>2 DEF ListenerInv, Life, NoUseAfterDelete
<1>6. Place' /\ Locked'
    BY <1>1, <1>2 DEF ListenerInv, Place, Locked
<1>7. Refs'
    <2>1. \A d \in Conns : Holding(d)' = Holding(d) /\ Listed(d)' = Listed(d)
        BY <1>1, <1>2, HoldingFrame DEF Listed
    <2>2. ASSUME NEW d \in Conns, obj'[d] = "live"
          PROVE  ref'[d] = Cardinality(Holding(d)') + (IF Listed(d)' THEN 1 ELSE 0)
                           + (IF d \in leaked' THEN 1 ELSE 0)
        BY <1>1, <1>3, <2>1, <2>2, Counted, SMTT(30) DEF ListenerInv
    <2> QED
        BY <2>1, <2>2 DEF ListenerInv, Refs, RefsExact, Listed
<1>8. Wire'
    BY <1>1, WireFrame DEF ListenerInv
<1> QED
    BY <1>4, <1>5, <1>6, <1>7, <1>8, ZenonT(30) DEF ListenerInv

\* A thread of its own for a query: one more reference, and one more holder.
LEMMA StartHandlerStep ==
    ASSUME ListenerInv, NEW c \in Conns, NEW h \in Handlers, NEW k \in {"binary", "pieces"},
           StartHandler(c, h, k)
    PROVE  ListenerInv'
<1>1. /\ UNCHANGED <<backlog, obj, out, writer, mClients, clientsLock, caster, leaked>>
      /\ Take(c) /\ handler[h].pc = "none"
    BY DEF StartHandler
<1>2. /\ listener' \in Listeners /\ listener'.pc = "dispatch" /\ listener.pc = "dispatch"
      /\ listener'.pending = listener.pending /\ listener'.cur = c /\ listener.cur = c
      /\ c \in mClients /\ obj[c] = "live" /\ UNCHANGED peer
    BY <1>1, Taking
<1>3. ref' \in [Conns -> Nat] /\ ref'[c] = ref[c] + 1 /\ \A d \in Conns \ {c} : ref'[d] = ref[d]
    BY DEF ListenerInv, Shapes, StartHandler
<1>4. /\ handler' \in Threads /\ handler'[h] = [pc |-> "first", c |-> c, kind |-> k]
      /\ \A g \in Handlers \ {h} : handler'[g] = handler[g]
    BY DEF ListenerInv, Shapes, StartHandler, Threads
<1>5. Shapes'
    BY <1>1, <1>2, <1>3, <1>4, ZenonT(30) DEF ListenerInv, Shapes
<1>6. Life'
    BY <1>1, <1>2, <1>4, SMTT(30) DEF ListenerInv, Life, NoUseAfterDelete
<1>7. Place' /\ Locked'
    BY <1>1, <1>2 DEF ListenerInv, Place, Locked
<1>8. Refs'
    <2>1. \A d \in Conns : Listed(d)' = Listed(d)
        BY <1>1, <1>2, SMTT(30) DEF Listed
    <2>2. Holding(c)' = Holding(c) \cup {h} /\ h \notin Holding(c)
        BY <1>1, <1>4, SMTT(30) DEF Holding
    <2>3. \A d \in Conns \ {c} : Holding(d)' = Holding(d)
        BY <1>1, <1>4 DEF Holding
    <2>4. /\ IsFiniteSet(Holding(c)')
          /\ Cardinality(Holding(c)') = Cardinality(Holding(c)) + 1
        BY <2>2, FS_AddElement DEF ListenerInv, Refs
    <2>5. ASSUME NEW d \in Conns, obj'[d] = "live"
          PROVE  ref'[d] = Cardinality(Holding(d)') + (IF Listed(d)' THEN 1 ELSE 0)
                           + (IF d \in leaked' THEN 1 ELSE 0)
        <3>1. CASE d = c
            <4>1. Cardinality(Holding(d)') = Cardinality(Holding(c)) + 1
                BY <2>4, <3>1, SMTT(30)
            <4> QED
                BY <1>1, <1>2, <1>3, <2>1, <3>1, <4>1, Counted, SMTT(30) DEF ListenerInv
        <3>2. CASE d # c
            BY <1>1, <1>3, <2>1, <2>3, <2>5, <3>2, Counted, SMTT(30) DEF ListenerInv
        <3> QED
            BY <3>1, <3>2, SMTT(30)
    <2>6. \A d \in Conns : IsFiniteSet(Holding(d)')
        BY <2>3, <2>4 DEF ListenerInv, Refs
    <2> QED
        BY <2>5, <2>6 DEF Refs, RefsExact, Listed
<1>9. Wire'
    <2>1. \A d \in Conns : \A i \in 1 .. Len(out[d]) :
             out[d][i][1] \in Handlers /\ out[d][i][2] = 2 => out[d][i][1] # h
        BY <1>1, Zenon DEF ListenerInv, Wire
    <2>2. BinaryTogether'
        BY <1>1, <1>4, <2>1, ZenonT(30) DEF ListenerInv, Wire, BinaryTogether
    <2>3. \A g \in Handlers : handler'[g].pc = "second" /\ handler'[g].kind = "binary"
             => writer'[handler'[g].c] = g
        BY <1>1, <1>4 DEF ListenerInv, Wire
    <2>4. \A d \in Conns : writer'[d] # None
             => out'[d] # <<>> /\ out'[d][Len(out'[d])] = <<writer'[d], 1>>
        BY <1>1, Zenon DEF ListenerInv, Wire
    <2>5. \A d \in Conns : \A i \in 1 .. Len(out'[d]) : out'[d][i][1] \in Handlers /\ out'[d][i][2] = 2
             => handler'[out'[d][i][1]].pc \in {"dec", "done"}
        BY <1>1, <1>4, <2>1, ZenonT(30) DEF ListenerInv, Wire
    <2> QED
        BY <2>2, <2>3, <2>4, <2>5, Zenon DEF Wire
<1> QED
    BY <1>5, <1>6, <1>7, <1>8, <1>9, SMTT(30) DEF ListenerInv

-----------------------------------------------------------------------------
(* The handler threads.                                                    *)

\* A thread moves on and keeps its client and its kind of answer.
LEMMA Moving ==
    ASSUME Shapes, NEW h \in Handlers, NEW p \in {"second", "dec", "done"}, Move(h, p)
    PROVE  /\ handler' \in Threads /\ handler'[h].pc = p
           /\ \A g \in Handlers : handler'[g].c = handler[g].c /\ handler'[g].kind = handler[g].kind
           /\ \A g \in Handlers \ {h} : handler'[g] = handler[g]
<1>1. handler \in Threads
    BY DEF Shapes
<1> QED
    BY <1>1 DEF Move, Threads

\* A thread that writes keeps its client, so that only the wire is in question.
LEMMA WritingKeeps ==
    ASSUME ListenerInv, NEW h \in Handlers, handler[h].pc \in {"first", "second"},
           NEW p \in {"second", "dec"}, Move(h, p),
           out' \in Streams, writer' \in Mutexes,
           UNCHANGED <<peer, backlog, obj, ref, mClients, clientsLock, listener, caster, leaked>>
    PROVE  Shapes' /\ Life' /\ Place' /\ Locked' /\ Refs'
<1>1. /\ handler' \in Threads /\ handler'[h].pc = p
      /\ \A g \in Handlers : handler'[g].c = handler[g].c
      /\ \A g \in Handlers \ {h} : handler'[g] = handler[g]
    BY Moving DEF ListenerInv
<1>2. Shapes'
    BY <1>1, SMTT(30) DEF ListenerInv, Shapes
<1>3. Life'
    BY <1>1, SMTT(30) DEF ListenerInv, Life, NoUseAfterDelete
<1>4. Place' /\ Locked'
    BY Zenon DEF ListenerInv, Place, Locked
<1>5. \A c \in Conns : Holding(c)' = Holding(c)
    BY <1>1, SMTT(30) DEF Holding
<1>6. Refs'
    BY <1>5, RefsFrame DEF ListenerInv, Listed
<1> QED
    BY <1>2, <1>3, <1>4, <1>6, SMTT(30)

\* The first part of an answer.
LEMMA FirstStep ==
    ASSUME ListenerInv, NEW h \in Handlers, First(h)
    PROVE  ListenerInv'
<1>1. PICK c \in Conns : c = handler[h].c
    BY DEF ListenerInv, Life, First
<1>2. /\ handler[h].pc = "first" /\ writer[c] = None /\ Put(c, <<h, 1>>)
      /\ UNCHANGED <<peer, backlog, obj, ref, mClients, clientsLock, listener, caster, leaked>>
    BY <1>1 DEF First
<1>3. out \in Streams /\ <<h, 1>> \in Pieces /\ writer \in Mutexes
    BY DEF ListenerInv, Shapes, Pieces
<1>4. /\ out' \in Streams
      /\ out' # out => /\ Len(out'[c]) = Len(out[c]) + 1 /\ out'[c][Len(out[c]) + 1] = <<h, 1>>
                       /\ \A i \in 1 .. Len(out[c]) : out'[c][i] = out[c][i]
      /\ \A d \in Conns \ {c} : out'[d] = out[d]
    BY <1>2, <1>3, PutAppends, Zenon
<1>5. \A d \in Conns : \A i \in 1 .. Len(out[d]) :
         out[d][i][1] \in Handlers /\ out[d][i][2] = 2 => out[d][i][1] # h
    BY <1>2, Zenon DEF ListenerInv, Wire
<1>6. CASE out' = out
    <2>1. Move(h, "dec") /\ writer' = writer
        BY <1>6 DEF First
    <2>2. /\ handler'[h].pc = "dec"
          /\ \A g \in Handlers : handler'[g].c = handler[g].c /\ handler'[g].kind = handler[g].kind
          /\ \A g \in Handlers \ {h} : handler'[g] = handler[g]
        BY <2>1, Moving, Zenon DEF ListenerInv
    <2>3. Wire'
        BY <1>6, <2>1, <2>2, SMTT(30) DEF ListenerInv, Wire, BinaryTogether
    <2> QED
        BY <1>2, <1>3, <1>4, <2>1, <2>3, WritingKeeps, ZenonT(30) DEF ListenerInv
<1>7. CASE out' # out
    <2>1. /\ Move(h, "second")
          /\ writer' = IF handler[h].kind = "binary" THEN [writer EXCEPT ![c] = h] ELSE writer
        BY <1>1, <1>7, Zenon DEF First
    <2>2. /\ writer' \in Mutexes
          /\ writer'[c] \in {None, h} /\ (handler[h].kind = "binary" => writer'[c] = h)
          /\ \A d \in Conns \ {c} : writer'[d] = writer[d]
        BY <1>2, <1>3, <2>1 DEF Mutexes
    <2>3. /\ handler'[h].pc = "second"
          /\ \A g \in Handlers : handler'[g].c = handler[g].c /\ handler'[g].kind = handler[g].kind
          /\ \A g \in Handlers \ {h} : handler'[g] = handler[g]
        BY <2>1, Moving DEF ListenerInv
    <2>4. ASSUME NEW d \in Conns, NEW i \in 1 .. Len(out'[d]), out'[d][i][2] = 2
          PROVE  i \in 1 .. Len(out[d]) /\ out'[d][i] = out[d][i]
                 /\ (i > 1 => out'[d][i - 1] = out[d][i - 1])
        <3>1. Len(out[d]) \in Nat
            BY <1>3 DEF Streams
        <3>2. CASE d = c
            <4>1. i # Len(out[c]) + 1
                BY <1>4, <1>7, <2>4, <3>2, SMTT(30)
            <4>2. i \in 1 .. Len(out[c]) /\ (i > 1 => i - 1 \in 1 .. Len(out[c]))
                BY <1>4, <1>7, <3>1, <3>2, <4>1, SMTT(30)
            <4> QED
                BY <1>4, <1>7, <3>2, <4>2, SMTT(30)
        <3> QED
            BY <1>4, <3>1, <3>2
    <2>5. ASSUME NEW g \in Handlers, handler'[g].pc = "second", handler'[g].kind = "binary"
          PROVE  writer'[handler'[g].c] = g
        <3>1. CASE g = h
            BY <1>1, <2>2, <2>3, <2>5, <3>1, SMTT(30)
        <3>2. CASE g # h
            <4>1. writer[handler[g].c] = g /\ handler[g].c \in Conns
                BY <2>3, <2>5, <3>2, ZenonT(30) DEF ListenerInv, Wire, Life
            <4>2. handler[g].c # c
                BY <1>2, <4>1, ListenerAssumption
            <4> QED
                BY <2>2, <2>3, <4>1, <4>2, ZenonT(30)
        <3> QED
            BY <3>1, <3>2, SMTT(30)
    <2>6. ASSUME NEW d \in Conns, writer'[d] # None
          PROVE  out'[d] # <<>> /\ out'[d][Len(out'[d])] = <<writer'[d], 1>>
        <3>1. CASE d = c
            <4>1. Len(out[c]) \in Nat /\ out'[c] \in Seq(Pieces)
                BY <1>3, <1>4, SMTT(30) DEF Streams
            <4> QED
                BY <1>4, <1>7, <2>2, <2>6, <3>1, <4>1, SMTT(30)
        <3>2. CASE d # c
            BY <1>4, <2>2, <2>6, <3>2, ZenonT(30) DEF ListenerInv, Wire
        <3> QED
            BY <3>1, <3>2
    <2>7. ASSUME NEW d \in Conns, NEW i \in 1 .. Len(out'[d]), out'[d][i][1] \in Handlers,
                 out'[d][i][2] = 2
          PROVE  /\ handler'[out'[d][i][1]].pc \in {"dec", "done"}
                 /\ handler'[out'[d][i][1]].kind = "binary"
                       => i > 1 /\ out'[d][i - 1] = <<out'[d][i][1], 1>>
        <3>1. /\ i \in 1 .. Len(out[d]) /\ out'[d][i] = out[d][i]
              /\ (i > 1 => out'[d][i - 1] = out[d][i - 1])
            BY <2>4, <2>7, Zenon
        <3>2. /\ handler[out[d][i][1]].pc \in {"dec", "done"}
              /\ handler[out[d][i][1]].kind = "binary" => i > 1 /\ out[d][i - 1] = <<out[d][i][1], 1>>
            BY <2>7, <3>1, ZenonT(30) DEF ListenerInv, Wire, BinaryTogether
        <3> QED
            BY <1>5, <2>3, <2>7, <3>1, <3>2, ZenonT(30)
    <2>8. Wire'
        BY <2>5, <2>6, <2>7, Zenon DEF Wire, BinaryTogether
    <2> QED
        BY <1>2, <1>4, <2>1, <2>2, <2>8, WritingKeeps, Zenon DEF ListenerInv
<1> QED
    BY <1>6, <1>7, SMTT(30)

\* The second part: a binary one finds its first part at the end of the wire.
LEMMA SecondStep ==
    ASSUME ListenerInv, NEW h \in Handlers, Second(h)
    PROVE  ListenerInv'
<1>1. PICK c \in Conns : c = handler[h].c
    BY Zenon DEF ListenerInv, Life, Second
<1>2. /\ handler[h].pc = "second" /\ writer[c] \in {None, h} /\ Put(c, <<h, 2>>)
      /\ writer' = [writer EXCEPT ![c] = None] /\ Move(h, "dec")
      /\ UNCHANGED <<peer, backlog, obj, ref, mClients, clientsLock, listener, caster, leaked>>
    BY <1>1 DEF Second
<1>3. out \in Streams /\ <<h, 2>> \in Pieces /\ writer \in Mutexes
    BY Zenon DEF ListenerInv, Shapes, Pieces
<1>4. /\ out' \in Streams
      /\ out' # out => /\ Len(out'[c]) = Len(out[c]) + 1 /\ out'[c][Len(out[c]) + 1] = <<h, 2>>
                       /\ \A i \in 1 .. Len(out[c]) : out'[c][i] = out[c][i]
      /\ \A d \in Conns \ {c} : out'[d] = out[d]
    BY <1>2, <1>3, PutAppends, Zenon
<1>5. /\ handler'[h].pc = "dec"
      /\ \A g \in Handlers : handler'[g].c = handler[g].c /\ handler'[g].kind = handler[g].kind
      /\ \A g \in Handlers \ {h} : handler'[g] = handler[g]
    BY <1>2, Moving, Zenon DEF ListenerInv
<1>6. /\ writer' \in Mutexes /\ writer'[c] = None
      /\ \A d \in Conns \ {c} : writer'[d] = writer[d]
    BY <1>2, <1>3, Zenon DEF Mutexes
<1>7. handler[h].kind = "binary" => out[c] # <<>> /\ out[c][Len(out[c])] = <<h, 1>>
    BY <1>1, <1>2, ListenerAssumption, ZenonT(30) DEF ListenerInv, Wire
<1>8. ASSUME NEW g \in Handlers, handler'[g].pc = "second", handler'[g].kind = "binary"
      PROVE  writer'[handler'[g].c] = g
    <2>1. g # h /\ writer[handler[g].c] = g /\ handler[g].c \in Conns
        BY <1>5, <1>8, ZenonT(30) DEF ListenerInv, Wire, Life
    <2>2. handler[g].c # c
        BY <1>2, <2>1, ListenerAssumption, Zenon
    <2> QED
        BY <1>5, <1>6, <2>1, <2>2, ZenonT(30)
<1>9. ASSUME NEW d \in Conns, writer'[d] # None
      PROVE  out'[d] # <<>> /\ out'[d][Len(out'[d])] = <<writer'[d], 1>>
    BY <1>4, <1>6, <1>9, Zenon DEF ListenerInv, Wire
<1>10. ASSUME NEW d \in Conns, NEW i \in 1 .. Len(out'[d]), out'[d][i][1] \in Handlers,
              out'[d][i][2] = 2
       PROVE  /\ handler'[out'[d][i][1]].pc \in {"dec", "done"}
              /\ handler'[out'[d][i][1]].kind = "binary"
                    => i > 1 /\ out'[d][i - 1] = <<out'[d][i][1], 1>>
    <2>1. Len(out[d]) \in Nat /\ out[d] \in Seq(Pieces)
        BY <1>3, SMTT(30) DEF Streams
    <2>2. CASE i \in 1 .. Len(out[d])
        <3>0. \A j \in 1 .. Len(out[d]) : out'[d][j] = out[d][j]
            BY <1>4, Zenon
        <3>1. out'[d][i] = out[d][i] /\ (i > 1 => out'[d][i - 1] = out[d][i - 1])
            BY <2>1, <2>2, <3>0, SMTT(30)
        <3>2. /\ handler[out[d][i][1]].pc \in {"dec", "done"}
              /\ handler[out[d][i][1]].kind = "binary" => i > 1 /\ out[d][i - 1] = <<out[d][i][1], 1>>
            BY <1>10, <2>2, <3>1, ZenonT(30) DEF ListenerInv, Wire, BinaryTogether
        <3> QED
            BY <1>5, <1>10, <3>1, <3>2, ZenonT(30)
    <2>3. CASE i \notin 1 .. Len(out[d])
        <3>1. d = c /\ i = Len(out[c]) + 1 /\ out' # out
            BY <1>4, <2>1, <2>3, SMTT(30)
        <3>2. out'[d][i] = <<h, 2>>
            BY <1>4, <3>1, SMTT(30)
        <3>3. ASSUME handler[h].kind = "binary" PROVE i > 1 /\ out'[d][i - 1] = <<h, 1>>
            BY <1>4, <1>7, <2>1, <3>1, <3>3, SMTT(30)
        <3> QED
            BY <1>5, <3>2, <3>3, SMTT(30)
    <2> QED
        BY <2>2, <2>3, Zenon
<1>11. Wire'
    BY <1>8, <1>9, <1>10 DEF Wire, BinaryTogether
<1> QED
    BY <1>2, <1>4, <1>6, <1>11, WritingKeeps, ZenonT(30) DEF ListenerInv

\* A thread that is done drops its reference, and with it perhaps the client.
LEMMA HandlerDecRefStep ==
    ASSUME ListenerInv, NEW h \in Handlers, HandlerDecRef(h)
    PROVE  ListenerInv'
<1>1. PICK c \in Conns : c = handler[h].c
    BY Zenon DEF ListenerInv, Life, HandlerDecRef
<1>2. /\ handler[h].pc = "dec" /\ DecRef(c) /\ Move(h, "done") /\ obj[c] = "live"
      /\ UNCHANGED <<peer, backlog, out, writer, mClients, clientsLock, listener, caster, leaked>>
    BY <1>1, Zenon DEF HandlerDecRef, ListenerInv, Life, NoUseAfterDelete
<1>3. /\ handler' \in Threads /\ handler'[h].pc = "done"
      /\ \A g \in Handlers : handler'[g].c = handler[g].c /\ handler'[g].kind = handler[g].kind
      /\ \A g \in Handlers \ {h} : handler'[g] = handler[g]
    BY <1>2, Moving, Zenon DEF ListenerInv
<1>4. /\ Holding(c)' = Holding(c) \ {h} /\ h \in Holding(c)
      /\ \A d \in Conns \ {c} : Holding(d)' = Holding(d)
    BY <1>1, <1>2, <1>3, ZenonT(30) DEF Holding
<1>5. /\ Cardinality(Holding(c)) \in Nat
      /\ ref[c] = Cardinality(Holding(c)) + (IF Listed(c) THEN 1 ELSE 0)
                  + (IF c \in leaked THEN 1 ELSE 0)
    BY <1>2, Counted DEF ListenerInv
<1>6. /\ IsFiniteSet(Holding(c)') /\ Cardinality(Holding(c)') = Cardinality(Holding(c)) - 1
      /\ Cardinality(Holding(c)') \in Nat
      /\ Cardinality(Holding(c)') = 0 => Holding(c)' = {}
    <2>1. IsFiniteSet(Holding(c))
        BY DEF ListenerInv, Refs
    <2>2. IsFiniteSet(Holding(c) \ {h}) /\ Cardinality(Holding(c) \ {h}) = Cardinality(Holding(c)) - 1
        BY <1>4, <2>1, FS_RemoveElement
    <2>3. /\ Cardinality(Holding(c) \ {h}) \in Nat
          /\ Cardinality(Holding(c) \ {h}) = 0 => Holding(c) \ {h} = {}
        BY <2>2, FS_CardinalityType, FS_EmptySet, Zenon
    <2> QED
        BY <1>4, <2>2, <2>3
<1>7. /\ ref' \in [Conns -> Nat] /\ obj' \in Objects
      /\ \A d \in Conns \ {c} : ref'[d] = ref[d] /\ obj'[d] = obj[d]
      /\ ref[c] = 1 => obj'[c] = "deleted"
      /\ ref[c] # 1 => obj'[c] = "live" /\ ref'[c] = ref[c] - 1
    <2>1. ref[c] >= 1
        BY <1>5, <1>6
    <2> QED
        BY <1>2, <2>1, DecRefKeeps, ZenonT(30) DEF ListenerInv
<1>8. ASSUME obj'[c] # "live" PROVE Holding(c)' = {} /\ c \notin leaked /\ ~Listed(c)
    <2>1. ref[c] = 1
        BY <1>7, <1>8
    <2>2. Cardinality(Holding(c)) >= 1
        BY <1>5, <1>6
    <2>3. Cardinality(Holding(c)) = 1 /\ c \notin leaked /\ ~Listed(c)
        BY <1>5, <2>1, <2>2, SMTT(30)
    <2> QED
        BY <1>6, <2>3
<1>9. Shapes'
    BY <1>2, <1>3, <1>7, Zenon DEF ListenerInv, Shapes
<1>10. Place' /\ Locked'
    BY <1>2, Zenon DEF ListenerInv, Place, Locked
<1>11. Life'
    <2>1. \A g \in Handlers : handler'[g].pc \in {"first", "second", "dec"}
             => handler'[g].c \in Conns /\ obj'[handler'[g].c] = "live"
        <3> SUFFICES ASSUME NEW g \in Handlers, handler'[g].pc \in {"first", "second", "dec"}
                     PROVE  handler'[g].c \in Conns /\ obj'[handler'[g].c] = "live"
            OBVIOUS
        <3>1. g # h /\ handler'[g] = handler[g]
            BY <1>3, Zenon
        <3>2. handler[g].c \in Conns /\ obj[handler[g].c] = "live"
            BY <3>1, Zenon DEF ListenerInv, Life, NoUseAfterDelete
        <3>3. handler[g].c = c => g \in Holding(c)'
            BY <3>1, Zenon DEF Holding
        <3> QED
            BY <1>7, <1>8, <3>1, <3>2, <3>3, Zenon
    <2>0. \A d \in mClients : d \in Conns /\ obj[d] = "live" /\ Listed(d)
        BY Zenon DEF ListenerInv, Life, NoUseAfterDelete, Shapes, Listed
    <2>2. \A d \in mClients : d \in Conns /\ obj'[d] = "live"
        BY <1>7, <1>8, <2>0, ZenonT(30)
    <2>3. listener.cur # None => Listed(listener.cur) /\ listener.cur \in Conns
        BY Zenon DEF ListenerInv, Place, Listed, Shapes
    <2>4. listener.cur # None => obj'[listener.cur] = "live"
        BY <1>7, <1>8, <2>3, ZenonT(30) DEF ListenerInv, Life, NoUseAfterDelete
    <2>5. /\ listener.pending \subseteq mClients
          /\ \A b \in Casters : \A d \in caster[b].todo : d \in mClients
        BY Zenon DEF ListenerInv, Place, Locked
    <2>6. NoUseAfterDelete'
        BY <1>2, <2>1, <2>2, <2>4, <2>5, ZenonT(30) DEF NoUseAfterDelete
    <2> QED
        BY <1>2, <1>7, <1>8, <2>1, <2>6, ZenonT(30) DEF ListenerInv, Life, Shapes
<1>12. Refs'
    <2>1. \A d \in Conns : Listed(d)' = Listed(d)
        BY <1>2, Zenon DEF Listed
    <2>2. ASSUME NEW d \in Conns, obj'[d] = "live"
          PROVE  ref'[d] = Cardinality(Holding(d)') + (IF Listed(d)' THEN 1 ELSE 0)
                           + (IF d \in leaked' THEN 1 ELSE 0)
        <3>1. CASE d = c
            <4>1. Cardinality(Holding(d)') = Cardinality(Holding(c)) - 1
                BY <1>6, <3>1, Zenon
            <4>2. ref'[d] = ref[c] - 1 /\ Listed(d)' = Listed(c) /\ leaked' = leaked
                BY <1>2, <1>7, <2>1, <2>2, <3>1, ZenonT(30)
            <4> QED
                BY <1>5, <3>1, <4>1, <4>2, SMTT(30)
        <3>2. CASE d # c
            BY <1>2, <1>4, <1>7, <2>1, <2>2, <3>2, Counted, ZenonT(30) DEF ListenerInv
        <3> QED
            BY <3>1, <3>2, ZenonT(30)
    <2>3. \A d \in Conns : IsFiniteSet(Holding(d)')
        BY <1>4, <1>6, ZenonT(30) DEF ListenerInv, Refs
    <2> QED
        BY <2>2, <2>3, Zenon DEF Refs, RefsExact, Listed
<1>13. Wire'
    BY <1>2, <1>3, SMTT(30) DEF ListenerInv, Wire, BinaryTogether
<1> QED
    BY <1>9, <1>10, <1>11, <1>12, <1>13, ZenonT(30) DEF ListenerInv

-----------------------------------------------------------------------------
(* Broadcasts.                                                             *)

LEMMA BroadcastStep ==
    ASSUME ListenerInv, NEW b \in Casters, Broadcast(b)
    PROVE  ListenerInv'
<1>1. UNCHANGED <<peer, backlog, obj, ref, writer, mClients, listener, handler, leaked>>
    BY DEF Broadcast, BroadcastLock, BroadcastSend, BroadcastUnlock
<1>2. caster \in Walks /\ mClients \subseteq Conns
    BY DEF ListenerInv, Shapes
<1>3. /\ caster' \in Walks /\ \A x \in Casters \ {b} : caster'[x] = caster[x]
      /\ caster'[b].todo \subseteq mClients
    <2>1. caster[b].todo \subseteq mClients
        BY Zenon DEF ListenerInv, Locked
    <2>2. CASE BroadcastLock(b)
        BY <1>2, <2>2 DEF BroadcastLock, Walks
    <2>3. CASE BroadcastUnlock(b)
        BY <1>2, <2>1, <2>3, SMTT(30) DEF BroadcastUnlock, Walks
    <2>4. ASSUME NEW c \in Conns, BroadcastSend(b, c)
          PROVE  /\ caster' \in Walks /\ \A x \in Casters \ {b} : caster'[x] = caster[x]
                 /\ caster'[b].todo \subseteq mClients
        BY <1>2, <2>1, <2>4, SMTT(30) DEF BroadcastSend, Walks
    <2> QED
        BY <2>2, <2>3, <2>4, Zenon DEF Broadcast
<1>4. out' \in Streams /\ Wire'
    <2>1. ASSUME NEW c \in Conns, BroadcastSend(b, c) PROVE out' \in Streams /\ Wire'
        BY <1>1, <2>1, WireWrites DEF BroadcastSend
    <2>2. CASE BroadcastLock(b) \/ BroadcastUnlock(b)
        <3>1. UNCHANGED <<out, writer, handler>>
            BY <1>1, <2>2, Zenon DEF BroadcastLock, BroadcastUnlock
        <3> QED
            BY <3>1, WireFrame DEF ListenerInv, Shapes
    <2> QED
        BY <2>1, <2>2 DEF Broadcast
<1>5. Shapes'
    BY <1>1, <1>3, <1>4, Zenon DEF ListenerInv, Shapes
<1>6. Life'
    <2>1. \A x \in Casters : caster'[x].todo \subseteq mClients
        BY <1>3, Zenon DEF ListenerInv, Locked
    <2>2. NoUseAfterDelete'
        BY <1>1, <2>1, ZenonT(30) DEF ListenerInv, Life, NoUseAfterDelete
    <2> QED
        BY <1>1, <2>2, Zenon DEF ListenerInv, Life
<1>7. Place'
    BY <1>1 DEF ListenerInv, Place
<1>8. Locked'
    <2>1. CASE BroadcastLock(b)
        <3>1. /\ clientsLock = None /\ clientsLock' = b
              /\ caster'[b].pc = "send"
            BY <1>2, <2>1, Zenon DEF BroadcastLock, Walks
        <3> QED
            BY <1>1, <1>3, <3>1, ListenerAssumption, ZenonT(30) DEF ListenerInv, Locked
    <2>2. CASE BroadcastUnlock(b)
        <3>1. /\ caster[b].pc = "send" /\ clientsLock' = None
              /\ caster'[b].pc = "done" /\ caster'[b].todo = {}
            BY <1>2, <2>2, Zenon DEF BroadcastUnlock, Walks
        <3> QED
            BY <1>1, <1>3, <3>1, ZenonT(30) DEF ListenerInv, Locked
    <2>3. ASSUME NEW c \in Conns, BroadcastSend(b, c) PROVE Locked'
        <3>1. caster[b].pc = "send" /\ clientsLock' = clientsLock /\ caster'[b].pc = "send"
            BY <1>2, <2>3 DEF BroadcastSend, Walks
        <3> QED
            BY <1>1, <1>3, <3>1, ZenonT(30) DEF ListenerInv, Locked
    <2> QED
        BY <2>1, <2>2, <2>3, ZenonT(30) DEF Broadcast
<1>9. Refs'
    BY <1>1, RefsFrame, HoldingFrame DEF ListenerInv, Listed
<1> QED
    BY <1>4, <1>5, <1>6, <1>7, <1>8, <1>9, Zenon DEF ListenerInv

-----------------------------------------------------------------------------
LEMMA ListenerInvInit == ListenerInit => ListenerInv
<1> SUFFICES ASSUME ListenerInit PROVE ListenerInv
    BY Zenon
<1>1. Shapes
    <2>1. peer \in Peers /\ obj \in Objects /\ ref \in [Conns -> Nat]
        BY ListenerAssumption, SMTT(30) DEF ListenerInit, Peers, Objects
    <2>2. out \in Streams /\ writer \in Mutexes
        BY SMTT(30) DEF ListenerInit, Streams, Mutexes
    <2>3. listener \in Listeners /\ handler \in Threads /\ caster \in Walks
        BY SMTT(30) DEF ListenerInit, Listeners, Threads, Walks
    <2> QED
        BY <2>1, <2>2, <2>3, ZenonT(30) DEF ListenerInit, Shapes
<1>2. Life /\ Place /\ Locked
    BY Zenon DEF ListenerInit, Life, NoUseAfterDelete, Place, Locked
<1>3. \A c \in Conns : Holding(c) = {}
    BY Zenon DEF ListenerInit, Holding
<1>4. Refs
    <2>1. \A c \in Conns : IsFiniteSet(Holding(c)) /\ obj[c] # "live"
        BY <1>3, FS_EmptySet, ZenonT(30) DEF ListenerInit
    <2> QED
        BY <2>1, ZenonT(30) DEF Refs, RefsExact
<1>5. Wire
    <2>1. \A c \in Conns : writer[c] = None /\ 1 .. Len(out[c]) = {}
        BY SMTT(30) DEF ListenerInit
    <2>2. \A h \in Handlers : handler[h].pc # "second"
        BY Zenon DEF ListenerInit
    <2> QED
        BY <2>1, <2>2, ZenonT(30) DEF Wire, BinaryTogether
<1> QED
    BY <1>1, <1>2, <1>4, <1>5 DEF ListenerInv

LEMMA ListenerInvStep == ListenerInv /\ [ListenerNext]_listenerVars => ListenerInv'
<1> SUFFICES ASSUME ListenerInv, [ListenerNext]_listenerVars PROVE ListenerInv'
    OBVIOUS
<1>1. CASE UNCHANGED listenerVars
    <2>1. UNCHANGED <<peer, backlog, obj, ref, out, writer, mClients, clientsLock, listener, handler,
                      caster, leaked>>
        BY <1>1, Zenon DEF listenerVars
    <2>2. Shapes' /\ Life' /\ Place' /\ Locked'
        BY <2>1, Zenon DEF ListenerInv, Shapes, Life, NoUseAfterDelete, Place, Locked
    <2>3. Refs'
        BY <2>1, RefsFrame, HoldingFrame, Zenon DEF ListenerInv, Listed
    <2> QED
        BY <2>1, <2>2, <2>3, WireFrame DEF ListenerInv
<1>2. CASE Listen
    BY <1>2, MoveStep, ReadStep, PushStep, ZapStep, DropStep, AnswerStep, AnnounceStep,
       StartHandlerFailsStep, StartHandlerStep, ZenonT(30) DEF Listen
<1>3. ASSUME NEW h \in Handlers, Handle(h) PROVE ListenerInv'
    BY <1>3, FirstStep, SecondStep, HandlerDecRefStep, ZenonT(30) DEF Handle
<1> QED
    BY <1>1, <1>2, <1>3, FarEndStep, BroadcastStep, SMTT(30) DEF ListenerNext

\* A SocketClient is deleted when the last reference to it is dropped and not
\* before: mRefCount is what the list, the handler threads and the threads that
\* could not be created add up to, nobody works on a deleted client, and code and
\* data of sendBinaryMsg reach the socket together.
THEOREM ClientsAreSafe == ListenerSpec => []ClientsSafe
<1>1. ListenerInv => ClientsSafe
    BY Zenon DEF ListenerInv, ClientsSafe, Refs, Life, Wire
<1> QED
    BY <1>1, ListenerInvInit, ListenerInvStep, PTL DEF ListenerSpec
=============================================================================
