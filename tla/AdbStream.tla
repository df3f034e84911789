------------------------------ MODULE AdbStream ------------------------------
(***************************************************************************)
(* The streams of the debug bridge: the two event loops, host and device,  *)
(* that multiplex local sockets over one transport (adb.c, sockets.c).     *)
(*                                                                         *)
(* A side has local sockets, each on the file descriptor of an application *)
(* (host) or a service (device), and a remote socket for each connected    *)
(* one: here the field "peer", the other side's id of the stream.  The     *)
(* tag of a stream is not in the code: it tells streams apart whose ids    *)
(* are the same.                                                           *)
(*                                                                         *)
(* The link is a FIFO in each direction.  The cable can be pulled: what    *)
(* has arrived is still handled, then a SYNC(0).  The host's server can be *)
(* killed and started again: its ids start again from 1 and the device     *)
(* still has the streams of the old one.                                   *)
(***************************************************************************)
EXTENDS Naturals, Sequences, FiniteSets

CONSTANTS
    MaxStreams,     \* bound: streams that are opened
    MaxChunks,      \* bound: chunks that each end of each stream writes
    MaxPayload,     \* chunks that one WRTE packet takes
    Room,           \* chunks that a file descriptor takes before EAGAIN
    MaxFaults       \* bound: cables pulled and servers restarted

VARIABLES
    sock,       \* sock[e][i]: the local socket with id i
    next,       \* local_socket_next_id
    online,     \* t->online; t->connection_state is CS_OFFLINE when it is not
    link,       \* link[e]: the packets that e is to handle
    cable,      \* the transport carries packets
    app,        \* app[e][g]: the application at e's end of stream g
    tags,       \* streams opened so far
    faults

vars == <<sock, next, online, link, cable, app, tags, faults>>

Sides == {"host", "dev"}
Other(e) == IF e = "host" THEN "dev" ELSE "host"
Ids == 1 .. MaxStreams
Tags == 1 .. MaxStreams
Chunk == {<<g, k, n>> : g \in Tags, k \in 1 .. 2, n \in 1 .. MaxChunks["host"][1]}

Free == [st |-> "free", tag |-> 0, peer |-> 0, read |-> FALSE, q |-> <<>>]
NoApp == [closed |-> FALSE, sent |-> 0, taken |-> 0, got |-> <<>>, unread |-> 0]

(* The n-th chunk that e's end of stream g writes.                         *)
Data(e, g, n) == <<g, IF e = "host" THEN 1 ELSE 2, n>>

TypeOK ==
    /\ \A e \in Sides, i \in Ids :
          /\ sock[e][i].st \in {"free", "open", "closing"} /\ sock[e][i].tag \in {0} \cup Tags
          /\ sock[e][i].peer \in {0} \cup Ids /\ sock[e][i].read \in BOOLEAN
          /\ \A k \in DOMAIN sock[e][i].q : \A j \in DOMAIN sock[e][i].q[k] :
                sock[e][i].q[k][j] \in Chunk
    /\ next \in [Sides -> 1 .. MaxStreams + 1]
    /\ online \in [Sides -> BOOLEAN] /\ cable \in BOOLEAN
    /\ \A e \in Sides, g \in Tags : /\ app[e][g].taken <= app[e][g].sent
                                    /\ app[e][g].sent <= MaxChunks[e][g]
                                    /\ app[e][g].unread <= Room
    /\ tags \in 0 .. MaxStreams /\ faults \in 0 .. MaxFaults

Packet(c, a0, a1, g, d) == [cmd |-> c, arg0 |-> a0, arg1 |-> a1, tag |-> g, data |-> d]
CNXN == Packet("CNXN", 0, 0, 0, <<>>)
SYNC == Packet("SYNC", 0, 0, 0, <<>>)

Init ==
    /\ sock = [e \in Sides |-> [i \in Ids |-> Free]] /\ next = [e \in Sides |-> 1]
    /\ online = [e \in Sides |-> FALSE] /\ cable = TRUE
    /\ link = [e \in Sides |-> IF e = "dev" THEN <<CNXN>> ELSE <<>>]
    /\ app = [e \in Sides |-> [g \in Tags |-> NoApp]]
    /\ tags = 0 /\ faults = 0
-----------------------------------------------------------------------------
(* send_packet: to a transport that has gone, the packet is lost.          *)
Sent(e, ps) == IF cable THEN [link EXCEPT ![Other(e)] = @ \o ps] ELSE link

(* The first packet of e's link is taken, and e answers with ps.           *)
Answer(e, ps) ==
    link' = [Sent(e, ps) EXCEPT ![e] = Tail(@)]

(* find_local_socket: a socket on the closing list is not found.           *)
Find(e, i) == i \in Ids /\ sock[e][i].st = "open"

(* Mutant: the socket is destroyed with its packets.                       *)
CloseDestroys(s) == Free

(* local_socket_close_locked after the peer is dealt with: packets that    *)
(* are still queued keep the socket, on the closing list.                  *)
CloseLocked(s) ==
    IF s.st = "closing" \/ s.q = <<>> THEN Free
    ELSE [s EXCEPT !.st = "closing", !.peer = 0, !.read = FALSE]

(* remote_socket_close of the peer, if there is one.                       *)
Clse(s) == IF s.peer = 0 THEN <<>> ELSE <<Packet("CLSE", 0, s.peer, s.tag, <<>>)>>

(* Mutant: the sockets stay.                                               *)
HandleOfflineKeeps(ss) == ss

(* handle_offline, remote_socket_disconnect: the sockets that have a peer  *)
(* are closed, and nothing is sent.                                        *)
HandleOffline(ss) == [i \in Ids |-> IF ss[i].peer # 0 THEN CloseLocked(ss[i]) ELSE ss[i]]

(* listener_event_func, connect_to_remote: a client connects.              *)
Connect ==
    LET i == next["host"] IN
    /\ online["host"] /\ tags < MaxStreams
    /\ sock' = [sock EXCEPT !["host"][i] = [Free EXCEPT !.st = "open", !.tag = tags + 1]]
    /\ next' = [next EXCEPT !["host"] = i + 1] /\ tags' = tags + 1
    /\ link' = Sent("host", <<Packet("OPEN", i, 0, tags + 1, <<>>)>>)
    /\ UNCHANGED <<online, cable, app, faults>>

(* handle_packet drops what comes while the transport is not online.       *)
Dropped(e) ==
    /\ ~online[e] /\ Head(link[e]).cmd \notin {"CNXN", "SYNC"}
    /\ Answer(e, <<>>)
    /\ UNCHANGED <<sock, next, online, cable, app, tags, faults>>

(* A_CNXN, without authentication.                                         *)
HandleCnxn(e) ==
    /\ Head(link[e]).cmd = "CNXN"
    /\ sock' = IF online[e] THEN [sock EXCEPT ![e] = HandleOffline(@)] ELSE sock
    /\ online' = [online EXCEPT ![e] = TRUE]
    /\ Answer(e, IF e = "dev" THEN <<CNXN>> ELSE <<>>)
    /\ UNCHANGED <<next, cable, app, tags, faults>>

(* Mutant: only the connected sockets are closed.                          *)
HandleSyncOffline(e) ==
    /\ Head(link[e]).cmd = "SYNC"
    /\ sock' = [sock EXCEPT ![e] = HandleOffline(@)]
    /\ online' = [online EXCEPT ![e] = FALSE]
    /\ Answer(e, <<>>)
    /\ UNCHANGED <<next, cable, app, tags, faults>>

(* A_SYNC with 0: offline; the input thread then closes the sockets that   *)
(* are left (close_all_sockets).                                           *)
HandleSync(e) ==
    /\ Head(link[e]).cmd = "SYNC"
    /\ sock' = [sock EXCEPT ![e] = [i \in Ids |-> IF @[i].st = "open" THEN CloseLocked(@[i])
                                                  ELSE @[i]]]
    /\ online' = [online EXCEPT ![e] = FALSE]
    /\ Answer(e, <<>>)
    /\ UNCHANGED <<next, cable, app, tags, faults>>

(* A_OPEN: the service exists or it does not.                              *)
HandleOpen(e) ==
    LET p == Head(link[e])  i == next[e] IN
    /\ p.cmd = "OPEN" /\ online[e]
    /\ \/ /\ Answer(e, <<Packet("CLSE", 0, p.arg0, p.tag, <<>>)>>)
          /\ UNCHANGED <<sock, next>>
       \/ /\ i \in Ids
          /\ sock' = [sock EXCEPT ![e][i] = [Free EXCEPT !.st = "open", !.tag = p.tag,
                                                         !.peer = p.arg0, !.read = TRUE]]
          /\ next' = [next EXCEPT ![e] = i + 1]
          /\ Answer(e, <<Packet("OKAY", i, p.arg0, p.tag, <<>>)>>)
    /\ UNCHANGED <<online, cable, app, tags, faults>>

(* A_OKAY: the first one names the peer; each one lets the socket read.    *)
HandleOkay(e) ==
    LET p == Head(link[e]) IN
    /\ p.cmd = "OKAY" /\ online[e]
    /\ sock' = IF Find(e, p.arg1)
               THEN [sock EXCEPT ![e][p.arg1].peer = IF @ = 0 THEN p.arg0 ELSE @,
                                 ![e][p.arg1].read = TRUE]
               ELSE sock
    /\ Answer(e, <<>>)
    /\ UNCHANGED <<next, online, cable, app, tags, faults>>

(* A_CLSE.                                                                 *)
HandleClse(e) ==
    LET p == Head(link[e])  i == p.arg1 IN
    /\ p.cmd = "CLSE" /\ online[e]
    /\ IF Find(e, i)
       THEN /\ Answer(e, Clse(sock[e][i]))
            /\ sock' = [sock EXCEPT ![e][i] = CloseLocked(@)]
       ELSE Answer(e, <<>>) /\ UNCHANGED sock
    /\ UNCHANGED <<next, online, cable, app, tags, faults>>

(* What a write of the packet d does to the application's end.             *)
FitsAlways(a, d) == ~a.closed      \* mutant
Fits(a, d) == ~a.closed /\ a.unread + Len(d) <= Room
Deliver(a, d) == [a EXCEPT !.got = @ \o d, !.unread = @ + Len(d)]

(* A_WRTE, local_socket_enqueue: written at once and acknowledged, queued, *)
(* or the socket is closed.                                                *)
HandleWrte(e) ==
    LET p == Head(link[e])  i == p.arg1  s == sock[e][i]  a == app[e][s.tag] IN
    /\ p.cmd = "WRTE" /\ online[e]
    /\ \/ ~Find(e, i) /\ Answer(e, <<>>) /\ UNCHANGED <<sock, app>>
       \/ /\ Find(e, i) /\ s.q = <<>> /\ Fits(a, p.data)
          /\ app' = [app EXCEPT ![e][s.tag] = Deliver(@, p.data)]
          /\ Answer(e, <<Packet("OKAY", i, p.arg0, s.tag, <<>>)>>) /\ UNCHANGED sock
       \/ /\ Find(e, i) /\ s.q = <<>> /\ a.closed
          /\ sock' = [sock EXCEPT ![e][i] = CloseLocked(@)]
          /\ Answer(e, Clse(s)) /\ UNCHANGED app
       \/ /\ Find(e, i) /\ (s.q = <<>> => ~a.closed /\ ~Fits(a, p.data))
          /\ sock' = [sock EXCEPT ![e][i].q = Append(@, p.data)]
          /\ Answer(e, <<>>) /\ UNCHANGED app
    /\ UNCHANGED <<next, online, cable, tags, faults>>
-----------------------------------------------------------------------------
(* local_socket_event_func, FDE_WRITE: the first queued packet is written. *)
(* When it was the last, a closing socket is destroyed, and the peer of    *)
(* another is told that it may write.                                      *)
Writable(e, i) ==
    LET s == sock[e][i]  a == app[e][s.tag] IN
    /\ s.st # "free" /\ s.q # <<>>
    /\ \/ /\ Fits(a, Head(s.q))
          /\ app' = [app EXCEPT ![e][s.tag] = Deliver(@, Head(s.q))]
          /\ sock' = [sock EXCEPT ![e][i] = IF Len(s.q) = 1 /\ s.st = "closing" THEN Free
                                            ELSE [s EXCEPT !.q = Tail(@)]]
          /\ link' = IF Len(s.q) = 1 /\ s.st = "open"
                     THEN Sent(e, <<Packet("OKAY", i, s.peer, s.tag, <<>>)>>)
                     ELSE link
       \/ /\ a.closed
          /\ sock' = [sock EXCEPT ![e][i] = CloseLocked(@)]
          /\ link' = Sent(e, Clse(s)) /\ UNCHANGED app
    /\ UNCHANGED <<next, online, cable, tags, faults>>

(* Mutant: the socket goes on reading.                                     *)
ReadableKeeps(e, i) ==
    LET s == sock[e][i]  a == app[e][s.tag]
        n == IF a.sent - a.taken > MaxPayload THEN MaxPayload ELSE a.sent - a.taken
        d == [k \in 1 .. n |-> Data(e, s.tag, a.taken + k)]
    IN  /\ s.st = "open" /\ s.read /\ n > 0
        /\ link' = Sent(e, <<Packet("WRTE", i, s.peer, s.tag, d)>>)
        /\ app' = [app EXCEPT ![e][s.tag].taken = @ + n]
        /\ UNCHANGED <<sock, next, online, cable, tags, faults>>

(* local_socket_event_func, FDE_READ: what is there, up to a full payload, *)
(* goes to the peer, and reading stops until the peer is ready.  The end   *)
(* of file is seen unless the payload is full.                             *)
Readable(e, i) ==
    LET s == sock[e][i]  a == app[e][s.tag]
        n == IF a.sent - a.taken > MaxPayload THEN MaxPayload ELSE a.sent - a.taken
        d == [k \in 1 .. n |-> Data(e, s.tag, a.taken + k)]
        eof == a.closed /\ n < MaxPayload
        wrte == IF n = 0 THEN <<>> ELSE <<Packet("WRTE", i, s.peer, s.tag, d)>>
    IN  /\ s.st = "open" /\ s.read /\ (n > 0 \/ eof)
        /\ link' = Sent(e, wrte \o (IF eof THEN Clse(s) ELSE <<>>))
        /\ app' = [app EXCEPT ![e][s.tag].taken = @ + n]
        /\ sock' = [sock EXCEPT ![e][i] = IF eof THEN CloseLocked(@)
                                          ELSE [s EXCEPT !.read = FALSE]]
        /\ UNCHANGED <<next, online, cable, tags, faults>>
-----------------------------------------------------------------------------
(* The applications.                                                       *)
Attached(e, g) == \E i \in Ids : sock[e][i].st # "free" /\ sock[e][i].tag = g

AppWrite(e, g) ==
    /\ Attached(e, g) /\ ~app[e][g].closed /\ app[e][g].sent < MaxChunks[e][g]
    /\ app' = [app EXCEPT ![e][g].sent = @ + 1]
    /\ UNCHANGED <<sock, next, online, link, cable, tags, faults>>

AppRead(e, g) ==
    /\ Attached(e, g) /\ app[e][g].unread > 0 /\ ~app[e][g].closed
    /\ app' = [app EXCEPT ![e][g].unread = 0]
    /\ UNCHANGED <<sock, next, online, link, cable, tags, faults>>

AppClose(e, g) ==
    /\ Attached(e, g) /\ ~app[e][g].closed
    /\ app' = [app EXCEPT ![e][g].closed = TRUE]
    /\ UNCHANGED <<sock, next, online, link, cable, tags, faults>>

(* The cable is pulled: of what was on its way each side still gets a      *)
(* first part, and then SYNC(0) from its output thread.                    *)
Pull ==
    /\ cable /\ faults < MaxFaults /\ faults' = faults + 1 /\ cable' = FALSE
    /\ \E n \in 0 .. Len(link["host"]), m \in 0 .. Len(link["dev"]) :
          link' = [e \in Sides |-> Append(SubSeq(link[e], 1, IF e = "host" THEN n ELSE m), SYNC)]
    /\ UNCHANGED <<sock, next, online, app, tags>>

(* A new transport: its output thread sends SYNC(1), and the host then     *)
(* sends CNXN.                                                             *)
Plug ==
    /\ ~cable /\ \A e \in Sides : link[e] = <<>>
    /\ cable' = TRUE /\ link' = [link EXCEPT !["dev"] = <<CNXN>>]
    /\ UNCHANGED <<sock, next, online, app, tags, faults>>

(* The host's server ends and another one starts.                          *)
Restart ==
    /\ cable /\ faults < MaxFaults /\ faults' = faults + 1
    /\ sock' = [sock EXCEPT !["host"] = [i \in Ids |-> Free]]
    /\ next' = [next EXCEPT !["host"] = 1] /\ online' = [online EXCEPT !["host"] = FALSE]
    /\ link' = [link EXCEPT !["dev"] = Append(@, CNXN)]
    /\ UNCHANGED <<cable, app, tags>>

Handle(e) ==
    /\ link[e] # <<>>
    /\ \/ Dropped(e) \/ HandleCnxn(e) \/ HandleSync(e) \/ HandleOpen(e) \/ HandleOkay(e)
       \/ HandleClse(e) \/ HandleWrte(e)

Next ==
    \/ Connect \/ Pull \/ Plug \/ Restart
    \/ \E e \in Sides : Handle(e)
    \/ \E e \in Sides, i \in Ids : Writable(e, i) \/ Readable(e, i)
    \/ \E e \in Sides, g \in Tags : AppWrite(e, g) \/ AppRead(e, g) \/ AppClose(e, g)

(* A bound for checking: a second stream only after a fault.               *)
OneAtATime == tags' <= faults' + 1

Spec == Init /\ [][Next]_vars

(* The event loops run, and applications read what they are sent.          *)
Fairness ==
    /\ WF_vars(Plug)
    /\ \A e \in Sides : WF_vars(Handle(e))
    /\ \A e \in Sides, i \in Ids : WF_vars(Writable(e, i)) /\ WF_vars(Readable(e, i))
    /\ \A e \in Sides, g \in Tags : WF_vars(AppRead(e, g))

FairSpec == Spec /\ Fairness
-----------------------------------------------------------------------------
(* What an application is given is a prefix of what the other end of the   *)
(* same stream wrote: nothing lost on the way, repeated, reordered, or     *)
(* from a stream that had the same id before the server was restarted.     *)
InOrder ==
    \A e \in Sides, g \in Tags :
        /\ Len(app[e][g].got) <= app[Other(e)][g].taken
        /\ \A n \in DOMAIN app[e][g].got : app[e][g].got[n] = Data(Other(e), g, n)

(* The packets on their way to e that are for stream g.                    *)
InFlight(e, c, g) ==
    Cardinality({k \in DOMAIN link[e] : link[e][k].cmd = c /\ link[e][k].tag = g})

Queued(e, g) == IF \E i \in Ids : sock[e][i].tag = g /\ sock[e][i].st = "open"
                THEN Len(sock[e][CHOOSE i \in Ids : sock[e][i].tag = g].q) ELSE 0
MayRead(e, g) == IF \E i \in Ids : sock[e][i].tag = g /\ sock[e][i].read THEN 1 ELSE 0

(* "Once a WRITE message is sent, an additional WRITE message may not be   *)
(* sent until another READY message has been received": a stream has one   *)
(* go-ahead per direction, which is with the sender, on its way in an      *)
(* OKAY, on its way back in a WRTE, or with the receiver's queue.          *)
OneGoAhead ==
    \A e \in Sides, g \in Tags :
        MayRead(e, g) + InFlight(e, "OKAY", g) + InFlight(Other(e), "WRTE", g)
            + Queued(Other(e), g) <= 1

(* Chunks taken from e's application and not given to the other's, which   *)
(* still wants them.                                                       *)
Outstanding(e) ==
    \E g \in Tags : /\ app[e][g].taken > Len(app[Other(e)][g].got)
                    /\ ~app[Other(e)][g].closed

(* What the bridge has taken from one end reaches the other, even when the *)
(* writer closes behind it, unless the reader closes or the connection is  *)
(* lost.                                                                   *)
Arrived(e) == ~Outstanding(e) \/ faults > 0
TakenArrives == \A e \in Sides : Outstanding(e) ~> Arrived(e)

(* "The OPEN message MUST result in either a READY message ... or a CLOSE  *)
(* message": a client is not left with a socket that is neither connected  *)
(* nor closed, whatever happens to the link.                               *)
Unanswered == \E i \in Ids : sock["host"][i].st = "open" /\ sock["host"][i].peer = 0
OpenAnswered == Unanswered ~> ~Unanswered

(* "The recipient should not respond to a CLOSE message in any way."       *)
CloseUnanswered ==
    [][\A e \in Sides :
          (link[e] # <<>> /\ Head(link[e]).cmd = "CLSE" /\ link'[e] = Tail(link[e]))
              => link'[Other(e)] = link[Other(e)]]_vars

\* Both ends of every stream receive what the other end took from its
\* application, in order and under the right stream, with at most one message
\* under way per direction.
FlowExact == InOrder /\ OneGoAhead
=============================================================================
