--------------------------- MODULE SocketListener ---------------------------
(***************************************************************************)
(* SocketListener and SocketClient of core/libsysutils, on which the       *)
(* command sockets of vold and netd are built, with the handler threads    *)
(* of netd/DnsProxyListener.cpp.                                           *)
(*                                                                         *)
(* One thread accepts connections, selects over them and dispatches their  *)
(* commands.  A handler thread answers a DNS query on its own and holds a  *)
(* reference to the client meanwhile; other threads broadcast to all       *)
(* clients.  mClientsLock guards the list of clients and is held during a  *)
(* whole broadcast, mWriteMutex guards one write to one client.            *)
(***************************************************************************)
EXTENDS Integers, FiniteSets, Sequences

CONSTANTS
    Conns,          \* connections; each has one SocketClient object
    Handlers,       \* handler threads
    Broadcasters,   \* threads that broadcast, each of them once
    Cap,            \* writes a socket takes before send blocks
    MaxCommands,    \* bound: commands of each connection
    MaxFails,       \* bound: failures of pthread_create
    Announces       \* whether commands broadcast, as those of vold do

None == "none"

(* The listener itself broadcasts when a command says so.                  *)
Casters == Broadcasters \cup {"listener"}

ASSUME ListenerAssumption ==
    /\ Cap \in Nat \ {0} /\ MaxCommands \in Nat /\ MaxFails \in Nat /\ Announces \in BOOLEAN
    /\ None \notin Conns \cup Handlers \cup Casters

VARIABLES
    peer,      \* each connection's far end: state, commands sent and not read
    backlog,   \* connections not yet accepted
    obj,       \* the SocketClient of each connection
    ref,       \* its mRefCount
    out,       \* what was written to each connection: <<thread, piece>>
    got,       \* how much of that the far end has read
    writer,    \* the owner of each mWriteMutex
    mClients, clientsLock,
    listener,  \* the thread: where it is, fd set, pending list, current client
    handler,   \* each handler thread: where it is, client, kind of answer
    caster,    \* each broadcaster: where it is, clients still to come
    leaked     \* clients with a reference of a thread that was never created

listenerVars == <<peer, backlog, obj, ref, out, got, writer, mClients, clientsLock,
          listener, handler, caster, leaked>>

(* The type invariant.                                                     *)
ListenerTypeOK ==
    /\ peer \in [Conns -> [st : {"new", "open", "closed"}, cmds : 0 .. MaxCommands,
                           left : 0 .. MaxCommands]]
    /\ obj \in [Conns -> {"none", "live", "deleted"}]
    /\ ref \in [Conns -> Nat]
    /\ \A c \in Conns : got[c] <= Len(out[c]) /\ Len(out[c]) - got[c] <= Cap
    /\ writer \in [Conns -> Handlers \cup {None}]
    /\ mClients \subseteq Conns
    /\ clientsLock \in Casters \cup {None}
    /\ listener \in [pc : {"build", "select", "push", "pend", "work", "dispatch", "zap", "drop"},
                     fds : SUBSET Conns, pending : SUBSET Conns, cur : Conns \cup {None},
                     batch : 0 .. MaxCommands]
    /\ handler \in [Handlers -> [pc : {"none", "first", "second", "dec", "done"},
                                 c : Conns \cup {None}, kind : {"binary", "pieces"}]]
    /\ caster \in [Casters -> [pc : {"start", "send", "done"}, todo : SUBSET Conns]]

ListenerInit ==
    /\ peer = [c \in Conns |-> [st |-> "new", cmds |-> 0, left |-> MaxCommands]]
    /\ backlog = {}
    /\ obj = [c \in Conns |-> "none"]
    /\ ref = [c \in Conns |-> 0]
    /\ out = [c \in Conns |-> <<>>]
    /\ got = [c \in Conns |-> 0]
    /\ writer = [c \in Conns |-> None]
    /\ mClients = {} /\ clientsLock = None
    /\ listener = [pc |-> "build", fds |-> {}, pending |-> {}, cur |-> None, batch |-> 0]
    /\ handler = [h \in Handlers |-> [pc |-> "none", c |-> None, kind |-> "binary"]]
    /\ caster = [b \in Casters |-> [pc |-> IF b = "listener" THEN "done" ELSE "start",
                                    todo |-> {}]]
    /\ leaked = {}

-----------------------------------------------------------------------------
(* The far ends.                                                           *)

Connect(c) ==
    /\ peer[c].st = "new"
    /\ peer' = [peer EXCEPT ![c].st = "open"]
    /\ backlog' = backlog \cup {c}
    /\ UNCHANGED <<obj, ref, out, got, writer, mClients, clientsLock, listener, handler,
                   caster, leaked>>

SendCommand(c) ==
    /\ peer[c].st = "open" /\ peer[c].left > 0
    /\ peer' = [peer EXCEPT ![c] = [st |-> "open", cmds |-> @.cmds + 1, left |-> @.left - 1]]
    /\ UNCHANGED <<backlog, obj, ref, out, got, writer, mClients, clientsLock, listener,
                   handler, caster, leaked>>

HangUp(c) ==
    /\ peer[c].st = "open"
    /\ peer' = [peer EXCEPT ![c].st = "closed"]
    /\ UNCHANGED <<backlog, obj, ref, out, got, writer, mClients, clientsLock, listener,
                   handler, caster, leaked>>

TakeAnswer(c) ==
    /\ peer[c].st = "open" /\ got[c] < Len(out[c])
    /\ got' = [got EXCEPT ![c] = @ + 1]
    /\ UNCHANGED <<peer, backlog, obj, ref, out, writer, mClients, clientsLock, listener,
                   handler, caster, leaked>>

-----------------------------------------------------------------------------
(* SocketClient.                                                           *)

(* sendDataLocked: the piece is written, which blocks while the socket is  *)
(* full, or send fails because the far end has gone.                       *)
Put(c, p) ==
    \/ peer[c].st = "open" /\ Len(out[c]) - got[c] < Cap
       /\ out' = [out EXCEPT ![c] = Append(@, p)]
    \/ peer[c].st = "closed" /\ out' = out

(* decRef *)
DecRef(c) ==
    /\ ref' = [ref EXCEPT ![c] = @ - 1]
    /\ obj' = IF ref[c] = 1 THEN [obj EXCEPT ![c] = "deleted"] ELSE obj

-----------------------------------------------------------------------------
(* runListener.                                                            *)

At(p) == [listener EXCEPT !.pc = p]

(* The fd set is built from mClients.                                      *)
Build ==
    /\ listener.pc = "build" /\ clientsLock = None
    /\ listener' = [listener EXCEPT !.pc = "select", !.fds = mClients]
    /\ UNCHANGED <<peer, backlog, obj, ref, out, got, writer, mClients, clientsLock,
                   handler, caster, leaked>>

(* read would not block: there are commands, or the far end has gone.      *)
Readable == {c \in listener.fds : peer[c].cmds > 0 \/ peer[c].st = "closed"}

(* select returns.                                                         *)
Select ==
    /\ listener.pc = "select"
    /\ Readable # {} \/ backlog # {}
    /\ listener' = [listener EXCEPT !.pc = IF backlog # {} THEN "push" ELSE "pend",
                                    !.fds = Readable]
    /\ UNCHANGED <<peer, backlog, obj, ref, out, got, writer, mClients, clientsLock,
                   handler, caster, leaked>>

(* accept, and the new client is put on the list.                          *)
Push(c) ==
    /\ listener.pc = "push" /\ c \in backlog /\ clientsLock = None
    /\ backlog' = backlog \ {c}
    /\ obj' = [obj EXCEPT ![c] = "live"]
    /\ ref' = [ref EXCEPT ![c] = 1]
    /\ mClients' = mClients \cup {c}
    /\ listener' = At("pend")
    /\ UNCHANGED <<peer, out, got, writer, clientsLock, handler, caster, leaked>>

(* The clients that are ready go to the pending list.                      *)
Pend ==
    /\ listener.pc = "pend" /\ clientsLock = None
    /\ listener' = [listener EXCEPT !.pc = "work", !.pending = mClients \cap listener.fds]
    /\ UNCHANGED <<peer, backlog, obj, ref, out, got, writer, mClients, clientsLock,
                   handler, caster, leaked>>

(* FrameworkListener::onDataAvailable: one read takes what fits its buffer *)
(* of the commands there are, and dispatches them one after the other.     *)
Read(c, n) ==
    /\ listener.pc = "work" /\ c \in listener.pending
    /\ n \in 1 .. peer[c].cmds
    /\ peer' = [peer EXCEPT ![c].cmds = @ - n]
    /\ listener' = [listener EXCEPT !.pc = "dispatch", !.pending = @ \ {c}, !.cur = c,
                                    !.batch = n]
    /\ UNCHANGED <<backlog, obj, ref, out, got, writer, mClients, clientsLock, handler,
                   caster, leaked>>

(* The next command of the batch is run.                                   *)
Take(c) ==
    /\ listener.pc = "dispatch" /\ listener.cur = c /\ listener.batch > 0
    /\ caster["listener"].pc = "done"
    /\ listener' = [listener EXCEPT !.batch = @ - 1]
    /\ UNCHANGED peer

(* onDataAvailable returns true.                                           *)
EndOfBatch ==
    /\ listener.pc = "dispatch" /\ listener.batch = 0
    /\ caster["listener"].pc = "done"
    /\ listener' = [listener EXCEPT !.pc = "work", !.cur = None]
    /\ UNCHANGED <<peer, backlog, obj, ref, out, got, writer, mClients, clientsLock,
                   handler, caster, leaked>>

(* A command that is answered at once, by sendMsg.                         *)
Answer(c) ==
    /\ Take(c)
    /\ writer[c] = None
    /\ Put(c, <<"listener", 1>>)
    /\ UNCHANGED <<backlog, obj, ref, got, writer, mClients, clientsLock, handler, caster,
                   leaked>>

(* Mutant: no incRef before the handler is started.                        *)
StartHandlerNoRef(c, h, k) ==
    /\ Take(c)
    /\ handler[h].pc = "none"
    /\ handler' = [handler EXCEPT ![h] = [pc |-> "first", c |-> c, kind |-> k]]
    /\ UNCHANGED <<backlog, obj, ref, out, got, writer, mClients, clientsLock, caster,
                   leaked>>

(* A DNS query: incRef, then a thread of its own.                          *)
StartHandler(c, h, k) ==
    /\ Take(c)
    /\ handler[h].pc = "none"
    /\ ref' = [ref EXCEPT ![c] = @ + 1]
    /\ handler' = [handler EXCEPT ![h] = [pc |-> "first", c |-> c, kind |-> k]]
    /\ UNCHANGED <<backlog, obj, out, got, writer, mClients, clientsLock, caster,
                   leaked>>

(* The same when pthread_create fails, which start() does not notice.      *)
StartHandlerFails(c) ==
    /\ Take(c)
    /\ c \notin leaked /\ Cardinality(leaked) < MaxFails
    /\ ref' = [ref EXCEPT ![c] = @ + 1]
    /\ leaked' = leaked \cup {c}
    /\ UNCHANGED <<backlog, obj, out, got, writer, mClients, clientsLock, handler, caster>>

(* A command that broadcasts, as when vold mounts a volume: the thread     *)
(* goes through sendBroadcast before it does anything else.                *)
Announce(c) ==
    /\ Announces
    /\ Take(c)
    /\ caster' = [caster EXCEPT !["listener"].pc = "start"]
    /\ UNCHANGED <<backlog, obj, ref, out, got, writer, mClients, clientsLock, handler,
                   leaked>>

(* onDataAvailable returns false: read returns 0.                          *)
EndOfFile(c) ==
    /\ listener.pc = "work" /\ c \in listener.pending
    /\ peer[c].cmds = 0 /\ peer[c].st = "closed"
    /\ listener' = [listener EXCEPT !.pc = "zap", !.pending = @ \ {c}, !.cur = c]
    /\ UNCHANGED <<peer, backlog, obj, ref, out, got, writer, mClients, clientsLock,
                   handler, caster, leaked>>

(* Mutant: the client stays on the list.                                   *)
ZapKeeps ==
    /\ listener.pc = "zap" /\ clientsLock = None
    /\ listener' = At("drop")
    /\ UNCHANGED <<peer, backlog, obj, ref, out, got, writer, mClients, clientsLock,
                   handler, caster, leaked>>

(* The client is taken off the list ...                                    *)
Zap ==
    /\ listener.pc = "zap" /\ clientsLock = None
    /\ mClients' = mClients \ {listener.cur}
    /\ listener' = At("drop")
    /\ UNCHANGED <<peer, backlog, obj, ref, out, got, writer, clientsLock, handler, caster,
                   leaked>>

(* Mutant: the listener's reference is never dropped.                      *)
DropNothing ==
    /\ listener.pc = "drop"
    /\ listener' = [listener EXCEPT !.pc = "work", !.cur = None]
    /\ UNCHANGED <<peer, backlog, obj, ref, out, got, writer, mClients, clientsLock,
                   handler, caster, leaked>>

(* ... and the listener's reference dropped.                               *)
Drop ==
    /\ listener.pc = "drop"
    /\ DecRef(listener.cur)
    /\ listener' = [listener EXCEPT !.pc = "work", !.cur = None]
    /\ UNCHANGED <<peer, backlog, out, got, writer, mClients, clientsLock, handler, caster,
                   leaked>>

Pass ==
    /\ listener.pc = "work" /\ listener.pending = {}
    /\ listener' = At("build")
    /\ UNCHANGED <<peer, backlog, obj, ref, out, got, writer, mClients, clientsLock,
                   handler, caster, leaked>>

-----------------------------------------------------------------------------
(* Handler threads.  sendBinaryMsg writes code and data under one lock;    *)
(* the answer of getaddrinfo is a series of sendData calls.                *)

Move(h, p) == handler' = [handler EXCEPT ![h].pc = p]

(* Mutant: sendBinaryMsg unlocks between code and data.                    *)
FirstUnlocks(h) ==
    LET c == handler[h].c
    IN  /\ handler[h].pc = "first" /\ writer[c] = None
        /\ Put(c, <<h, 1>>)
        /\ writer' = writer
        /\ Move(h, "second")
        /\ UNCHANGED <<peer, backlog, obj, ref, got, mClients, clientsLock, listener,
                       caster, leaked>>

(* The first piece; if it cannot be sent the rest is not tried.            *)
First(h) ==
    LET c == handler[h].c
    IN  /\ handler[h].pc = "first" /\ writer[c] = None
        /\ Put(c, <<h, 1>>)
        /\ IF out' = out THEN Move(h, "dec") /\ writer' = writer
           ELSE /\ Move(h, "second")
                /\ writer' = IF handler[h].kind = "binary"
                             THEN [writer EXCEPT ![c] = h] ELSE writer
        /\ UNCHANGED <<peer, backlog, obj, ref, got, mClients, clientsLock, listener,
                       caster, leaked>>

Second(h) ==
    LET c == handler[h].c
    IN  /\ handler[h].pc = "second" /\ writer[c] \in {None, h}
        /\ Put(c, <<h, 2>>)
        /\ writer' = [writer EXCEPT ![c] = None]
        /\ Move(h, "dec")
        /\ UNCHANGED <<peer, backlog, obj, ref, got, mClients, clientsLock, listener,
                       caster, leaked>>

HandlerDecRef(h) ==
    /\ handler[h].pc = "dec"
    /\ DecRef(handler[h].c)
    /\ Move(h, "done")
    /\ UNCHANGED <<peer, backlog, out, got, writer, mClients, clientsLock, listener, caster,
                   leaked>>

-----------------------------------------------------------------------------
(* sendBroadcast.                                                          *)

BroadcastLock(b) ==
    /\ caster[b].pc = "start" /\ clientsLock = None
    /\ clientsLock' = b
    /\ caster' = [caster EXCEPT ![b] = [pc |-> "send", todo |-> mClients]]
    /\ UNCHANGED <<peer, backlog, obj, ref, out, got, writer, mClients, listener, handler,
                   leaked>>

BroadcastSend(b, c) ==
    /\ caster[b].pc = "send" /\ c \in caster[b].todo
    /\ writer[c] = None
    /\ Put(c, <<b, 1>>)
    /\ caster' = [caster EXCEPT ![b].todo = @ \ {c}]
    /\ UNCHANGED <<peer, backlog, obj, ref, got, writer, mClients, clientsLock, listener,
                   handler, leaked>>

(* Mutant: the lock is kept.                                               *)
BroadcastKeepsLock(b) ==
    /\ caster[b].pc = "send" /\ caster[b].todo = {}
    /\ caster' = [caster EXCEPT ![b].pc = "done"]
    /\ UNCHANGED <<peer, backlog, obj, ref, out, got, writer, mClients, clientsLock, listener,
                   handler, leaked>>

BroadcastUnlock(b) ==
    /\ caster[b].pc = "send" /\ caster[b].todo = {}
    /\ clientsLock' = None
    /\ caster' = [caster EXCEPT ![b].pc = "done"]
    /\ UNCHANGED <<peer, backlog, obj, ref, out, got, writer, mClients, listener, handler,
                   leaked>>

-----------------------------------------------------------------------------
Listen ==
    \/ Build \/ Select \/ Pend \/ EndOfBatch \/ Zap \/ Drop \/ Pass
    \/ \E c \in Conns :
          \/ Push(c) \/ Answer(c) \/ Announce(c) \/ EndOfFile(c) \/ StartHandlerFails(c)
          \/ \E n \in 1 .. MaxCommands : Read(c, n)
          \/ \E h \in Handlers, k \in {"binary", "pieces"} : StartHandler(c, h, k)

Handle(h) == First(h) \/ Second(h) \/ HandlerDecRef(h)

Broadcast(b) ==
    BroadcastLock(b) \/ BroadcastUnlock(b) \/ \E c \in Conns : BroadcastSend(b, c)

ListenerNext ==
    \/ \E c \in Conns : Connect(c) \/ SendCommand(c) \/ HangUp(c) \/ TakeAnswer(c)
    \/ Listen
    \/ \E h \in Handlers : Handle(h)
    \/ \E b \in Casters : Broadcast(b)

ListenerSpec == ListenerInit /\ [][ListenerNext]_listenerVars

(* Threads run, and far ends that do not hang up read what they are sent.  *)
ListenerFairSpec ==
    /\ ListenerSpec
    /\ WF_listenerVars(Listen)
    /\ \A h \in Handlers : WF_listenerVars(Handle(h))
    /\ \A b \in Casters : WF_listenerVars(Broadcast(b))
    /\ \A c \in Conns : WF_listenerVars(TakeAnswer(c))

-----------------------------------------------------------------------------
(* Properties.                                                             *)

Holding(c) == {h \in Handlers : handler[h].pc \in {"first", "second", "dec"} /\ handler[h].c = c}

(* mRefCount counts exactly the references there are: the listener's until *)
(* it drops it, one of each handler thread that works for the client, and  *)
(* one that is never given back for a thread that could not be created.    *)
RefsExact ==
    \A c \in Conns : obj[c] = "live" =>
        ref[c] = Cardinality(Holding(c))
                 + (IF c \in mClients \/ (listener.pc = "drop" /\ listener.cur = c) THEN 1 ELSE 0)
                 + (IF c \in leaked THEN 1 ELSE 0)

(* No thread works on a SocketClient that was deleted, and its socket is   *)
(* not closed before: not the listener, which copies pointers to its       *)
(* pending list and drops the lock, not a handler thread that finishes     *)
(* long after the far end has gone, not a broadcast.                       *)
NoUseAfterDelete ==
    /\ \A c \in mClients \cup listener.pending : obj[c] = "live"
    /\ listener.cur # None => obj[listener.cur] = "live"
    /\ \A h \in Handlers :
          handler[h].pc \in {"first", "second", "dec"} => obj[handler[h].c] = "live"
    /\ \A b \in Casters : \A c \in caster[b].todo : obj[c] = "live"

(* The code and the data of a sendBinaryMsg stay together on the wire,     *)
(* whatever handler threads and broadcasts write to the same client.       *)
BinaryTogether ==
    \A c \in Conns : \A i \in 1 .. Len(out[c]) :
        LET h == out[c][i][1]
        IN  h \in Handlers /\ out[c][i][2] = 2 /\ handler[h].kind = "binary"
                => i > 1 /\ out[c][i - 1] = <<h, 1>>

(* A client whose far end has hung up is deleted and its socket closed,    *)
(* unless a reference was leaked.                                          *)
HungUp(c) == peer[c].st = "closed" /\ obj[c] = "live"
Deleted(c) == obj[c] = "deleted" \/ c \in leaked
GoneIsDeleted == \A c \in Conns : HungUp(c) ~> Deleted(c)

(* Every command is taken up: a broadcast to a slow client delays the      *)
(* listener, which needs mClientsLock, but does not stop it.               *)
Commanded(c) == peer[c].cmds > 0
CommandsTaken == \A c \in Conns : Commanded(c) ~> ~Commanded(c)

\* A client object lives exactly as long as someone refers to it, and the two
\* parts of a binary answer reach its socket together, though the listener,
\* handler threads and broadcasts work on it at the same time.
ClientsSafe == RefsExact /\ NoUseAfterDelete /\ BinaryTogether
=============================================================================
