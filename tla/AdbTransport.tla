----------------------------- MODULE AdbTransport -----------------------------
(***************************************************************************)
(* The life of a transport in the host's server (transport.c): it is       *)
(* registered through a pipe to the main loop, served by an input and an   *)
(* output thread that talk to the main loop over a socket pair, and freed  *)
(* by the main loop when its reference count, one per thread, is zero.     *)
(*                                                                         *)
(* The main loop's sockets refer to the transport: a smart socket whose    *)
(* client has chosen it, a local socket that has sent OPEN, a connected    *)
(* one (through its remote socket), and the listener of a forward.  A step *)
(* of the main loop is one callback.                                       *)
(***************************************************************************)
EXTENDS Integers, Sequences, FiniteSets

CONSTANTS
    Transports,     \* transports that are registered
    Socks,          \* sockets of the main loop
    MaxOpens        \* bound: OPEN packets sent to a transport

\* 0 stands for no transport.
ASSUME TransportNames == 0 \notin Transports

VARIABLES
    life,       \* "none", "sent" (in the pipe), "live", "freed"
    listed,     \* on transport_list
    ref,        \* ref_count
    kicked,
    cstate,     \* connection_state: "offline" or "device"
    up,         \* the device answers
    out, in,    \* where the threads are
    toMain,     \* packets from the output thread
    toIn,       \* packets for the input thread
    regq,       \* the registration pipe: <<transport, action>>
    sock,       \* sock[k] = [kind, t]
    fwd,        \* transports that a forward's listener refers to
    opens,      \* CNXN and OPENs that the device got, and those it answered
    unreg       \* history: transports that were unregistered by a command

transportVars ==
    <<life, listed, ref, kicked, cstate, up, out, in, toMain, toIn, regq, sock, fwd, opens, unreg>>
threads == <<out, in, ref, kicked>>
refs == <<sock, fwd, opens>>

NoSocket == [kind |-> "none", t |-> 0]

TransportTypeOK ==
    /\ life \in [Transports -> {"none", "sent", "live", "freed"}]
    /\ listed \subseteq Transports /\ kicked \subseteq Transports /\ up \subseteq Transports
    /\ ref \in [Transports -> -1 .. 2] /\ cstate \in [Transports -> {"offline", "device"}]
    /\ out \in [Transports -> {"none", "sync", "read", "offline", "kick", "unref", "done"}]
    /\ in \in [Transports -> {"none", "read", "close", "kick", "unref", "done"}]
    /\ \A k \in Socks : /\ sock[k].kind \in {"none", "smart", "opening", "connected"}
                        /\ sock[k].kind = "none" <=> sock[k] = NoSocket
    /\ fwd \subseteq Transports /\ unreg \subseteq Transports
    /\ \A t \in Transports : opens[t].answered <= opens[t].sent

TransportInit ==
    /\ life = [t \in Transports |-> "none"] /\ listed = {} /\ kicked = {} /\ up = Transports
    /\ ref = [t \in Transports |-> 0] /\ cstate = [t \in Transports |-> "offline"]
    /\ out = [t \in Transports |-> "none"] /\ in = [t \in Transports |-> "none"]
    /\ toMain = [t \in Transports |-> <<>>] /\ toIn = [t \in Transports |-> <<>>]
    /\ regq = <<>> /\ sock = [k \in Socks |-> NoSocket] /\ fwd = {}
    /\ opens = [t \in Transports |-> [sent |-> 0, answered |-> 0]] /\ unreg = {}
-----------------------------------------------------------------------------
(* register_usb_transport, register_socket_transport.                      *)
Register(t) ==
    /\ life[t] = "none" /\ life' = [life EXCEPT ![t] = "sent"]
    /\ regq' = Append(regq, <<t, 1>>)
    /\ UNCHANGED <<listed, threads, cstate, up, toMain, toIn, refs, unreg>>

(* run_transport_disconnects: the connected sockets and the forwards.      *)
Disconnected(t) == [k \in Socks |-> IF sock[k] = [kind |-> "connected", t |-> t] THEN NoSocket
                                    ELSE sock[k]]

(* transport_registration_func: a new transport gets its two threads; one  *)
(* that is done is taken off the list and freed.                           *)
RegistrationFunc ==
    /\ regq # <<>> /\ regq' = Tail(regq)
    /\ LET t == Head(regq)[1] IN
       \/ /\ Head(regq)[2] = 1
          /\ life' = [life EXCEPT ![t] = "live"] /\ listed' = listed \cup {t}
          /\ ref' = [ref EXCEPT ![t] = 2]
          /\ in' = [in EXCEPT ![t] = "read"] /\ out' = [out EXCEPT ![t] = "sync"]
          /\ UNCHANGED <<sock, fwd>>
       \/ /\ Head(regq)[2] = 0
          /\ life' = [life EXCEPT ![t] = "freed"] /\ listed' = listed \ {t}
          /\ sock' = Disconnected(t) /\ fwd' = fwd \ {t}
          /\ UNCHANGED <<ref, in, out>>
    /\ UNCHANGED <<kicked, cstate, up, toMain, toIn, opens, unreg>>

(* transport_unref: the last reference closes the transport and asks the   *)
(* main loop to remove it.                                                 *)
Unref(t) ==
    /\ ref' = [ref EXCEPT ![t] = @ - 1]
    /\ regq' = IF ref[t] = 1 THEN Append(regq, <<t, 0>>) ELSE regq
-----------------------------------------------------------------------------
(* output_thread: SYNC(1), then what the device sends: an answer to CNXN   *)
(* and to each OPEN; when the device is gone or kicked, SYNC(0).           *)
OutSync(t) ==
    /\ out[t] = "sync" /\ out' = [out EXCEPT ![t] = "read"]
    /\ toMain' = [toMain EXCEPT ![t] = Append(@, "SYNC1")]
    /\ UNCHANGED <<life, listed, ref, kicked, cstate, up, in, toIn, regq, refs, unreg>>

OutRead(t) ==
    /\ out[t] = "read" /\ t \in up /\ t \notin kicked
    /\ opens[t].answered < opens[t].sent /\ opens' = [opens EXCEPT ![t].answered = @ + 1]
    /\ toMain' = [toMain EXCEPT ![t] = Append(@, IF opens[t].answered = 0 THEN "CNXN" ELSE "OKAY")]
    /\ UNCHANGED <<life, listed, threads, cstate, up, toIn, regq, sock, fwd, unreg>>

OutFails(t) ==
    /\ out[t] = "read" /\ (t \notin up \/ t \in kicked)
    /\ out' = [out EXCEPT ![t] = "offline"]
    /\ UNCHANGED <<life, listed, ref, kicked, cstate, up, in, toMain, toIn, regq, refs, unreg>>

OutOffline(t) ==
    /\ out[t] = "offline" /\ out' = [out EXCEPT ![t] = "kick"]
    /\ toMain' = [toMain EXCEPT ![t] = Append(@, "SYNC0")]
    /\ UNCHANGED <<life, listed, ref, kicked, cstate, up, in, toIn, regq, refs, unreg>>

OutKick(t) ==
    /\ out[t] = "kick" /\ out' = [out EXCEPT ![t] = "unref"] /\ kicked' = kicked \cup {t}
    /\ UNCHANGED <<life, listed, ref, cstate, up, in, toMain, toIn, regq, refs, unreg>>

OutUnref(t) ==
    /\ out[t] = "unref" /\ out' = [out EXCEPT ![t] = "done"] /\ Unref(t)
    /\ UNCHANGED <<life, listed, kicked, cstate, up, in, toMain, toIn, refs, unreg>>

(* input_thread: packets go to the device once SYNC(1) has come back;      *)
(* SYNC(0) ends the thread, and so does a socket pair that is closed.      *)
InRead(t) ==
    /\ in[t] = "read"
    /\ \/ /\ toIn[t] # <<>> /\ life[t] # "freed" /\ toIn' = [toIn EXCEPT ![t] = Tail(@)]
          /\ in' = IF Head(toIn[t]) = "SYNC0" THEN [in EXCEPT ![t] = "close"] ELSE in
          /\ opens' = IF Head(toIn[t]) \in {"CNXN", "OPEN"} /\ t \in up /\ t \notin kicked
                      THEN [opens EXCEPT ![t].sent = @ + 1] ELSE opens
       \/ /\ life[t] = "freed" /\ in' = [in EXCEPT ![t] = "close"] /\ UNCHANGED <<toIn, opens>>
    /\ UNCHANGED <<life, listed, ref, kicked, cstate, up, out, toMain, regq, sock, fwd, unreg>>

(* Mutant: only the socket's own transport is looked at.                   *)
InCloseOwn(t) ==
    /\ in[t] = "close" /\ in' = [in EXCEPT ![t] = "kick"]
    /\ sock' = [k \in Socks |-> IF sock[k].t = t /\ sock[k].kind = "opening" THEN NoSocket
                                ELSE sock[k]]
    /\ UNCHANGED <<life, listed, ref, kicked, cstate, up, out, toMain, toIn, regq, fwd, opens,
                   unreg>>

(* close_all_sockets: the sockets of the transport, and those whose peer,  *)
(* a smart or a remote socket, is of the transport.                        *)
InClose(t) ==
    /\ in[t] = "close" /\ in' = [in EXCEPT ![t] = "kick"]
    /\ sock' = [k \in Socks |-> IF sock[k].t = t THEN NoSocket ELSE sock[k]]
    /\ UNCHANGED <<life, listed, ref, kicked, cstate, up, out, toMain, toIn, regq, fwd, opens,
                   unreg>>

InKick(t) ==
    /\ in[t] = "kick" /\ in' = [in EXCEPT ![t] = "unref"] /\ kicked' = kicked \cup {t}
    /\ UNCHANGED <<life, listed, ref, cstate, up, out, toMain, toIn, regq, refs, unreg>>

InUnref(t) ==
    /\ in[t] = "unref" /\ in' = [in EXCEPT ![t] = "done"] /\ Unref(t)
    /\ UNCHANGED <<life, listed, kicked, cstate, up, out, toMain, toIn, refs, unreg>>
-----------------------------------------------------------------------------
(* handle_packet, of a transport whose pair is open.                       *)
HandlePacket(t) ==
    /\ toMain[t] # <<>> /\ life[t] = "live"
    /\ toMain' = [toMain EXCEPT ![t] = Tail(@)]
    /\ LET p == Head(toMain[t]) IN
       \/ /\ p = "SYNC1" /\ toIn' = [toIn EXCEPT ![t] = @ \o <<"SYNC1", "CNXN">>]
          /\ UNCHANGED <<cstate, sock, fwd>>
       \/ /\ p = "SYNC0" /\ toIn' = [toIn EXCEPT ![t] = Append(@, "SYNC0")]
          /\ cstate' = [cstate EXCEPT ![t] = "offline"]
          /\ sock' = Disconnected(t) /\ fwd' = fwd \ {t}
       \/ /\ p = "CNXN" /\ cstate' = [cstate EXCEPT ![t] = "device"]
          /\ IF cstate[t] = "device" THEN sock' = Disconnected(t) /\ fwd' = fwd \ {t}
             ELSE UNCHANGED <<sock, fwd>>
          /\ UNCHANGED toIn
       \/ /\ p = "OKAY"
          /\ IF cstate[t] = "device" /\ \E k \in Socks : sock[k] = [kind |-> "opening", t |-> t]
             THEN \E k \in Socks : /\ sock[k] = [kind |-> "opening", t |-> t]
                                   /\ sock' = [sock EXCEPT ![k].kind = "connected"]
             ELSE UNCHANGED sock
          /\ UNCHANGED <<cstate, fwd, toIn>>
    /\ UNCHANGED <<life, listed, threads, up, regq, opens, unreg>>

(* acquire_one_transport: the only transport on the list, unless offline.  *)
Acquire(t) == listed = {t} /\ cstate[t] # "offline"

(* "host:transport": the smart socket keeps the transport.                 *)
SmartTransport(k, t) ==
    /\ sock[k] = NoSocket /\ Acquire(t)
    /\ sock' = [sock EXCEPT ![k] = [kind |-> "smart", t |-> t]]
    /\ UNCHANGED <<life, listed, threads, cstate, up, toMain, toIn, regq, fwd, opens, unreg>>

(* The service's name: connect_to_remote, or "device offline (x)".         *)
SmartService(k) ==
    LET t == sock[k].t IN
    /\ sock[k].kind = "smart"
    /\ cstate[t] # "offline" => Len(toIn[t]) + opens[t].sent <= MaxOpens
    /\ IF cstate[t] # "offline"
       THEN /\ sock' = [sock EXCEPT ![k].kind = "opening"]
            /\ toIn' = [toIn EXCEPT ![t] = Append(@, "OPEN")]
       ELSE sock' = [sock EXCEPT ![k] = NoSocket] /\ UNCHANGED toIn
    /\ UNCHANGED <<life, listed, threads, cstate, up, toMain, regq, fwd, opens, unreg>>

(* install_listener, of a forward.                                         *)
Forward(t) ==
    /\ Acquire(t) /\ t \notin fwd /\ fwd' = fwd \cup {t}
    /\ UNCHANGED <<life, listed, threads, cstate, up, toMain, toIn, regq, sock, opens, unreg>>

(* listener_event_func.                                                    *)
ListenerEvent(k, t) ==
    /\ sock[k] = NoSocket /\ t \in fwd /\ Len(toIn[t]) + opens[t].sent <= MaxOpens
    /\ sock' = [sock EXCEPT ![k] = [kind |-> "opening", t |-> t]]
    /\ toIn' = [toIn EXCEPT ![t] = Append(@, "OPEN")]
    /\ UNCHANGED <<life, listed, threads, cstate, up, toMain, regq, fwd, opens, unreg>>

(* unregister_transport: "adb disconnect" of a transport on the list.      *)
Unregister(t) ==
    /\ t \in listed /\ unreg' = unreg \cup {t} /\ listed' = listed \ {t}
    /\ kicked' = kicked \cup {t} /\ Unref(t)
    /\ UNCHANGED <<life, cstate, up, out, in, toMain, toIn, refs>>

Unplug(t) ==
    /\ t \in up /\ life[t] = "live" /\ up' = up \ {t}
    /\ UNCHANGED <<life, listed, threads, cstate, toMain, toIn, regq, refs, unreg>>

OutStep(t) == OutSync(t) \/ OutRead(t) \/ OutFails(t) \/ OutOffline(t) \/ OutKick(t) \/ OutUnref(t)
InStep(t) == InRead(t) \/ InClose(t) \/ InKick(t) \/ InUnref(t)

TransportNext ==
    \/ RegistrationFunc
    \/ \E t \in Transports :
          \/ Register(t) \/ OutStep(t) \/ InStep(t) \/ HandlePacket(t) \/ Forward(t)
          \/ Unregister(t) \/ Unplug(t)
          \/ \E k \in Socks : SmartTransport(k, t) \/ ListenerEvent(k, t)
    \/ \E k \in Socks : SmartService(k)

TransportSpec == TransportInit /\ [][TransportNext]_transportVars
TransportFairSpec ==
    /\ TransportSpec /\ WF_transportVars(RegistrationFunc)
    /\ \A t \in Transports : /\ WF_transportVars(OutStep(t)) /\ WF_transportVars(InStep(t))
                            /\ WF_transportVars(HandlePacket(t))
-----------------------------------------------------------------------------
(* "The transport will not actually be closed until both threads exit".    *)
ClosedAfterThreads ==
    \A t \in Transports : life[t] = "freed" => in[t] = "done" /\ out[t] = "done"

(* So it is for a transport that goes by itself.                           *)
FreedLast == \A t \in Transports \ unreg : life[t] = "freed" => in[t] = "done" /\ out[t] = "done"

(* Nothing in the main loop refers to a transport that has been freed:     *)
(* close_all_sockets and the disconnects have got every socket, forward    *)
(* and smart socket, and none was made after them.                         *)
NoDangling ==
    \A t \in Transports \ unreg :
        life[t] = "freed" => t \notin fwd /\ t \notin listed /\ \A k \in Socks : sock[k].t # t

(* A transport whose device is gone is freed.                              *)
Gone(t) == t \notin up
Freed(t) == life[t] = "freed"
GoneIsFreed == \A t \in Transports : Gone(t) ~> Freed(t)

\* A transport that no command has unregistered is freed after both its threads
\* have ended, and nothing refers to it then: neither the list, nor a forwarding,
\* nor a socket.
FreedAlone == FreedLast /\ NoDangling
=============================================================================
