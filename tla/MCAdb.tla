-------------------------------- MODULE MCAdb -------------------------------
(* The debug bridge, of which a behaviour shows one part: its streams, or  *)
(* the USB devices of the server.                                          *)
EXTENDS Naturals, Sequences, UsbHost

OneDevice == <<{"rw", "ro", "busy"}>>
Chunks == [e \in {"host", "dev"} |-> IF e = "host" THEN <<2, 0>> ELSE <<1, 0>>]

VARIABLES part, v1, v2, v3, v4, v5, v6, v7, v8

Stream == INSTANCE AdbStream WITH
   sock <- v1, next <- v2, online <- v3, link <- v4, cable <- v5, app <- v6, tags <- v7,
    faults <- v8, MaxStreams <- 2, MaxChunks <- Chunks, MaxPayload <- 1, Room <- 1,
    MaxFaults <- 1

all == <<part, vars, v1, v2, v3, v4, v5, v6, v7, v8>>

\* What a part does not use stays 0.
MCInit ==
    \/ part = "streams" /\ Stream!Init
       /\ Init
    \/ part = "usb" /\ Init
       /\ v1 = 0 /\ v2 = 0 /\ v3 = 0 /\ v4 = 0 /\ v5 = 0 /\ v6 = 0 /\ v7 = 0 /\ v8 = 0

MCNext ==
    \/ part = "streams" /\ Stream!Next /\ Stream!OneAtATime
       /\ UNCHANGED <<part, vars>>
    \/ part = "usb" /\ Next
       /\ UNCHANGED <<part, v1, v2, v3, v4, v5, v6, v7, v8>>

MCSpec ==
    /\ MCInit /\ [][MCNext]_all
    /\ WF_all(part = "streams" /\ ((Stream!Plug \/ \E e \in Stream!Sides :
            Stream!Handle(e) \/ (\E i \in Stream!Ids : Stream!Writable(e, i) \/ Stream!Readable(e, i))
            \/ \E i \in Stream!Tags : Stream!AppRead(e, i)) /\ Stream!OneAtATime)
            /\ UNCHANGED <<part, vars>>)
    /\ WF_all(part = "usb" /\ (PollThread)
            /\ UNCHANGED <<part, v1, v2, v3, v4, v5, v6, v7, v8>>)
    /\ SF_all(part = "usb" /\ (Registration)
            /\ UNCHANGED <<part, v1, v2, v3, v4, v5, v6, v7, v8>>)
    /\ WF_all(part = "usb" /\ (HandleSync(1))
            /\ UNCHANGED <<part, v1, v2, v3, v4, v5, v6, v7, v8>>)
    /\ WF_all(part = "usb" /\ (Reader(1))
            /\ UNCHANGED <<part, v1, v2, v3, v4, v5, v6, v7, v8>>)
    /\ WF_all(part = "usb" /\ (Writer(1))
            /\ UNCHANGED <<part, v1, v2, v3, v4, v5, v6, v7, v8>>)
    /\ SF_all(part = "usb" /\ (Leave(1))
            /\ UNCHANGED <<part, v1, v2, v3, v4, v5, v6, v7, v8>>)

-----------------------------------------------------------------------------
(* Both ends of every stream receive what the other end took from its      *)
(* application, in order and under the right stream, with at most one      *)
(* message under way per direction.                                        *)
FlowExact == part = "streams" => Stream!FlowExact

(* What the bridge has taken from one end reaches the other, even when the *)
(* writer closes behind it, unless the reader closes or the connection is  *)
(* lost.                                                                   *)
TakenArrives ==
    \A e \in Stream!Sides :
        part = "streams" /\ Stream!Outstanding(e) ~> (part # "streams" \/ Stream!Arrived(e))
=============================================================================
