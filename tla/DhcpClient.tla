----------------------------- MODULE DhcpClient -----------------------------
(***************************************************************************)
(* The DHCP client of libnetutils (src/core/libnetutils/dhcpclient.c,      *)
(* dhcpmsg.c, packet.c): it broadcasts a DISCOVER, takes the first OFFER,  *)
(* sends a REQUEST for it, and configures the interface when the ACK       *)
(* comes, sending its message again with doubled timeouts.                 *)
(*                                                                         *)
(* The network loses, repeats and reorders packets, and the raw socket     *)
(* also shows the packets for other clients on the wire.  A packet with a  *)
(* wrong header or checksum is dropped by receive_packet: it is lost.      *)
(***************************************************************************)
EXTENDS Naturals

CONSTANTS
    Servers,        \* the servers on the wire
    Addrs,          \* the addresses that they give out
    Offered,        \* what each server offers this client
    MaxDoublings,   \* TIMEOUT_MAX is TIMEOUT_INITIAL doubled so often
    MaxStrays       \* bound: packets for other clients

VARIABLES
    state,      \* "SELECTING", "REQUESTING", "configured", "failed"
    doublings,  \* of the timeout
    xid,
    info,       \* the last message that was decoded
    toServer,   \* the packets on the wire, each of which may arrive any
    toClient,   \*   number of times
    lease,      \* of each server for this client: an address, or 0
    stray,      \* history: info is from a packet for another client
    strays

dhcpVars == <<state, doublings, xid, info, toServer, toClient, lease, stray, strays>>

Me == "me"
Nothing == [type |-> "none", ip |-> 0, server |-> "none"]

\* A reply as receive_packet hands it on.
Reply(to, id, type, ip, server) ==
    [to |-> to, xid |-> id, info |-> [type |-> type, ip |-> ip, server |-> server]]

Discover(id) == [type |-> "discover", xid |-> id, ip |-> 0, server |-> "none"]
Request(id, ip, server) == [type |-> "request", xid |-> id, ip |-> ip, server |-> server]

\* dhcp_init_ifc up to its first transmission.
DhcpInit ==
    /\ state = "SELECTING" /\ doublings = 0 /\ xid = 0
    /\ info = Nothing
    /\ toServer = {Discover(0)}
    /\ toClient = {}
    /\ lease = [s \in Servers |-> 0]
    /\ stray = FALSE /\ strays = 0

----------------------------------------------------------------------------
(* The client *)

\* What is sent in a state; the caller gives the values it will have.
Transmit(st, id, from) ==
    toServer' = toServer \cup
        {IF st = "SELECTING" THEN Discover(id) ELSE Request(id, from.ip, from.server)}

\* dhcp_configure takes what info holds at that moment.
Configure == state' = "configured"

Running == state \in {"SELECTING", "REQUESTING"}

Timeout ==
    /\ Running
    /\ IF doublings < MaxDoublings
       THEN /\ doublings' = doublings + 1
            /\ Transmit(state, xid, info)
            /\ UNCHANGED state
       ELSE /\ IF info.type = "offer" THEN Configure ELSE state' = "failed"
            /\ UNCHANGED <<doublings, toServer>>
    /\ UNCHANGED <<xid, info, toClient, lease, stray, strays>>

\* Mutation: the hardware address is not compared.
IsValidReplyAnyone(p) == p.xid = xid

IsValidReply(p) == p.to = Me /\ p.xid = xid

\* poll or recv fails, or the interface is down.
GiveUp ==
    /\ Running
    /\ state' = "failed"
    /\ UNCHANGED <<doublings, xid, info, toServer, toClient, lease, stray, strays>>

\* The switch on the state, once a reply has been found valid.
Accept(new) ==
    \/ /\ state = "SELECTING" /\ new.type = "offer"
       /\ state' = "REQUESTING"
       /\ doublings' = 0
       /\ xid' = xid + 1
       /\ Transmit("REQUESTING", xid + 1, new)
    \/ /\ state = "REQUESTING" /\ new.type = "ack"
       /\ Configure
       /\ UNCHANGED <<doublings, xid, toServer>>
    \/ /\ state = "REQUESTING" /\ new.type = "nak"
       /\ state' = "failed"
       /\ UNCHANGED <<doublings, xid, toServer>>
    \/ /\ \/ state = "SELECTING" /\ new.type # "offer"
          \/ state = "REQUESTING" /\ new.type \notin {"ack", "nak"}
       /\ UNCHANGED <<state, doublings, xid, toServer>>

\* Every packet is decoded into info before it is looked at any closer.
Receive(p) ==
    /\ Running /\ p \in toClient
    /\ info' = p.info
    /\ stray' = (p.to # Me)
    /\ IF IsValidReply(p) THEN Accept(p.info) ELSE UNCHANGED <<state, doublings, xid, toServer>>
    /\ UNCHANGED <<toClient, lease, strays>>

----------------------------------------------------------------------------
(* The servers and the wire *)

Serve(s, m) ==
    /\ m \in toServer
    /\ \/ /\ m.type = "discover"
          /\ toClient' = toClient \cup {Reply(Me, m.xid, "offer", Offered[s], s)}
          /\ UNCHANGED lease
       \/ /\ m.type = "request" /\ m.server = s
          /\ LET good == m.ip = Offered[s]
             IN  /\ toClient' = toClient \cup
                        {Reply(Me, m.xid, IF good THEN "ack" ELSE "nak",
                               IF good THEN m.ip ELSE 0, s)}
                 /\ lease' = IF good THEN [lease EXCEPT ![s] = m.ip] ELSE lease
    /\ UNCHANGED <<state, doublings, xid, info, toServer, stray, strays>>

Lose ==
    /\ \/ \E m \in toServer : toServer' = toServer \ {m} /\ UNCHANGED toClient
       \/ \E p \in toClient : toClient' = toClient \ {p} /\ UNCHANGED toServer
    /\ UNCHANGED <<state, doublings, xid, info, lease, stray, strays>>

\* A packet for another client; one without options decodes to type "none".
Stray ==
    /\ strays < MaxStrays
    /\ strays' = strays + 1
    /\ \E id \in {0, 1}, t \in {"none", "offer", "ack"}, a \in Addrs, s \in Servers :
          toClient' = toClient \cup {Reply("other", id, t, a, s)}
    /\ UNCHANGED <<state, doublings, xid, info, toServer, lease, stray>>

DhcpNext ==
    \/ Timeout \/ GiveUp \/ Lose \/ Stray
    \/ \E p \in toClient : Receive(p)
    \/ \E s \in Servers, m \in toServer : Serve(s, m)

DhcpSpec == DhcpInit /\ [][DhcpNext]_dhcpVars

----------------------------------------------------------------------------
(* Properties *)

\* The interface is configured only with an address that a server has promised
\* to this client: it acknowledged it, or, when the acknowledgement does not
\* come in time, it offered it ("no acknowledgement from DHCP server,
\* configuring with offered parameters"), however packets were lost, repeated
\* and reordered.  The second case needs that the last packet on the wire was
\* not for another client: each one is decoded into info before is_valid_reply
\* refuses it.
ConfiguredIsPromised ==
    state = "configured" =>
        \/ info.type = "ack" /\ lease[info.server] = info.ip
        \/ info.type = "offer" /\ (stray \/ Offered[info.server] = info.ip)
=============================================================================
