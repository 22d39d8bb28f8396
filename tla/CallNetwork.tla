---------------------------- MODULE CallNetwork ----------------------------
(***************************************************************************)
(* The UDP network between the clients (Project2/p2_sample_client.js) and  *)
(* the signalling port of the streaming proxy (Project2/main.cpp).         *)
(*                                                                         *)
(* A client is one run of the client program: it has one signalling socket *)
(* for its whole life, so a client is also the address (host, svc) of that *)
(* socket.  Running the program again for the same user is another client  *)
(* with the same NameOf.                                                   *)
(*                                                                         *)
(* Datagrams in flight form a set: they may overtake each other, be        *)
(* dropped, if of a type in Lossy, and delivered again (Duplicating).      *)
(***************************************************************************)
EXTENDS Naturals, Sequences, FiniteSets

CONSTANTS Users,         \* the names clients register and call
          Alnum,         \* the names is_not_alnum finds no fault with
          Clients,       \* runs of the client program, and their addresses
          Hosts,         \* host addresses
          NameOf,        \* the user name each run was started with (argv[3])
          HostOf,        \* the machine each run is started on
          FirstPort,     \* 5000: call_port before the first call
          MaxCalls,      \* bound: media ports a proxy process hands out
          Lossy,         \* the types of datagrams the network may drop
          Duplicating    \* may the network deliver a datagram twice?

ASSUME NetworkAssumption ==
    /\ Alnum \subseteq Users
    /\ NameOf \in [Clients -> Users]
    /\ HostOf \in [Clients -> Hosts]
    /\ FirstPort \in Nat
    /\ MaxCalls \in Nat
    /\ Duplicating \in BOOLEAN

VARIABLES toProxy,       \* datagrams on their way to the proxy's port 34567
          toClient       \* datagrams on their way to a client's socket

networkVars == <<toProxy, toClient>>

Ports == FirstPort .. FirstPort + MaxCalls

-----------------------------------------------------------------------------
(* What travels.  The proxy reads the source address of a REGISTER only.   *)

Registration == [type : {"REGISTER"}, user : Users, src : Clients]

CallMessage == [type : {"CALL", "ACK_CALL", "CALL_FAILED"},
                from : Users, to : Users]

Request == Registration \cup CallMessage

MediaPort == [type : {"MEDIA_PORT"}, from : Users, to : Users, port : Ports]

AckRegister == [type |-> "ACK_REGISTER"]
UnknownPeer == [type |-> "CALL_FAILED", reason |-> "unknown peer"]

(* The proxy forwards the text of a CallMessage unchanged.                 *)
Notice == [dst : Clients,
           body : CallMessage \cup MediaPort \cup {AckRegister, UnknownPeer}]

-----------------------------------------------------------------------------
NetworkTypeOK == /\ toProxy \subseteq Request
                 /\ toClient \subseteq Notice

NetworkInit == /\ toProxy = {}
               /\ toClient = {}

(* What is in flight once datagram m has been received.  A duplicating     *)
(* network keeps every datagram and may deliver it again at any time, or   *)
(* never, so its behaviours include those of a network that loses some.    *)
AfterReceiving(network, m) == IF Duplicating THEN network ELSE network \ {m}

Lose ==
    \/ /\ \E m \in toProxy : m.type \in Lossy /\ toProxy' = toProxy \ {m}
       /\ UNCHANGED toClient
    \/ /\ \E n \in toClient : n.body.type \in Lossy /\ toClient' = toClient \ {n}
       /\ UNCHANGED toProxy
=============================================================================
