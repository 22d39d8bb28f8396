---------------------------- MODULE MediaSession ----------------------------
(***************************************************************************)
(* One start_session thread of the streaming proxy (Project2/main.cpp) and *)
(* the sockets that send to its port.                                      *)
(*                                                                         *)
(* The thread knows the machines of the two users but not the ports their  *)
(* media sockets will send from.  It learns those from the first packets,  *)
(* which it throws away, and then relays until a packet arrives that is    *)
(* from neither socket: then it returns, for good, and the port stays      *)
(* open with nobody reading it.                                            *)
(***************************************************************************)
EXTENDS Naturals, Sequences, FiniteSets

CONSTANTS Hosts, Svcs, HostUser, HostPeer, Sources, Payloads,   \* see MediaRelay
          NoSvc,         \* the empty string svc_user and svc_peer start as
          Lossy,         \* may the network drop a packet?
          Strays         \* the sources that are neither client's media socket

ASSUME SessionAssumption ==
    /\ NoSvc \notin Svcs
    /\ Lossy \in BOOLEAN
    /\ Strays \subseteq Sources

VARIABLES sent,          \* history: every packet sent to the port
          inbox,         \* packets on their way to the thread's socket
          svcUser,       \* svc_user, NoSvc until user_match
          svcPeer,       \* svc_peer, NoSvc until peer_match
          returned,      \* has start_session returned?
          relayed        \* history: everything the thread has sent on

vars == <<sent, inbox, svcUser, svcPeer, returned, relayed>>

(* Mutant of Learning: the loop ends with the first match.                 *)
LearningUntilOne == svcUser = NoSvc /\ svcPeer = NoSvc

Learning == svcUser = NoSvc \/ svcPeer = NoSvc

UserEnd == [host |-> HostUser, svc |-> svcUser]
PeerEnd == [host |-> HostPeer, svc |-> svcPeer]

(* The abstract port: its ends are known once both services are.           *)
Port == INSTANCE MediaRelay WITH
            ends <- IF Learning THEN {} ELSE {UserEnd, PeerEnd}

Source == Port!Source
Packet == Port!Packet
CString(data) == Port!CString(data)

ASSUME RelayAssumption == Port!RelayAssumption

TypeOK == /\ sent \subseteq Packet
          /\ inbox \subseteq sent
          /\ svcUser \in Svcs \cup {NoSvc}
          /\ svcPeer \in Svcs \cup {NoSvc}
          /\ returned \in BOOLEAN
          /\ relayed \subseteq [from : Source, to : Source, data : {CString(d) : d \in Payloads}]

Init == /\ sent = {}
        /\ inbox = {}
        /\ svcUser = NoSvc
        /\ svcPeer = NoSvc
        /\ returned = FALSE
        /\ relayed = {}

-----------------------------------------------------------------------------
(* The one-second interval timer of a media socket.                        *)
Send(p) ==
    /\ sent' = sent \cup {p}
    /\ inbox' = inbox \cup {p}
    /\ UNCHANGED <<svcUser, svcPeer, returned, relayed>>

Lose ==
    /\ Lossy
    /\ \E p \in inbox : inbox' = inbox \ {p}
    /\ UNCHANGED <<sent, svcUser, svcPeer, returned, relayed>>

Receive(p) ==
    /\ ~returned
    /\ p \in inbox
    /\ inbox' = inbox \ {p}

(* One pass of the first loop.  The two tests are made one after the other *)
(* on the same packet, the second with the svc_user the first may have set *)
(* just now; each asks only that the other end has another port number.    *)
MatchUser(p) == svcUser = NoSvc /\ p.src.host = HostUser /\ svcPeer # p.src.svc

(* Mutant of MatchPeer: without the test of the port number.               *)
MatchPeerByHost(p) == svcPeer = NoSvc /\ p.src.host = HostPeer

MatchPeer(p) == svcPeer = NoSvc /\ p.src.host = HostPeer /\ svcUser' # p.src.svc

Learn(p) ==
    /\ Learning
    /\ Receive(p)
    /\ svcUser' = IF MatchUser(p) THEN p.src.svc ELSE svcUser
    /\ svcPeer' = IF MatchPeer(p) THEN p.src.svc ELSE svcPeer
    /\ UNCHANGED <<sent, returned, relayed>>

(* One pass of the second loop.                                            *)
SendMessage(from, to, data) ==
    relayed' = relayed \cup {[from |-> from, to |-> to, data |-> CString(data)]}

(* Mutants of RelayFromUser: the port number not tested; sent back to the  *)
(* user.                                                                   *)
RelayFromHost(p) ==
    /\ ~Learning
    /\ p.src.host = HostUser
    /\ Receive(p)
    /\ SendMessage(p.src, PeerEnd, p.data)
    /\ UNCHANGED <<sent, svcUser, svcPeer, returned>>

RelayBack(p) ==
    /\ ~Learning
    /\ p.src = UserEnd
    /\ Receive(p)
    /\ SendMessage(p.src, UserEnd, p.data)
    /\ UNCHANGED <<sent, svcUser, svcPeer, returned>>

RelayFromUser(p) ==
    /\ ~Learning
    /\ p.src = UserEnd
    /\ Receive(p)
    /\ SendMessage(p.src, PeerEnd, p.data)
    /\ UNCHANGED <<sent, svcUser, svcPeer, returned>>

RelayFromPeer(p) ==
    /\ ~Learning
    /\ p.src = PeerEnd
    /\ p.src # UserEnd
    /\ Receive(p)
    /\ SendMessage(p.src, UserEnd, p.data)
    /\ UNCHANGED <<sent, svcUser, svcPeer, returned>>

UnrecognizedSource(p) ==
    /\ ~Learning
    /\ p.src \notin {UserEnd, PeerEnd}
    /\ Receive(p)
    /\ returned' = TRUE
    /\ UNCHANGED <<sent, svcUser, svcPeer, relayed>>

RecvMessage(p) == \/ Learn(p)
                  \/ RelayFromUser(p)
                  \/ RelayFromPeer(p)
                  \/ UnrecognizedSource(p)

Next == \/ \E p \in Packet : Send(p)
        \/ Lose
        \/ \E p \in inbox : RecvMessage(p)

Spec == Init /\ [][Next]_vars

(* A media socket sends once a second as long as its client runs; the      *)
(* thread reads whatever its socket receives; a network that loses some    *)
(* packets does not lose all of them.  Nothing is known of a stray.        *)
Fairness == \A p \in {q \in Packet : q.src \notin Strays} :
                WF_vars(Send(p)) /\ SF_vars(RecvMessage(p))

LiveSpec == Spec /\ Fairness

-----------------------------------------------------------------------------
(* The port keeps its promise: only what one end sent reaches only the     *)
(* other end, and the ends never change once both are known.               *)
ImplementsRelay == Port!Spec

(* The two ends are different sockets, also when both users are on one     *)
(* machine and every packet matches both host tests: no client is          *)
(* connected to itself.                                                    *)
EndsDiffer == ~Learning => UserEnd # PeerEnd

(* Nothing is relayed while an end is unknown, and no third socket ever    *)
(* gets, or gets through, a packet, whatever it sends when.                *)
RelayedBetweenEnds ==
    \A r \in relayed : /\ ~Learning
                       /\ {r.from, r.to} = {UserEnd, PeerEnd}
                       /\ \E p \in sent : p.src = r.from /\ r.data = CString(p.data)

(* The session lasts while only two sockets send, whichever they are: the  *)
(* thread gives up only when a third one's packet has reached the port.    *)
SessionLasts ==
    returned => \E p, q, r \in sent : p.src # q.src /\ q.src # r.src /\ p.src # r.src

(* Media flows both ways between two clients that keep sending, unless a   *)
(* stray joins in: the README's set-up, both on one machine, or two        *)
(* machines with different source ports.  (With the same source port on    *)
(* both, Learning never ends and nothing flows: p2_sample_client.js:131    *)
(* knows no such proviso.)                                                 *)
MediaFlows ==
    \A a \in Sources \ Strays :
        <>(\/ \E r \in relayed : r.from = a
          \/ \E p \in sent : p.src \in Strays)
=============================================================================
