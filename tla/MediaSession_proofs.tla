------------------------- MODULE MediaSession_proofs -------------------------
(***************************************************************************)
(* Proofs about MediaSession, for any machines, ports, sending sockets and *)
(* payloads, with or without loss.                                         *)
(***************************************************************************)
EXTENDS MediaSession, TLAPS

USE DEF vars

LEMMA PacketParts ==
    ASSUME RelayAssumption, NEW p \in Packet
    PROVE  /\ p.src \in Sources /\ p.data \in Payloads
           /\ p.src \in Source /\ p.src = [host |-> p.src.host, svc |-> p.src.svc]
           /\ p.src.host \in Hosts /\ p.src.svc \in Svcs
BY DEF RelayAssumption, Port!RelayAssumption, Packet, Port!Packet, Source, Port!Source

-----------------------------------------------------------------------------
(* One step of the learning loop, case by case.                            *)
LEMMA Learned ==
    ASSUME TypeOK, NEW p \in Packet, Learn(p), SessionAssumption, RelayAssumption
    PROVE  /\ \/ svcUser' = svcUser
              \/ svcUser = NoSvc /\ svcUser' = p.src.svc /\ p.src.host = HostUser
                 /\ svcPeer # p.src.svc
           /\ \/ svcPeer' = svcPeer
              \/ svcPeer = NoSvc /\ svcPeer' = p.src.svc /\ p.src.host = HostPeer
                 /\ svcUser' # p.src.svc
           /\ p.src.svc \in Svcs /\ p.src.svc # NoSvc
BY PacketParts DEF Learn, MatchUser, MatchPeer, SessionAssumption

LEMMA Received ==
    ASSUME NEW p \in inbox, RecvMessage(p), TypeOK
    PROVE  p \in sent /\ p \in Packet /\ inbox' \subseteq inbox /\ UNCHANGED sent
BY DEF RecvMessage, Learn, RelayFromUser, RelayFromPeer, UnrecognizedSource, Receive, TypeOK

(* Types: what is known of an end is a port number or nothing, and only    *)
(* packets that were sent are in flight.                                   *)
THEOREM Typing ==
    ASSUME RelayAssumption, SessionAssumption
    PROVE  Spec => []TypeOK
<1>1. Init => TypeOK
  BY DEF Init, TypeOK
<1>2. TypeOK /\ [Next]_vars => TypeOK'
  <2> SUFFICES ASSUME TypeOK, [Next]_vars PROVE TypeOK'
    OBVIOUS
  <2>1. CASE UNCHANGED vars
    BY <2>1 DEF TypeOK
  <2>2. ASSUME NEW p \in Packet, Send(p) PROVE TypeOK'
    BY <2>2 DEF Send, TypeOK
  <2>3. CASE Lose
    BY <2>3 DEF Lose, TypeOK
  <2>4. ASSUME NEW p \in inbox, RecvMessage(p) PROVE TypeOK'
    <3>1. p \in Packet
      BY <2>4, Received
    <3>2. CASE Learn(p)
      BY <2>4, <3>1, <3>2, Learned, Received DEF Learn, TypeOK
    <3>3. CASE RelayFromUser(p) \/ RelayFromPeer(p)
      <4>1. /\ UserEnd \in Source /\ PeerEnd \in Source
        BY <3>3 DEF RelayFromUser, RelayFromPeer, Learning, UserEnd, PeerEnd, TypeOK, Source,
                    Port!Source, RelayAssumption, Port!RelayAssumption
      <4>2. CString(p.data) \in {CString(d) : d \in Payloads}
        BY <3>1, PacketParts
      <4>3. relayed' \subseteq [from : Source, to : Source, data : {CString(d) : d \in Payloads}]
        BY <3>1, <3>3, <4>1, <4>2, PacketParts
        DEF RelayFromUser, RelayFromPeer, SendMessage, TypeOK
      <4> QED  BY <2>4, <3>3, <4>3, Received DEF RelayFromUser, RelayFromPeer, TypeOK
    <3>4. CASE UnrecognizedSource(p)
      BY <2>4, <3>4, Received DEF UnrecognizedSource, TypeOK
    <3> QED  BY <2>4, <3>2, <3>3, <3>4 DEF RecvMessage
  <2> QED  BY <2>1, <2>2, <2>3, <2>4 DEF Next
<1> QED  BY <1>1, <1>2, PTL DEF Spec

-----------------------------------------------------------------------------
(* The inductive invariant behind the safety properties: each end that is  *)
(* known was learned from a packet of its machine, the two port numbers    *)
(* differ, and every relayed packet was relayed with both ends known.      *)
EndsLearned ==
    /\ svcUser # NoSvc => UserEnd \in {p.src : p \in sent}
    /\ svcPeer # NoSvc => PeerEnd \in {p.src : p \in sent}
    /\ ~Learning => svcUser # svcPeer
    /\ returned => ~Learning /\ \E p \in sent : p.src \notin {UserEnd, PeerEnd}
    /\ RelayedBetweenEnds

LEMMA EndsLearnedStep ==
    ASSUME RelayAssumption, SessionAssumption, TypeOK, EndsLearned, [Next]_vars
    PROVE  EndsLearned'
<1>1. CASE UNCHANGED vars
  BY <1>1 DEF EndsLearned, RelayedBetweenEnds, Learning, UserEnd, PeerEnd
<1>2. ASSUME sent \subseteq sent', UNCHANGED <<svcUser, svcPeer, relayed>>,
             returned' => returned \/ (~Learning /\ \E p \in sent : p.src \notin {UserEnd, PeerEnd})
      PROVE  EndsLearned'
  <2> USE <1>2 DEF EndsLearned, RelayedBetweenEnds, Learning, UserEnd, PeerEnd
  <2>1. \A r \in relayed : \E p \in sent' : p.src = r.from /\ r.data = CString(p.data)
    OBVIOUS
  <2>2. returned' => ~Learning' /\ \E p \in sent' : p.src \notin {UserEnd', PeerEnd'}
    OBVIOUS
  <2> QED  BY <2>1, <2>2
<1>3. ASSUME NEW p \in inbox, Learn(p), RecvMessage(p) PROVE EndsLearned'
  <2>1. p \in sent /\ p \in Packet /\ UNCHANGED <<sent, relayed>>
    BY <1>3, Received DEF Learn
  <2>2. relayed = {}
    BY <1>3 DEF Learn, EndsLearned, RelayedBetweenEnds
  <2>3. p.src \in {q.src : q \in sent'} /\ p.src = [host |-> p.src.host, svc |-> p.src.svc]
    BY <2>1, PacketParts
  <2>4. svcUser' # NoSvc => UserEnd' \in {q.src : q \in sent'}
    BY <1>3, <2>1, <2>3, Learned DEF EndsLearned, UserEnd
  <2>5. svcPeer' # NoSvc => PeerEnd' \in {q.src : q \in sent'}
    BY <1>3, <2>1, <2>3, Learned DEF EndsLearned, PeerEnd
  <2>6. ~Learning' => svcUser' # svcPeer'
    BY <1>3, <2>1, Learned DEF Learn, Learning
  <2>7. ~returned'
    BY <1>3 DEF Learn, Receive
  <2> QED  BY <2>1, <2>2, <2>4, <2>5, <2>6, <2>7 DEF EndsLearned, RelayedBetweenEnds
<1>4. ASSUME NEW p \in inbox, RelayFromUser(p) \/ RelayFromPeer(p), RecvMessage(p)
      PROVE  EndsLearned'
  <2>1. p \in sent /\ UNCHANGED <<sent, svcUser, svcPeer>> /\ ~Learning
    BY <1>4, Received DEF RelayFromUser, RelayFromPeer
  <2>2. PICK a, b : /\ {a, b} = {UserEnd, PeerEnd} /\ a = p.src
                    /\ relayed' = relayed \cup {[from |-> a, to |-> b, data |-> CString(p.data)]}
    BY <1>4 DEF RelayFromUser, RelayFromPeer, SendMessage
  <2>3. ASSUME NEW r \in relayed'
        PROVE  /\ {r.from, r.to} = {UserEnd, PeerEnd}
               /\ \E q \in sent : q.src = r.from /\ r.data = CString(q.data)
    BY <2>1, <2>2 DEF EndsLearned, RelayedBetweenEnds
  <2>4. ~returned'
    BY <1>4 DEF RelayFromUser, RelayFromPeer, Receive
  <2> QED  BY <2>1, <2>3, <2>4 DEF EndsLearned, RelayedBetweenEnds, Learning, UserEnd, PeerEnd
<1>5. ASSUME NEW p \in inbox, UnrecognizedSource(p), RecvMessage(p) PROVE EndsLearned'
  <2>1. /\ p \in sent /\ ~Learning /\ p.src \notin {UserEnd, PeerEnd}
        /\ UNCHANGED <<sent, svcUser, svcPeer, relayed>>
    BY <1>5, Received DEF UnrecognizedSource
  <2> QED  BY <2>1, <1>2
<1>6. ASSUME UNCHANGED <<svcUser, svcPeer, relayed, returned>>, sent \subseteq sent'
      PROVE  EndsLearned'
  BY <1>6, <1>2
<1> QED  BY <1>1, <1>3, <1>4, <1>5, <1>6 DEF Next, Send, Lose, RecvMessage

LEMMA EndsLearnedInvariant ==
    ASSUME RelayAssumption, SessionAssumption
    PROVE  Spec => []EndsLearned
<1>1. Init => EndsLearned
  BY DEF Init, EndsLearned, RelayedBetweenEnds, Learning
<1>2. TypeOK /\ EndsLearned /\ [Next]_vars => EndsLearned'
  BY EndsLearnedStep
<1> QED  BY <1>1, <1>2, Typing, PTL DEF Spec

(* A client is never connected to itself.                                  *)
THEOREM EndsAlwaysDiffer ==
    ASSUME RelayAssumption, SessionAssumption
    PROVE  Spec => []EndsDiffer
<1>1. EndsLearned => EndsDiffer
  BY DEF EndsLearned, EndsDiffer, UserEnd, PeerEnd
<1> QED  BY <1>1, EndsLearnedInvariant, PTL

(* The thread gives up only on a third socket's packet: its two ends are   *)
(* different sockets that have sent, and what it gives up on is neither.   *)
THEOREM GivesUpOnThird ==
    ASSUME RelayAssumption, SessionAssumption
    PROVE  Spec => []SessionLasts
<1>1. EndsLearned => SessionLasts
  <2> SUFFICES ASSUME EndsLearned, returned PROVE SessionLasts
    BY DEF SessionLasts
  <2>1. PICK r \in sent : r.src \notin {UserEnd, PeerEnd}
    BY DEF EndsLearned
  <2>2. PICK p \in sent : p.src = UserEnd
    BY DEF EndsLearned, Learning
  <2>3. PICK q \in sent : q.src = PeerEnd
    BY DEF EndsLearned, Learning
  <2>4. UserEnd # PeerEnd
    BY DEF EndsLearned, UserEnd, PeerEnd
  <2> QED  BY <2>1, <2>2, <2>3, <2>4 DEF SessionLasts
<1> QED  BY <1>1, EndsLearnedInvariant, PTL

(* No third socket takes part, whatever it sends and whenever.             *)
THEOREM OnlyEndsTakePart ==
    ASSUME RelayAssumption, SessionAssumption
    PROVE  Spec => []RelayedBetweenEnds
<1>1. EndsLearned => RelayedBetweenEnds
  BY DEF EndsLearned
<1> QED  BY <1>1, EndsLearnedInvariant, PTL

-----------------------------------------------------------------------------
(* Refinement: the thread implements MediaRelay, the ends being known from *)
(* the step of the first loop that finds the second of them.               *)
THEOREM Implementation ==
    ASSUME RelayAssumption, SessionAssumption
    PROVE  Spec => ImplementsRelay
<1> DEFINE E == IF Learning THEN {} ELSE {UserEnd, PeerEnd}
<1>1. Init => Port!Init
  BY DEF Init, Port!Init, Learning
<1>2. TypeOK /\ EndsLearned /\ EndsLearned' /\ [Next]_vars => [Port!Next]_Port!relayVars
  <2> SUFFICES ASSUME TypeOK, EndsLearned, EndsLearned', [Next]_vars
               PROVE  [Port!Next]_Port!relayVars
    OBVIOUS
  <2>1. ASSUME UNCHANGED <<sent, svcUser, svcPeer, relayed>>
        PROVE  UNCHANGED Port!relayVars
    BY <2>1 DEF Port!relayVars, Learning, UserEnd, PeerEnd
  <2>2. ASSUME NEW p \in Packet, Send(p) PROVE Port!Send
    BY <2>2 DEF Send, Port!Send, Packet, Learning, UserEnd, PeerEnd
  <2>3. ASSUME NEW p \in inbox, Learn(p), RecvMessage(p)
        PROVE  [Port!Next]_Port!relayVars
    <3>1. p \in Packet /\ UNCHANGED <<sent, relayed>> /\ Learning
      BY <2>3, Received DEF Learn
    <3>2. CASE Learning'
      BY <3>1, <3>2 DEF Port!relayVars
    <3>3. CASE ~Learning'
      <4>1. /\ UserEnd' # PeerEnd'
            /\ UserEnd' \in {q.src : q \in sent} /\ PeerEnd' \in {q.src : q \in sent}
        BY <3>1, <3>3 DEF EndsLearned, UserEnd, PeerEnd, Learning
      <4>2. /\ UserEnd'.host = HostUser /\ PeerEnd'.host = HostPeer
        BY DEF UserEnd, PeerEnd
      <4>3. UserEnd' \in Source /\ PeerEnd' \in Source
        BY <4>1, PacketParts DEF TypeOK
      <4>4. Port!Connect
        BY <3>1, <3>3, <4>1, <4>2, <4>3 DEF Port!Connect, Source
      <4> QED  BY <4>4 DEF Port!Next
    <3> QED  BY <3>2, <3>3
  <2>4. ASSUME NEW p \in inbox, RelayFromUser(p) \/ RelayFromPeer(p), RecvMessage(p)
        PROVE  Port!Relay
    <3>1. p \in sent /\ UNCHANGED <<sent, svcUser, svcPeer>> /\ ~Learning /\ UserEnd # PeerEnd
      BY <2>4, Received DEF RelayFromUser, RelayFromPeer, EndsLearned, UserEnd, PeerEnd
    <3>2. PICK b \in {UserEnd, PeerEnd} :
             /\ b # p.src /\ p.src \in {UserEnd, PeerEnd}
             /\ relayed' = relayed \cup {[from |-> p.src, to |-> b, data |-> CString(p.data)]}
      BY <2>4, <3>1 DEF RelayFromUser, RelayFromPeer, SendMessage
    <3>3. ~Learning' /\ UserEnd' = UserEnd /\ PeerEnd' = PeerEnd
      BY <3>1 DEF Learning, UserEnd, PeerEnd
    <3> QED  BY <3>1, <3>2, <3>3 DEF Port!Relay, CString
  <2> QED  BY <2>1, <2>2, <2>3, <2>4
           DEF Next, Port!Next, Lose, RecvMessage, UnrecognizedSource
<1> QED  BY <1>1, <1>2, Typing, EndsLearnedInvariant, PTL
         DEF Spec, Port!Spec, ImplementsRelay
=============================================================================
