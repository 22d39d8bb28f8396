-------------------------- MODULE CallSystem_proofs --------------------------
(***************************************************************************)
(* Proofs about CallSystem, for any users, clients, names, hosts, answers  *)
(* and bounds, over a reliable, lossy or duplicating network: first the    *)
(* types, then the safety properties, each from an inductive invariant     *)
(* defined at the end of CallSystem.                                       *)
(***************************************************************************)
EXTENDS CallSystem, TLAPS

USE DEF networkVars, proxyVars, clientVars, vars

-----------------------------------------------------------------------------
(* What the messages the parts build are.                                  *)
LEMMA OwnMessages ==
    ASSUME ClientAssumption, NetworkAssumption, NEW c \in Clients
    PROVE  /\ MyRegistration(c) \in Registration
           /\ TheirName[c] # Nobody => MyCall(c) \in CallMessage
BY DEF ClientAssumption, NetworkAssumption, MyRegistration, MyCall, Registration,
       CallMessage

(* The type of a datagram tells which kind of record it is.                *)
LEMMA RequestKinds ==
    ASSUME NEW m \in Request
    PROVE  /\ m.type = "REGISTER" => m \in Registration
           /\ m.type # "REGISTER" => m \in CallMessage
BY DEF Request, Registration, CallMessage

LEMMA NoticeKinds ==
    ASSUME NEW n \in Notice
    PROVE  /\ n.dst \in Clients
           /\ n.body.type = "CALL" => n.body \in CallMessage
           /\ n.body.type = "MEDIA_PORT" => n.body \in MediaPort
<1>1. n.dst \in Clients /\ n.body \in CallMessage \cup MediaPort \cup {AckRegister, UnknownPeer}
  BY DEF Notice
<1>2. n.body \in CallMessage => n.body.type # "MEDIA_PORT"
  BY DEF CallMessage
<1>3. n.body \in MediaPort => n.body.type # "CALL"
  BY DEF MediaPort
<1>4. AckRegister.type = "ACK_REGISTER" /\ UnknownPeer.type = "CALL_FAILED"
  BY DEF AckRegister, UnknownPeer
<1> QED  BY <1>1, <1>2, <1>3, <1>4

(* The first address of a registered user is a client.                     *)
LEMMA AddressType ==
    ASSUME NEW u \in Users, ProxyTypeOK, Registered(u)
    PROVE  Address(u) \in Clients
BY DEF ProxyTypeOK, Registered, Address

(* Appending to one of several lists.                                      *)
LEMMA AppendToOne ==
    ASSUME NEW D, NEW S, NEW f \in [D -> Seq(S)], NEW d \in D, NEW x \in S
    PROVE  [f EXCEPT ![d] = Append(@, x)] \in [D -> Seq(S)]
OBVIOUS

(* The empty lists the tables start with.                                  *)
LEMMA EmptyTables ==
    /\ \A S : << >> \in Seq(S)
    /\ [u \in Users |-> << >>] \in [Users -> Seq(Clients)]
    /\ [c \in Clients |-> << >>] \in [Clients -> Seq([peer : Users, port : Ports])]
<1>1. \A S : << >> \in Seq(S)
  OBVIOUS
<1> QED  BY <1>1

LEMMA FirstPortIsPort ==
    ASSUME NetworkAssumption  PROVE FirstPort \in Ports
BY DEF NetworkAssumption, Ports

(* What the proxy sends are notices.                                       *)
LEMMA SentNotices ==
    ASSUME NetworkAssumption, ProxyTypeOK, NEW m \in Request
    PROVE  /\ m.type = "REGISTER" => [dst |-> m.src, body |-> AckRegister] \in Notice
           /\ m.type # "REGISTER" /\ Registered(m.from)
                => [dst |-> Address(m.from), body |-> UnknownPeer] \in Notice
           /\ m.type # "REGISTER" /\ Registered(m.to)
                => [dst |-> Address(m.to), body |-> m] \in Notice
<1>1. m.type = "REGISTER" => m.src \in Clients
  BY RequestKinds DEF Registration
<1>2. m.type # "REGISTER" => m \in CallMessage /\ m.from \in Users /\ m.to \in Users
  BY RequestKinds DEF CallMessage
<1> QED  BY <1>1, <1>2, AddressType DEF Notice

(* htons() yields a port number.                                           *)
LEMMA SixteenBits == \A port \in Nat : port % 65536 \in Nat
OBVIOUS

LEMMA SentMediaNotices ==
    ASSUME NetworkAssumption, ProxyTypeOK, NEW m \in CallMessage,
           Registered(m.from), Registered(m.to), NEW port \in Ports
    PROVE  /\ MediaNotices(m, port) \subseteq Notice
           /\ StartedSession(m, port) \in Session
<1>1. m.from \in Users /\ m.to \in Users
  BY DEF CallMessage
<1>2. Address(m.from) \in Clients /\ Address(m.to) \in Clients
  BY <1>1, AddressType
<1>3. MediaNotices(m, port) \subseteq Notice
  BY <1>1, <1>2 DEF MediaNotices, Notice, MediaPort
<1>4. SetupSock(port) \in Nat
  <2>1. port \in Nat
    BY DEF Ports, NetworkAssumption
  <2> QED  BY <2>1, SixteenBits DEF SetupSock
<1>5. HostOf[Address(m.from)] \in Hosts /\ HostOf[Address(m.to)] \in Hosts
  BY <1>2 DEF NetworkAssumption
<1>6. StartedSession(m, port) \in Session
  BY <1>4, <1>5 DEF StartedSession, Session
<1> QED  BY <1>3, <1>6

(* A thread that has heard a source is still a thread, and what it was     *)
(* given when it was started is the same.                                  *)
SameThread(s, t) == /\ t \in Session
                    /\ t.port = s.port /\ t.boundTo = s.boundTo
                    /\ t.hostUser = s.hostUser /\ t.hostPeer = s.hostPeer

LEMMA LearningKeepsThread ==
    ASSUME NEW s \in Session, NEW source \in Socket
    PROVE  /\ SameThread(s, LearnUser(s, source))
           /\ SameThread(s, LearnPeer(s, source))
           /\ SameThread(s, [s EXCEPT !.third = source])
BY DEF SameThread, Session, LearnUser, LearnPeer

(* What a packet does: one thread is replaced by the same thread, with one *)
(* more source.                                                            *)
Heard(s, t, source) ==
    \/ ~BothKnown(s) /\ t = LearnPeer(LearnUser(s, source), source)
    \/ /\ BothKnown(s) /\ s.third = NoSocket
       /\ source \notin {s.svcUser, s.svcPeer}
       /\ t = [s EXCEPT !.third = source]

LEMMA MediaFacts ==
    ASSUME TypeOK, MediaStep
    PROVE  /\ UNCHANGED <<networkVars, clientVars, registerTable, callPort, crashed, restarts>>
           /\ \E s \in sessions, c \in Clients : \E i \in DOMAIN media[c] :
                 /\ media[c][i].port = s.boundTo
                 /\ <<c, i>> \in Socket
                 /\ \E t \in Session : /\ Heard(s, t, <<c, i>>)
                                       /\ SameThread(s, t)
                                       /\ sessions' = (sessions \ {s}) \cup {t}
<1>1. PICK s \in sessions, c \in Clients :
        \E i \in DOMAIN media[c] :
            media[c][i].port = s.boundTo /\ SessionReceive(s, <<c, i>>) /\ UNCHANGED clientVars
  BY DEF MediaStep
<1>2. PICK i \in DOMAIN media[c] :
            media[c][i].port = s.boundTo /\ SessionReceive(s, <<c, i>>) /\ UNCHANGED clientVars
  BY <1>1
<1>3. s \in Session
  BY DEF TypeOK, ProxyTypeOK
<1>4. <<c, i>> \in Socket
  <2>1. media[c] \in Seq([peer : Users, port : Ports])
    BY DEF TypeOK, ClientTypeOK
  <2>2. i \in Nat \ {0}
    BY <2>1
  <2> QED  BY <2>2 DEF Socket
<1>5. UNCHANGED <<networkVars, clientVars, registerTable, callPort, crashed, restarts>>
  BY <1>2 DEF SessionReceive
<1>6. \E t \in Session : /\ Heard(s, t, <<c, i>>)
                         /\ SameThread(s, t)
                         /\ sessions' = (sessions \ {s}) \cup {t}
  <2> DEFINE source == <<c, i>>
  <2> HIDE DEF source
  <2>0. SessionReceive(s, source) /\ source \in Socket
    BY <1>2, <1>4 DEF source
  <2>1. CASE Learn(s, source)
    <3> DEFINE u == LearnUser(s, source)
               t == LearnPeer(u, source)
    <3>1. SameThread(s, u)
      BY <1>3, <2>0, LearningKeepsThread
    <3>2. u \in Session
      BY <3>1 DEF SameThread
    <3> HIDE DEF u
    <3>3. SameThread(u, t)
      BY <2>0, <3>2, LearningKeepsThread
    <3>4. SameThread(s, t)
      BY <3>1, <3>3 DEF SameThread
    <3>5. Heard(s, t, source) /\ sessions' = (sessions \ {s}) \cup {t}
      BY <2>1 DEF Learn, Heard, u
    <3> QED  BY <3>4, <3>5 DEF SameThread, source
  <2>2. CASE GiveUp(s, source)
    <3> DEFINE t == [s EXCEPT !.third = source]
    <3>1. SameThread(s, t)
      BY <1>3, <2>0, LearningKeepsThread
    <3>2. Heard(s, t, source) /\ sessions' = (sessions \ {s}) \cup {t}
      BY <2>2 DEF GiveUp, Heard
    <3> HIDE DEF t
    <3> QED  BY <3>1, <3>2 DEF SameThread, source
  <2> QED  BY <2>0, <2>1, <2>2 DEF SessionReceive
<1> QED  BY <1>2, <1>4, <1>5, <1>6

-----------------------------------------------------------------------------
(* Types are preserved by everything the proxy does with a datagram.       *)
LEMMA ProxyTyping ==
    ASSUME NetworkAssumption, TypeOK, NEW m \in toProxy, ProxyStep(m)
    PROVE  TypeOK'
<1> USE DEF TypeOK
<1>1. ClientTypeOK'
  BY DEF ProxyStep, ClientTypeOK
<1>2. toProxy' \subseteq Request /\ m \in Request
  BY DEF ProxyStep, ProxyReceive, AfterReceiving, NetworkTypeOK
<1>3. toClient' \subseteq Notice /\ ProxyTypeOK'
  <2> USE <1>2
  <2>1. CASE RejectName(m)
    BY <2>1 DEF RejectName, NetworkTypeOK, ProxyTypeOK
  <2>2. CASE RegisterUser(m)
    <3>1. m.type = "REGISTER" /\ m.user \in Users /\ m.src \in Clients
      BY <2>2, RequestKinds DEF RegisterUser, Registration
    <3>2. registerTable' \in [Users -> Seq(Clients)]
      BY <2>2, <3>1 DEF RegisterUser, ProxyTypeOK
    <3>3. toClient' \subseteq Notice
      BY <2>2, <3>1, SentNotices DEF RegisterUser, Send, NetworkTypeOK
    <3> QED  BY <2>2, <3>2, <3>3 DEF RegisterUser, ProxyTypeOK
  <2>3. CASE ProcessCall(m)
    <3>1. CASE UNCHANGED toClient
      BY <2>3, <3>1 DEF ProcessCall, NetworkTypeOK, ProxyTypeOK
    <3>2. CASE Registered(m.from) /\ Send({[dst |-> Address(m.from), body |-> UnknownPeer]})
      <4>1. [dst |-> Address(m.from), body |-> UnknownPeer] \in Notice
        BY <2>3, <3>2, SentNotices DEF ProcessCall
      <4> QED  BY <2>3, <3>2, <4>1 DEF ProcessCall, Send, NetworkTypeOK, ProxyTypeOK
    <3>3. CASE Registered(m.to) /\ Send({[dst |-> Address(m.to), body |-> m]})
      <4>1. [dst |-> Address(m.to), body |-> m] \in Notice
        BY <2>3, <3>3, SentNotices DEF ProcessCall
      <4> QED  BY <2>3, <3>3, <4>1 DEF ProcessCall, Send, NetworkTypeOK, ProxyTypeOK
    <3> QED  BY <2>3, <3>1, <3>2, <3>3 DEF ProcessCall
  <2>4. CASE PassCallCrashes(m)
    BY <2>4 DEF PassCallCrashes, NetworkTypeOK, ProxyTypeOK
  <2>5. CASE FailCall(m)
    <3>1. toClient' \subseteq Notice
      BY <2>5, SentNotices DEF FailCall, PassedCall, Send, NetworkTypeOK
    <3> QED  BY <2>5, <3>1 DEF FailCall, ProxyTypeOK
  <2>6. CASE AcceptCall(m)
    <3>1. NextPort \in Ports /\ callPort' = NextPort
      BY <2>6 DEF AcceptCall, NextPort, Ports, ProxyTypeOK, NetworkAssumption
    <3>2. m \in CallMessage
      BY <2>6, RequestKinds DEF AcceptCall
    <3>3. MediaNotices(m, NextPort) \subseteq Notice /\ StartedSession(m, NextPort) \in Session
      BY <2>6, <3>1, <3>2, SentMediaNotices DEF AcceptCall
    <3>4. PassedCall(m) \in Notice
      BY <2>6, SentNotices DEF AcceptCall, PassedCall
    <3>5. toClient' \subseteq Notice
      BY <2>6, <3>3, <3>4 DEF AcceptCall, Send, NetworkTypeOK
    <3> QED  BY <2>6, <3>1, <3>3, <3>5 DEF AcceptCall, ProxyTypeOK
  <2> QED  BY <2>1, <2>2, <2>3, <2>4, <2>5, <2>6 DEF ProxyStep, ProxyReceive
<1> QED  BY <1>1, <1>2, <1>3 DEF NetworkTypeOK

(* Types are preserved by everything a client does with a notice.          *)
LEMMA ClientTyping ==
    ASSUME NetworkAssumption, ClientAssumption, TypeOK, NEW n \in toClient, ClientStep(n)
    PROVE  TypeOK'
<1> USE DEF TypeOK
<1>1. ProxyTypeOK'
  BY DEF ClientStep, ProxyTypeOK
<1>2. toClient' \subseteq Notice /\ n \in Notice /\ n.dst \in Clients
  <2>1. n \in Notice
    BY DEF NetworkTypeOK
  <2>2. toClient' \subseteq toClient
    BY DEF ClientStep, ClientReceive, Unreachable, HearOutcome, HandleCall,
           HandleMedia, Receive, AfterReceiving
  <2> QED  BY <2>1, <2>2, NoticeKinds DEF NetworkTypeOK
<1>3. toProxy' \subseteq Request /\ ClientTypeOK'
  <2> USE <1>2
  <2>1. CASE Unreachable(n)
    BY <2>1 DEF Unreachable, NetworkTypeOK, ClientTypeOK
  <2>2. CASE HearOutcome(n)
    BY <2>2 DEF HearOutcome, NetworkTypeOK, ClientTypeOK
  <2>3. CASE HandleCall(n)
    <3>1. n.body.from \in Users /\ NameOf[n.dst] \in Users
      BY <2>3, NoticeKinds DEF HandleCall, CallMessage, NetworkAssumption
    <3>2. PICK response \in Answers :
            /\ toProxy' = toProxy \cup
                  {[type |-> response, from |-> NameOf[n.dst], to |-> n.body.from]}
            /\ accepted' = IF response = "ACK_CALL"
                             THEN accepted \cup {<<NameOf[n.dst], n.body.from>>}
                             ELSE accepted
      BY <2>3 DEF HandleCall
    <3>3. [type |-> response, from |-> NameOf[n.dst], to |-> n.body.from] \in Request
      BY <3>1 DEF Request, CallMessage, ClientAssumption
    <3>4. toProxy' \subseteq Request /\ accepted' \subseteq Users \X Users
      BY <3>1, <3>2, <3>3 DEF NetworkTypeOK, ClientTypeOK
    <3> QED  BY <2>3, <3>4 DEF HandleCall, ClientTypeOK
  <2>4. CASE HandleMedia(n)
    <3>1. [peer |-> n.body.from, port |-> n.body.port] \in [peer : Users, port : Ports]
      BY <2>4, NoticeKinds DEF HandleMedia, MediaPort
    <3>2. media' \in [Clients -> Seq([peer : Users, port : Ports])]
      <4> DEFINE S == [peer : Users, port : Ports]
                 s == [peer |-> n.body.from, port |-> n.body.port]
      <4>1. media' = [media EXCEPT ![n.dst] = Append(@, s)]
        BY <2>4 DEF HandleMedia
      <4>2. media \in [Clients -> Seq(S)] /\ s \in S
        BY <3>1 DEF ClientTypeOK
      <4> HIDE DEF S, s
      <4>3. media' \in [Clients -> Seq(S)]
        BY <4>1, <4>2, AppendToOne
      <4> QED  BY <4>3 DEF S
    <3>3. UNCHANGED <<toProxy, running, started, heard, accepted>>
      BY <2>4 DEF HandleMedia
    <3> QED  BY <3>2, <3>3 DEF NetworkTypeOK, ClientTypeOK
  <2> QED  BY <2>1, <2>2, <2>3, <2>4 DEF ClientStep, ClientReceive
<1> QED  BY <1>1, <1>2, <1>3 DEF NetworkTypeOK

(* Every variable keeps its type: the register table maps names to lists   *)
(* of client addresses, ports stay in range, and only well-formed messages *)
(* travel.                                                                 *)
THEOREM Typing ==
    ASSUME NetworkAssumption, ProxyAssumption, ClientAssumption
    PROVE  Spec => []TypeOK
<1>1. Init => TypeOK
  <2> SUFFICES ASSUME Init PROVE TypeOK
    OBVIOUS
  <2>1. NetworkTypeOK
    BY DEF Init, NetworkInit, NetworkTypeOK
  <2>2. ProxyTypeOK
    BY EmptyTables, FirstPortIsPort DEF Init, ProxyInit, ProxyTypeOK
  <2>3. ClientTypeOK
    BY EmptyTables DEF Init, ClientInit, ClientTypeOK
  <2> QED  BY <2>1, <2>2, <2>3 DEF TypeOK
<1>2. TypeOK /\ [Next]_vars => TypeOK'
  <2> SUFFICES ASSUME TypeOK, [Next]_vars PROVE TypeOK'
    OBVIOUS
  <2>1. CASE UNCHANGED vars
    BY <2>1 DEF TypeOK, NetworkTypeOK, ProxyTypeOK, ClientTypeOK
  <2>2. ASSUME NEW m \in toProxy, ProxyStep(m) PROVE TypeOK'
    BY <2>2, ProxyTyping
  <2>3. CASE ProxyRestart
    <3>1. /\ registerTable' \in [Users -> Seq(Clients)]
          /\ callPort' \in Ports
      BY <2>3, EmptyTables, FirstPortIsPort DEF ProxyRestart, Restart
    <3>2. sessions' = {} /\ crashed' = FALSE /\ restarts' \in Nat
      BY <2>3 DEF ProxyRestart, Restart, TypeOK, ProxyTypeOK
    <3>3. ProxyTypeOK'
      BY <3>1, <3>2 DEF ProxyTypeOK
    <3> QED  BY <2>3, <3>3 DEF ProxyRestart, Restart, TypeOK, NetworkTypeOK, ClientTypeOK
  <2>4. ASSUME NEW c \in Clients, Start(c), UNCHANGED proxyVars PROVE TypeOK'
    <3>1. toProxy' \subseteq Request
      BY <2>4, OwnMessages DEF Start, Request, TypeOK, NetworkTypeOK
    <3> QED  BY <2>4, <3>1 DEF Start, TypeOK, NetworkTypeOK, ProxyTypeOK, ClientTypeOK
  <2>5. ASSUME NEW c \in Clients, Stop(c), UNCHANGED proxyVars PROVE TypeOK'
    <3>1. media' \in [Clients -> Seq([peer : Users, port : Ports])]
      BY <2>5, EmptyTables DEF Stop, TypeOK, ClientTypeOK
    <3>2. running' \subseteq started
      BY <2>5 DEF Stop, TypeOK, ClientTypeOK
    <3> QED  BY <2>5, <3>1, <3>2 DEF Stop, TypeOK, NetworkTypeOK, ProxyTypeOK, ClientTypeOK
  <2>6. ASSUME NEW c \in Clients, ClientTimer(c) PROVE TypeOK'
    <3>1. toProxy' \subseteq Request
      BY <2>6, OwnMessages DEF ClientTimer, SendRegister, Request, TypeOK, NetworkTypeOK
    <3> QED  BY <2>6, <3>1 DEF ClientTimer, SendRegister, TypeOK, NetworkTypeOK,
                               ProxyTypeOK, ClientTypeOK
  <2>7. ASSUME NEW n \in toClient, ClientStep(n) PROVE TypeOK'
    BY <2>7, ClientTyping
  <2>8. CASE Lose /\ UNCHANGED <<proxyVars, clientVars>>
    BY <2>8 DEF Lose, TypeOK, NetworkTypeOK, ProxyTypeOK, ClientTypeOK
  <2>9. CASE MediaStep
    <3>1. sessions' \subseteq Session
      BY <2>9, MediaFacts DEF TypeOK, ProxyTypeOK
    <3>2. UNCHANGED <<networkVars, clientVars, registerTable, callPort, crashed, restarts>>
      BY <2>9, MediaFacts
    <3> QED  BY <3>1, <3>2 DEF TypeOK, NetworkTypeOK, ProxyTypeOK, ClientTypeOK
  <2> QED  BY <2>1, <2>2, <2>3, <2>4, <2>5, <2>6, <2>7, <2>8, <2>9 DEF Next
<1> QED  BY <1>1, <1>2, PTL DEF Spec

-----------------------------------------------------------------------------
LEMMA UnknownPeerIsNoCall == UnknownPeer.type = "CALL_FAILED"
BY DEF UnknownPeer

(* What each proxy step needs to know of its datagram.                     *)
LEMMA StepFacts ==
    ASSUME TypeOK, NEW m \in toProxy, ProxyStep(m)
    PROVE  /\ m \in Request
           /\ toProxy' \subseteq toProxy
           /\ ~crashed
           /\ UNCHANGED clientVars
           /\ \/ RejectName(m) \/ RegisterUser(m) \/ ProcessCall(m)
              \/ PassCallCrashes(m) \/ FailCall(m) \/ AcceptCall(m)
BY DEF TypeOK, NetworkTypeOK, ProxyStep, ProxyReceive, AfterReceiving

(* What each step of a client needs to know of its notice.                 *)
LEMMA HeardFacts ==
    ASSUME TypeOK, NEW n \in toClient, ClientStep(n)
    PROVE  /\ n \in Notice
           /\ toClient' \subseteq toClient
           /\ UNCHANGED proxyVars
           /\ Unreachable(n) \/ HearOutcome(n) \/ HandleCall(n) \/ HandleMedia(n)
BY DEF TypeOK, NetworkTypeOK, ClientStep, ClientReceive, Unreachable, HearOutcome,
       HandleCall, HandleMedia, Receive, AfterReceiving

(* An entry of the table is never removed, except by a restart.            *)
LEMMA TableGrows ==
    ASSUME TypeOK, NEW m \in toProxy, ProxyStep(m), NEW u \in Users
    PROVE  /\ Registered(u) => Registered(u)'
           /\ Registered(u) => Address(u)' = Address(u)
           /\ RegisterUser(m) \/ UNCHANGED registerTable
<1>1. RegisterUser(m) \/ UNCHANGED registerTable
  BY StepFacts DEF RejectName, ProcessCall, PassCallCrashes, FailCall, AcceptCall
<1>2. CASE UNCHANGED registerTable
  BY <1>1, <1>2 DEF Registered, Address
<1>3. CASE RegisterUser(m)
  <2>1. m.src \in Clients
    BY <1>3, StepFacts, RequestKinds DEF RegisterUser, Registration
  <2>2. registerTable[u] \in Seq(Clients)
    BY DEF TypeOK, ProxyTypeOK
  <2>3. registerTable'[u] = registerTable[u] \/ registerTable'[u] = Append(registerTable[u], m.src)
    BY <1>3 DEF RegisterUser, TypeOK, ProxyTypeOK
  <2>4. Registered(u) => registerTable'[u] # << >> /\ registerTable'[u][1] = registerTable[u][1]
    BY <2>1, <2>2, <2>3 DEF Registered
  <2> QED  BY <1>1, <2>4 DEF Registered, Address
<1> QED  BY <1>1, <1>2, <1>3

-----------------------------------------------------------------------------
(* pass_call never meets an unknown name while the table survives.         *)
LEMMA ProxyKeepsAnswersRegistered ==
    ASSUME TypeOK, AnswersNameRegistered, NEW m \in toProxy, ProxyStep(m)
    PROVE  AnswersNameRegistered'
<1> SUFFICES ASSUME restarts' = 0
             PROVE  /\ ~crashed'
                    /\ \A q \in toProxy' : q.type \in {"ACK_CALL", "CALL_FAILED"}
                                              => Registered(q.from)' /\ Registered(q.to)'
                    /\ \A n \in toClient' : n.body.type = "CALL"
                                              => Registered(n.body.from)' /\ Registered(n.body.to)'
  BY DEF AnswersNameRegistered
<1>1. restarts = 0
  BY StepFacts DEF RejectName, RegisterUser, ProcessCall, PassCallCrashes, FailCall, AcceptCall
<1>2. ~PassCallCrashes(m)
  BY <1>1, StepFacts DEF AnswersNameRegistered, PassCallCrashes
<1>3. ~crashed'
  BY <1>2, StepFacts DEF RejectName, RegisterUser, ProcessCall, FailCall, AcceptCall
<1>4. ASSUME NEW q \in toProxy', q.type \in {"ACK_CALL", "CALL_FAILED"}
      PROVE  Registered(q.from)' /\ Registered(q.to)'
  <2>1. q \in toProxy /\ q \in Request
    BY StepFacts DEF TypeOK, NetworkTypeOK
  <2>2. q.from \in Users /\ q.to \in Users
    BY <1>4, <2>1, RequestKinds DEF CallMessage
  <2> QED  BY <1>1, <1>4, <2>1, <2>2, TableGrows DEF AnswersNameRegistered
<1>5. ASSUME NEW n \in toClient', n.body.type = "CALL"
      PROVE  Registered(n.body.from)' /\ Registered(n.body.to)'
  <2>1. CASE n \in toClient
    <3>1. n.body.from \in Users /\ n.body.to \in Users
      BY <1>5, <2>1, NoticeKinds DEF TypeOK, NetworkTypeOK, CallMessage
    <3> QED  BY <1>1, <1>5, <2>1, <3>1, TableGrows DEF AnswersNameRegistered
  <2>2. CASE n \notin toClient
    <3>1. CASE RegisterUser(m)
      BY <1>5, <2>2, <3>1 DEF RegisterUser, Send, AckRegister
    <3>2. CASE ProcessCall(m)
      <4>1. m.type = "CALL" /\ m.from \in Users /\ m.to \in Users
        BY <3>2, StepFacts, RequestKinds DEF ProcessCall, CallMessage
      <4>2. n # [dst |-> Address(m.from), body |-> UnknownPeer]
        BY <1>5, UnknownPeerIsNoCall
      <4>3. Registered(m.from) /\ Registered(m.to) /\ Send({[dst |-> Address(m.to), body |-> m]})
        BY <2>2, <3>2, <4>2 DEF ProcessCall, Send
      <4>4. n.body = m
        BY <2>2, <4>3 DEF Send
      <4> QED  BY <4>1, <4>3, <4>4, TableGrows
    <3>3. CASE FailCall(m)
      BY <1>5, <2>2, <3>3 DEF FailCall, PassedCall, Send
    <3>4. CASE AcceptCall(m)
      BY <1>5, <2>2, <3>4 DEF AcceptCall, PassedCall, MediaNotices, Send
    <3>5. CASE RejectName(m)
      BY <2>2, <3>5 DEF RejectName
    <3> QED  BY <1>2, <3>1, <3>2, <3>3, <3>4, <3>5, StepFacts
  <2> QED  BY <2>1, <2>2
<1> QED  BY <1>3, <1>4, <1>5

LEMMA ClientKeepsAnswersRegistered ==
    ASSUME TypeOK, AnswersNameRegistered, NEW n \in toClient, ClientStep(n)
    PROVE  AnswersNameRegistered'
<1> SUFFICES ASSUME restarts = 0
             PROVE  \A q \in toProxy' : q.type \in {"ACK_CALL", "CALL_FAILED"}
                                           => Registered(q.from) /\ Registered(q.to)
  BY HeardFacts DEF AnswersNameRegistered, Registered
<1>1. CASE HandleCall(n)
  BY <1>1 DEF HandleCall, AnswersNameRegistered
<1>2. CASE UNCHANGED toProxy
  BY <1>2 DEF AnswersNameRegistered
<1> QED  BY <1>1, <1>2, HeardFacts DEF Unreachable, HearOutcome, HandleMedia

(* Only an answer that outlives a restart can kill the proxy: pass_call's  *)
(* unchecked look-up always finds both names in the table of a process     *)
(* that has been up since the first client started.                        *)
THEOREM CrashNeedsRestart ==
    ASSUME NetworkAssumption, ProxyAssumption, ClientAssumption
    PROVE  Spec => []CrashOnlyAfterRestart
<1>1. Init => AnswersNameRegistered
  BY DEF Init, NetworkInit, ProxyInit, AnswersNameRegistered
<1>2. TypeOK /\ AnswersNameRegistered /\ [Next]_vars => AnswersNameRegistered'
  <2> SUFFICES ASSUME TypeOK, AnswersNameRegistered, [Next]_vars
               PROVE  AnswersNameRegistered'
    OBVIOUS
  <2>1. CASE UNCHANGED vars
    BY <2>1 DEF AnswersNameRegistered, Registered
  <2>2. ASSUME NEW m \in toProxy, ProxyStep(m) PROVE AnswersNameRegistered'
    BY <2>2, ProxyKeepsAnswersRegistered
  <2>3. CASE ProxyRestart
    <3>1. restarts' # 0
      BY <2>3 DEF ProxyRestart, Restart, TypeOK, ProxyTypeOK
    <3> QED  BY <3>1 DEF AnswersNameRegistered
  <2>4. ASSUME NEW c \in Clients, Start(c) \/ ClientTimer(c), UNCHANGED proxyVars
        PROVE  AnswersNameRegistered'
    BY <2>4 DEF Start, ClientTimer, SendRegister, MyRegistration, MyCall,
                AnswersNameRegistered, Registered
  <2>5. ASSUME NEW c \in Clients, Stop(c), UNCHANGED proxyVars
        PROVE  AnswersNameRegistered'
    BY <2>5 DEF Stop, AnswersNameRegistered, Registered
  <2>6. ASSUME NEW n \in toClient, ClientStep(n) PROVE AnswersNameRegistered'
    BY <2>6, ClientKeepsAnswersRegistered
  <2>7. CASE Lose /\ UNCHANGED <<proxyVars, clientVars>>
    BY <2>7 DEF Lose, AnswersNameRegistered, Registered
  <2>8. CASE MediaStep
    BY <2>8, MediaFacts DEF AnswersNameRegistered, Registered
  <2> QED  BY <2>1, <2>2, <2>3, <2>4, <2>5, <2>6, <2>7, <2>8 DEF Next, ClientTimer
<1>3. TypeOK /\ AnswersNameRegistered => CrashOnlyAfterRestart
  BY DEF TypeOK, ProxyTypeOK, AnswersNameRegistered, CrashOnlyAfterRestart
<1> QED  BY <1>1, <1>2, <1>3, Typing, PTL DEF Spec

-----------------------------------------------------------------------------
(* The table, and what is sent by it, keep names and addresses together.   *)
LEMMA OwnAddress ==
    ASSUME TypeOK, AddressesAreOwn, NEW u \in Users, Registered(u)
    PROVE  NameOf[Address(u)] = u
<1>1. registerTable[u] \in Seq(Clients) /\ registerTable[u] # << >>
  BY DEF TypeOK, ProxyTypeOK, Registered
<1>2. 1 \in DOMAIN registerTable[u]
  BY <1>1
<1> QED  BY <1>2 DEF AddressesAreOwn, Address

LEMMA ProxyKeepsAddressesOwn ==
    ASSUME TypeOK, AddressesAreOwn, NEW m \in toProxy, ProxyStep(m)
    PROVE  AddressesAreOwn'
<1>1. ASSUME NEW q \in toProxy', q.type = "REGISTER" PROVE NameOf[q.src] = q.user
  BY <1>1, StepFacts DEF AddressesAreOwn
<1>2. ASSUME NEW u \in Users, NEW i \in DOMAIN registerTable'[u]
      PROVE  NameOf[registerTable'[u][i]] = u
  <2>1. CASE UNCHANGED registerTable
    BY <1>2, <2>1 DEF AddressesAreOwn
  <2>2. CASE RegisterUser(m)
    <3>1. m.src \in Clients /\ NameOf[m.src] = m.user
      BY <2>2, StepFacts, RequestKinds DEF RegisterUser, Registration, AddressesAreOwn
    <3>2. registerTable[u] \in Seq(Clients)
      BY DEF TypeOK, ProxyTypeOK
    <3>3. CASE u # m.user
      BY <1>2, <2>2, <3>3 DEF RegisterUser, TypeOK, ProxyTypeOK, AddressesAreOwn
    <3>4. CASE u = m.user
      <4>1. registerTable'[u] = Append(registerTable[u], m.src)
        BY <2>2, <3>4 DEF RegisterUser, TypeOK, ProxyTypeOK
      <4>2. i \in DOMAIN registerTable[u] \/ registerTable'[u][i] = m.src
        BY <3>1, <3>2, <4>1
      <4>3. i \in DOMAIN registerTable[u] => registerTable'[u][i] = registerTable[u][i]
        BY <3>1, <3>2, <4>1
      <4> QED  BY <3>1, <3>4, <4>2, <4>3 DEF AddressesAreOwn
    <3> QED  BY <3>3, <3>4
  <2> QED  BY <2>1, <2>2, TableGrows
<1>3. ASSUME NEW n \in toClient', n.body.type \in {"CALL", "MEDIA_PORT"}
      PROVE  n.body.to = NameOf[n.dst]
  <2>1. CASE n \in toClient
    BY <1>3, <2>1 DEF AddressesAreOwn, NoticesReachTheirName
  <2>2. CASE n \notin toClient
    <3>1. CASE RegisterUser(m)
      BY <1>3, <2>2, <3>1 DEF RegisterUser, Send, AckRegister
    <3>2. CASE ProcessCall(m)
      <4>1. m.from \in Users /\ m.to \in Users
        BY <3>2, StepFacts, RequestKinds DEF ProcessCall, CallMessage
      <4>2. n # [dst |-> Address(m.from), body |-> UnknownPeer]
        BY <1>3, UnknownPeerIsNoCall
      <4>3. Registered(m.to) /\ Send({[dst |-> Address(m.to), body |-> m]})
        BY <2>2, <3>2, <4>2 DEF ProcessCall, Send
      <4>4. n = [dst |-> Address(m.to), body |-> m]
        BY <2>2, <4>3 DEF Send
      <4> QED  BY <4>1, <4>3, <4>4, OwnAddress
    <3>3. CASE FailCall(m)
      BY <1>3, <2>2, <3>3 DEF FailCall, PassedCall, Send
    <3>4. CASE AcceptCall(m)
      <4>1. m.from \in Users /\ m.to \in Users /\ Registered(m.from) /\ Registered(m.to)
        BY <3>4, StepFacts, RequestKinds DEF AcceptCall, CallMessage
      <4>2. n # PassedCall(m)
        BY <1>3, <3>4 DEF PassedCall, AcceptCall
      <4>3. n \in MediaNotices(m, NextPort)
        BY <2>2, <3>4, <4>2 DEF AcceptCall, Send
      <4> QED  BY <4>1, <4>3, OwnAddress DEF MediaNotices
    <3>5. CASE UNCHANGED toClient
      BY <2>2, <3>5
    <3> QED  BY <3>1, <3>2, <3>3, <3>4, <3>5, StepFacts DEF RejectName, PassCallCrashes
  <2> QED  BY <2>1, <2>2
<1> QED  BY <1>1, <1>2, <1>3 DEF AddressesAreOwn, NoticesReachTheirName

(* A CALL or a MEDIA_PORT is only ever sent to a client of the user it is  *)
(* for, whatever the clients register, so the "someone else" branches of   *)
(* handleCall and handleMedia are dead code over this proxy.               *)
THEOREM NoticesAreForTheReceiver ==
    ASSUME NetworkAssumption, ProxyAssumption, ClientAssumption
    PROVE  Spec => []NoticesReachTheirName
<1>1. Init => AddressesAreOwn
  BY DEF Init, NetworkInit, ProxyInit, AddressesAreOwn, NoticesReachTheirName
<1>2. TypeOK /\ AddressesAreOwn /\ [Next]_vars => AddressesAreOwn'
  <2> SUFFICES ASSUME TypeOK, AddressesAreOwn, [Next]_vars
               PROVE  AddressesAreOwn'
    OBVIOUS
  <2> USE DEF AddressesAreOwn, NoticesReachTheirName
  <2>1. CASE UNCHANGED vars
    BY <2>1
  <2>2. ASSUME NEW m \in toProxy, ProxyStep(m) PROVE AddressesAreOwn'
    BY <2>2, ProxyKeepsAddressesOwn
  <2>3. CASE ProxyRestart
    BY <2>3 DEF ProxyRestart, Restart
  <2>4. ASSUME NEW c \in Clients, Start(c) \/ ClientTimer(c), UNCHANGED proxyVars
        PROVE  AddressesAreOwn'
    BY <2>4 DEF Start, ClientTimer, SendRegister, MyRegistration, MyCall
  <2>5. ASSUME NEW c \in Clients, Stop(c), UNCHANGED proxyVars
        PROVE  AddressesAreOwn'
    BY <2>5 DEF Stop
  <2>6. ASSUME NEW n \in toClient, ClientStep(n) PROVE AddressesAreOwn'
    <3>1. \A m \in toProxy' : m.type = "REGISTER" => m \in toProxy
      <4>1. CASE HandleCall(n)
        BY <4>1 DEF HandleCall, ClientAssumption
      <4> QED  BY <2>6, <4>1, HeardFacts DEF Unreachable, HearOutcome, HandleMedia
    <3> QED  BY <2>6, <3>1, HeardFacts
  <2>7. CASE Lose /\ UNCHANGED <<proxyVars, clientVars>>
    BY <2>7 DEF Lose
  <2>8. CASE MediaStep
    BY <2>8, MediaFacts
  <2> QED  BY <2>1, <2>2, <2>3, <2>4, <2>5, <2>6, <2>7, <2>8 DEF Next, ClientTimer
<1>3. AddressesAreOwn => NoticesReachTheirName
  BY DEF AddressesAreOwn
<1> QED  BY <1>1, <1>2, <1>3, Typing, PTL DEF Spec

-----------------------------------------------------------------------------
(* Where a use of a media port comes from.                                 *)
NoticedUse(n) == [port |-> n.body.port, name |-> n.body.to, peer |-> n.body.from]

SocketUse(c, i) == [port |-> media[c][i].port, name |-> NameOf[c], peer |-> media[c][i].peer]

LEMMA MediaUseMembers ==
    \A x : x \in MediaUse <=>
              \/ \E n \in toClient : n.body.type = "MEDIA_PORT" /\ x = NoticedUse(n)
              \/ \E c \in Clients : \E i \in DOMAIN media[c] : x = SocketUse(c, i)
BY DEF MediaUse, MediaNotice, NoticedUse, SocketUse

(* The two uses an accepted call adds.                                     *)
NewUses(m) == {[port |-> NextPort, name |-> m.from, peer |-> m.to],
               [port |-> NextPort, name |-> m.to, peer |-> m.from]}

LEMMA ProxyUses ==
    ASSUME TypeOK, NEW m \in toProxy, ProxyStep(m), NEW x \in MediaUse'
    PROVE  x \in MediaUse \/ (AcceptCall(m) /\ x \in NewUses(m))
<1>1. UNCHANGED media
  BY StepFacts
<1>2. CASE \E c \in Clients : \E i \in DOMAIN media[c] : x = SocketUse(c, i)
  BY <1>2, MediaUseMembers
<1>3. CASE \E n \in toClient' : n.body.type = "MEDIA_PORT" /\ x = NoticedUse(n)
  <2>1. PICK n \in toClient' : n.body.type = "MEDIA_PORT" /\ x = NoticedUse(n)
    BY <1>3
  <2>2. CASE n \in toClient
    BY <2>1, <2>2, MediaUseMembers
  <2>3. CASE n \notin toClient
    <3>1. ~RegisterUser(m)
      BY <2>1, <2>3 DEF RegisterUser, Send, AckRegister
    <3>2. n.body # UnknownPeer
      BY <2>1, UnknownPeerIsNoCall
    <3>3. ~ProcessCall(m)
      BY <2>1, <2>3, <3>2 DEF ProcessCall, Send
    <3>4. ~FailCall(m)
      BY <2>1, <2>3 DEF FailCall, PassedCall, Send
    <3>5. AcceptCall(m)
      BY <2>3, <3>1, <3>3, <3>4, StepFacts DEF RejectName, PassCallCrashes
    <3>6. n \in MediaNotices(m, NextPort)
      BY <2>1, <2>3, <3>5 DEF AcceptCall, PassedCall, Send
    <3>7. x \in NewUses(m)
      BY <2>1, <3>6 DEF MediaNotices, NoticedUse, NewUses
    <3> QED  BY <3>5, <3>7
  <2> QED  BY <2>2, <2>3
<1>4. \/ \E n \in toClient' : n.body.type = "MEDIA_PORT" /\ x = NoticedUse(n)
      \/ \E c \in Clients : \E i \in DOMAIN media[c] : x = SocketUse(c, i)
  <2>1. \/ \E n \in toClient' : n.body.type = "MEDIA_PORT" /\ x = NoticedUse(n)
        \/ \E c \in Clients : \E i \in DOMAIN media'[c] : x = SocketUse(c, i)'
    BY DEF MediaUse, MediaNotice, NoticedUse, SocketUse
  <2> QED  BY <1>1, <2>1 DEF SocketUse
<1> QED  BY <1>2, <1>3, <1>4

(* A notice in flight that becomes a media socket is no new use, and no    *)
(* other step of a client or of the network adds one.                      *)
LEMMA FewerMeansFewer ==
    ASSUME toClient' \subseteq toClient,
           \A c \in Clients : \A i \in DOMAIN media'[c] :
               i \in DOMAIN media[c] /\ media'[c][i] = media[c][i]
    PROVE  MediaUse' \subseteq MediaUse
<1> SUFFICES ASSUME NEW x \in MediaUse' PROVE x \in MediaUse
  OBVIOUS
<1>1. \/ \E n \in toClient' : n.body.type = "MEDIA_PORT" /\ x = NoticedUse(n)
      \/ \E c \in Clients : \E i \in DOMAIN media'[c] : x = SocketUse(c, i)'
  BY DEF MediaUse, MediaNotice, NoticedUse, SocketUse
<1> QED  BY <1>1, MediaUseMembers DEF SocketUse

LEMMA ClientUses ==
    ASSUME TypeOK, NEW n \in toClient, ClientStep(n)
    PROVE  MediaUse' \subseteq MediaUse
<1>1. CASE UNCHANGED media
  BY <1>1, HeardFacts, FewerMeansFewer
<1>2. CASE HandleMedia(n)
  <2> SUFFICES ASSUME NEW x \in MediaUse' PROVE x \in MediaUse
    OBVIOUS
  <2>1. \/ \E q \in toClient' : q.body.type = "MEDIA_PORT" /\ x = NoticedUse(q)
        \/ \E c \in Clients : \E i \in DOMAIN media'[c] : x = SocketUse(c, i)'
    BY DEF MediaUse, MediaNotice, NoticedUse, SocketUse
  <2>2. CASE \E q \in toClient' : q.body.type = "MEDIA_PORT" /\ x = NoticedUse(q)
    BY <2>2, HeardFacts, MediaUseMembers
  <2>3. ASSUME NEW c \in Clients, NEW i \in DOMAIN media'[c], x = SocketUse(c, i)'
        PROVE  x \in MediaUse
    <3> DEFINE s == [peer |-> n.body.from, port |-> n.body.port]
               S == [peer : Users, port : Ports]
    <3>1. media \in [Clients -> Seq(S)] /\ n.dst \in Clients
      BY HeardFacts, NoticeKinds DEF TypeOK, ClientTypeOK
    <3>2. s \in S
      BY <1>2, HeardFacts, NoticeKinds DEF HandleMedia, MediaPort
    <3>3. media' = [media EXCEPT ![n.dst] = Append(@, s)]
      BY <1>2 DEF HandleMedia
    <3> HIDE DEF s, S
    <3>4. \/ i \in DOMAIN media[c] /\ media'[c][i] = media[c][i]
          \/ c = n.dst /\ media'[c][i] = s
      <4>1. CASE c # n.dst
        BY <3>1, <3>3, <4>1
      <4>2. CASE c = n.dst
        <5>1. media'[c] = Append(media[c], s) /\ media[c] \in Seq(S)
          BY <3>1, <3>3, <4>2
        <5> QED  BY <2>3, <3>2, <4>2, <5>1
      <4> QED  BY <4>1, <4>2
    <3>5. CASE i \in DOMAIN media[c] /\ media'[c][i] = media[c][i]
      BY <2>3, <3>5, MediaUseMembers DEF SocketUse
    <3>6. CASE c = n.dst /\ media'[c][i] = s
      <4>1. x = NoticedUse(n) /\ n.body.type = "MEDIA_PORT"
        BY <1>2, <2>3, <3>6 DEF SocketUse, NoticedUse, HandleMedia, s
      <4> QED  BY <4>1, MediaUseMembers
    <3> QED  BY <3>4, <3>5, <3>6
  <2> QED  BY <2>1, <2>2, <2>3
<1> QED  BY <1>1, <1>2, HeardFacts DEF Unreachable, HearOutcome, HandleCall

LEMMA OtherUses ==
    ASSUME TypeOK, [Next]_vars, \A m \in toProxy : ~ProxyStep(m)
    PROVE  MediaUse' \subseteq MediaUse
<1>1. CASE UNCHANGED <<toClient, media>>
  BY <1>1, FewerMeansFewer
<1>2. ASSUME NEW c \in Clients, Stop(c) PROVE MediaUse' \subseteq MediaUse
  <2>1. \A d \in Clients : media'[d] = << >> \/ media'[d] = media[d]
    BY <1>2 DEF Stop, TypeOK, ClientTypeOK
  <2>2. \A d \in Clients : \A i \in DOMAIN media'[d] : media'[d] = media[d]
    BY <2>1
  <2> QED  BY <1>2, <2>2, FewerMeansFewer DEF Stop
<1>3. ASSUME NEW n \in toClient, ClientStep(n) PROVE MediaUse' \subseteq MediaUse
  BY <1>3, ClientUses
<1>4. CASE Lose /\ UNCHANGED <<proxyVars, clientVars>>
  BY <1>4, FewerMeansFewer DEF Lose
<1>5. MediaStep => UNCHANGED <<toClient, media>>
  BY MediaFacts
<1> QED  BY <1>1, <1>2, <1>3, <1>4, <1>5 DEF Next, ProxyRestart, Restart, Start, ClientTimer, SendRegister

LEMMA ElementOfSequence ==
    ASSUME NEW S, NEW s \in Seq(S), NEW i \in DOMAIN s  PROVE s[i] \in S
OBVIOUS

LEMMA UseTypes ==
    ASSUME NetworkAssumption, TypeOK, NEW x \in MediaUse
    PROVE  x.port \in Ports /\ x.name \in Users /\ x.peer \in Users
<1>1. ASSUME NEW n \in toClient, n.body.type = "MEDIA_PORT", x = NoticedUse(n)
      PROVE  x.port \in Ports /\ x.name \in Users /\ x.peer \in Users
  BY <1>1, NoticeKinds DEF TypeOK, NetworkTypeOK, NoticedUse, MediaPort
<1>2. ASSUME NEW c \in Clients, NEW i \in DOMAIN media[c], x = SocketUse(c, i)
      PROVE  x.port \in Ports /\ x.name \in Users /\ x.peer \in Users
  <2>1. media[c] \in Seq([peer : Users, port : Ports])
    BY DEF TypeOK, ClientTypeOK
  <2>2. media[c][i] \in [peer : Users, port : Ports]
    BY <1>2, <2>1, ElementOfSequence
  <2> QED  BY <1>2, <2>2 DEF SocketUse, NetworkAssumption
<1> QED  BY <1>1, <1>2, MediaUseMembers

LEMMA NoUsesAtFirst ==
    ASSUME Init  PROVE MediaUse = {}
<1>1. toClient = {} /\ \A c \in Clients : DOMAIN media[c] = {}
  BY DEF Init, NetworkInit, ClientInit
<1> QED  BY <1>1, MediaUseMembers

-----------------------------------------------------------------------------
(* Every ACK_CALL in flight, and every port in use, has its acceptance.    *)
LEMMA AcceptsRecorded ==
    ASSUME NetworkAssumption, ProxyAssumption, ClientAssumption
    PROVE  Spec => []AcceptsAreRecorded
<1>1. Init => AcceptsAreRecorded
  BY NoUsesAtFirst DEF Init, NetworkInit, AcceptsAreRecorded, NoMediaWithoutAccept
<1>2. TypeOK /\ AcceptsAreRecorded /\ [Next]_vars => AcceptsAreRecorded'
  <2> SUFFICES ASSUME TypeOK, AcceptsAreRecorded, [Next]_vars
               PROVE  AcceptsAreRecorded'
    OBVIOUS
  <2>1. accepted \subseteq accepted'
    <3>1. ASSUME NEW n \in toClient, ClientStep(n) PROVE accepted \subseteq accepted'
      BY <3>1, HeardFacts DEF Unreachable, HearOutcome, HandleCall, HandleMedia
    <3>2. MediaStep => UNCHANGED accepted
      BY MediaFacts
    <3> QED  BY <3>1, <3>2
             DEF Next, ProxyStep, ProxyRestart, Start, Stop, ClientTimer, SendRegister
  <2>2. ASSUME NEW q \in toProxy', q.type = "ACK_CALL"
        PROVE  <<q.from, q.to>> \in accepted'
    <3>1. CASE q \in toProxy
      BY <2>1, <2>2, <3>1 DEF AcceptsAreRecorded
    <3>2. ASSUME NEW n \in toClient, ClientStep(n), q \notin toProxy
          PROVE  <<q.from, q.to>> \in accepted'
      <4>1. HandleCall(n)
        BY <2>2, <3>2, HeardFacts DEF Unreachable, HearOutcome, HandleMedia
      <4>2. PICK response \in Answers :
              /\ toProxy' = toProxy \cup
                    {[type |-> response, from |-> NameOf[n.dst], to |-> n.body.from]}
              /\ accepted' = IF response = "ACK_CALL"
                               THEN accepted \cup {<<NameOf[n.dst], n.body.from>>}
                               ELSE accepted
        BY <4>1 DEF HandleCall
      <4>3. q = [type |-> response, from |-> NameOf[n.dst], to |-> n.body.from]
        BY <2>2, <3>2, <4>2
      <4> QED  BY <2>2, <4>2, <4>3
    <3>3. CASE q \notin toProxy /\ \E c \in Clients : Start(c) \/ ClientTimer(c)
      BY <2>2, <3>3 DEF Start, ClientTimer, SendRegister, MyRegistration, MyCall
    <3>4. q \in toProxy \/ ~(\E m \in toProxy : ProxyStep(m))
      BY StepFacts
    <3>5. MediaStep => UNCHANGED toProxy
      BY MediaFacts
    <3> QED  BY <3>1, <3>2, <3>3, <3>4, <3>5 DEF Next, ProxyRestart, Restart, Stop, Lose
  <2>3. ASSUME NEW x \in MediaUse'
        PROVE  <<x.name, x.peer>> \in accepted' \/ <<x.peer, x.name>> \in accepted'
    <3>1. CASE x \in MediaUse
      BY <2>1, <3>1 DEF AcceptsAreRecorded, NoMediaWithoutAccept
    <3>2. ASSUME NEW m \in toProxy, ProxyStep(m), AcceptCall(m), x \in NewUses(m)
          PROVE  <<x.name, x.peer>> \in accepted' \/ <<x.peer, x.name>> \in accepted'
      BY <2>1, <3>2 DEF AcceptCall, NewUses, AcceptsAreRecorded
    <3> QED  BY <3>1, <3>2, ProxyUses, OtherUses
  <2> QED  BY <2>2, <2>3 DEF AcceptsAreRecorded, NoMediaWithoutAccept
<1> QED  BY <1>1, <1>2, Typing, PTL DEF Spec

(* No media path without consent: every ACK_CALL was sent by a client that *)
(* accepted the call, and only an ACK_CALL makes the proxy announce a port.*)
THEOREM MediaNeedsConsent ==
    ASSUME NetworkAssumption, ProxyAssumption, ClientAssumption
    PROVE  Spec => []NoMediaWithoutAccept
<1>1. AcceptsAreRecorded => NoMediaWithoutAccept
  BY DEF AcceptsAreRecorded
<1> QED  BY <1>1, AcceptsRecorded, PTL

(* call_port++ comes before the port is announced, so a new call never     *)
(* gets a port that a notice or a socket already names.                    *)
THEOREM PortsAreNotShared ==
    ASSUME NetworkAssumption, ProxyAssumption, ClientAssumption
    PROVE  Spec => []PortServesOnePair
<1>1. Init => PortsAreFresh /\ PortServesOnePair
  BY NoUsesAtFirst DEF Init, ProxyInit, PortsAreFresh, PortServesOnePair
<1>2. TypeOK /\ CrashOnlyAfterRestart' /\ PortsAreFresh /\ PortServesOnePair /\ [Next]_vars
        => PortsAreFresh' /\ PortServesOnePair'
  <2> SUFFICES ASSUME TypeOK, CrashOnlyAfterRestart', PortsAreFresh, PortServesOnePair,
                      [Next]_vars, restarts' = 0
               PROVE  /\ ~crashed'
                      /\ \A x \in MediaUse' : x.port <= callPort'
                      /\ \A x, y \in MediaUse' :
                            x.port = y.port => {x.name, x.peer} = {y.name, y.peer}
    BY DEF PortsAreFresh, PortServesOnePair
  <2>1. ~crashed'
    BY DEF CrashOnlyAfterRestart
  <2>2. restarts = 0 /\ ~ProxyRestart
    <3>1. ~ProxyRestart
      BY DEF ProxyRestart, Restart, TypeOK, ProxyTypeOK
    <3>2. UNCHANGED restarts
      BY <3>1, StepFacts, HeardFacts, MediaFacts
      DEF Next, ClientTimer, Lose, RejectName, RegisterUser, ProcessCall, PassCallCrashes,
          FailCall, AcceptCall
    <3> QED  BY <3>1, <3>2
  <2>3. CASE MediaUse' \subseteq MediaUse /\ callPort' = callPort
    BY <2>1, <2>2, <2>3 DEF PortsAreFresh, PortServesOnePair
  <2>4. ASSUME NEW m \in toProxy, ProxyStep(m), AcceptCall(m)
        PROVE  /\ \A x \in MediaUse' : x.port <= callPort'
               /\ \A x, y \in MediaUse' :
                     x.port = y.port => {x.name, x.peer} = {y.name, y.peer}
    <3>1. callPort \in Nat /\ callPort' = callPort + 1 /\ NextPort = callPort + 1
      BY <2>4 DEF AcceptCall, NextPort, TypeOK, ProxyTypeOK, Ports, NetworkAssumption
    <3>2. \A x \in NewUses(m) : x.port = NextPort /\ {x.name, x.peer} = {m.from, m.to}
      BY DEF NewUses
    <3>3. \A x \in MediaUse : x.port \in Nat /\ x.port <= callPort
      <4>1. SUFFICES ASSUME NEW x \in MediaUse PROVE x.port \in Nat
        BY <2>2 DEF PortsAreFresh
      <4>2. x.port \in Ports
        BY UseTypes
      <4> QED  BY <4>2 DEF Ports, NetworkAssumption
    <3>4. \A x \in MediaUse' : x \in MediaUse \/ x \in NewUses(m)
      BY <2>4, ProxyUses
    <3>5. \A x \in MediaUse : x.port # NextPort
      BY <3>1, <3>3
    <3>6. \A x \in MediaUse' : x.port <= callPort'
      BY <3>1, <3>2, <3>3, <3>4
    <3>7. \A x, y \in MediaUse' :
             x.port = y.port => {x.name, x.peer} = {y.name, y.peer}
      BY <2>2, <3>2, <3>4, <3>5 DEF PortServesOnePair
    <3> QED  BY <3>6, <3>7
  <2>5. ASSUME NEW m \in toProxy, ProxyStep(m), ~AcceptCall(m)
        PROVE  MediaUse' \subseteq MediaUse /\ callPort' = callPort
    <3>1. MediaUse' \subseteq MediaUse
      BY <2>5, ProxyUses
    <3>2. callPort' = callPort
      BY <2>5, StepFacts DEF RejectName, RegisterUser, ProcessCall, PassCallCrashes, FailCall
    <3> QED  BY <3>1, <3>2
  <2>6. CASE \A m \in toProxy : ~ProxyStep(m)
    <3>1. callPort' = callPort
      BY <2>2, <2>6, HeardFacts, MediaFacts DEF Next, ClientTimer, Lose
    <3> QED  BY <2>3, <2>6, <3>1, OtherUses, <2>1
  <2> QED  BY <2>1, <2>3, <2>4, <2>5, <2>6
<1>3. Spec => []CrashOnlyAfterRestart
  BY CrashNeedsRestart
<1> QED  BY <1>1, <1>2, <1>3, Typing, PTL DEF Spec

-----------------------------------------------------------------------------
LEMMA PortsFitIn16Bits == \A port \in Nat : port < 65536 => port % 65536 = port
OBVIOUS

PortsAreFree == BusyPorts = {} /\ FirstPort + MaxCalls < 65536

(* As long as the proxy has run since the start, it stays up and its table *)
(* only grows.                                                             *)
LEMMA FirstRun ==
    ASSUME TypeOK, CrashOnlyAfterRestart', [Next]_vars, restarts' = 0
    PROVE  restarts = 0 /\ ~crashed' /\ ~ProxyRestart
<1>1. ~ProxyRestart
  BY DEF ProxyRestart, Restart, TypeOK, ProxyTypeOK
<1>2. UNCHANGED restarts
  BY <1>1, StepFacts, HeardFacts, MediaFacts
  DEF Next, ClientTimer, Lose, RejectName, RegisterUser, ProcessCall, PassCallCrashes,
      FailCall, AcceptCall
<1> QED  BY <1>1, <1>2 DEF CrashOnlyAfterRestart

LEMMA OnlyProxyStepsChangeTable ==
    ASSUME TypeOK, [Next]_vars, ~ProxyRestart, \A m \in toProxy : ~ProxyStep(m)
    PROVE  UNCHANGED <<registerTable, callPort>> /\ (MediaStep \/ UNCHANGED sessions)
BY HeardFacts, MediaFacts DEF Next, ClientTimer, Lose

(* The addresses of those who use a port do not change under them.         *)
LEMMA UsersKeepAddress ==
    ASSUME NetworkAssumption, TypeOK, CrashOnlyAfterRestart', PortsHaveThreads,
           [Next]_vars, restarts' = 0, NEW x \in MediaUse
    PROVE  /\ Registered(x.name)' /\ Registered(x.peer)'
           /\ Address(x.name)' = Address(x.name) /\ Address(x.peer)' = Address(x.peer)
<1>1. x.name \in Users /\ x.peer \in Users /\ Registered(x.name) /\ Registered(x.peer)
  BY FirstRun, UseTypes DEF PortsHaveThreads
<1>2. CASE \A m \in toProxy : ~ProxyStep(m)
  BY <1>1, <1>2, FirstRun, OnlyProxyStepsChangeTable DEF Registered, Address
<1>3. ASSUME NEW m \in toProxy, ProxyStep(m)
      PROVE  /\ Registered(x.name)' /\ Registered(x.peer)'
             /\ Address(x.name)' = Address(x.name) /\ Address(x.peer)' = Address(x.peer)
  BY <1>1, <1>3, TableGrows
<1> QED  BY <1>2, <1>3

(* The thread set_media_path starts.                                       *)
LEMMA StartedThread ==
    ASSUME NetworkAssumption, TypeOK, PortsAreFree, NEW m \in toProxy, ProxyStep(m),
           AcceptCall(m)
    PROVE  /\ NextPort = callPort + 1 /\ callPort' = callPort + 1 /\ callPort \in Nat
           /\ sessions' = sessions \cup {StartedSession(m, NextPort)}
           /\ StartedSession(m, NextPort) =
                [port |-> NextPort, boundTo |-> NextPort,
                 hostUser |-> HostOf[Address(m.from)], hostPeer |-> HostOf[Address(m.to)],
                 svcUser |-> NoSocket, svcPeer |-> NoSocket, third |-> NoSocket]
           /\ m.from \in Users /\ m.to \in Users /\ Registered(m.from) /\ Registered(m.to)
<1>1. NextPort = callPort + 1 /\ callPort' = callPort + 1 /\ callPort \in Nat
      /\ callPort < FirstPort + MaxCalls
  BY DEF AcceptCall, NextPort, TypeOK, ProxyTypeOK, Ports, NetworkAssumption
<1>2. SetupSock(NextPort) = NextPort
  <2>1. NextPort \in Nat /\ NextPort < 65536
    BY <1>1 DEF PortsAreFree, NetworkAssumption
  <2> QED  BY <2>1, PortsFitIn16Bits DEF SetupSock, PortsAreFree
<1>3. m.from \in Users /\ m.to \in Users /\ Registered(m.from) /\ Registered(m.to)
  BY StepFacts, RequestKinds DEF AcceptCall, CallMessage
<1> QED  BY <1>1, <1>2, <1>3 DEF AcceptCall, StartedSession

(* No thread is lost but by a crash; one that hears a packet stays the     *)
(* same thread.                                                            *)
LEMMA ThreadsStay ==
    ASSUME TypeOK, CrashOnlyAfterRestart', [Next]_vars, restarts' = 0,
           NEW s \in sessions
    PROVE  \E t \in sessions' : SameThread(s, t)
<1>1. SameThread(s, s)
  BY DEF SameThread, TypeOK, ProxyTypeOK
<1>2. ASSUME NEW m \in toProxy, ProxyStep(m) PROVE s \in sessions'
  BY <1>2, FirstRun, StepFacts
  DEF RejectName, RegisterUser, ProcessCall, PassCallCrashes, FailCall, AcceptCall
<1>3. CASE MediaStep
  <2>1. PICK r \in sessions, t \in Session :
            SameThread(r, t) /\ sessions' = (sessions \ {r}) \cup {t}
    BY <1>3, MediaFacts
  <2> QED  BY <1>1, <2>1
<1>4. CASE (\A m \in toProxy : ~ProxyStep(m)) /\ ~MediaStep
  BY <1>1, <1>4, FirstRun, OnlyProxyStepsChangeTable
<1> QED  BY <1>1, <1>2, <1>3, <1>4

LEMMA PortsGetThreads ==
    ASSUME NetworkAssumption, TypeOK, PortsAreFree, PortsHaveThreads,
           CrashOnlyAfterRestart', [Next]_vars
    PROVE  PortsHaveThreads'
<1> SUFFICES ASSUME restarts' = 0, NEW x \in MediaUse'
             PROVE  /\ Registered(x.name)' /\ Registered(x.peer)'
                    /\ \E s \in sessions' :
                          /\ s.port = x.port
                          /\ s.boundTo = x.port
                          /\ {s.hostUser, s.hostPeer}
                                = {HostOf[Address(x.name)'], HostOf[Address(x.peer)']}
  BY DEF PortsHaveThreads, ListensToBoth
<1>1. CASE x \in MediaUse
  <2>1. PICK s \in sessions : ListensToBoth(s, x)
    BY <1>1, FirstRun DEF PortsHaveThreads
  <2>2. PICK t \in sessions' : SameThread(s, t)
    BY ThreadsStay
  <2> QED  BY <1>1, <2>1, <2>2, UsersKeepAddress DEF ListensToBoth, SameThread
<1>2. ASSUME NEW m \in toProxy, ProxyStep(m), AcceptCall(m), x \in NewUses(m)
      PROVE  /\ Registered(x.name)' /\ Registered(x.peer)'
             /\ \E s \in sessions' :
                   /\ s.port = x.port
                   /\ s.boundTo = x.port
                   /\ {s.hostUser, s.hostPeer}
                         = {HostOf[Address(x.name)'], HostOf[Address(x.peer)']}
  <2>1. \A u \in {m.from, m.to} : Registered(u)' /\ Address(u)' = Address(u)
    BY <1>2, StartedThread, TableGrows
  <2>2. x.port = NextPort /\ \/ x.name = m.from /\ x.peer = m.to
                             \/ x.name = m.to /\ x.peer = m.from
    BY <1>2 DEF NewUses
  <2> QED  BY <1>2, <2>1, <2>2, StartedThread
<1> QED  BY <1>1, <1>2, ProxyUses, OtherUses

(* A port is announced to, and used by, the clients at the two addresses.  *)
LEMMA NoticesReachAddresses ==
    ASSUME NetworkAssumption, ClientAssumption, TypeOK, PortsHaveThreads,
           NoticesGoToAddresses, CrashOnlyAfterRestart', [Next]_vars
    PROVE  NoticesGoToAddresses'
<1> SUFFICES ASSUME restarts' = 0
             PROVE  /\ \A n \in toClient' : n.body.type = "MEDIA_PORT"
                            => n.dst = Address(n.body.to)'
                    /\ \A c \in Clients : media'[c] # << >> => c = Address(NameOf[c])'
  BY DEF NoticesGoToAddresses, MediaNotice
<1>1. ASSUME NEW n \in toClient, n.body.type = "MEDIA_PORT"
      PROVE  n.dst = Address(n.body.to) /\ n.dst = Address(n.body.to)'
  <2>1. NoticedUse(n) \in MediaUse
    BY <1>1, MediaUseMembers
  <2>2. NoticedUse(n).name = n.body.to
    BY DEF NoticedUse
  <2>3. n.dst = Address(n.body.to)
    BY <1>1, FirstRun DEF NoticesGoToAddresses, MediaNotice
  <2>4. Address(NoticedUse(n).name)' = Address(NoticedUse(n).name)
    BY <2>1, UsersKeepAddress
  <2> QED  BY <2>2, <2>3, <2>4 DEF NoticedUse, Address
<1>2. ASSUME NEW c \in Clients, media[c] # << >>
      PROVE  c = Address(NameOf[c]) /\ c = Address(NameOf[c])'
  <2>1. 1 \in DOMAIN media[c]
    BY <1>2 DEF TypeOK, ClientTypeOK
  <2>2. SocketUse(c, 1) \in MediaUse
    BY <2>1, MediaUseMembers
  <2>3. SocketUse(c, 1).name = NameOf[c]
    BY DEF SocketUse
  <2>4. c = Address(NameOf[c])
    BY <1>2, FirstRun DEF NoticesGoToAddresses
  <2>5. PICK x \in MediaUse : x.name = NameOf[c]
    BY <2>2, <2>3
  <2>6. Address(x.name)' = Address(x.name)
    BY UsersKeepAddress
  <2> QED  BY <2>4, <2>5, <2>6 DEF Address
<1>3. ASSUME NEW n \in toClient', n \notin toClient, n.body.type = "MEDIA_PORT"
      PROVE  n.dst = Address(n.body.to)'
  <2>1. PICK m \in toProxy : ProxyStep(m)
    BY <1>3, FirstRun, MediaFacts, HeardFacts
    DEF Next, ProxyRestart, Start, Stop, ClientTimer, SendRegister, Lose
  <2>2. AcceptCall(m)
    <3>1. n.body # UnknownPeer /\ n.body # AckRegister
      BY <1>3, UnknownPeerIsNoCall DEF AckRegister
    <3>2. ~RegisterUser(m) /\ ~FailCall(m)
      BY <1>3, <3>1 DEF RegisterUser, FailCall, PassedCall, Send
    <3>3. ~ProcessCall(m)
      BY <1>3, <3>1 DEF ProcessCall, Send
    <3> QED  BY <1>3, <2>1, <3>2, <3>3, StepFacts DEF RejectName, PassCallCrashes
  <2>3. n \in MediaNotices(m, NextPort)
    BY <1>3, <2>2 DEF AcceptCall, PassedCall, Send
  <2>4. \A u \in {m.from, m.to} : Address(u)' = Address(u)
    BY <2>1, <2>2, StepFacts, RequestKinds, TableGrows DEF AcceptCall, CallMessage
  <2>5. n.dst = Address(n.body.to) /\ n.body.to \in {m.from, m.to}
    BY <2>3 DEF MediaNotices
  <2>6. PICK u \in {m.from, m.to} : u = n.body.to
    BY <2>5
  <2>7. n.dst = Address(u) /\ Address(u)' = Address(u)
    BY <2>4, <2>5, <2>6
  <2> QED  BY <2>6, <2>7 DEF Address
<1>4. ASSUME NEW c \in Clients, media'[c] # << >>, media[c] = << >>
      PROVE  c = Address(NameOf[c])'
  <2>1. PICK n \in toClient : HandleMedia(n)
    <3>1. \A d \in Clients : Stop(d) => media'[c] = << >> \/ media'[c] = media[c]
      BY DEF Stop, TypeOK, ClientTypeOK
    <3> QED  BY <1>4, <3>1, StepFacts, MediaFacts, HeardFacts
             DEF Next, ProxyRestart, Restart, Start, ClientTimer, SendRegister, Lose,
                 Unreachable, HearOutcome, HandleCall
  <2>2. c = n.dst /\ n.body.type = "MEDIA_PORT" /\ n.body.to = NameOf[n.dst]
    BY <1>4, <2>1 DEF HandleMedia, TypeOK, ClientTypeOK
  <2>3. n.dst = Address(n.body.to)'
    BY <1>1, <2>2
  <2> QED  BY <2>2, <2>3 DEF Address
<1>5. \A n \in toClient' : n.body.type = "MEDIA_PORT" => n.dst = Address(n.body.to)'
  BY <1>1, <1>3
<1>6. \A c \in Clients : media'[c] # << >> => c = Address(NameOf[c])'
  BY <1>2, <1>4
<1> QED  BY <1>5, <1>6

(* What a thread listens to, and what it has heard.                        *)
ThreadIsSound(s) ==
    /\ s.boundTo = s.port /\ s.port <= callPort
    /\ s.svcUser # NoSocket => s.svcUser # s.svcPeer
    /\ s.third # NoSocket => BothKnown(s) /\ s.third \notin {s.svcUser, s.svcPeer}

HeardUsersOf(s, x) ==
    x.port = s.port =>
        \A source \in Sources(s) : source[1] \in {Address(x.name), Address(x.peer)}

LEMMA SourcesAreUsersInParts ==
    /\ SourcesAreUsers <=>
          (restarts = 0 => \A s \in sessions : /\ ThreadIsSound(s)
                                               /\ \A x \in MediaUse : HeardUsersOf(s, x))
BY DEF SourcesAreUsers, ThreadIsSound, HeardUsersOf

(* A packet adds its own source only, and never one twice.                 *)
LEMMA OneMoreSource ==
    ASSUME ProxyAssumption, NEW s \in Session, NEW t \in Session, NEW source \in Socket,
           Heard(s, t, source), SameThread(s, t), ThreadIsSound(s)
    PROVE  Sources(t) \subseteq Sources(s) \cup {source} /\ ThreadIsSound(t)
<1>1. source # NoSocket
  BY DEF ProxyAssumption
<1>2. CASE BothKnown(s)
  <2>1. s.third = NoSocket /\ source \notin {s.svcUser, s.svcPeer}
        /\ t = [s EXCEPT !.third = source]
    BY <1>2 DEF Heard
  <2>2. t.third = source /\ t.svcUser = s.svcUser /\ t.svcPeer = s.svcPeer
    BY <2>1 DEF Session
  <2> QED  BY <1>2, <2>1, <2>2 DEF Sources, ThreadIsSound, SameThread, BothKnown
<1>3. CASE ~BothKnown(s)
  <2> DEFINE u == LearnUser(s, source)
  <2>1. t = LearnPeer(u, source)
    BY <1>3 DEF Heard
  <2>2. s.third = NoSocket
    BY <1>3 DEF ThreadIsSound
  <2>3. /\ u \in Session /\ u.third = NoSocket /\ u.svcPeer = s.svcPeer
        /\ u.svcUser \in {s.svcUser, source}
        /\ u.svcUser # NoSocket => u.svcUser # u.svcPeer
    BY <1>1, <2>2 DEF LearnUser, Session, ThreadIsSound
  <2> HIDE DEF u
  <2>4. /\ t.third = NoSocket /\ t.svcUser = u.svcUser
        /\ t.svcPeer \in {u.svcPeer, source}
        /\ t.svcUser # NoSocket => t.svcUser # t.svcPeer
    BY <1>1, <2>1, <2>3 DEF LearnPeer, Session
  <2> QED  BY <2>3, <2>4 DEF Sources, ThreadIsSound, SameThread
<1> QED  BY <1>2, <1>3

(* Every step but a packet leaves each thread what it has heard, and who   *)
(* may send to it.                                                         *)
LEMMA SourcesStay ==
    ASSUME NetworkAssumption, ProxyAssumption, TypeOK, PortsAreFree,
           PortsHaveThreads, SourcesAreUsers, CrashOnlyAfterRestart', [Next]_vars,
           restarts' = 0, ~MediaStep, NEW s \in sessions'
    PROVE  ThreadIsSound(s)' /\ \A x \in MediaUse' : HeardUsersOf(s, x)'
<1>0. restarts = 0 /\ ~ProxyRestart
  BY FirstRun
<1>1. \A r \in sessions : ThreadIsSound(r) /\ \A x \in MediaUse : HeardUsersOf(r, x)
  BY <1>0, SourcesAreUsersInParts
<1>2. ASSUME s \in sessions, callPort' \in Nat, callPort <= callPort',
             \A x \in MediaUse' : x \in MediaUse \/ x.port > callPort
      PROVE  ThreadIsSound(s)' /\ \A x \in MediaUse' : HeardUsersOf(s, x)'
  <2>1. s.port \in Nat /\ callPort \in Nat
    BY <1>2 DEF TypeOK, ProxyTypeOK, Session, Ports, NetworkAssumption
  <2>2. ThreadIsSound(s)'
    <3>1. s.port <= callPort'
      BY <1>1, <1>2, <2>1 DEF ThreadIsSound
    <3> QED  BY <1>1, <1>2, <3>1 DEF ThreadIsSound, BothKnown
  <2>3. ASSUME NEW x \in MediaUse' PROVE HeardUsersOf(s, x)'
    <3>1. CASE x \in MediaUse
      BY <1>1, <1>2, <3>1, UsersKeepAddress DEF HeardUsersOf, Sources
    <3>2. CASE x.port > callPort
      <4>1. s.port <= callPort
        BY <1>1, <1>2 DEF ThreadIsSound
      <4>2. x.port # s.port
        BY <2>1, <3>2, <4>1
      <4> QED  BY <4>2 DEF HeardUsersOf
    <3> QED  BY <1>2, <3>1, <3>2
  <2> QED  BY <2>2, <2>3
<1>3. ASSUME NEW m \in toProxy, ProxyStep(m), AcceptCall(m)
      PROVE  ThreadIsSound(s)' /\ \A x \in MediaUse' : HeardUsersOf(s, x)'
  <2>1. NextPort = callPort + 1 /\ callPort' = callPort + 1 /\ callPort \in Nat
    BY <1>3, StartedThread
  <2>2. CASE s \in sessions
    <3>1. \A x \in MediaUse' : x \in MediaUse \/ x.port > callPort
      BY <1>3, <2>1, ProxyUses DEF NewUses
    <3> QED  BY <1>2, <2>1, <2>2, <3>1
  <2>3. CASE s = StartedSession(m, NextPort)
    <3>1. /\ s.port = callPort' /\ s.boundTo = callPort'
          /\ s.svcUser = NoSocket /\ s.svcPeer = NoSocket /\ s.third = NoSocket
      <4>1. s = [port |-> NextPort, boundTo |-> NextPort,
                 hostUser |-> HostOf[Address(m.from)], hostPeer |-> HostOf[Address(m.to)],
                 svcUser |-> NoSocket, svcPeer |-> NoSocket, third |-> NoSocket]
        BY <1>3, <2>3, StartedThread
      <4> QED  BY <2>1, <4>1
    <3>2. callPort' <= callPort'
      BY <2>1
    <3>3. ThreadIsSound(s)'
      BY <3>1, <3>2 DEF ThreadIsSound
    <3>4. Sources(s) = {}
      BY <3>1 DEF Sources
    <3> QED  BY <3>3, <3>4 DEF HeardUsersOf, Sources
  <2> QED  BY <1>3, <2>2, <2>3, StartedThread
<1>4. ASSUME NEW m \in toProxy, ProxyStep(m), ~AcceptCall(m)
      PROVE  ThreadIsSound(s)' /\ \A x \in MediaUse' : HeardUsersOf(s, x)'
  <2>1. UNCHANGED callPort /\ s \in sessions
    BY <1>4, StepFacts DEF RejectName, RegisterUser, ProcessCall, PassCallCrashes, FailCall
  <2>2. callPort \in Nat
    BY DEF TypeOK, ProxyTypeOK, Ports, NetworkAssumption
  <2> QED  BY <1>2, <1>4, <2>1, <2>2, ProxyUses
<1>5. CASE \A m \in toProxy : ~ProxyStep(m)
  <2>1. UNCHANGED callPort /\ s \in sessions
    BY <1>0, <1>5, OnlyProxyStepsChangeTable
  <2>2. callPort \in Nat
    BY DEF TypeOK, ProxyTypeOK, Ports, NetworkAssumption
  <2> QED  BY <1>2, <1>5, <2>1, <2>2, OtherUses
<1> QED  BY <1>3, <1>4, <1>5

(* A packet comes from a client that was told of the port.                 *)
LEMMA HeardSourceIsUser ==
    ASSUME NetworkAssumption, TypeOK, PortServesOnePair, NoticesGoToAddresses,
           restarts = 0, NEW c \in Clients, NEW i \in DOMAIN media[c],
           NEW x \in MediaUse, x.port = media[c][i].port
    PROVE  c \in {Address(x.name), Address(x.peer)}
<1>1. SocketUse(c, i) \in MediaUse
  BY MediaUseMembers
<1>2. SocketUse(c, i).port = media[c][i].port /\ SocketUse(c, i).name = NameOf[c]
  BY DEF SocketUse
<1>3. PICK y \in MediaUse : y.port = x.port /\ y.name = NameOf[c]
  BY <1>1, <1>2
<1>4. y.name \in {x.name, x.peer}
  BY <1>3 DEF PortServesOnePair
<1>5. media[c] # << >>
  BY DEF TypeOK, ClientTypeOK
<1>6. c = Address(NameOf[c])
  BY <1>5 DEF NoticesGoToAddresses
<1> QED  BY <1>3, <1>4, <1>6

LEMMA PacketsKeepSources ==
    ASSUME NetworkAssumption, ProxyAssumption, TypeOK, PortServesOnePair,
           NoticesGoToAddresses, SourcesAreUsers, MediaStep
    PROVE  SourcesAreUsers'
<1>1. UNCHANGED <<networkVars, clientVars, registerTable, callPort, crashed, restarts>>
  BY MediaFacts
<1>2. UNCHANGED MediaUse
  BY <1>1 DEF MediaUse, MediaNotice
<1> SUFFICES ASSUME restarts = 0, NEW r \in sessions'
             PROVE  ThreadIsSound(r) /\ \A x \in MediaUse : HeardUsersOf(r, x)
  <2>1. \A r : ThreadIsSound(r)' <=> ThreadIsSound(r)
    BY <1>1 DEF ThreadIsSound, BothKnown
  <2>2. \A r, x : HeardUsersOf(r, x)' <=> HeardUsersOf(r, x)
    BY <1>1 DEF HeardUsersOf, Sources, Address
  <2>3. SourcesAreUsers' <=>
          (restarts' = 0 => \A r \in sessions' : /\ ThreadIsSound(r)'
                                                 /\ \A x \in MediaUse' : HeardUsersOf(r, x)')
    BY DEF SourcesAreUsers, ThreadIsSound, HeardUsersOf
  <2> QED  BY <1>1, <1>2, <2>1, <2>2, <2>3
<1>3. \A q \in sessions : ThreadIsSound(q) /\ \A x \in MediaUse : HeardUsersOf(q, x)
  BY SourcesAreUsersInParts
<1>4. PICK s \in sessions, c \in Clients : \E i \in DOMAIN media[c] :
         /\ media[c][i].port = s.boundTo
         /\ <<c, i>> \in Socket
         /\ \E t \in Session : /\ Heard(s, t, <<c, i>>)
                               /\ SameThread(s, t)
                               /\ sessions' = (sessions \ {s}) \cup {t}
  BY MediaFacts
<1>5. PICK i \in DOMAIN media[c] :
         /\ media[c][i].port = s.boundTo
         /\ <<c, i>> \in Socket
         /\ \E t \in Session : /\ Heard(s, t, <<c, i>>)
                               /\ SameThread(s, t)
                               /\ sessions' = (sessions \ {s}) \cup {t}
  BY <1>4
<1>6. PICK t \in Session : /\ Heard(s, t, <<c, i>>)
                           /\ SameThread(s, t)
                           /\ sessions' = (sessions \ {s}) \cup {t}
  BY <1>5
<1>7. s \in Session
  BY DEF TypeOK, ProxyTypeOK
<1>8. Sources(t) \subseteq Sources(s) \cup {<<c, i>>} /\ ThreadIsSound(t)
  BY <1>3, <1>5, <1>6, <1>7, OneMoreSource
<1>9. ASSUME NEW x \in MediaUse, x.port = t.port, NEW source \in Sources(t)
      PROVE  source[1] \in {Address(x.name), Address(x.peer)}
  <2>1. t.port = s.port /\ s.port = s.boundTo
    BY <1>3, <1>6 DEF SameThread, ThreadIsSound
  <2>2. CASE source \in Sources(s)
    BY <1>3, <1>9, <2>1, <2>2 DEF HeardUsersOf
  <2>3. CASE source = <<c, i>>
    <3>1. c \in {Address(x.name), Address(x.peer)}
      BY <1>5, <1>9, <2>1, HeardSourceIsUser
    <3> QED  BY <2>3, <3>1
  <2> QED  BY <1>8, <2>2, <2>3
<1> QED  BY <1>3, <1>6, <1>8, <1>9 DEF HeardUsersOf

(* Three different sockets of two clients: two are of one.                 *)
LEMMA ThirdIsASecondSocket ==
    ASSUME NEW s \in Session, ThreadIsSound(s), NEW x, HeardUsersOf(s, x), x.port = s.port,
           s.third # NoSocket
    PROVE  HearsTwoOfOne(s)
<1>1. /\ BothKnown(s) /\ s.third \notin {s.svcUser, s.svcPeer} /\ s.svcUser # s.svcPeer
      /\ s.svcUser # NoSocket /\ s.svcPeer # NoSocket
  BY DEF ThreadIsSound, BothKnown
<1>2. {s.svcUser, s.svcPeer, s.third} \subseteq Sources(s)
  BY <1>1 DEF Sources
<1>3. \A source \in {s.svcUser, s.svcPeer, s.third} :
          source[1] \in {Address(x.name), Address(x.peer)}
  BY <1>2 DEF HeardUsersOf
<1>4. \E a, b \in {s.svcUser, s.svcPeer, s.third} : a # b /\ a[1] = b[1]
  BY <1>1, <1>3
<1> QED  BY <1>2, <1>4 DEF HearsTwoOfOne

(* If bind() never fails, every announced port has its thread: with no     *)
(* busy port and at most 65535 as the last port handed out, whoever was    *)
(* told a port finds a socket there that listens to both users' machines,  *)
(* and the packets of the sockets the two clients make from one MEDIA_PORT *)
(* each never end the thread, in whatever order they arrive: only a second *)
(* socket of one of the two does, not a client of another call.            *)
THEOREM AnnouncedPortsAreServed ==
    ASSUME NetworkAssumption, ProxyAssumption, ClientAssumption,
           PortsAreFree
    PROVE  Spec => []AnnouncedPortIsServed
<1> DEFINE Inv == PortsHaveThreads /\ NoticesGoToAddresses /\ SourcesAreUsers
<1>1. Init => Inv
  <2> SUFFICES ASSUME Init PROVE Inv
    OBVIOUS
  <2>1. MediaNotice = {} /\ sessions = {} /\ \A c \in Clients : media[c] = << >>
    BY DEF Init, NetworkInit, ProxyInit, ClientInit, MediaNotice
  <2> QED  BY <2>1, NoUsesAtFirst DEF PortsHaveThreads, NoticesGoToAddresses, SourcesAreUsers
<1>2. TypeOK /\ CrashOnlyAfterRestart' /\ PortServesOnePair /\ Inv /\ [Next]_vars => Inv'
  <2> SUFFICES ASSUME TypeOK, CrashOnlyAfterRestart', PortServesOnePair, Inv, [Next]_vars
               PROVE  Inv'
    OBVIOUS
  <2>1. PortsHaveThreads'
    BY PortsGetThreads
  <2>2. NoticesGoToAddresses'
    BY NoticesReachAddresses
  <2>3. SourcesAreUsers'
    <3>1. CASE MediaStep /\ restarts' = 0
      <4>1. restarts = 0
        BY <3>1, FirstRun
      <4> QED  BY <3>1, <4>1, PacketsKeepSources
    <3>2. ASSUME ~MediaStep, restarts' = 0, NEW s \in sessions'
          PROVE  ThreadIsSound(s)' /\ \A x \in MediaUse' : HeardUsersOf(s, x)'
      BY <3>2, SourcesStay
    <3>3. CASE restarts' # 0
      BY <3>3 DEF SourcesAreUsers
    <3> QED  BY <3>1, <3>2, <3>3 DEF SourcesAreUsers, ThreadIsSound, HeardUsersOf
  <2> QED  BY <2>1, <2>2, <2>3
<1>3. TypeOK /\ Inv => AnnouncedPortIsServed
  <2> SUFFICES ASSUME TypeOK, Inv, restarts = 0, NEW x \in MediaUse
               PROVE  \E s \in sessions :
                         ListensToBoth(s, x) /\ (s.third = NoSocket \/ HearsTwoOfOne(s))
    BY DEF AnnouncedPortIsServed
  <2>1. PICK s \in sessions : ListensToBoth(s, x)
    BY DEF PortsHaveThreads
  <2>2. s \in Session /\ x.port = s.port
    BY <2>1 DEF TypeOK, ProxyTypeOK, ListensToBoth
  <2>3. ThreadIsSound(s) /\ HeardUsersOf(s, x)
    BY SourcesAreUsersInParts
  <2> QED  BY <2>1, <2>2, <2>3, ThirdIsASecondSocket
<1>4. Spec => []CrashOnlyAfterRestart
  BY CrashNeedsRestart
<1>5. Spec => []PortServesOnePair
  BY PortsAreNotShared
<1> QED  BY <1>1, <1>2, <1>3, <1>4, <1>5, Typing, PTL DEF Spec

-----------------------------------------------------------------------------
(* What a port is used for is in the notices to both users.                *)
LEMMA NewUsesAreAnnounced ==
    ASSUME TypeOK, NEW m \in toProxy, ProxyStep(m), AcceptCall(m)
    PROVE  MediaUse' = MediaUse \cup NewUses(m)
<1>1. MediaUse' \subseteq MediaUse \cup NewUses(m)
  BY ProxyUses
<1>2. toClient' = toClient \cup {PassedCall(m)} \cup MediaNotices(m, NextPort)
  BY DEF AcceptCall, Send
<1>3. UNCHANGED media
  BY StepFacts
<1>4. \A x : (\E n \in toClient' : n.body.type = "MEDIA_PORT" /\ x = NoticedUse(n))
              => x \in MediaUse'
  BY DEF MediaUse, MediaNotice, NoticedUse
<1>5. MediaUse \subseteq MediaUse'
  <2> SUFFICES ASSUME NEW x \in MediaUse PROVE x \in MediaUse'
    OBVIOUS
  <2>1. CASE \E n \in toClient : n.body.type = "MEDIA_PORT" /\ x = NoticedUse(n)
    BY <1>2, <1>4, <2>1
  <2>2. CASE \E c \in Clients : \E i \in DOMAIN media[c] : x = SocketUse(c, i)
    BY <1>3, <2>2 DEF MediaUse, SocketUse
  <2> QED  BY <2>1, <2>2, MediaUseMembers
<1>6. NewUses(m) \subseteq MediaUse'
  <2> SUFFICES ASSUME NEW x \in NewUses(m) PROVE x \in MediaUse'
    OBVIOUS
  <2>1. \E n \in MediaNotices(m, NextPort) : n.body.type = "MEDIA_PORT" /\ x = NoticedUse(n)
    BY DEF NewUses, MediaNotices, NoticedUse
  <2> QED  BY <1>2, <1>4, <2>1
<1> QED  BY <1>1, <1>5, <1>6

(* A call in flight was made by a client that was started to make it.      *)
LEMMA CallsMade ==
    ASSUME NetworkAssumption, ProxyAssumption, ClientAssumption
    PROVE  Spec => []CallsWereMade
<1>1. Init => CallsWereMade
  BY DEF Init, NetworkInit, CallsWereMade
<1>2. TypeOK /\ CallsWereMade /\ [Next]_vars => CallsWereMade'
  <2> SUFFICES ASSUME TypeOK, CallsWereMade, [Next]_vars PROVE CallsWereMade'
    OBVIOUS
  <2>1. ASSUME Called \subseteq Called',
               \A m \in toProxy' : m.type = "CALL"
                    => m \in toProxy \/ <<m.from, m.to>> \in Called',
               \A n \in toClient' : n.body.type = "CALL"
                    => n \in toClient \/ <<n.body.from, n.body.to>> \in Called
        PROVE  CallsWereMade'
    BY <2>1 DEF CallsWereMade
  <2>2. UNCHANGED started => UNCHANGED Called
    BY DEF Called
  <2>3. ASSUME NEW m \in toProxy, ProxyStep(m) PROVE CallsWereMade'
    <3>1. toProxy' \subseteq toProxy /\ UNCHANGED started
      BY <2>3, StepFacts
    <3>2. ASSUME NEW n \in toClient', n \notin toClient, n.body.type = "CALL"
          PROVE  <<n.body.from, n.body.to>> \in Called
      <4>1. CASE RegisterUser(m)
        BY <3>2, <4>1 DEF RegisterUser, Send, AckRegister
      <4>2. CASE ProcessCall(m)
        <5>1. n.body # UnknownPeer
          BY <3>2, UnknownPeerIsNoCall
        <5>2. n.body = m /\ m.type = "CALL"
          BY <3>2, <4>2, <5>1 DEF ProcessCall, Send
        <5> QED  BY <5>2 DEF CallsWereMade
      <4>3. CASE FailCall(m)
        BY <3>2, <4>3 DEF FailCall, PassedCall, Send
      <4>4. CASE AcceptCall(m)
        BY <3>2, <4>4 DEF AcceptCall, PassedCall, MediaNotices, Send
      <4> QED  BY <2>3, <3>2, <4>1, <4>2, <4>3, <4>4, StepFacts
               DEF RejectName, PassCallCrashes
    <3> QED  BY <2>1, <2>2, <3>1, <3>2
  <2>4. ASSUME NEW c \in Clients, Start(c) PROVE CallsWereMade'
    <3>1. Called \subseteq Called'
      BY <2>4 DEF Called, Start
    <3>2. TheirName[c] # Nobody => <<NameOf[c], TheirName[c]>> \in Called'
      BY <2>4 DEF Called, Start
    <3>3. \A m \in toProxy' : m.type = "CALL"
                => m \in toProxy \/ <<m.from, m.to>> \in Called'
      BY <2>4, <3>2 DEF Start, MyRegistration, MyCall
    <3> QED  BY <2>1, <2>4, <3>1, <3>3 DEF Start
  <2>5. ASSUME NEW n \in toClient, ClientStep(n) PROVE CallsWereMade'
    <3>1. UNCHANGED started /\ toClient' \subseteq toClient
      BY <2>5, HeardFacts DEF Unreachable, HearOutcome, HandleCall, HandleMedia
    <3>2. \A m \in toProxy' : m.type = "CALL" => m \in toProxy
      <4>1. CASE HandleCall(n)
        BY <4>1 DEF HandleCall, ClientAssumption
      <4> QED  BY <2>5, <4>1, HeardFacts DEF Unreachable, HearOutcome, HandleMedia
    <3> QED  BY <2>1, <2>2, <3>1, <3>2
  <2>6. ASSUME UNCHANGED started, toClient' \subseteq toClient,
               \A m \in toProxy' : m.type = "CALL" => m \in toProxy
        PROVE  CallsWereMade'
    BY <2>1, <2>2, <2>6
  <2>7. CASE MediaStep
    <3>1. UNCHANGED <<started, toClient, toProxy>>
      BY <2>7, MediaFacts
    <3> QED  BY <2>6, <3>1
  <2> QED  BY <2>3, <2>4, <2>5, <2>6, <2>7
           DEF Next, ProxyRestart, Restart, Stop, ClientTimer, SendRegister, MyRegistration, Lose
<1> QED  BY <1>1, <1>2, Typing, PTL DEF Spec

(* What a step means to the switchboard.                                   *)
LEMMA ProxyStepOnBoard ==
    ASSUME NetworkAssumption, TypeOK, AcceptsAreRecorded, NEW m \in toProxy, ProxyStep(m)
    PROVE  [Board!Next]_Board!switchVars
<1>1. UNCHANGED <<Called, accepted>>
  BY StepFacts DEF Called
<1>2. CASE AcceptCall(m)
  <2>1. m.from \in Users /\ m.to \in Users /\ <<m.from, m.to>> \in accepted
    BY <1>2, StepFacts, RequestKinds DEF AcceptCall, CallMessage, AcceptsAreRecorded
  <2>2. /\ FirstPort \in Nat /\ MaxCalls \in Nat /\ callPort \in Nat
        /\ callPort >= FirstPort /\ callPort < FirstPort + MaxCalls /\ callPort' = callPort + 1
    BY <1>2 DEF AcceptCall, NextPort, TypeOK, ProxyTypeOK, Ports, NetworkAssumption
  <2>3. callPort + 1 \in Ports \ (FirstPort + 1 .. callPort)
    BY <2>2 DEF Ports
  <2>4. (FirstPort + 1 .. callPort)' = (FirstPort + 1 .. callPort) \cup {callPort + 1}
    BY <2>2
  <2>5. MediaUse' = MediaUse \cup {Board!Use(callPort + 1, m.to, m.from),
                                  Board!Use(callPort + 1, m.from, m.to)}
    BY <1>2, NewUsesAreAnnounced DEF NewUses, Board!Use, NextPort
  <2>6. Board!Connect
    BY <1>1, <2>1, <2>3, <2>4, <2>5 DEF Board!Connect
  <2> QED  BY <2>6 DEF Board!Next
<1>3. CASE ~AcceptCall(m)
  <2>1. UNCHANGED callPort
    BY <1>3, StepFacts DEF RejectName, RegisterUser, ProcessCall, PassCallCrashes, FailCall
  <2>2. MediaUse' \subseteq MediaUse
    BY <1>3, ProxyUses
  <2>3. Board!Forget
    BY <1>1, <2>1, <2>2 DEF Board!Forget
  <2> QED  BY <2>3 DEF Board!Next
<1> QED  BY <1>2, <1>3

LEMMA ClientStepOnBoard ==
    ASSUME NetworkAssumption, TypeOK, CallsWereMade, NEW n \in toClient, ClientStep(n)
    PROVE  [Board!Next]_Board!switchVars
<1>1. UNCHANGED <<Called, callPort>> /\ MediaUse' \subseteq MediaUse
  BY HeardFacts, ClientUses
  DEF Unreachable, HearOutcome, HandleCall, HandleMedia, Called
<1>2. CASE accepted' = accepted
  <2>1. Board!Forget
    BY <1>1, <1>2 DEF Board!Forget
  <2> QED  BY <2>1 DEF Board!Next
<1>3. CASE accepted' # accepted
  <2>1. HandleCall(n)
    BY <1>3, HeardFacts DEF Unreachable, HearOutcome, HandleMedia
  <2>2. accepted' = accepted \cup {<<n.body.to, n.body.from>>}
    BY <1>3, <2>1 DEF HandleCall
  <2>3. n.body.from \in Users /\ n.body.to \in Users /\ <<n.body.from, n.body.to>> \in Called
    BY <2>1, HeardFacts, NoticeKinds DEF HandleCall, CallMessage, CallsWereMade
  <2>4. MediaUse' = MediaUse
    <3>1. UNCHANGED media /\ \A q : q.body.type = "MEDIA_PORT" => (q \in toClient' <=> q \in toClient)
      BY <2>1 DEF HandleCall, Receive, AfterReceiving
    <3>2. UNCHANGED MediaNotice
      BY <3>1 DEF MediaNotice
    <3> QED  BY <3>1, <3>2 DEF MediaUse
  <2>5. Board!Agree
    BY <1>1, <2>2, <2>3, <2>4 DEF Board!Agree
  <2> QED  BY <2>5 DEF Board!Next
<1> QED  BY <1>2, <1>3

LEMMA StartOnBoard ==
    ASSUME NetworkAssumption, ClientAssumption, NEW c \in Clients, Start(c),
           UNCHANGED proxyVars
    PROVE  [Board!Next]_Board!switchVars
<1>1. UNCHANGED <<accepted, callPort, MediaUse>>
  BY DEF Start, MediaUse, MediaNotice
<1>2. CASE TheirName[c] = Nobody
  <2>1. UNCHANGED Called
    BY <1>2 DEF Start, Called
  <2> QED  BY <1>1, <2>1 DEF Board!switchVars
<1>3. CASE TheirName[c] # Nobody
  <2>1. Called' = Called \cup {<<NameOf[c], TheirName[c]>>}
    BY <1>3 DEF Start, Called
  <2>2. NameOf[c] \in Users /\ TheirName[c] \in Users
    BY <1>3 DEF NetworkAssumption, ClientAssumption
  <2>3. Board!Call
    BY <1>1, <2>1, <2>2 DEF Board!Call
  <2> QED  BY <2>3 DEF Board!Next
<1> QED  BY <1>2, <1>3

(* Call set-up implements the switchboard: whatever the network loses,     *)
(* repeats or reorders, whoever hangs up, stops or registers again, the    *)
(* proxy and its clients only ever make calls, accept calls that were      *)
(* made, give a fresh port to the two users of an accepted call, in one    *)
(* step for both, and forget.                                              *)
THEOREM SwitchboardImplemented ==
    ASSUME NetworkAssumption, ProxyAssumption, ClientAssumption
    PROVE  Spec => ImplementsSwitchboard
<1>1. Init => Board!Init
  <2> SUFFICES ASSUME Init PROVE Board!Init
    OBVIOUS
  <2>1. Called = {} /\ accepted = {}
    BY DEF Init, ClientInit, Called
  <2>2. FirstPort + 1 .. callPort = {}
    BY DEF Init, ProxyInit, NetworkAssumption
  <2> QED  BY <2>1, <2>2, NoUsesAtFirst DEF Board!Init
<1>2. TypeOK /\ AcceptsAreRecorded /\ CallsWereMade /\ [Next]_vars
        => [Board!Next]_Board!switchVars
  <2> SUFFICES ASSUME TypeOK, AcceptsAreRecorded, CallsWereMade, [Next]_vars
               PROVE  [Board!Next]_Board!switchVars
    OBVIOUS
  <2>1. ASSUME NEW m \in toProxy, ProxyStep(m) PROVE [Board!Next]_Board!switchVars
    BY <2>1, ProxyStepOnBoard
  <2>2. ASSUME NEW n \in toClient, ClientStep(n) PROVE [Board!Next]_Board!switchVars
    BY <2>2, ClientStepOnBoard
  <2>3. ASSUME NEW c \in Clients, Start(c), UNCHANGED proxyVars
        PROVE  [Board!Next]_Board!switchVars
    BY <2>3, StartOnBoard
  <2>4. CASE ProxyRestart
    <3>1. UNCHANGED <<Called, accepted, MediaUse>>
      BY <2>4 DEF ProxyRestart, Restart, Called, MediaUse, MediaNotice
    <3>2. (FirstPort + 1 .. callPort)' = {}
      BY <2>4 DEF ProxyRestart, Restart, NetworkAssumption
    <3>3. Board!Restart
      BY <3>1, <3>2 DEF Board!Restart
    <3> QED  BY <3>3 DEF Board!Next
  <2>5. ASSUME \A m \in toProxy : ~ProxyStep(m), UNCHANGED <<started, accepted, callPort>>
        PROVE  [Board!Next]_Board!switchVars
    <3>1. MediaUse' \subseteq MediaUse
      BY <2>5, OtherUses
    <3>2. Board!Forget
      BY <2>5, <3>1 DEF Board!Forget, Called
    <3> QED  BY <3>2 DEF Board!Next
  <2>6. MediaStep => UNCHANGED <<started, accepted, callPort>>
    BY MediaFacts
  <2> QED  BY <2>1, <2>2, <2>3, <2>4, <2>5, <2>6 DEF Next, Stop, ClientTimer, SendRegister, Lose
<1> QED  BY <1>1, <1>2, Typing, AcceptsRecorded, CallsMade, PTL
         DEF Spec, Board!Spec, ImplementsSwitchboard
=============================================================================
