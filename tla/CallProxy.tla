----------------------------- MODULE CallProxy -----------------------------
(***************************************************************************)
(* The signalling thread of the streaming proxy: main() of                 *)
(* Project2/main.cpp and the handlers it calls for each datagram; and how  *)
(* the threads it starts for the calls learn their two sources, and end    *)
(* (what they relay is in MediaSession).                                   *)
(*                                                                         *)
(* The handler of an ACK_CALL or a CALL_FAILED looks both users up with    *)
(* register_table[user][0] and no test: for a name that was never          *)
(* registered operator[] inserts an empty vector and element 0 of it is    *)
(* read through a null pointer, which kills the process (crashed).         *)
(***************************************************************************)
EXTENDS CallNetwork

CONSTANTS BusyPorts,     \* ports bind() fails on: in use by someone else
          MaxRegs,       \* bound: registrations remembered for one user
          MaxRestarts,   \* bound: times the proxy is started again
          NoSocket       \* no source, yet

(* The i-th media socket of a client.  Each has a port of its own.         *)
Socket == Clients \X (Nat \ {0})

ASSUME ProxyAssumption ==
    /\ BusyPorts \subseteq Nat
    /\ MaxRegs \in Nat
    /\ MaxRestarts \in Nat
    /\ NoSocket \notin Socket

VARIABLES registerTable, \* user -> every address it registered from, in order
          callPort,      \* the media port handed out last
          sessions,      \* the start_session threads
          crashed,       \* has the process been killed by a signal?
          restarts       \* times the proxy was started again

proxyVars == <<registerTable, callPort, sessions, crashed, restarts>>

(* A start_session thread: the port announced for it, the port its socket  *)
(* was really given, the two hosts it listens to, the source it has        *)
(* learned for each, and the one that made it return.                      *)
Session == [port : Ports, boundTo : Nat, hostUser : Hosts, hostPeer : Hosts,
            svcUser : Socket \cup {NoSocket}, svcPeer : Socket \cup {NoSocket},
            third : Socket \cup {NoSocket}]

ProxyTypeOK == /\ registerTable \in [Users -> Seq(Clients)]
               /\ callPort \in Ports
               /\ sessions \subseteq Session
               /\ crashed \in BOOLEAN
               /\ restarts \in Nat

(* main() 315-323: everything the proxy knows is in memory.                *)
ProxyInit == /\ registerTable = [u \in Users |-> << >>]
             /\ callPort = FirstPort
             /\ sessions = {}
             /\ crashed = FALSE
             /\ restarts = 0

-----------------------------------------------------------------------------
Registered(u) == registerTable[u] # << >>

(* Every reader takes elements [0] and [1]: the address registered first.  *)
Address(u) == registerTable[u][1]

Send(notices) == toClient' = toClient \cup notices

(* register_user, name rejected *)
RejectName(m) ==
    /\ m.type = "REGISTER"
    /\ m.user \notin Alnum
    /\ UNCHANGED <<toClient, proxyVars>>

(* register_user: append the address, acknowledge to the sender.           *)
RegisterUser(m) ==
    /\ m.type = "REGISTER"
    /\ m.user \in Alnum
    /\ Len(registerTable[m.user]) < MaxRegs
    /\ registerTable' = [registerTable EXCEPT ![m.user] = Append(@, m.src)]
    /\ Send({[dst |-> m.src, body |-> AckRegister]})
    /\ UNCHANGED <<callPort, sessions, crashed, restarts>>

(* Mutant of ProcessCall: the test of lines 186-189 left out.              *)
ProcessCallOfAnyone(m) ==
    /\ m.type = "CALL"
    /\ \/ ~Registered(m.to) /\ UNCHANGED toClient
       \/ Registered(m.to) /\ Send({[dst |-> Address(m.to), body |-> m]})
    /\ UNCHANGED proxyVars

(* process_call: silent about an unregistered caller, answers itself for   *)
(* an unregistered peer, and otherwise forwards the call to the peer.      *)
ProcessCall(m) ==
    /\ m.type = "CALL"
    /\ \/ ~Registered(m.from) /\ UNCHANGED toClient
       \/ /\ Registered(m.from) /\ ~Registered(m.to)
          /\ Send({[dst |-> Address(m.from), body |-> UnknownPeer]})
       \/ /\ Registered(m.from) /\ Registered(m.to)
          /\ Send({[dst |-> Address(m.to), body |-> m]})
    /\ UNCHANGED proxyVars

(* pass_call, when a name in the answer is not in the table.               *)
PassCallCrashes(m) ==
    /\ m.type \in {"ACK_CALL", "CALL_FAILED"}
    /\ ~(Registered(m.from) /\ Registered(m.to))
    /\ crashed' = TRUE
    /\ sessions' = {}
    /\ UNCHANGED <<toClient, registerTable, callPort, restarts>>

(* Mutant of PassedCall: host_user and svc_user instead of the peer's.     *)
PassedToSender(m) == [dst |-> Address(m.from), body |-> m]

PassedCall(m) == [dst |-> Address(m.to), body |-> m]

(* main()'s CALL_FAILED branch: pass the answer on.                        *)
FailCall(m) ==
    /\ m.type = "CALL_FAILED"
    /\ Registered(m.from) /\ Registered(m.to)
    /\ Send({PassedCall(m)})
    /\ UNCHANGED proxyVars

(* Mutant of MediaNotices: message_front and message_back exchanged.       *)
MediaNoticesCrossed(m, port) ==
    {[dst |-> Address(m.to),
      body |-> [type |-> "MEDIA_PORT", from |-> m.to, to |-> m.from, port |-> port]],
     [dst |-> Address(m.from),
      body |-> [type |-> "MEDIA_PORT", from |-> m.from, to |-> m.to, port |-> port]]}

(* Mutant of MediaNotices: the notice to the caller is not sent.           *)
MediaNoticeToCallee(m, port) ==
    {[dst |-> Address(m.from),
      body |-> [type |-> "MEDIA_PORT", from |-> m.to, to |-> m.from, port |-> port]]}

(* set_media_path: announce the port to both ends and start the thread.    *)
(* m.from accepted the call, m.to made it.                                 *)
MediaNotices(m, port) ==
    {[dst |-> Address(m.from),
      body |-> [type |-> "MEDIA_PORT", from |-> m.to, to |-> m.from, port |-> port]],
     [dst |-> Address(m.to),
      body |-> [type |-> "MEDIA_PORT", from |-> m.from, to |-> m.to, port |-> port]]}

(* setup_sock: htons() keeps 16 bits of the port; port 0, or a bind() that *)
(* fails, leaves a socket on a port of the system's choice (0 here), and   *)
(* nobody is told.                                                         *)
SetupSock(port) == IF port % 65536 \in BusyPorts THEN 0 ELSE port % 65536

StartedSession(m, port) ==
    [port |-> port, boundTo |-> SetupSock(port),
     hostUser |-> HostOf[Address(m.from)], hostPeer |-> HostOf[Address(m.to)],
     svcUser |-> NoSocket, svcPeer |-> NoSocket, third |-> NoSocket]

(* Mutant of NextPort: call_port++ forgotten.                              *)
SamePort == callPort

NextPort == callPort + 1

(* Mutant of AcceptCall: CALL_FAILED falls through to the ACK_CALL branch. *)
AcceptAnyAnswer(m) ==
    /\ m.type \in {"ACK_CALL", "CALL_FAILED"}
    /\ Registered(m.from) /\ Registered(m.to)
    /\ callPort < FirstPort + MaxCalls
    /\ callPort' = NextPort
    /\ Send({PassedCall(m)} \cup MediaNotices(m, NextPort))
    /\ sessions' = sessions \cup {StartedSession(m, NextPort)}
    /\ UNCHANGED <<registerTable, crashed, restarts>>

(* main()'s ACK_CALL branch: pass_call, call_port++, set_media_path.  The  *)
(* test set_media_path makes on both names always succeeds here: pass_call *)
(* would have crashed on the same datagram.                                *)
AcceptCall(m) ==
    /\ m.type = "ACK_CALL"
    /\ Registered(m.from) /\ Registered(m.to)
    /\ callPort < FirstPort + MaxCalls
    /\ callPort' = NextPort
    /\ Send({PassedCall(m)} \cup MediaNotices(m, NextPort))
    /\ sessions' = sessions \cup {StartedSession(m, NextPort)}
    /\ UNCHANGED <<registerTable, crashed, restarts>>

ProxyReceive(m) ==
    /\ ~crashed
    /\ m \in toProxy
    /\ toProxy' = AfterReceiving(toProxy, m)
    /\ \/ RejectName(m)
       \/ RegisterUser(m)
       \/ ProcessCall(m)
       \/ PassCallCrashes(m)
       \/ FailCall(m)
       \/ AcceptCall(m)

-----------------------------------------------------------------------------
(* start_session, one packet from a media socket.  As long as one of the   *)
(* two sources is not known, the packet may give it: it is tried for the   *)
(* user, and then, with what that has set, for the peer.                   *)
LearnUser(s, source) ==
    IF s.svcUser = NoSocket /\ HostOf[source[1]] = s.hostUser /\ s.svcPeer # source
      THEN [s EXCEPT !.svcUser = source]
      ELSE s

LearnPeer(s, source) ==
    IF s.svcPeer = NoSocket /\ HostOf[source[1]] = s.hostPeer /\ s.svcUser # source
      THEN [s EXCEPT !.svcPeer = source]
      ELSE s

Sources(s) == {s.svcUser, s.svcPeer, s.third} \ {NoSocket}

BothKnown(s) == s.svcUser # NoSocket /\ s.svcPeer # NoSocket

Learn(s, source) ==
    /\ ~BothKnown(s)
    /\ sessions' = (sessions \ {s}) \cup {LearnPeer(LearnUser(s, source), source)}

(* Mutant of GiveUp: one loop for both, which returns on the packet of the *)
(* second source.                                                          *)
GiveUpLearning(s, source) ==
    /\ Sources(s) # {} /\ s.third = NoSocket
    /\ source \notin {s.svcUser, s.svcPeer}
    /\ sessions' = (sessions \ {s}) \cup {[s EXCEPT !.third = source]}

(* Then a packet from anybody else makes the thread return, and leaves the *)
(* socket bound; those of the two are relayed.                             *)
GiveUp(s, source) ==
    /\ BothKnown(s) /\ s.third = NoSocket
    /\ source \notin {s.svcUser, s.svcPeer}
    /\ sessions' = (sessions \ {s}) \cup {[s EXCEPT !.third = source]}

SessionReceive(s, source) ==
    /\ s \in sessions
    /\ Learn(s, source) \/ GiveUp(s, source)
    /\ UNCHANGED <<networkVars, registerTable, callPort, crashed, restarts>>

(* Somebody kills the proxy, or finds it dead, and starts it again.        *)
Restart ==
    /\ restarts < MaxRestarts
    /\ restarts' = restarts + 1
    /\ registerTable' = [u \in Users |-> << >>]
    /\ callPort' = FirstPort
    /\ sessions' = {}
    /\ crashed' = FALSE
    /\ UNCHANGED networkVars
=============================================================================
