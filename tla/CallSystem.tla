----------------------------- MODULE CallSystem -----------------------------
(***************************************************************************)
(* The proxy and its clients, composed over the network, and what call     *)
(* set-up promises.                                                        *)
(***************************************************************************)
EXTENDS CallProxy, CallClient

vars == <<networkVars, proxyVars, clientVars>>

Init == NetworkInit /\ ProxyInit /\ ClientInit

ProxyStep(m) == ProxyReceive(m) /\ UNCHANGED clientVars

ProxyRestart == Restart /\ UNCHANGED clientVars

ClientTimer(c) == SendRegister(c) /\ UNCHANGED proxyVars

ClientStep(n) == ClientReceive(n) /\ UNCHANGED proxyVars

(* A packet of a media socket reaches the thread whose port it is sent to. *)
MediaStep ==
    \E s \in sessions, c \in Clients :
        \E i \in DOMAIN media[c] :
            /\ media[c][i].port = s.boundTo
            /\ SessionReceive(s, <<c, i>>)
            /\ UNCHANGED clientVars

Next == \/ \E m \in toProxy : ProxyStep(m)
        \/ MediaStep
        \/ ProxyRestart
        \/ \E c \in Clients : Start(c) /\ UNCHANGED proxyVars
        \/ \E c \in Clients : Stop(c) /\ UNCHANGED proxyVars
        \/ \E c \in Clients : ClientTimer(c)
        \/ \E n \in toClient : ClientStep(n)
        \/ Lose /\ UNCHANGED <<proxyVars, clientVars>>

Spec == Init /\ [][Next]_vars

(* The proxy's loop reads every datagram that reaches it; a client's event *)
(* loop runs its handlers and its interval timer.  A registration is sent  *)
(* again and again, so a network that loses some of them but not all is    *)
(* strongly fair to it.  What follows from calls is finite, and heard.     *)
(* Nobody is obliged to start, stop or restart.                            *)
ProxyHears == \E m \in toProxy : m.type # "REGISTER" /\ ProxyStep(m)

ClientHears(c) ==
    \E n \in toClient : n.dst = c /\ n.body # AckRegister /\ ClientStep(n)

Fairness ==
    /\ \A c \in Clients : /\ WF_vars(ClientTimer(c))
                          /\ SF_vars(ProxyStep(MyRegistration(c)))
    /\ WF_vars(ProxyHears)
    /\ \A c \in Clients : WF_vars(ClientHears(c))

LiveSpec == Spec /\ Fairness

-----------------------------------------------------------------------------
(* Types of all three parts.                                               *)
TypeOK == NetworkTypeOK /\ ProxyTypeOK /\ ClientTypeOK

(* pass_call (main.cpp:205) uses register_table[name][0] unchecked.  The   *)
(* proxy survives every order, loss and duplication of datagrams as long   *)
(* as its table does: only an answer that outlives a restart kills it.     *)
CrashOnlyAfterRestart == crashed => restarts > 0

(* handleCall and handleMedia test that the message is for myName; over    *)
(* this proxy the test never fails, whoever registered what from where.    *)
NoticesReachTheirName ==
    \A n \in toClient : n.body.type \in {"CALL", "MEDIA_PORT"}
                            => n.body.to = NameOf[n.dst]

(* Who was told to use which media port for whom: the MEDIA_PORT notices   *)
(* in flight and the media sockets made from those that arrived.           *)
MediaNotice == {n \in toClient : n.body.type = "MEDIA_PORT"}

MediaUse ==
    {[port |-> n.body.port, name |-> n.body.to, peer |-> n.body.from] :
        n \in MediaNotice}
    \cup UNION {{[port |-> media[c][i].port, name |-> NameOf[c],
                  peer |-> media[c][i].peer] : i \in DOMAIN media[c]} : c \in Clients}

(* No two calls share a media port: all who use a port name the same pair  *)
(* of users, so nobody's media is relayed into somebody else's call.       *)
PortServesOnePair ==
    restarts = 0 =>
        \A x, y \in MediaUse :
            x.port = y.port => {x.name, x.peer} = {y.name, y.peer}

(* Every port a client was told to use has a socket bound to it and a      *)
(* thread that listens to the machines of both users, as long as neither   *)
(* of them sends from a second socket, which a repeated MEDIA_PORT makes:  *)
(* the packets of two sockets, in whatever order, never end the thread.    *)
ListensToBoth(s, x) ==
    /\ s.port = x.port
    /\ s.boundTo = x.port
    /\ {s.hostUser, s.hostPeer} = {HostOf[Address(x.name)], HostOf[Address(x.peer)]}

HearsTwoOfOne(s) == \E a, b \in Sources(s) : a # b /\ a[1] = b[1]

AnnouncedPortIsServed ==
    restarts = 0 =>
        \A x \in MediaUse :
            \E s \in sessions :
                ListensToBoth(s, x) /\ (s.third = NoSocket \/ HearsTwoOfOne(s))

(* Media flows between two users only if one of them accepted a call of    *)
(* the other: neither a hang-up, nor a repeated or late datagram, nor a    *)
(* restart makes the proxy open a path nobody agreed to.                   *)
NoMediaWithoutAccept ==
    \A x \in MediaUse : \/ <<x.name, x.peer>> \in accepted
                        \/ <<x.peer, x.name>> \in accepted

(* The signalling of the whole system is a switchboard's.  A call is made  *)
(* by the client that starts with a name to call; the ports given out by   *)
(* this run of the proxy are those up to callPort.                         *)
Called == {<<NameOf[c], TheirName[c]>> : c \in {d \in started : TheirName[d] # Nobody}}

Board == INSTANCE Switchboard WITH
            called <- Called, agreed <- accepted,
            given <- FirstPort + 1 .. callPort, uses <- MediaUse

ImplementsSwitchboard == Board!Spec

(* main.cpp:152, "always update the address without checking": once a user *)
(* has registered from a new address, what the proxy forwards to the user  *)
(* goes there.                                                             *)
AddressIsUpdated ==
    [][\A n \in toClient' \ toClient :
          n.body # AckRegister =>
              n.dst = registerTable[NameOf[n.dst]][Len(registerTable[NameOf[n.dst]])]]_vars

(* sendRegister every ten seconds (p2_sample_client.js:22-24): a client    *)
(* with a legal name gets registered, and registered again after a restart *)
(* of the proxy, although REGISTERs get lost.                              *)
ClientGetsRegistered ==
    \A c \in Clients :
        (c \in running /\ NameOf[c] \in Alnum)
            ~> (Registered(NameOf[c]) \/ crashed \/ c \notin running)

(* A call that reaches the proxy when both users are registered ends with  *)
(* both on the same media port, or with "Call failed!", unless one of the  *)
(* two clients is gone.                                                    *)
Connected(c, d) ==
    \E i \in DOMAIN media[c], j \in DOMAIN media[d] :
        /\ media[c][i] = [peer |-> NameOf[d], port |-> media[d][j].port]
        /\ media[d][j].peer = NameOf[c]

CallIsSettled(c) ==
    LET callee == Address(TheirName[c])
    IN \/ {c, callee} \cap running # {c, callee}
       \/ "CALL_FAILED" \in heard[c]
       \/ "ACK_CALL" \in heard[c] /\ Connected(c, callee)

CallCompletes ==
    \A c \in {d \in Clients : TheirName[d] # Nobody} :
        (MyCall(c) \in toProxy /\ Registered(NameOf[c]) /\ Registered(TheirName[c]))
            ~> (restarts > 0 \/ (Registered(TheirName[c]) /\ CallIsSettled(c)))

-----------------------------------------------------------------------------
(* What the safety properties rest on: their inductive strengthenings.     *)

(* Only a call between two users in the table is forwarded, so only names  *)
(* in the table are answered for.                                          *)
AnswersNameRegistered ==
    restarts = 0 =>
        /\ ~crashed
        /\ \A m \in toProxy : m.type \in {"ACK_CALL", "CALL_FAILED"}
                                  => Registered(m.from) /\ Registered(m.to)
        /\ \A n \in toClient : n.body.type = "CALL"
                                  => Registered(n.body.from) /\ Registered(n.body.to)

(* The table lists a user's own addresses only.                            *)
AddressesAreOwn ==
    /\ \A u \in Users : \A i \in DOMAIN registerTable[u] : NameOf[registerTable[u][i]] = u
    /\ \A m \in toProxy : m.type = "REGISTER" => NameOf[m.src] = m.user
    /\ NoticesReachTheirName

(* An ACK_CALL in flight was sent by a client that accepted.               *)
AcceptsAreRecorded ==
    /\ \A m \in toProxy : m.type = "ACK_CALL" => <<m.from, m.to>> \in accepted
    /\ NoMediaWithoutAccept

(* Every CALL in flight was made.                                          *)
CallsWereMade ==
    /\ \A m \in toProxy : m.type = "CALL" => <<m.from, m.to>> \in Called
    /\ \A n \in toClient : n.body.type = "CALL" => <<n.body.from, n.body.to>> \in Called

(* call_port is ahead of every port in use.                                *)
PortsAreFresh ==
    restarts = 0 =>
        /\ ~crashed
        /\ \A x \in MediaUse : x.port <= callPort

(* Whoever uses a port is in the table, so the addresses in the session    *)
(* stay those of its users.                                                *)
PortsHaveThreads ==
    restarts = 0 =>
        \A x \in MediaUse :
            /\ Registered(x.name) /\ Registered(x.peer)
            /\ \E s \in sessions : ListensToBoth(s, x)

(* Only the clients at the two addresses hear of a port and send to it.    *)
NoticesGoToAddresses ==
    restarts = 0 =>
        /\ \A n \in MediaNotice : n.dst = Address(n.body.to)
        /\ \A c \in Clients : media[c] # << >> => c = Address(NameOf[c])

SourcesAreUsers ==
    restarts = 0 =>
        \A s \in sessions :
            /\ s.boundTo = s.port /\ s.port <= callPort
            /\ s.svcUser # NoSocket => s.svcUser # s.svcPeer
            /\ s.third # NoSocket => BothKnown(s) /\ s.third \notin {s.svcUser, s.svcPeer}
            /\ \A x \in MediaUse : x.port = s.port =>
                  \A source \in Sources(s) :
                      source[1] \in {Address(x.name), Address(x.peer)}
=============================================================================
