----------------------------- MODULE ForkServer -----------------------------
(***************************************************************************)
(* The fork server of HW4 (4/main.cpp), a small inetd: one process polls   *)
(* several listening sockets, accepts what is ready and forks a child for  *)
(* every connection, which runs the command of the listener's line.        *)
(*                                                                         *)
(* A connection lives as long as any process has a descriptor of it, and a *)
(* fork copies every descriptor the server has, so what the server forgets *)
(* to close keeps other people's connections open.                         *)
(***************************************************************************)
EXTENDS Naturals, Sequences, FiniteSets

CONSTANTS Lines,            \* standard input: a port and a command per line
          NoPort,           \* an empty line
          Garbage,          \* what the uninitialized port_temp holds
          NoCommand,        \* a line with nothing behind the number
          Clients,          \* connections; a child is named by its connection
          Server,           \* the server process
          Nobody,           \* no connection
          Backlog,          \* BACKLOG
          SetupMayFail,     \* may socket(), bind() or listen() fail?
          ResetLeavesQueue  \* is a connection that is reset taken out of the queue?

Listeners == DOMAIN Lines

ASSUME ForkAssumption ==
    /\ Lines \in Seq([port : Nat \cup {NoPort}, cmd : STRING \cup {NoCommand}])
    /\ Garbage \in Nat
    /\ Server \notin Clients
    /\ Nobody \notin Clients
    /\ Backlog \in Nat
    /\ SetupMayFail \in BOOLEAN
    /\ ResetLeavesQueue \in BOOLEAN

VARIABLES portTemp,      \* read_config's port_temp
          cmdTemp,       \* and cmd_temp
          portList,      \* port_list
          cmdList,       \* cmd_list
          pc,            \* where the server is
          ready,         \* listeners with POLLIN the scan has not come to yet
          listener,      \* the one do_accept was called for
          cmds,          \* the command it was called with
          peer,          \* peer_sockfd
          socket,        \* listener -> what listen_sockfds holds
          queue,         \* listener -> connections waiting to be accepted
          holders,       \* connection -> processes with a descriptor of it
          child,         \* connection -> the life of its child
          task,          \* connection -> its child's copy of cmds
          served,        \* history: connection -> the command run for it
          target,        \* history: connection -> the listener it came to
          left           \* connections whose clients have reset them

configVars == <<portTemp, cmdTemp, portList, cmdList>>
callVars == <<listener, cmds>>
serverVars == <<pc, ready, callVars, peer, socket>>
childVars == <<child, task, served>>
vars == <<configVars, serverVars, queue, holders, childVars, target, left>>

TypeOK ==
    /\ portTemp \in Nat /\ cmdTemp \in STRING \cup {NoCommand}
    /\ portList \in Seq(Nat) /\ cmdList \in Seq(STRING \cup {NoCommand})
    /\ pc \in {"config", "poll", "scan", "accept", "fork", "close", "exited"}
    /\ ready \subseteq Listeners
    /\ listener \in Listeners \cup {0}
    /\ cmds \in STRING \cup {NoCommand}
    /\ peer \in Clients \cup {Nobody}
    /\ socket \in [Listeners -> {"listening", "none", "unbound", "garbage"}]
    /\ queue \in [Listeners -> Seq(Clients)]
    /\ holders \in [Clients -> SUBSET (Clients \cup {Server})]
    /\ child \in [Clients -> {"none", "sleeping", "running", "unforked", "ended"}]
    /\ task \in [Clients -> STRING \cup {NoCommand}]
    /\ served \in [Clients -> STRING \cup {NoCommand}]
    /\ target \in [Clients -> Listeners \cup {0}]
    /\ left \subseteq Clients

Init ==
    /\ portTemp = Garbage /\ cmdTemp = NoCommand
    /\ portList = << >> /\ cmdList = << >>
    /\ pc = "config"
    /\ ready = {}
    /\ listener = 0 /\ cmds = NoCommand
    /\ peer = Nobody
    /\ socket = [l \in Listeners |-> "garbage"]
    /\ queue = [l \in Listeners |-> << >>]
    /\ holders = [c \in Clients |-> {}]
    /\ child = [c \in Clients |-> "none"]
    /\ task = [c \in Clients |-> NoCommand]
    /\ served = [c \in Clients |-> NoCommand]
    /\ target = [c \in Clients |-> 0]
    /\ left = {}

-----------------------------------------------------------------------------
(* One line of read_config.  The extraction of the number leaves port_temp *)
(* as it is if the line is empty, and the second getline() cmd_temp if     *)
(* nothing is left to read or the first has failed.  (A line that does not *)
(* begin with a number is one of port 0, without a command.)               *)
ReadLine ==
    /\ pc = "config" /\ Len(portList) < Len(Lines)
    /\ LET line == Lines[Len(portList) + 1]
       IN  /\ portTemp' = IF line.port = NoPort THEN portTemp ELSE line.port
           /\ cmdTemp' = IF line.port = NoPort \/ line.cmd = NoCommand THEN cmdTemp
                                                                      ELSE line.cmd
    /\ portList' = Append(portList, portTemp')
    /\ cmdList' = Append(cmdList, cmdTemp')
    /\ UNCHANGED <<serverVars, queue, holders, childVars, target, left>>

(* setup_listeners stops at the first failure, for one at a port that is   *)
(* already taken, and main does not look: what follows in the array was    *)
(* never assigned.                                                         *)
Taken(l) == \E k \in 1 .. l - 1 : portList[k] = portList[l] /\ portList[l] # 0

SetupListeners ==
    /\ pc = "config" /\ Len(portList) = Len(Lines)
    /\ \E n \in 0 .. Len(Lines), failed \in {"none", "unbound"} :
          /\ n < Len(Lines) => SetupMayFail \/ Taken(n + 1)
          /\ \A l \in 1 .. n : ~Taken(l)
          /\ socket' = [l \in Listeners |-> IF l <= n THEN "listening"
                                            ELSE IF l = n + 1 THEN failed ELSE "garbage"]
    /\ pc' = "poll"
    /\ UNCHANGED <<configVars, ready, callVars, peer, queue, holders, childVars, target, left>>

(* poll() returns the listeners with a connection waiting.  One that is    *)
(* not bound hangs up at once, so poll() never blocks again; a number that *)
(* was never assigned may be any descriptor, such as standard input.       *)
Poll ==
    /\ pc = "poll"
    /\ \E garbage \in SUBSET {l \in Listeners : socket[l] = "garbage"} :
          ready' = garbage \cup {l \in Listeners : queue[l] # << >>}
    /\ ready' # {} \/ \E l \in Listeners : socket[l] \in {"unbound", "garbage"}
    /\ pc' = "scan"
    /\ UNCHANGED <<configVars, callVars, peer, socket, queue, holders, childVars, target, left>>

(* poll() fails for another reason than a signal: main returns, with the   *)
(* listeners' queues as they are.                                          *)
PollFails ==
    /\ pc = "poll"
    /\ pc' = "exited"
    /\ UNCHANGED <<configVars, ready, callVars, peer, socket, queue, holders, childVars, target, left>>

(* The loop over pollfds.                                                  *)
ScanEnds ==
    /\ pc = "scan"
    /\ ready = {}
    /\ pc' = "poll"
    /\ UNCHANGED <<configVars, ready, callVars, peer, socket, queue, holders, childVars, target, left>>

(* Mutants of Scan: a listener stays ready; the last one is left out.      *)
ScanAgain ==
    /\ pc = "scan"
    /\ \E l \in ready : (\A k \in ready : l <= k) /\ listener' = l /\ cmds' = cmdList[l]
    /\ UNCHANGED ready
    /\ pc' = "accept"
    /\ UNCHANGED <<configVars, peer, socket, queue, holders, childVars, target, left>>

ScanShort ==
    /\ pc = "scan"
    /\ \E l \in ready : (\A k \in ready : l <= k) /\ listener' = l /\ cmds' = cmdList[l]
    /\ ready' = ready \ {listener'}
    /\ pc' = IF listener' = 2 THEN "scan" ELSE "accept"
    /\ UNCHANGED <<configVars, peer, socket, queue, holders, childVars, target, left>>

Scan ==
    /\ pc = "scan"
    /\ \E l \in ready : (\A k \in ready : l <= k) /\ listener' = l /\ cmds' = cmdList[l]
    /\ ready' = ready \ {listener'}
    /\ pc' = "accept"
    /\ UNCHANGED <<configVars, peer, socket, queue, holders, childVars, target, left>>

-----------------------------------------------------------------------------
(* do_accept.  accept() waits for a connection if there is none: the       *)
(* listeners are blocking.                                                 *)
Accept ==
    /\ pc = "accept"
    /\ socket[listener] = "listening"
    /\ queue[listener] # << >>
    /\ peer' = Head(queue[listener])
    /\ queue' = [queue EXCEPT ![listener] = Tail(@)]
    /\ holders' = [holders EXCEPT ![peer'] = @ \cup {Server}]
    /\ pc' = "fork"
    /\ UNCHANGED <<configVars, ready, callVars, socket, childVars, target, left>>

(* accept() fails: not a listening socket, or no descriptor left.          *)
AcceptFails ==
    /\ pc = "accept"
    /\ socket[listener] = "listening" => queue[listener] # << >>
    /\ pc' = "scan"
    /\ UNCHANGED <<configVars, ready, callVars, peer, socket, queue, holders, childVars, target, left>>

(* The child has a copy of the server's memory, with the command in it,    *)
(* and of every descriptor the server has.                                 *)
Fork ==
    /\ pc = "fork"
    /\ child' = [child EXCEPT ![peer] = "sleeping"]
    /\ task' = [task EXCEPT ![peer] = cmds]
    /\ holders' = [c \in Clients |-> IF Server \in holders[c]
                                       THEN holders[c] \cup {peer} ELSE holders[c]]
    /\ pc' = "close"
    /\ UNCHANGED <<configVars, ready, callVars, peer, socket, queue, served, target, left>>

ForkFails ==
    /\ pc = "fork"
    /\ child' = [child EXCEPT ![peer] = "unforked"]
    /\ pc' = "close"
    /\ UNCHANGED <<configVars, ready, callVars, peer, socket, queue, holders, task, served, target, left>>

(* Mutants of Close: only after a failed fork; as shutdown() would.        *)
CloseUnforked ==
    /\ pc = "close"
    /\ holders' = IF child[peer] = "unforked"
                    THEN [holders EXCEPT ![peer] = @ \ {Server}] ELSE holders
    /\ peer' = Nobody
    /\ pc' = "scan"
    /\ UNCHANGED <<configVars, ready, callVars, socket, queue, childVars, target, left>>

CloseForAll ==
    /\ pc = "close"
    /\ holders' = [holders EXCEPT ![peer] = {}]
    /\ peer' = Nobody
    /\ pc' = "scan"
    /\ UNCHANGED <<configVars, ready, callVars, socket, queue, childVars, target, left>>

Close ==
    /\ pc = "close"
    /\ holders' = [holders EXCEPT ![peer] = @ \ {Server}]
    /\ peer' = Nobody
    /\ pc' = "scan"
    /\ UNCHANGED <<configVars, ready, callVars, socket, queue, childVars, target, left>>

-----------------------------------------------------------------------------
(* Mutant of HandleClient: the command is read from the server's memory,   *)
(* as by a thread.                                                         *)
HandleClientInThread(c) ==
    /\ child[c] = "sleeping"
    /\ child' = [child EXCEPT ![c] = "running"]
    /\ served' = [served EXCEPT ![c] = cmds]
    /\ UNCHANGED <<configVars, serverVars, task, queue, holders, target, left>>

(* handle_client: sleep, dup2, execl, which replaces the child.            *)
HandleClient(c) ==
    /\ child[c] = "sleeping"
    /\ child' = [child EXCEPT ![c] = "running"]
    /\ served' = [served EXCEPT ![c] = task[c]]
    /\ UNCHANGED <<configVars, serverVars, task, queue, holders, target, left>>

(* The command ends, or execl has failed and the child exits: all its      *)
(* descriptors are closed, and SA_NOCLDWAIT leaves no zombie.              *)
ChildEnds(c) ==
    /\ child[c] \in {"sleeping", "running"}
    /\ child' = [child EXCEPT ![c] = "ended"]
    /\ holders' = [d \in Clients |-> holders[d] \ {c}]
    /\ UNCHANGED <<configVars, serverVars, queue, task, served, target, left>>

(* A client connects; the kernel queues it.  The children have copies of   *)
(* the listening sockets too, so these outlive a server that has exited.   *)
Living == {c \in Clients : child[c] \in {"sleeping", "running"}}

ClientConnects(c) ==
    /\ target[c] = 0
    /\ pc # "exited" \/ Living # {}
    /\ \E l \in Listeners :
          /\ socket[l] = "listening"
          /\ Len(queue[l]) < Backlog
          /\ queue' = [queue EXCEPT ![l] = Append(@, c)]
          /\ target' = [target EXCEPT ![c] = l]
    /\ UNCHANGED <<configVars, serverVars, holders, childVars, left>>

Without(s, c) ==
    IF \E i \in DOMAIN s : s[i] = c
      THEN LET i == CHOOSE i \in DOMAIN s : s[i] = c
           IN  SubSeq(s, 1, i - 1) \o SubSeq(s, i + 1, Len(s))
      ELSE s

(* A client resets its connection.  Linux leaves it in the queue, to be    *)
(* accepted, BSD takes it out.                                             *)
ClientResets(c) ==
    /\ target[c] # 0 /\ c \notin left
    /\ left' = left \cup {c}
    /\ queue' = IF ResetLeavesQueue
                  THEN [queue EXCEPT ![target[c]] = Without(@, c)]
                  ELSE queue
    /\ UNCHANGED <<configVars, serverVars, holders, childVars, target>>

(* Nobody has the listeners any more: the kernel resets what waits.        *)
ListenerCloses ==
    /\ pc = "exited" /\ Living = {}
    /\ \E l \in Listeners : queue[l] # << >> /\ queue' = [queue EXCEPT ![l] = Tail(@)]
    /\ UNCHANGED <<configVars, serverVars, holders, childVars, target, left>>

ServerStep == ReadLine \/ SetupListeners \/ Poll \/ Scan \/ ScanEnds \/ AcceptFails
              \/ Fork \/ ForkFails \/ Close

Next == \/ ServerStep \/ Accept \/ PollFails \/ ListenerCloses
        \/ \E c \in Clients : \/ HandleClient(c) \/ ChildEnds(c)
                              \/ ClientConnects(c) \/ ClientResets(c)

Spec == Init /\ [][Next]_vars

(* The server runs, and accept() does not fail for ever; commands end.     *)
LiveSpec == /\ Spec
            /\ WF_vars(ServerStep) /\ SF_vars(Accept)
            /\ \A c \in Clients : WF_vars(ChildEnds(c))

-----------------------------------------------------------------------------
Accepted(c) == child[c] # "none"

(* The command a line asks for: its own, or, if it is empty or has none,   *)
(* that of the last line before it that has one.                           *)
Whole(l) == Lines[l].port # NoPort /\ Lines[l].cmd # NoCommand

Last(S) == CHOOSE l \in S : \A k \in S : k <= l

Command(l) == LET lines == {k \in 1 .. l : Whole(k)}
              IN  IF lines = {} THEN NoCommand ELSE Lines[Last(lines)].cmd

(* A connection gets the command of the line it came in by, handed down    *)
(* from the loop that reads the lines, through arrays indexed alike, the   *)
(* arguments of do_accept and the child's copy of them, which the server   *)
(* does not disturb while the child sleeps.                                *)
RightCommand ==
    \A c \in Clients : child[c] = "running" => served[c] = Command(target[c])

(* When the server waits in poll(), or has exited from there, it has no    *)
(* connection open, and a child has none but its own: no descriptor is     *)
(* lost, whatever fails.                                                   *)
NoDescriptorLeaks ==
    /\ pc \in {"poll", "exited"} => \A c \in Clients : Server \notin holders[c]
    /\ \A c \in Clients : holders[c] \subseteq {c, Server}

(* The close in the parent does not end a connection the child works on:   *)
(* it stays open until the command has ended.                              *)
HungUpOnlyWhenOver ==
    \A c \in Clients : child[c] \in {"sleeping", "running"} => c \in holders[c]

Blocked == pc = "accept" /\ socket[listener] = "listening" /\ queue[listener] = << >>

(* accept() is called after poll() has found a connection.  It waits, and  *)
(* the server with it, only where a reset has taken connections away.      *)
BlocksOnlyAfterReset ==
    Blocked => ResetLeavesQueue /\ \E c \in left : target[c] = listener

(* The life of a connection, as an inetd promises it.                      *)
Queued(c) == \E l \in Listeners : \E i \in DOMAIN queue[l] : queue[l][i] = c

Phase(c) ==
    IF target[c] = 0 THEN "absent"
    ELSE IF holders[c] = {} THEN (IF Queued(c) THEN "waiting" ELSE "closed")
    ELSE IF child[c] = "running" THEN "running"
    ELSE IF child[c] \in {"none", "sleeping"} THEN "open" ELSE "over"

Life == INSTANCE Inetd WITH
            Connections <- Clients,
            CommandOf <- [l \in Listeners |-> Command(l)],
            phase <- [c \in Clients |-> Phase(c)], line <- target, ran <- served

ImplementsInetd == Life!Spec

(* Every connection that waits is accepted, unless it is reset, the server *)
(* waits in accept() at another listener or poll() has failed; also when   *)
(* setting up a later listener has failed and the loop never rests.        *)
WaitingIsAccepted ==
    \A c \in Clients : (target[c] # 0) ~> (c \in left \/ Blocked \/ pc = "exited" \/ Accepted(c))

(* Every connection that was accepted is closed in the end.                *)
ConnectionEnds ==
    \A c \in Clients : Accepted(c) ~> holders[c] = {}
=============================================================================
