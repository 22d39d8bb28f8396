------------------------- MODULE ForkServer_proofs -------------------------
(***************************************************************************)
(* Proofs about ForkServer, for any lines of standard input, any number of *)
(* connections and any backlog, on a kernel of either kind.                *)
(***************************************************************************)
EXTENDS ForkServer, TLAPS

USE DEF vars, configVars, serverVars, callVars, childVars

(***************************************************************************)
(* Type correctness.                                                       *)
(***************************************************************************)
(* The strengthening: only who has come to a listener is in a queue, in    *)
(* the server's hand or in a child.                                        *)
Arrived == {c \in Clients : target[c] # 0}

QueuesOfArrived == queue \in [Listeners -> Seq(Arrived)]
PeerInHand == pc \in {"fork", "close"} => peer \in Arrived
ListenerInHand == pc = "accept" => listener \in Listeners
ChildrenOfArrived == \A c \in Clients : child[c] # "none" => c \in Arrived

(* Both arrays have an element for each line that was read, and all lines  *)
(* are read before the first listener is set up.                           *)
LinesAreRead == /\ Len(cmdList) = Len(portList)
                /\ Len(portList) <= Len(Lines)
                /\ pc # "config" => Len(portList) = Len(Lines)

TypeInv == /\ TypeOK /\ QueuesOfArrived /\ PeerInHand /\ ListenerInHand
           /\ ChildrenOfArrived /\ LinesAreRead

LEMMA InitTypeInv == Init => TypeInv
BY ForkAssumption DEF Init, TypeInv, TypeOK, QueuesOfArrived, PeerInHand, ListenerInHand,
                      ChildrenOfArrived, LinesAreRead

LEMMA WithoutType ==
    ASSUME NEW S, NEW s \in Seq(S), NEW c
    PROVE  Without(s, c) \in Seq(S)
<1>1. CASE \E i \in DOMAIN s : s[i] = c
  <2> DEFINE i == CHOOSE i \in DOMAIN s : s[i] = c
  <2>1. i \in 1 .. Len(s)
    BY <1>1
  <2> HIDE DEF i
  <2>2. SubSeq(s, 1, i - 1) \in Seq(S) /\ SubSeq(s, i + 1, Len(s)) \in Seq(S)
    BY <2>1
  <2>3. SubSeq(s, 1, i - 1) \o SubSeq(s, i + 1, Len(s)) \in Seq(S)
    BY <2>2
  <2> QED BY <1>1, <2>3 DEF Without, i
<1>2. CASE ~ \E i \in DOMAIN s : s[i] = c
  BY <1>2 DEF Without
<1> QED BY <1>1, <1>2

LEMMA StepKeepsTypes == TypeInv /\ [Next]_vars => TypeInv'
<1> SUFFICES ASSUME TypeInv, [Next]_vars PROVE TypeInv'
  OBVIOUS
<1> USE DEF TypeInv, TypeOK, QueuesOfArrived, PeerInHand, ListenerInHand, ChildrenOfArrived,
            LinesAreRead
<1>0. \A t \in Seq(Arrived) : t \in Seq(Clients)
  BY DEF Arrived
<1>1. CASE SetupListeners
  BY <1>1 DEF SetupListeners, Arrived
<1>2. CASE Poll
  <2>1. ready' \subseteq Listeners
    BY <1>2 DEF Poll
  <2> QED BY <1>2, <2>1 DEF Poll, Arrived
<1>p. CASE PollFails
  BY <1>p DEF PollFails, Arrived
<1>s. CASE Scan
  <2>1. listener' \in ready /\ cmds' = cmdList[listener']
    BY <1>s DEF Scan
  <2>2. listener' \in DOMAIN cmdList
    BY <1>s, <2>1, ForkAssumption DEF Scan, Listeners
  <2>3. cmds' \in STRING \cup {NoCommand}
    BY <2>1, <2>2
  <2> QED BY <1>s, <2>1, <2>3 DEF Scan, Arrived
<1>3. CASE ScanEnds
  BY <1>3 DEF ScanEnds, Arrived
<1>a. CASE AcceptFails
  BY <1>a DEF AcceptFails, Arrived
<1>r. CASE ReadLine
  <2> DEFINE line == Lines[Len(portList) + 1]
  <2>1. Len(portList) + 1 \in 1 .. Len(Lines)
    BY <1>r, ForkAssumption DEF ReadLine
  <2>2. line \in [port : Nat \cup {NoPort}, cmd : STRING \cup {NoCommand}]
    <3> DEFINE Line == [port : Nat \cup {NoPort}, cmd : STRING \cup {NoCommand}]
    <3>1. ASSUME NEW S, NEW t \in Seq(S), NEW k \in 1 .. Len(t) PROVE t[k] \in S
      OBVIOUS
    <3>2. Lines \in Seq(Line)
      BY ForkAssumption
    <3> HIDE DEF Line
    <3>3. line \in Line
      BY <2>1, <3>1, <3>2
    <3> QED BY <3>3 DEF Line
  <2>3. portTemp' \in Nat /\ cmdTemp' \in STRING \cup {NoCommand}
    BY <1>r, <2>2 DEF ReadLine
  <2>4. /\ portList' \in Seq(Nat) /\ cmdList' \in Seq(STRING \cup {NoCommand})
        /\ Len(portList') = Len(portList) + 1 /\ Len(cmdList') = Len(cmdList) + 1
    BY <1>r, <2>3 DEF ReadLine
  <2> QED BY <1>r, <2>1, <2>3, <2>4, ForkAssumption DEF ReadLine, Arrived
<1>l. CASE ListenerCloses
  <2>1. PICK l \in Listeners : queue[l] # << >> /\ queue' = [queue EXCEPT ![l] = Tail(@)]
    BY <1>l DEF ListenerCloses
  <2>2. Tail(queue[l]) \in Seq(Arrived) /\ Arrived' = Arrived
    BY <1>l, <2>1 DEF ListenerCloses, Arrived
  <2>3. QueuesOfArrived' /\ queue' \in [Listeners -> Seq(Clients)]
    BY <1>0, <2>1, <2>2
  <2> QED BY <1>l, <2>2, <2>3 DEF ListenerCloses
<1>4. CASE Accept
  <2>1. Head(queue[listener]) \in Arrived /\ Tail(queue[listener]) \in Seq(Arrived)
    BY <1>4 DEF Accept
  <2>2. Arrived' = Arrived
    BY <1>4 DEF Accept, Arrived
  <2>3. peer' \in Clients
    BY <1>4, <2>1 DEF Accept, Arrived
  <2>4. queue' = [queue EXCEPT ![listener] = Tail(@)]
    BY <1>4 DEF Accept
  <2>5. QueuesOfArrived' /\ queue' \in [Listeners -> Seq(Clients)]
    BY <1>0, <2>1, <2>2, <2>4
  <2> QED BY <1>4, <2>1, <2>2, <2>3, <2>5 DEF Accept
<1>5. CASE Fork
  <2>1. peer \in Arrived /\ peer \in Clients /\ Arrived' = Arrived
    BY <1>5 DEF Fork, Arrived
  <2>2. holders' \in [Clients -> SUBSET (Clients \cup {Server})]
    <3>1. \A c \in Clients : holders[c] \in SUBSET (Clients \cup {Server})
      OBVIOUS
    <3>2. holders' = [c \in Clients |-> IF Server \in holders[c]
                                         THEN holders[c] \cup {peer} ELSE holders[c]]
      BY <1>5 DEF Fork
    <3> HIDE DEF TypeInv, TypeOK
    <3> QED BY <2>1, <3>1, <3>2
  <2>3. /\ child' \in [Clients -> {"none", "sleeping", "running", "unforked", "ended"}]
        /\ task' \in [Clients -> STRING \cup {NoCommand}]
    BY <1>5 DEF Fork
  <2>4. ChildrenOfArrived'
    BY <1>5, <2>1 DEF Fork
  <2> QED BY <1>5, <2>1, <2>2, <2>3, <2>4 DEF Fork
<1>f. CASE ForkFails
  BY <1>f DEF ForkFails, Arrived
<1>6. CASE Close
  BY <1>6 DEF Close, Arrived
<1>7. ASSUME NEW c \in Clients, HandleClient(c) PROVE TypeInv'
  <2>1. target[c] \in Listeners /\ Arrived' = Arrived
    BY <1>7 DEF HandleClient, Arrived
  <2> QED BY <1>7, <2>1 DEF HandleClient
<1>8. ASSUME NEW c \in Clients, ChildEnds(c) PROVE TypeInv'
  BY <1>8 DEF ChildEnds, Arrived
<1>9. ASSUME NEW c \in Clients, ClientConnects(c) PROVE TypeInv'
  <2>1. PICK l \in Listeners : /\ queue' = [queue EXCEPT ![l] = Append(@, c)]
                              /\ target' = [target EXCEPT ![c] = l]
    BY <1>9 DEF ClientConnects
  <2>2. l # 0
    BY ForkAssumption DEF Listeners
  <2>3. Arrived' = Arrived \cup {c}
    BY <2>1, <2>2 DEF Arrived
  <2>4. \A t \in Seq(Arrived) : t \in Seq(Arrived') /\ Append(t, c) \in Seq(Arrived')
    BY <2>3
  <2>5. QueuesOfArrived'
    BY <2>1, <2>4
  <2>6. queue' \in [Listeners -> Seq(Clients)]
    BY <2>1
  <2> QED BY <1>9, <2>1, <2>3, <2>5, <2>6 DEF ClientConnects
<1>10. ASSUME NEW c \in Clients, ClientResets(c) PROVE TypeInv'
  <2>1. target[c] \in Listeners
    BY <1>10 DEF ClientResets
  <2>2. Without(queue[target[c]], c) \in Seq(Arrived)
    BY <2>1, WithoutType
  <2>3. Arrived' = Arrived
    BY <1>10 DEF ClientResets, Arrived
  <2>4. QueuesOfArrived' /\ queue' \in [Listeners -> Seq(Clients)]
    BY <1>0, <1>10, <2>2, <2>3 DEF ClientResets
  <2> QED BY <1>10, <2>3, <2>4 DEF ClientResets
<1>11. CASE UNCHANGED vars
  BY <1>11 DEF Arrived
<1> QED BY <1>1, <1>2, <1>p, <1>s, <1>3, <1>a, <1>f, <1>r, <1>l, <1>4, <1>5, <1>6, <1>7, <1>8, <1>9, <1>10, <1>11
        DEF Next, ServerStep

(* Every variable stays in its type.                                       *)
THEOREM ForkTypes == Spec => []TypeOK
<1>1. Spec => []TypeInv
  BY InitTypeInv, StepKeepsTypes, PTL DEF Spec
<1>2. TypeInv => TypeOK
  BY DEF TypeInv
<1> QED BY <1>1, <1>2, PTL

LEMMA TypesHold == Spec => []TypeInv
BY InitTypeInv, StepKeepsTypes, PTL DEF Spec

(***************************************************************************)
(* Descriptors.  The server has at most the connection in its hand open,   *)
(* so a fork copies that one only.                                         *)
(***************************************************************************)
ServerHoldsPeerOnly ==
    \A c \in Clients : Server \in holders[c] => pc \in {"fork", "close"} /\ c = peer

ForkedHoldsPeer == pc = "fork" => Server \in holders[peer]

ChildrenHoldTheirs == \A c \in Clients : holders[c] \subseteq {c, Server}

HolderInv == ServerHoldsPeerOnly /\ ForkedHoldsPeer /\ ChildrenHoldTheirs /\ HungUpOnlyWhenOver

LEMMA InitHolderInv == Init => HolderInv
BY DEF Init, HolderInv, ServerHoldsPeerOnly, ForkedHoldsPeer, ChildrenHoldTheirs, HungUpOnlyWhenOver

LEMMA StepKeepsHolderInv == TypeInv /\ HolderInv /\ [Next]_vars => HolderInv'
<1> SUFFICES ASSUME TypeInv, HolderInv, [Next]_vars PROVE HolderInv'
  OBVIOUS
<1> USE ForkAssumption DEF HolderInv, ServerHoldsPeerOnly, ForkedHoldsPeer, ChildrenHoldTheirs,
                           HungUpOnlyWhenOver
<1>0. /\ holders \in [Clients -> SUBSET (Clients \cup {Server})]
      /\ child \in [Clients -> {"none", "sleeping", "running", "unforked", "ended"}]
      /\ pc \in {"fork", "close"} => peer \in Clients
  BY DEF TypeInv, TypeOK, PeerInHand, Arrived
<1>1. CASE \/ ReadLine \/ SetupListeners \/ Poll \/ PollFails \/ Scan \/ ScanEnds \/ AcceptFails
           \/ ListenerCloses \/ UNCHANGED vars
  BY <1>1 DEF ReadLine, SetupListeners, Poll, PollFails, Scan, ScanEnds, AcceptFails, ListenerCloses
<1>2. CASE Accept
  <2>1. peer' \in Clients
    BY <1>2, StepKeepsTypes DEF Accept, TypeInv, PeerInHand, Arrived
  <2> QED BY <1>0, <1>2, <2>1 DEF Accept
<1>3. CASE Fork
  <2>1. holders' = [holders EXCEPT ![peer] = @ \cup {peer}]
    BY <1>0, <1>3 DEF Fork
  <2> QED BY <1>0, <1>3, <2>1 DEF Fork
<1>4. CASE ForkFails
  BY <1>0, <1>4 DEF ForkFails
<1>5. CASE Close
  BY <1>0, <1>5 DEF Close
<1>6. ASSUME NEW c \in Clients, HandleClient(c) PROVE HolderInv'
  BY <1>0, <1>6 DEF HandleClient
<1>7. ASSUME NEW c \in Clients, ChildEnds(c) PROVE HolderInv'
  BY <1>0, <1>7 DEF ChildEnds
<1>8. ASSUME NEW c \in Clients, ClientConnects(c) \/ ClientResets(c) PROVE HolderInv'
  BY <1>8 DEF ClientConnects, ClientResets
<1> QED BY <1>1, <1>2, <1>3, <1>4, <1>5, <1>6, <1>7, <1>8 DEF Next, ServerStep

LEMMA HoldersHold == Spec => []HolderInv
<1>1. Spec => []TypeInv
  BY TypesHold
<1> QED BY <1>1, InitHolderInv, StepKeepsHolderInv, PTL DEF Spec

(* No descriptor is lost, whether a fork succeeds or not: what waits in    *)
(* poll() has no connection open, and no child has another one's.          *)
THEOREM DescriptorsAreClosed == Spec => []NoDescriptorLeaks
<1>1. HolderInv => NoDescriptorLeaks
  BY DEF HolderInv, ServerHoldsPeerOnly, ChildrenHoldTheirs, NoDescriptorLeaks
<1> QED BY <1>1, HoldersHold, PTL

(* The close in the parent never hangs up on a command that still runs.    *)
THEOREM CommandsKeepTheirConnection == Spec => []HungUpOnlyWhenOver
<1>1. HolderInv => HungUpOnlyWhenOver
  BY DEF HolderInv
<1> QED BY <1>1, HoldersHold, PTL

(***************************************************************************)
(* Blocking.  What poll() reported is still to be found, because only the  *)
(* scan itself takes connections away: but for resets.                     *)
(***************************************************************************)
Robbed(l) == ResetLeavesQueue /\ \E c \in left : target[c] = l

Found(l) == socket[l] = "listening" => queue[l] # << >> \/ Robbed(l)

ReadyIsFound == \A l \in ready : Found(l)
AcceptIsFound == pc = "accept" => Found(listener) /\ listener \notin ready
ScanIsOver == pc \in {"config", "poll", "exited"} => ready = {}

FoundInv == ReadyIsFound /\ AcceptIsFound /\ ScanIsOver

LEMMA StepKeepsFoundInv == TypeInv /\ FoundInv /\ [Next]_vars => FoundInv'
<1> SUFFICES ASSUME TypeInv, FoundInv, [Next]_vars PROVE FoundInv'
  OBVIOUS
<1> USE DEF FoundInv, ReadyIsFound, AcceptIsFound, ScanIsOver, Found, Robbed
<1>1. CASE ReadLine \/ SetupListeners
  BY <1>1 DEF ReadLine, SetupListeners
<1>2. CASE Poll
  BY <1>2 DEF Poll
<1>3. CASE Scan
  BY <1>3 DEF Scan
<1>4. CASE Accept
  BY <1>4 DEF Accept, TypeInv, TypeOK
<1>5. CASE ScanEnds \/ AcceptFails \/ Fork \/ ForkFails \/ Close \/ UNCHANGED vars
  BY <1>5 DEF ScanEnds, AcceptFails, Fork, ForkFails, Close
<1>9. CASE PollFails
  BY <1>9 DEF PollFails
<1>10. CASE ListenerCloses
  BY <1>10 DEF ListenerCloses
<1>6. ASSUME NEW c \in Clients, HandleClient(c) \/ ChildEnds(c) PROVE FoundInv'
  BY <1>6 DEF HandleClient, ChildEnds
<1>7. ASSUME NEW c \in Clients, ClientConnects(c) PROVE FoundInv'
  <2>1. PICK k \in Listeners : /\ queue' = [queue EXCEPT ![k] = Append(@, c)]
                              /\ target' = [target EXCEPT ![c] = k]
    BY <1>7 DEF ClientConnects
  <2>2. \A l \in Listeners \cup {0} : Robbed(l) => Robbed(l)' \/ l = 0
    BY <1>7, <2>1 DEF ClientConnects, TypeInv, TypeOK
  <2>3. \A l \in Listeners : queue[l] # << >> => queue'[l] # << >>
    <3>1. queue[k] \in Seq(Clients) /\ DOMAIN queue = Listeners
      BY DEF TypeInv, TypeOK
    <3>2. ASSUME NEW s \in Seq(Clients) PROVE Append(s, c) # << >>
      <4>1. Append(s, c)[Len(s) + 1] = c /\ Len(s) + 1 \in DOMAIN Append(s, c)
        OBVIOUS
      <4> QED BY <4>1
    <3>3. Append(queue[k], c) # << >>
      BY <3>1, <3>2
    <3> QED BY <2>1, <3>1, <3>3
  <2>4. 0 \notin Listeners
    BY ForkAssumption DEF Listeners
  <2>5. \A l \in Listeners : Found(l) => Found(l)'
    BY <1>7, <2>2, <2>3, <2>4 DEF ClientConnects
  <2> QED BY <1>7, <2>5 DEF ClientConnects, TypeInv, TypeOK, ListenerInHand
<1>8. ASSUME NEW c \in Clients, ClientResets(c) PROVE FoundInv'
  <2>1. \A l \in Listeners : Found(l) => Found(l)'
    BY <1>8 DEF ClientResets, TypeInv, TypeOK
  <2> QED BY <1>8, <2>1 DEF ClientResets, TypeInv, TypeOK, ListenerInHand
<1> QED BY <1>1, <1>2, <1>3, <1>4, <1>5, <1>6, <1>7, <1>8, <1>9, <1>10 DEF Next, ServerStep

(* The server waits in accept() only where a reset took away what poll()   *)
(* had found, and so never on a kernel that leaves it in the queue.        *)
THEOREM BlocksAfterReset == Spec => []BlocksOnlyAfterReset
<1>1. FoundInv => BlocksOnlyAfterReset
  BY DEF FoundInv, AcceptIsFound, Found, Robbed, BlocksOnlyAfterReset, Blocked
<1>2. Init => FoundInv
  BY DEF Init, FoundInv, ReadyIsFound, AcceptIsFound, ScanIsOver
<1>3. Spec => []TypeInv
  BY TypesHold
<1> QED BY <1>1, <1>2, <1>3, StepKeepsFoundInv, PTL DEF Spec

(***************************************************************************)
(* The life of a connection.  A queue is a list without repetitions of     *)
(* connections nobody has taken yet.                                       *)
(***************************************************************************)
Members(s) == {s[i] : i \in DOMAIN s}

Distinct(s) == \A i, j \in DOMAIN s : s[i] = s[j] => i = j

LEMMA HeadAndTail ==
    ASSUME NEW S, NEW s \in Seq(S), s # << >>, Distinct(s)
    PROVE  /\ Distinct(Tail(s))
           /\ Head(s) \in Members(s)
           /\ Members(Tail(s)) = Members(s) \ {Head(s)}
<1>1. Len(s) \in Nat /\ Len(s) >= 1 /\ DOMAIN s = 1 .. Len(s)
  OBVIOUS
<1>2. /\ Head(s) = s[1]
      /\ DOMAIN Tail(s) = 1 .. Len(s) - 1
      /\ \A i \in 1 .. Len(s) - 1 : Tail(s)[i] = s[i + 1]
  BY <1>1
<1>3. Distinct(Tail(s))
  <2> SUFFICES ASSUME NEW i \in 1 .. Len(s) - 1, NEW j \in 1 .. Len(s) - 1,
                      s[i + 1] = s[j + 1]
               PROVE  i = j
    BY <1>2 DEF Distinct
  <2>1. i + 1 \in DOMAIN s /\ j + 1 \in DOMAIN s
    BY <1>1
  <2>2. i + 1 = j + 1
    BY <2>1 DEF Distinct
  <2> QED BY <1>1, <2>2
<1>4. 1 \in DOMAIN s
  BY <1>1
<1>5. Members(Tail(s)) \subseteq Members(s) \ {Head(s)}
  <2> SUFFICES ASSUME NEW i \in 1 .. Len(s) - 1
               PROVE  s[i + 1] \in Members(s) /\ s[i + 1] # s[1]
    BY <1>2 DEF Members
  <2>1. i + 1 \in DOMAIN s /\ i + 1 # 1
    BY <1>1
  <2> QED BY <1>4, <2>1 DEF Members, Distinct
<1>6. Members(s) \ {Head(s)} \subseteq Members(Tail(s))
  <2> SUFFICES ASSUME NEW i \in DOMAIN s, s[i] # s[1]
               PROVE  s[i] \in Members(Tail(s))
    BY <1>2 DEF Members
  <2>1. i - 1 \in 1 .. Len(s) - 1 /\ (i - 1) + 1 = i
    BY <1>1
  <2>2. Tail(s)[i - 1] = s[i]
    BY <1>2, <2>1
  <2> QED BY <1>2, <2>1, <2>2 DEF Members
<1> QED BY <1>2, <1>3, <1>4, <1>5, <1>6 DEF Members

LEMMA AppendNew ==
    ASSUME NEW S, NEW s \in Seq(S), NEW x \in S, x \notin Members(s), Distinct(s)
    PROVE  /\ Distinct(Append(s, x))
           /\ Members(Append(s, x)) = Members(s) \cup {x}
<1>1. Len(s) \in Nat /\ DOMAIN s = 1 .. Len(s)
  OBVIOUS
<1>2. /\ DOMAIN Append(s, x) = 1 .. Len(s) + 1
      /\ \A i \in 1 .. Len(s) : Append(s, x)[i] = s[i]
      /\ Append(s, x)[Len(s) + 1] = x
  BY <1>1
<1>3. \A i \in 1 .. Len(s) + 1 : i \in 1 .. Len(s) \/ i = Len(s) + 1
  BY <1>1
<1>4. \A i \in 1 .. Len(s) : i \in 1 .. Len(s) + 1 /\ s[i] # x
  BY <1>1 DEF Members
<1>5. Len(s) + 1 \in 1 .. Len(s) + 1
  BY <1>1
<1>6. Distinct(Append(s, x))
  BY <1>1, <1>2, <1>3, <1>4 DEF Distinct
<1> QED BY <1>1, <1>2, <1>3, <1>4, <1>5, <1>6 DEF Members

LEMMA WithoutOne ==
    ASSUME NEW S, NEW s \in Seq(S), NEW c, Distinct(s)
    PROVE  /\ Distinct(Without(s, c))
           /\ Members(Without(s, c)) = Members(s) \ {c}
<1>1. Len(s) \in Nat /\ DOMAIN s = 1 .. Len(s)
  OBVIOUS
<1>2. CASE \E i \in DOMAIN s : s[i] = c
  <2>1. PICK k \in 1 .. Len(s) :
           /\ s[k] = c
           /\ Without(s, c) = SubSeq(s, 1, k - 1) \o SubSeq(s, k + 1, Len(s))
    BY <1>1, <1>2 DEF Without
  <2> DEFINE a == SubSeq(s, 1, k - 1)
             b == SubSeq(s, k + 1, Len(s))
             t == a \o b
  <2>2. /\ a \in Seq(S) /\ Len(a) = k - 1
        /\ \A i \in 1 .. k - 1 : a[i] = s[i]
    BY <1>1, <2>1
  <2>3. /\ b \in Seq(S) /\ Len(b) = Len(s) - k
        /\ \A i \in 1 .. Len(s) - k : b[i] = s[k + i]
    <3>1. ASSUME NEW q \in 1 .. Len(s) + 1
          PROVE  /\ SubSeq(s, q, Len(s)) \in Seq(S)
                 /\ Len(SubSeq(s, q, Len(s))) = Len(s) - q + 1
                 /\ \A i \in 1 .. Len(s) - q + 1 : SubSeq(s, q, Len(s))[i] = s[q + i - 1]
      BY <1>1
    <3>2. k + 1 \in 1 .. Len(s) + 1 /\ Len(s) - (k + 1) + 1 = Len(s) - k
      BY <1>1
    <3>3. \A i \in 1 .. Len(s) - k : (k + 1) + i - 1 = k + i
      BY <1>1
    <3>4. /\ b \in Seq(S) /\ Len(b) = Len(s) - (k + 1) + 1
          /\ \A i \in 1 .. Len(s) - (k + 1) + 1 : b[i] = s[(k + 1) + i - 1]
      BY <3>1, <3>2, Zenon
    <3> QED BY <3>2, <3>3, <3>4
  <2> HIDE DEF a, b
  <2>4. /\ DOMAIN t = 1 .. Len(a) + Len(b)
        /\ \A i \in 1 .. Len(a) + Len(b) : t[i] = IF i <= Len(a) THEN a[i] ELSE b[i - Len(a)]
    <3>1. ASSUME NEW x \in Seq(S), NEW y \in Seq(S)
          PROVE  /\ DOMAIN (x \o y) = 1 .. Len(x) + Len(y)
                 /\ \A i \in 1 .. Len(x) + Len(y) :
                       (x \o y)[i] = IF i <= Len(x) THEN x[i] ELSE y[i - Len(x)]
      OBVIOUS
    <3> QED BY <2>2, <2>3, <3>1, Zenon
  <2> HIDE DEF t
  <2>5. DOMAIN t = 1 .. Len(s) - 1
    BY <1>1, <2>2, <2>3, <2>4
  <2>6. ASSUME NEW i \in 1 .. Len(s) - 1
        PROVE  t[i] = IF i < k THEN s[i] ELSE s[i + 1]
    <3>1. CASE i < k
      BY <1>1, <2>2, <2>3, <2>4, <3>1
    <3>2. CASE i >= k
      <4>1. i - (k - 1) \in 1 .. Len(s) - k /\ k + (i - (k - 1)) = i + 1
        BY <1>1, <3>2
      <4>2. b[i - (k - 1)] = s[i + 1]
        BY <2>3, <4>1
      <4> QED BY <1>1, <2>2, <2>3, <2>4, <3>2, <4>2
    <3> QED BY <1>1, <3>1, <3>2
  <2>7. Distinct(t)
    <3> SUFFICES ASSUME NEW i \in 1 .. Len(s) - 1, NEW j \in 1 .. Len(s) - 1, t[i] = t[j]
                 PROVE  i = j
      BY <2>5 DEF Distinct
    <3>1. /\ i \in DOMAIN s /\ i + 1 \in DOMAIN s
          /\ j \in DOMAIN s /\ j + 1 \in DOMAIN s
      BY <1>1
    <3> QED BY <1>1, <2>6, <3>1 DEF Distinct
  <2>8. Members(t) \subseteq Members(s) \ {c}
    <3> SUFFICES ASSUME NEW i \in 1 .. Len(s) - 1 PROVE t[i] \in Members(s) /\ t[i] # s[k]
      BY <2>1, <2>5 DEF Members
    <3>1. i \in DOMAIN s /\ i + 1 \in DOMAIN s /\ k \in DOMAIN s
      BY <1>1
    <3> QED BY <1>1, <2>6, <3>1 DEF Distinct, Members
  <2>9. Members(s) \ {c} \subseteq Members(t)
    <3> SUFFICES ASSUME NEW i \in 1 .. Len(s), i # k PROVE s[i] \in Members(t)
      BY <1>1, <2>1 DEF Members
    <3>1. CASE i < k
      <4>1. i \in 1 .. Len(s) - 1 /\ t[i] = s[i]
        BY <1>1, <2>6, <3>1
      <4> QED BY <2>5, <4>1 DEF Members
    <3>2. CASE i > k
      <4>1. i - 1 \in 1 .. Len(s) - 1 /\ ~(i - 1 < k) /\ (i - 1) + 1 = i
        BY <1>1, <3>2
      <4>2. t[i - 1] = s[i]
        BY <2>6, <4>1
      <4> QED BY <2>5, <4>1, <4>2 DEF Members
    <3> QED BY <1>1, <3>1, <3>2
  <2> QED BY <2>1, <2>7, <2>8, <2>9 DEF t, a, b
<1>3. CASE ~ \E i \in DOMAIN s : s[i] = c
  BY <1>3 DEF Without, Members
<1> QED BY <1>2, <1>3

QueuesAreOfWaiting ==
    \A l \in Listeners :
        /\ Distinct(queue[l])
        /\ \A c \in Members(queue[l]) : target[c] = l /\ child[c] = "none" /\ holders[c] = {}

ForkIsFirst == /\ pc = "fork" => child[peer] = "none"
               /\ pc = "close" => child[peer] # "none"

HeldByTheLiving ==
    \A c \in Clients : /\ c \in holders[c] => child[c] \in {"sleeping", "running"}
                       /\ holders[c] # {} => c \in Arrived

LifeInv == QueuesAreOfWaiting /\ ForkIsFirst /\ HeldByTheLiving

LEMMA QueuedInAQueue ==
    ASSUME NEW c \in Clients
    PROVE  Queued(c) <=> \E l \in Listeners : c \in Members(queue[l])
BY DEF Queued, Members

LEMMA QueuedThen ==
    ASSUME NEW c \in Clients
    PROVE  Queued(c)' <=> \E l \in Listeners : c \in Members(queue'[l])
BY DEF Queued, Members

LEMMA InitLifeInv == Init => LifeInv
BY DEF Init, LifeInv, QueuesAreOfWaiting, ForkIsFirst, HeldByTheLiving, Distinct, Members

(* What the queues are after a connection was taken, has come or was reset.*)
LEMMA TakenFromQueue ==
    ASSUME TypeInv, LifeInv, Accept
    PROVE  /\ peer' \in Members(queue[listener]) /\ peer' \in Clients /\ listener \in Listeners
           /\ \A l \in Listeners : /\ Distinct(queue'[l])
                                   /\ Members(queue'[l]) = Members(queue[l]) \ {peer'}
<1>1. /\ queue \in [Listeners -> Seq(Clients)] /\ listener \in Listeners
      /\ peer' = Head(queue[listener]) /\ queue[listener] # << >>
      /\ queue' = [queue EXCEPT ![listener] = Tail(@)]
  BY DEF Accept, TypeInv, TypeOK, ListenerInHand
<1>2. /\ Distinct(Tail(queue[listener]))
      /\ peer' \in Members(queue[listener])
      /\ Members(Tail(queue[listener])) = Members(queue[listener]) \ {peer'}
  BY <1>1, HeadAndTail DEF LifeInv, QueuesAreOfWaiting
<1>3. peer' \in Clients
  BY <1>1
<1>4. \A l \in Listeners \ {listener} : peer' \notin Members(queue[l])
  BY <1>1, <1>2 DEF LifeInv, QueuesAreOfWaiting
<1>5. \A l \in Listeners : queue'[l] = IF l = listener THEN Tail(queue[l]) ELSE queue[l]
  BY <1>1
<1> QED BY <1>1, <1>2, <1>3, <1>4, <1>5 DEF LifeInv, QueuesAreOfWaiting

LEMMA DroppedFromQueue ==
    ASSUME TypeInv, LifeInv, ListenerCloses
    PROVE  \E k \in Listeners, c \in Clients :
              /\ c \in Members(queue[k])
              /\ \A l \in Listeners : /\ Distinct(queue'[l])
                                      /\ Members(queue'[l]) = Members(queue[l]) \ {c}
<1>1. PICK k \in Listeners : queue[k] # << >> /\ queue' = [queue EXCEPT ![k] = Tail(@)]
  BY DEF ListenerCloses
<1>2. queue \in [Listeners -> Seq(Clients)]
  BY DEF TypeInv, TypeOK
<1>3. PICK c \in Clients : c = Head(queue[k])
  BY <1>1, <1>2
<1>4. /\ Distinct(Tail(queue[k])) /\ c \in Members(queue[k])
      /\ Members(Tail(queue[k])) = Members(queue[k]) \ {c}
  BY <1>1, <1>2, <1>3, HeadAndTail DEF LifeInv, QueuesAreOfWaiting
<1>5. \A l \in Listeners \ {k} : c \notin Members(queue[l])
  BY <1>1, <1>4 DEF LifeInv, QueuesAreOfWaiting
<1>6. \A l \in Listeners : queue'[l] = IF l = k THEN Tail(queue[l]) ELSE queue[l]
  BY <1>1, <1>2
<1>7. \A l \in Listeners : /\ Distinct(queue'[l])
                          /\ Members(queue'[l]) = Members(queue[l]) \ {c}
  BY <1>4, <1>5, <1>6 DEF LifeInv, QueuesAreOfWaiting
<1> QED BY <1>1, <1>4, <1>7

LEMMA AddedToQueue ==
    ASSUME TypeInv, LifeInv, NEW c \in Clients, ClientConnects(c)
    PROVE  \E k \in Listeners :
              /\ target' = [target EXCEPT ![c] = k]
              /\ \A l \in Listeners :
                    /\ Distinct(queue'[l])
                    /\ Members(queue'[l]) = IF l = k THEN Members(queue[l]) \cup {c}
                                                    ELSE Members(queue[l])
<1>1. PICK k \in Listeners : /\ queue' = [queue EXCEPT ![k] = Append(@, c)]
                            /\ target' = [target EXCEPT ![c] = k]
  BY DEF ClientConnects
<1>2. queue \in [Listeners -> Seq(Clients)]
  BY DEF TypeInv, TypeOK
<1>3. 0 \notin Listeners
  BY ForkAssumption DEF Listeners
<1>4. c \notin Members(queue[k]) /\ Distinct(queue[k])
  BY <1>3 DEF ClientConnects, LifeInv, QueuesAreOfWaiting
<1>5. /\ Distinct(Append(queue[k], c))
      /\ Members(Append(queue[k], c)) = Members(queue[k]) \cup {c}
  BY <1>2, <1>4, AppendNew
<1>6. \A l \in Listeners : queue'[l] = IF l = k THEN Append(queue[l], c) ELSE queue[l]
  BY <1>1, <1>2
<1>7. ASSUME NEW l \in Listeners
      PROVE  /\ Distinct(queue'[l])
             /\ Members(queue'[l]) = IF l = k THEN Members(queue[l]) \cup {c}
                                             ELSE Members(queue[l])
  BY <1>5, <1>6 DEF LifeInv, QueuesAreOfWaiting
<1> QED BY <1>1, <1>7

LEMMA ResetInQueue ==
    ASSUME TypeInv, LifeInv, NEW c \in Clients, ClientResets(c)
    PROVE  \A l \in Listeners :
              /\ Distinct(queue'[l])
              /\ Members(queue'[l]) = IF ResetLeavesQueue THEN Members(queue[l]) \ {c}
                                                         ELSE Members(queue[l])
<1>1. queue \in [Listeners -> Seq(Clients)] /\ target[c] \in Listeners
  BY DEF ClientResets, TypeInv, TypeOK
<1>2. CASE ~ResetLeavesQueue
  BY <1>2 DEF ClientResets, LifeInv, QueuesAreOfWaiting
<1>3. CASE ResetLeavesQueue
  <2>1. \A l \in Listeners :
           queue'[l] = IF l = target[c] THEN Without(queue[l], c) ELSE queue[l]
    BY <1>1, <1>3 DEF ClientResets
  <2>2. \A l \in Listeners \ {target[c]} : c \notin Members(queue[l])
    BY DEF LifeInv, QueuesAreOfWaiting
  <2>3. /\ Distinct(Without(queue[target[c]], c))
        /\ Members(Without(queue[target[c]], c)) = Members(queue[target[c]]) \ {c}
    BY <1>1, WithoutOne DEF LifeInv, QueuesAreOfWaiting
  <2> QED BY <1>3, <2>1, <2>2, <2>3 DEF LifeInv, QueuesAreOfWaiting
<1> QED BY <1>2, <1>3

LEMMA StepKeepsLifeInv == TypeInv /\ HolderInv /\ LifeInv /\ [Next]_vars => LifeInv'
<1> SUFFICES ASSUME TypeInv, HolderInv, LifeInv, [Next]_vars PROVE LifeInv'
  OBVIOUS
<1>0. /\ holders \in [Clients -> SUBSET (Clients \cup {Server})]
      /\ child \in [Clients -> {"none", "sleeping", "running", "unforked", "ended"}]
      /\ target \in [Clients -> Listeners \cup {0}] /\ 0 \notin Listeners
      /\ \A l \in Listeners : Members(queue[l]) \subseteq Clients
      /\ pc \in {"fork", "close"} => peer \in Clients /\ target[peer] # 0
  BY ForkAssumption DEF TypeInv, TypeOK, PeerInHand, Arrived, Listeners, Members
<1> USE DEF LifeInv, QueuesAreOfWaiting, ForkIsFirst, HeldByTheLiving, Arrived
<1>1. CASE \/ ReadLine \/ SetupListeners \/ Poll \/ PollFails \/ Scan \/ ScanEnds \/ AcceptFails
           \/ UNCHANGED vars
  BY <1>1 DEF ReadLine, SetupListeners, Poll, PollFails, Scan, ScanEnds, AcceptFails
<1>l. CASE ListenerCloses
  <2>1. UNCHANGED <<pc, peer, holders, child, target>>
    BY <1>l DEF ListenerCloses
  <2> QED BY <1>l, <2>1, DroppedFromQueue
<1>2. CASE Accept
  <2>1. /\ peer' \in Clients /\ holders' = [holders EXCEPT ![peer'] = @ \cup {Server}]
        /\ child[peer'] = "none" /\ target[peer'] # 0
        /\ pc' = "fork" /\ UNCHANGED <<child, target>> /\ Server # peer'
    BY <1>0, <1>2, TakenFromQueue, ForkAssumption DEF Accept
  <2> QED BY <1>0, <1>2, <2>1, TakenFromQueue
<1>3. CASE Fork
  <2>1. holders' = [holders EXCEPT ![peer] = @ \cup {peer}] /\ peer \in Clients
    <3>1. peer \in Clients /\ \A c \in Clients : Server \in holders[c] <=> c = peer
      BY <1>0, <1>3 DEF Fork, HolderInv, ServerHoldsPeerOnly, ForkedHoldsPeer
    <3> QED BY <1>0, <1>3, <3>1 DEF Fork
  <2>2. \A l \in Listeners : peer \notin Members(queue[l])
    BY <1>3 DEF Fork, HolderInv, ForkedHoldsPeer
  <2> QED BY <1>0, <1>3, <2>1, <2>2 DEF Fork
<1>4. CASE ForkFails
  <2>1. \A l \in Listeners : peer \notin Members(queue[l])
    BY <1>4 DEF ForkFails, HolderInv, ForkedHoldsPeer
  <2> QED BY <1>0, <1>4, <2>1 DEF ForkFails
<1>5. CASE Close
  BY <1>0, <1>5 DEF Close
<1>6. ASSUME NEW c \in Clients, HandleClient(c) PROVE LifeInv'
  BY <1>0, <1>6 DEF HandleClient
<1>7. ASSUME NEW c \in Clients, ChildEnds(c) PROVE LifeInv'
  BY <1>0, <1>7 DEF ChildEnds
<1>8. ASSUME NEW c \in Clients, ClientConnects(c) PROVE LifeInv'
  <2>1. holders[c] = {} /\ child[c] = "none" /\ target[c] = 0
    BY <1>8 DEF ClientConnects, TypeInv, ChildrenOfArrived
  <2>2. PICK k \in Listeners :
           /\ target' = [target EXCEPT ![c] = k]
           /\ \A l \in Listeners :
                 /\ Distinct(queue'[l])
                 /\ Members(queue'[l]) = IF l = k THEN Members(queue[l]) \cup {c}
                                                 ELSE Members(queue[l])
    BY <1>8, AddedToQueue
  <2>3. UNCHANGED <<pc, peer, holders, child>>
    BY <1>8 DEF ClientConnects
  <2>4. QueuesAreOfWaiting'
    <3> SUFFICES ASSUME NEW l \in Listeners, NEW d \in Members(queue'[l])
                 PROVE  target'[d] = l /\ child[d] = "none" /\ holders[d] = {}
      BY <2>2, <2>3
    <3>1. d \in Members(queue[l]) \/ (d = c /\ l = k)
      <4>1. l = k => Members(queue'[l]) = Members(queue[l]) \cup {c}
        BY <2>2
      <4>2. l # k => Members(queue'[l]) = Members(queue[l])
        BY <2>2
      <4> QED BY <4>1, <4>2
    <3> QED BY <1>0, <2>1, <2>2, <3>1
  <2> QED BY <1>0, <2>1, <2>2, <2>3, <2>4
<1>9. ASSUME NEW c \in Clients, ClientResets(c) PROVE LifeInv'
  <2>1. \A l \in Listeners :
           Distinct(queue'[l]) /\ Members(queue'[l]) \subseteq Members(queue[l])
    <3>1. CASE ResetLeavesQueue
      BY <1>9, <3>1, ResetInQueue
    <3>2. CASE ~ResetLeavesQueue
      BY <1>9, <3>2, ResetInQueue
    <3> QED BY <3>1, <3>2
  <2>2. UNCHANGED <<pc, peer, holders, child, target>>
    BY <1>9 DEF ClientResets
  <2> QED BY <2>1, <2>2
<1> QED BY <1>1, <1>l, <1>2, <1>3, <1>4, <1>5, <1>6, <1>7, <1>8, <1>9 DEF Next, ServerStep

(***************************************************************************)
(* The right command: from the loop over the lines to the child.           *)
(***************************************************************************)
ArraysAreRight == \A l \in DOMAIN cmdList : cmdList[l] = Command(l)

(* What the next line finds in cmd_temp.                                   *)
TempIsRight == cmdTemp = Command(Len(cmdList))

(* The argument of do_accept is the command of the listener, and so of the *)
(* connection that is taken from its queue.                                *)
ArgumentIsRight == /\ pc = "accept" => cmds = Command(listener)
                   /\ pc = "fork" => cmds = Command(target[peer])

CopyIsRight ==
    \A c \in Clients : child[c] \in {"sleeping", "running"} => task[c] = Command(target[c])

CommandInv == ArraysAreRight /\ TempIsRight /\ ArgumentIsRight /\ CopyIsRight /\ RightCommand

LEMMA CommandOfNoLine == Command(0) = NoCommand
<1>1. 1 .. 0 = {}
  OBVIOUS
<1> QED BY <1>1 DEF Command

LEMMA CommandOfWholeLine ==
    ASSUME NEW l \in Listeners, Whole(l)
    PROVE  Command(l) = Lines[l].cmd
<1> DEFINE lines == {k \in 1 .. l : Whole(k)}
<1>1. l \in Nat \ {0}
  BY ForkAssumption DEF Listeners
<1>2. l \in lines /\ \A k \in lines : k <= l
  BY <1>1
<1>3. \A m \in lines : (\A k \in lines : k <= m) => m = l
  BY <1>1, <1>2
<1> HIDE DEF lines
<1>4. Last(lines) = l
  BY <1>2, <1>3 DEF Last
<1> QED BY <1>2, <1>4 DEF Command, lines

LEMMA CommandOfOtherLine ==
    ASSUME NEW l \in Nat, ~Whole(l + 1)
    PROVE  Command(l + 1) = Command(l)
<1>1. \A k \in 1 .. l + 1 : k \in 1 .. l \/ k = l + 1
  OBVIOUS
<1>2. {k \in 1 .. l + 1 : Whole(k)} = {k \in 1 .. l : Whole(k)}
  BY <1>1
<1> QED BY <1>2 DEF Command

LEMMA StepKeepsCommandInv ==
    TypeInv /\ LifeInv /\ CommandInv /\ [Next]_vars => CommandInv'
<1> SUFFICES ASSUME TypeInv, LifeInv, CommandInv, [Next]_vars PROVE CommandInv'
  OBVIOUS
<1> USE DEF CommandInv, ArraysAreRight, TempIsRight, ArgumentIsRight, CopyIsRight, RightCommand
<1>0. /\ child \in [Clients -> {"none", "sleeping", "running", "unforked", "ended"}]
      /\ \A c \in Clients : child[c] # "none" => target[c] # 0
      /\ DOMAIN target = Clients /\ DOMAIN served = Clients /\ DOMAIN task = Clients
      /\ pc \in {"fork", "close"} => peer \in Clients /\ target[peer] # 0
  BY DEF TypeInv, TypeOK, ChildrenOfArrived, PeerInHand, Arrived
<1>1. CASE ReadLine
  <2>1. PICK l \in Nat : l = Len(portList)
    BY DEF TypeInv, TypeOK
  <2>2. /\ l + 1 \in Listeners /\ Len(cmdList) = l /\ cmdTemp = Command(l)
        /\ cmdTemp' = IF Lines[l + 1].port = NoPort \/ Lines[l + 1].cmd = NoCommand
                        THEN cmdTemp ELSE Lines[l + 1].cmd
        /\ cmdList' = Append(cmdList, cmdTemp')
    BY <1>1, <2>1, ForkAssumption DEF ReadLine, TypeInv, LinesAreRead, Listeners
  <2>3. cmdTemp' = Command(l + 1)
    <3>1. CASE Whole(l + 1)
      BY <2>2, <3>1, CommandOfWholeLine DEF Whole
    <3>2. CASE ~Whole(l + 1)
      BY <2>2, <3>2, CommandOfOtherLine DEF Whole
    <3> QED BY <3>1, <3>2
  <2>4. /\ Len(cmdList') = l + 1 /\ DOMAIN cmdList' = 1 .. l + 1
        /\ cmdList'[l + 1] = cmdTemp' /\ \A k \in 1 .. l : cmdList'[k] = cmdList[k]
        /\ DOMAIN cmdList = 1 .. l
    BY <2>2 DEF TypeInv, TypeOK
  <2>5. \A k \in 1 .. l + 1 : k \in 1 .. l \/ k = l + 1
    OBVIOUS
  <2>6. ArraysAreRight'
    BY <2>3, <2>4, <2>5
  <2> QED BY <1>0, <1>1, <2>3, <2>4, <2>6 DEF ReadLine
<1>2. CASE SetupListeners \/ Poll \/ PollFails \/ ScanEnds \/ AcceptFails \/ ListenerCloses
           \/ UNCHANGED vars
  BY <1>0, <1>2 DEF SetupListeners, Poll, PollFails, ScanEnds, AcceptFails, ListenerCloses
<1>3. CASE Scan
  <2>1. listener' \in ready /\ cmds' = cmdList[listener'] /\ pc = "scan"
    BY <1>3 DEF Scan
  <2>2. listener' \in DOMAIN cmdList
    BY <2>1, ForkAssumption DEF TypeInv, TypeOK, LinesAreRead, Listeners
  <2> QED BY <1>0, <1>3, <2>1, <2>2 DEF Scan
<1>4. CASE Accept
  <2>1. target[peer'] = listener
    BY <1>4, TakenFromQueue DEF LifeInv, QueuesAreOfWaiting
  <2> QED BY <1>0, <1>4, <2>1 DEF Accept
<1>5. CASE Fork
  BY <1>0, <1>5 DEF Fork, LifeInv, ForkIsFirst
<1>6. CASE ForkFails \/ Close
  BY <1>0, <1>6 DEF ForkFails, Close
<1>7. ASSUME NEW c \in Clients, HandleClient(c) PROVE CommandInv'
  BY <1>0, <1>7 DEF HandleClient
<1>8. ASSUME NEW c \in Clients, ChildEnds(c) \/ ClientResets(c) PROVE CommandInv'
  BY <1>0, <1>8 DEF ChildEnds, ClientResets
<1>9. ASSUME NEW c \in Clients, ClientConnects(c) PROVE CommandInv'
  BY <1>0, <1>9 DEF ClientConnects
<1> QED BY <1>1, <1>2, <1>3, <1>4, <1>5, <1>6, <1>7, <1>8, <1>9 DEF Next, ServerStep

LEMMA LivesHold == Spec => []LifeInv
<1>1. Spec => []TypeInv
  BY TypesHold
<1> QED BY <1>1, HoldersHold, InitLifeInv, StepKeepsLifeInv, PTL DEF Spec

LEMMA CommandsHold == Spec => []CommandInv
<1>1. Init => CommandInv
  BY CommandOfNoLine DEF Init, CommandInv, ArraysAreRight, TempIsRight, ArgumentIsRight, CopyIsRight,
                         RightCommand
<1>2. Spec => []TypeInv
  BY TypesHold
<1> QED BY <1>1, <1>2, LivesHold, StepKeepsCommandInv, PTL DEF Spec

(* A connection is served by the command of the line it came in by: what   *)
(* the loop over the lines left in the array at the listener's index, and  *)
(* do_accept handed to the child, is that line's.                          *)
THEOREM CommandsAreRight == Spec => []RightCommand
<1>1. CommandInv => RightCommand
  BY DEF CommandInv
<1> QED BY <1>1, CommandsHold, PTL

(***************************************************************************)
(* The refinement.                                                         *)
(***************************************************************************)
LEMMA NoneMoves ==
    ASSUME \A d \in Clients : Phase(d)' = Phase(d), UNCHANGED <<target, served>>
    PROVE  UNCHANGED Life!inetdVars
BY DEF Life!inetdVars

(* What a phase depends on.                                                *)
LEMMA SamePhase ==
    ASSUME NEW d \in Clients, Queued(d)' <=> Queued(d), holders'[d] = holders[d],
           child'[d] = child[d], target'[d] = target[d]
    PROVE  Phase(d)' = Phase(d)
BY DEF Phase

LEMMA SameQueues ==
    ASSUME UNCHANGED queue  PROVE \A d : Queued(d)' <=> Queued(d)
BY DEF Queued

LEMMA StepMovesLife ==
    ASSUME TypeInv, HolderInv, LifeInv, CommandInv, [Next]_vars
    PROVE  [Life!Next]_Life!inetdVars
<1>0. /\ holders \in [Clients -> SUBSET (Clients \cup {Server})]
      /\ child \in [Clients -> {"none", "sleeping", "running", "unforked", "ended"}]
      /\ target \in [Clients -> Listeners \cup {0}] /\ 0 \notin Listeners
      /\ DOMAIN served = Clients
      /\ pc \in {"fork", "close"} => peer \in Clients /\ target[peer] \in Listeners
      /\ \A c \in Clients : child[c] # "none" => target[c] # 0
  BY ForkAssumption DEF TypeInv, TypeOK, PeerInHand, ChildrenOfArrived, Arrived, Listeners
<1>q. \A c \in Clients : Queued(c) => child[c] = "none" /\ holders[c] = {} /\ target[c] # 0
  BY <1>0, QueuedInAQueue DEF LifeInv, QueuesAreOfWaiting
<1>h. \A c \in Clients : /\ holders[c] \subseteq {c, Server} /\ Server # c
                         /\ c \in holders[c] <=> child[c] \in {"sleeping", "running"}
  BY ForkAssumption DEF HolderInv, ChildrenHoldTheirs, HungUpOnlyWhenOver, LifeInv, HeldByTheLiving
<1>1. ASSUME UNCHANGED <<queue, holders, child, target, served>>
      PROVE  UNCHANGED Life!inetdVars
  BY <1>1, SameQueues, SamePhase, NoneMoves
<1>2. CASE Accept
  <2>1. PICK c \in Clients : c = peer'
    BY <1>2, TakenFromQueue
  <2>2. /\ listener \in Listeners /\ c \in Members(queue[listener])
        /\ holders' = [holders EXCEPT ![c] = @ \cup {Server}]
        /\ UNCHANGED <<child, target, served>>
        /\ \A l \in Listeners : Members(queue'[l]) = Members(queue[l]) \ {c}
    BY <1>2, <2>1, TakenFromQueue DEF Accept
  <2>3. Queued(c)
    BY <2>2, QueuedInAQueue
  <2>4. \A d \in Clients \ {c} : Queued(d)' <=> Queued(d)
    BY <2>2, QueuedInAQueue, QueuedThen
  <2>5. \A d \in Clients \ {c} : Phase(d)' = Phase(d)
    BY <1>0, <2>2, <2>4, SamePhase
  <2>6. holders[c] = {} /\ holders'[c] # {} /\ child[c] = "none" /\ target[c] # 0
    BY <1>0, <1>q, <2>2, <2>3
  <2>7. Phase(c) \in {"waiting"} /\ Phase(c)' \in {"open"}
    BY <2>2, <2>3, <2>6 DEF Phase
  <2>8. Life!Move(c, {"waiting"}, {"open"})
    BY <2>5, <2>7 DEF Life!Move
  <2>9. Life!Take(c)
    BY <2>2, <2>8 DEF Life!Take
  <2> QED BY <2>9 DEF Life!Next
<1>3. CASE Fork
  <2>1. PICK c \in Clients : c = peer
    BY <1>0, <1>3 DEF Fork
  <2>2. Server \in holders[c] /\ child[c] = "none"
    BY <1>3, <2>1 DEF Fork, HolderInv, ForkedHoldsPeer, LifeInv, ForkIsFirst
  <2>3. \A d \in Clients : Server \in holders[d] <=> d = c
    BY <1>3, <2>1, <2>2 DEF Fork, HolderInv, ServerHoldsPeerOnly
  <2>4. /\ \A d \in Clients \ {c} : holders'[d] = holders[d] /\ child'[d] = child[d]
        /\ holders'[c] # {} /\ child'[c] = "sleeping"
        /\ UNCHANGED <<queue, target, served>>
    BY <1>0, <1>3, <2>1, <2>3 DEF Fork
  <2>5. \A d \in Clients \ {c} : Phase(d)' = Phase(d)
    BY <2>4, SamePhase, SameQueues
  <2>6. Phase(c)' = Phase(c)
    BY <2>2, <2>4 DEF Phase
  <2>7. \A d \in Clients : Phase(d)' = Phase(d)
    BY <2>5, <2>6
  <2> QED BY <2>4, <2>7, NoneMoves
<1>4. CASE ForkFails
  <2>1. PICK c \in Clients : c = peer
    BY <1>0, <1>4 DEF ForkFails
  <2>2. Server \in holders[c] /\ child[c] = "none" /\ target[c] # 0
    BY <1>0, <1>4, <2>1 DEF ForkFails, HolderInv, ForkedHoldsPeer, LifeInv, ForkIsFirst
  <2>3. /\ child' = [child EXCEPT ![c] = "unforked"]
        /\ UNCHANGED <<queue, holders, target, served>>
    BY <1>4, <2>1 DEF ForkFails
  <2>4. \A d \in Clients \ {c} : Phase(d)' = Phase(d)
    BY <1>0, <2>3, SamePhase, SameQueues
  <2>5. Phase(c) \in {"open", "running"} /\ Phase(c)' \in {"over", "closed"}
    BY <1>0, <2>2, <2>3 DEF Phase
  <2>6. Life!Move(c, {"open", "running"}, {"over", "closed"})
    BY <2>4, <2>5 DEF Life!Move
  <2>7. Life!End(c)
    BY <2>3, <2>6 DEF Life!End
  <2> QED BY <2>7 DEF Life!Next
<1>5. CASE Close
  <2>1. PICK c \in Clients : c = peer
    BY <1>0, <1>5 DEF Close
  <2>2. /\ child[c] # "none" /\ target[c] # 0
        /\ holders' = [holders EXCEPT ![c] = @ \ {Server}]
        /\ UNCHANGED <<queue, child, target, served>>
    BY <1>0, <1>5, <2>1 DEF Close, LifeInv, ForkIsFirst
  <2>3. ~Queued(c) /\ ~Queued(c)'
    BY <1>q, <2>2, SameQueues
  <2>4. \A d \in Clients \ {c} : Phase(d)' = Phase(d)
    BY <1>0, <2>2, SamePhase, SameQueues
  <2>5. ASSUME Phase(c)' = Phase(c) PROVE UNCHANGED Life!inetdVars
    <3>1. \A d \in Clients : Phase(d)' = Phase(d)
      BY <2>4, <2>5
    <3> QED BY <2>2, <3>1, NoneMoves
  <2>6. CASE child[c] \in {"sleeping", "running"}
    <3>1. c \in holders[c] /\ c \in holders'[c]
      BY <1>0, <1>h, <2>2, <2>6
    <3>2. Phase(c)' = Phase(c)
      BY <2>2, <3>1 DEF Phase
    <3> QED BY <2>5, <3>2
  <2>7. CASE child[c] \notin {"sleeping", "running"}
    <3>1. holders'[c] = {} /\ child[c] \in {"unforked", "ended"}
      BY <1>0, <1>h, <2>2, <2>7
    <3>2. Phase(c)' = "closed" /\ Phase(c) \in {"over", "closed"}
      BY <2>2, <2>3, <3>1 DEF Phase
    <3>3. CASE Phase(c) = "closed"
      BY <2>5, <3>2, <3>3
    <3>4. CASE Phase(c) = "over"
      <4>1. Phase(c) \in {"over", "waiting"} /\ Phase(c)' \in {"closed"}
        BY <3>2, <3>4
      <4>2. Life!Move(c, {"over", "waiting"}, {"closed"})
        BY <2>4, <4>1 DEF Life!Move
      <4>3. Life!Close(c)
        BY <2>2, <4>2 DEF Life!Close
      <4> QED BY <4>3 DEF Life!Next
    <3> QED BY <3>2, <3>3, <3>4
  <2> QED BY <2>6, <2>7
<1>6. ASSUME NEW c \in Clients, HandleClient(c) PROVE Life!Run(c)
  <2>1. /\ child[c] = "sleeping" /\ child' = [child EXCEPT ![c] = "running"]
        /\ served' = [served EXCEPT ![c] = task[c]] /\ task[c] = Command(target[c])
        /\ UNCHANGED <<queue, holders, target>>
        /\ target[c] \in Listeners /\ holders[c] # {}
    BY <1>0, <1>6, <1>h DEF HandleClient, CommandInv, CopyIsRight
  <2>2. \A d \in Clients \ {c} : Phase(d)' = Phase(d)
    BY <1>0, <2>1, SamePhase, SameQueues
  <2>3. Phase(c) \in {"open"} /\ Phase(c)' \in {"running"}
    BY <1>0, <2>1 DEF Phase
  <2>4. [l \in Listeners |-> Command(l)][target[c]] = task[c]
    BY <2>1
  <2>5. Life!Move(c, {"open"}, {"running"})
    BY <2>2, <2>3 DEF Life!Move
  <2> QED BY <2>1, <2>4, <2>5 DEF Life!Run
<1>7. ASSUME NEW c \in Clients, ChildEnds(c) PROVE Life!End(c)
  <2>1. /\ child[c] \in {"sleeping", "running"} /\ child' = [child EXCEPT ![c] = "ended"]
        /\ holders' = [d \in Clients |-> holders[d] \ {c}]
        /\ UNCHANGED <<queue, target, served>>
        /\ target[c] # 0 /\ holders[c] # {}
    BY <1>0, <1>7, <1>h DEF ChildEnds
  <2>2. \A d \in Clients \ {c} : holders'[d] = holders[d] /\ child'[d] = child[d]
    BY <1>0, <1>h, <2>1
  <2>3. \A d \in Clients \ {c} : Phase(d)' = Phase(d)
    BY <2>1, <2>2, SamePhase, SameQueues
  <2>4. ~Queued(c)'
    BY <1>q, <2>1, SameQueues
  <2>5. Phase(c) \in {"open", "running"} /\ Phase(c)' \in {"over", "closed"}
    BY <1>0, <2>1, <2>4 DEF Phase
  <2>6. Life!Move(c, {"open", "running"}, {"over", "closed"})
    BY <2>3, <2>5 DEF Life!Move
  <2> QED BY <2>1, <2>6 DEF Life!End
<1>8. ASSUME NEW c \in Clients, ClientConnects(c) PROVE Life!Connect(c)
  <2>1. PICK k \in Listeners :
           /\ target' = [target EXCEPT ![c] = k]
           /\ \A l \in Listeners :
                 /\ Distinct(queue'[l])
                 /\ Members(queue'[l]) = IF l = k THEN Members(queue[l]) \cup {c}
                                                 ELSE Members(queue[l])
    BY <1>8, AddedToQueue
  <2>2. UNCHANGED <<holders, child, served>> /\ target[c] = 0 /\ holders[c] = {}
    BY <1>8 DEF ClientConnects, LifeInv, HeldByTheLiving, Arrived
  <2>3. \A l \in Listeners : Members(queue'[l]) \ {c} = Members(queue[l]) \ {c}
    <3> SUFFICES ASSUME NEW l \in Listeners
                 PROVE  Members(queue'[l]) \ {c} = Members(queue[l]) \ {c}
      OBVIOUS
    <3>1. l = k => Members(queue'[l]) = Members(queue[l]) \cup {c}
      BY <2>1
    <3>2. l # k => Members(queue'[l]) = Members(queue[l])
      BY <2>1
    <3> QED BY <3>1, <3>2
  <2>4. \A d \in Clients \ {c} : Queued(d)' <=> Queued(d)
    BY <2>3, QueuedInAQueue, QueuedThen
  <2>5. \A d \in Clients \ {c} : Phase(d)' = Phase(d)
    BY <1>0, <2>1, <2>2, <2>4, SamePhase
  <2>6. c \in Members(queue'[k])
    BY <2>1
  <2>7. Queued(c)'
    BY <2>6, QueuedThen
  <2>8. Phase(c) \in {"absent"} /\ Phase(c)' \in {"waiting"}
    BY <1>0, <2>1, <2>2, <2>7 DEF Phase
  <2>9. Life!Move(c, {"absent"}, {"waiting"})
    BY <2>5, <2>8 DEF Life!Move
  <2> QED BY <2>1, <2>2, <2>9 DEF Life!Connect
<1>9. ASSUME NEW c \in Clients, ClientResets(c) PROVE [Life!Next]_Life!inetdVars
  <2>1. UNCHANGED <<holders, child, target, served>> /\ target[c] # 0
    BY <1>9 DEF ClientResets
  <2>2. \A l \in Listeners :
           /\ ResetLeavesQueue => Members(queue'[l]) = Members(queue[l]) \ {c}
           /\ ~ResetLeavesQueue => Members(queue'[l]) = Members(queue[l])
    BY <1>9, ResetInQueue
  <2>3. \A d \in Clients \ {c} : Queued(d)' <=> Queued(d)
    BY <2>2, QueuedInAQueue, QueuedThen
  <2>4. \A d \in Clients \ {c} : Phase(d)' = Phase(d)
    BY <2>1, <2>3, SamePhase
  <2>5. CASE Queued(c)' <=> Queued(c)
    <3>1. \A d \in Clients : Phase(d)' = Phase(d)
      BY <2>1, <2>4, <2>5, SamePhase
    <3> QED BY <2>1, <3>1, NoneMoves
  <2>6. CASE ~(Queued(c)' <=> Queued(c))
    <3>1. Queued(c) /\ ~Queued(c)'
      BY <2>2, <2>6, QueuedInAQueue, QueuedThen
    <3>2. Phase(c) \in {"over", "waiting"} /\ Phase(c)' \in {"closed"}
      BY <1>q, <2>1, <3>1 DEF Phase
    <3>3. Life!Move(c, {"over", "waiting"}, {"closed"})
      BY <2>4, <3>2 DEF Life!Move
    <3>4. Life!Close(c)
      BY <2>1, <3>3 DEF Life!Close
    <3> QED BY <3>4 DEF Life!Next
  <2> QED BY <2>5, <2>6
<1>10. CASE \/ ReadLine \/ SetupListeners \/ Poll \/ PollFails \/ Scan \/ ScanEnds \/ AcceptFails
            \/ UNCHANGED vars
  BY <1>1, <1>10 DEF ReadLine, SetupListeners, Poll, PollFails, Scan, ScanEnds, AcceptFails
<1>11. CASE ListenerCloses
  <2>1. UNCHANGED <<holders, child, target, served>>
    BY <1>11 DEF ListenerCloses
  <2>2. PICK k \in Listeners, c \in Clients :
           /\ c \in Members(queue[k])
           /\ \A l \in Listeners : Members(queue'[l]) = Members(queue[l]) \ {c}
    BY <1>11, DroppedFromQueue
  <2>3. Queued(c) /\ ~Queued(c)'
    BY <2>2, QueuedInAQueue, QueuedThen
  <2>4. \A d \in Clients \ {c} : Queued(d)' <=> Queued(d)
    BY <2>2, QueuedInAQueue, QueuedThen
  <2>5. \A d \in Clients \ {c} : Phase(d)' = Phase(d)
    BY <2>1, <2>4, SamePhase
  <2>6. Phase(c) \in {"over", "waiting"} /\ Phase(c)' \in {"closed"}
    BY <1>q, <2>1, <2>3 DEF Phase
  <2>7. Life!Move(c, {"over", "waiting"}, {"closed"})
    BY <2>5, <2>6 DEF Life!Move
  <2>8. Life!Close(c)
    BY <2>1, <2>7 DEF Life!Close
  <2> QED BY <2>8 DEF Life!Next
<1> QED BY <1>2, <1>3, <1>4, <1>5, <1>6, <1>7, <1>8, <1>9, <1>10, <1>11
        DEF Next, ServerStep, Life!Next

(* Each connection lives the life an inetd promises it: whatever fails, it *)
(* is taken once, runs the command of its line, once, and is not closed    *)
(* before that command has ended.                                          *)
THEOREM InetdImplemented == Spec => ImplementsInetd
<1>1. Init => Life!Init
  <2> SUFFICES ASSUME Init PROVE Life!Init
    OBVIOUS
  <2>1. \A c \in Clients : Phase(c) = "absent"
    BY DEF Init, Phase
  <2> QED BY <2>1 DEF Init, Life!Init
<1>2. TypeInv /\ HolderInv /\ LifeInv /\ CommandInv /\ [Next]_vars => [Life!Next]_Life!inetdVars
  BY StepMovesLife
<1>3. Spec => []TypeInv
  BY TypesHold
<1> QED BY <1>1, <1>2, <1>3, HoldersHold, LivesHold, CommandsHold, PTL
        DEF Spec, Life!Spec, ImplementsInetd
=============================================================================
