------------------------ MODULE MulticastChat_proofs ------------------------
(***************************************************************************)
(* Proofs about MulticastChat, for any runs of the program on any hosts    *)
(* under any names, whoever talks to whom and whatever fails.              *)
(***************************************************************************)
EXTENDS MulticastChat, TLAPS

USE DEF vars

-----------------------------------------------------------------------------
(* What the receiver holds while it records, and main while it sends.      *)
ReceiverHolds ==
    \A r \in Runs : receiver[r].at \in {"key", "ip", "port"} =>
        receiver[r].name \in Names /\ Known(receiver[r].name, receiver[r].ip)

MainHolds ==
    \A r \in Runs :
        /\ main[r].at # "cin" =>
              /\ main[r].name \in Names /\ table[r][main[r].name] # Absent
              /\ \E t \in Talks : t.by = r /\ t.to = main[r].name /\ t.text = main[r].text
        /\ main[r].at \in {"port", "send"} => Known(main[r].name, main[r].ip)

(* An entry is made of an address of its owner, the port, and so on.       *)
EntryIsOf(r, n) ==
    \A i \in 1 .. Len(table[r][n]) :
        IF i % 2 = 1 THEN Known(n, table[r][n][i]) ELSE table[r][n][i] = PortText(r)

(* It is empty, or lacks its last port, while the receiver is there only.  *)
EntryIsCompleted(r, n) ==
    /\ Len(table[r][n]) = 0 => receiver[r].at = "ip" /\ receiver[r].name = n
    /\ Len(table[r][n]) % 2 = 1 <=> receiver[r].at = "port" /\ receiver[r].name = n

EntriesHold ==
    \A r \in Runs, n \in Names :
        /\ table[r][n] # Absent => EntryIsOf(r, n) /\ EntryIsCompleted(r, n)
        /\ receiver[r].at \in {"ip", "port"} /\ receiver[r].name = n => table[r][n] # Absent

(* What is on its way names somebody who announces that name where it      *)
(* comes from, goes where it was typed to go, or is known to be too short. *)
DatagramHolds(d) ==
    /\ d.text.type = "ANNOUNCE" => Known(d.text.name, d.src)
    /\ d.to # Nothing => Known(d.to, d.dst)
    /\ d.text.type = "short" => ShortSentTo(d.dst)

DatagramsHold == \A d \in net : DatagramHolds(d)

ChatInv == /\ TypeOK /\ ReceiverHolds /\ MainHolds /\ EntriesHold /\ DatagramsHold

LEMMA InitChatInv == ChatAssumption /\ Init => ChatInv
BY DEF ChatAssumption, Init, ChatInv, TypeOK, ReceiverHolds, MainHolds, EntriesHold,
       DatagramsHold, NobodyKnown, Waiting, Typing, Chat, Text, Datagram

-----------------------------------------------------------------------------
(* Nobody is forgotten: a run that has begun stays begun.                  *)
LEMMA KnownStays ==
    ASSUME \A q \in Runs : state[q] # "new" => state'[q] # "new",
           NEW name, NEW host, Known(name, host)
    PROVE  Known(name, host)'
BY DEF Known

LEMMA DatagramStays ==
    ASSUME \A q \in Runs : state[q] # "new" => state'[q] # "new",
           NEW d, DatagramHolds(d)
    PROVE  DatagramHolds(d)'
BY KnownStays DEF DatagramHolds, ShortSentTo

(* Where nobody sends.                                                     *)
LEMMA DatagramsStay ==
    ASSUME \A q \in Runs : state[q] # "new" => state'[q] # "new",
           net' \subseteq net, DatagramsHold
    PROVE  DatagramsHold'
BY DatagramStays DEF DatagramsHold

(* An entry nobody writes to stays an entry of its owner.                  *)
LEMMA EntryStays ==
    ASSUME \A q \in Runs : state[q] # "new" => state'[q] # "new",
           NEW r, NEW n, table'[r][n] = table[r][n], EntryIsOf(r, n)
    PROVE  EntryIsOf(r, n)'
<1>1. ASSUME NEW i \in 1 .. Len(table[r][n])
      PROVE  IF i % 2 = 1 THEN Known(n, table[r][n][i])' ELSE table'[r][n][i] = PortText(r)
  <2>1. CASE i % 2 = 1
    <3>1. Known(n, table[r][n][i])
      BY <2>1 DEF EntryIsOf
    <3>2. Known(n, table[r][n][i])'
      BY <3>1 DEF Known
    <3> QED BY <2>1, <3>2 DEF Known
  <2>2. CASE i % 2 # 1
    BY <2>2 DEF EntryIsOf
  <2> QED BY <2>1, <2>2
<1> QED BY <1>1 DEF EntryIsOf

(* A step outside the recording of an entry.                               *)
LEMMA EntriesStay ==
    ASSUME EntriesHold, table' = table,
           \A q \in Runs : state[q] # "new" => state'[q] # "new",
           \A q \in Runs : \/ receiver'[q] = receiver[q]
                           \/ /\ receiver[q].at \notin {"ip", "port"}
                              /\ receiver'[q].at \notin {"ip", "port"}
    PROVE  EntriesHold'
<1>1. ASSUME NEW r \in Runs, NEW n \in Names, table[r][n] # Absent
      PROVE  EntryIsOf(r, n)' /\ EntryIsCompleted(r, n)'
  <2>1. EntryIsOf(r, n) /\ EntryIsCompleted(r, n)
    BY <1>1 DEF EntriesHold
  <2> QED BY <2>1, EntryStays DEF EntryIsCompleted
<1> QED BY <1>1 DEF EntriesHold

LEMMA KnownIsHost ==
    ASSUME ChatAssumption, NEW name, NEW host, Known(name, host)
    PROVE  host \in Hosts /\ name \in Names
<1>1. PICK q \in Runs : HostOf[q] = host /\ Announces(q, name)
  BY DEF Known
<1>2. ASSUME [type |-> "ANNOUNCE", name |-> name] \in Text
      PROVE  name \in Names
  BY <1>2 DEF Text
<1>3. name \in Names
  BY <1>1, <1>2 DEF Announces, ChatAssumption
<1> QED BY <1>1, <1>3 DEF ChatAssumption

(* An address is not a port, whatever the system calls the port.           *)
LEMMA Ports ==
    ASSUME ChatAssumption, NEW r
    PROVE  PortText(r) \in Element /\ PortText(r) \notin Hosts /\ Hosts \subseteq Element
BY DEF ChatAssumption, PortText, Element, Port

(* A datagram to the group.                                                *)
LEMMA GroupDatagrams ==
    ASSUME ChatAssumption, TypeOK, NEW r \in Runs, NEW text \in Text, ToGroup(r, text)
    PROVE  /\ net' \subseteq Datagram
           /\ \A d \in net' :
                 d \in net \/ (d.text = text /\ d.src = HostOf[r] /\ d.to = Nothing)
BY DEF ChatAssumption, TypeOK, ToGroup, Members, Datagram

LEMMA Texts ==
    ASSUME ChatAssumption, NEW r \in Runs
    PROVE  Chat \in Text /\ Short \in Text /\ Announcement(r) \in Text
BY DEF ChatAssumption, Chat, Short, Announcement, Text

-----------------------------------------------------------------------------
(* The steps by which a run begins, or joins the group.                    *)
LEMMA LifeSteps ==
    ASSUME ChatAssumption, ChatInv, NEW r \in Runs, Start(r) \/ Subscribe(r)
    PROVE  ChatInv'
<1> USE DEF ChatInv, TypeOK
<1>0. /\ \A q \in Runs : state[q] # "new" => state'[q] # "new"
      /\ net' = net
  BY DEF Start, Subscribe, Running
<1>1. DatagramsHold'
  BY <1>0, DatagramsStay
<1>2. CASE Start(r)
  <2>1. TypeOK'
    BY <1>2 DEF Start
  <2>2. ReceiverHolds' /\ MainHolds'
    BY <1>0, <1>2, KnownStays DEF Start, ReceiverHolds, MainHolds
  <2>3. EntriesHold'
    BY <1>0, <1>2, EntriesStay DEF Start
  <2> QED BY <1>1, <2>1, <2>2, <2>3
<1>3. CASE Subscribe(r)
  <2>1. TypeOK'
    <3>1. receiver' \in [Runs -> [at : {"start", "recvfrom", "key", "ip", "port", "ended"},
                                  name : Names \cup {Nothing}, ip : Hosts \cup {Nothing}]]
      <4>1. PICK at \in {"ended", "recvfrom"} : receiver' = [receiver EXCEPT ![r].at = at]
        BY <1>3 DEF Subscribe
      <4>2. [receiver[r] EXCEPT !.at = at]
              = [at |-> at, name |-> receiver[r].name, ip |-> receiver[r].ip]
        <5>1. PICK a, b, c : receiver[r] = [at |-> a, name |-> b, ip |-> c]
          OBVIOUS
        <5> HIDE DEF ChatInv, TypeOK
        <5> QED BY <5>1
      <4> QED BY <4>1, <4>2
    <3> QED BY <1>3, <3>1 DEF Subscribe
  <2>2. ReceiverHolds' /\ MainHolds'
    BY <1>0, <1>3, KnownStays DEF Subscribe, ReceiverHolds, MainHolds
  <2>3. EntriesHold'
    BY <1>0, <1>3, EntriesStay DEF Subscribe
  <2> QED BY <1>1, <2>1, <2>2, <2>3
<1> QED BY <1>2, <1>3

(* A run ends or dies: by control-C, or an exception in one of its threads.*)
LEMMA QuitStep ==
    ASSUME ChatAssumption, ChatInv, NEW r \in Runs,
           NEW how \in {"ended", "crashed"}, Quit(r, how)
    PROVE  ChatInv'
<1> USE DEF ChatInv, TypeOK
<1>1. \A q \in Runs : state[q] # "new" => state'[q] # "new"
  BY DEF Quit
<1>2. TypeOK'
  BY DEF Quit, NobodyKnown, Waiting, Typing, Chat, Text
<1>3. ReceiverHolds' /\ MainHolds'
  BY <1>1, KnownStays DEF Quit, ReceiverHolds, MainHolds, Waiting, Typing
<1>4. EntriesHold'
  <2>1. ASSUME NEW q \in Runs, NEW n \in Names, table'[q][n] # Absent
        PROVE  EntryIsOf(q, n)' /\ EntryIsCompleted(q, n)'
    <3>1. q # r /\ table'[q] = table[q] /\ receiver'[q] = receiver[q]
      BY <2>1 DEF Quit, NobodyKnown
    <3>2. EntryIsOf(q, n) /\ EntryIsCompleted(q, n)
      BY <2>1, <3>1 DEF EntriesHold
    <3> QED BY <1>1, <3>1, <3>2, EntryStays DEF EntryIsCompleted
  <2>2. ASSUME NEW q \in Runs, NEW n \in Names, receiver'[q].at \in {"ip", "port"},
               receiver'[q].name = n
        PROVE  table'[q][n] # Absent
    BY <2>2 DEF Quit, Waiting, EntriesHold
  <2> QED BY <2>1, <2>2 DEF EntriesHold
<1>5. DatagramsHold'
  BY <1>1, DatagramsStay DEF Quit
<1> QED BY <1>2, <1>3, <1>4, <1>5

(* The steps that change what is on its way and nothing else but, for one  *)
(* of them, whether a run goes on announcing itself.                       *)
LEMMA SendSteps ==
    ASSUME ChatAssumption, ChatInv,
           \/ \E r \in Runs : \/ SendMessage(r) \/ SendMessageFails(r) \/ SendMessageMult(r)
           \/ Lose
           \/ \E r \in Runs, d \in net : RecvOther(r, d)
    PROVE  ChatInv'
<1> USE DEF ChatInv
<1>1. /\ UNCHANGED <<state, receiver, table, main>>
      /\ announcer' \in [Runs -> BOOLEAN]
  BY DEF SendMessage, SendMessageFails, SendMessageMult, Lose, RecvOther, Received, TypeOK
<1>2. net' \subseteq Datagram /\ DatagramsHold'
  <2>1. ASSUME NEW r \in Runs, NEW text \in {Chat, Short, Announcement(r)},
               ToGroup(r, text), state[r] # "new", text = Short => r \notin Surviving
        PROVE  net' \subseteq Datagram /\ DatagramsHold'
    <3>1. /\ Known(NameOf[r], HostOf[r])'
          /\ text = Short => \A host : ShortSentTo(host)'
      BY <1>1, <2>1 DEF Known, Announces, ShortSentTo
    <3>2. \A d \in net : DatagramHolds(d)'
      BY <1>1, DatagramStays DEF DatagramsHold
    <3>3. /\ net' \subseteq Datagram
          /\ \A d \in net' : \/ d \in net
                             \/ d.text = text /\ d.src = HostOf[r] /\ d.to = Nothing
      BY <2>1, GroupDatagrams, Texts
    <3>4. text.type = "short" => text = Short
      BY DEF Chat, Announcement
    <3>5. text.type = "ANNOUNCE" => text.name = NameOf[r]
      BY DEF Chat, Short, Announcement
    <3>6. ASSUME NEW d \in net', d \notin net
          PROVE  DatagramHolds(d)'
      BY <3>1, <3>3, <3>4, <3>5, <3>6 DEF DatagramHolds
    <3> QED BY <3>2, <3>3, <3>6 DEF DatagramsHold
  <2>2. CASE net' \subseteq net
    BY <1>1, <2>2, DatagramsStay DEF TypeOK
  <2> QED BY <2>1, <2>2 DEF SendMessage, SendMessageFails, SendMessageMult, Lose,
                            RecvOther, Received, Running, Chat, Short, Announcement
<1>3. TypeOK'
  BY <1>1, <1>2 DEF TypeOK
<1>4. ReceiverHolds' /\ MainHolds' /\ EntriesHold'
  <2>1. EntriesHold'
    BY <1>1, EntriesStay
  <2>2. ReceiverHolds' /\ MainHolds'
    BY <1>1 DEF ReceiverHolds, MainHolds, Known
  <2> QED BY <2>1, <2>2
<1> QED BY <1>2, <1>3, <1>4

(* The receiver takes an announcement and will make its entry.             *)
LEMMA AnnouncementStep ==
    ASSUME ChatAssumption, ChatInv, NEW r \in Runs, NEW d \in net, RecvAnnouncement(r, d)
    PROVE  ChatInv'
<1> USE DEF ChatInv, RecvAnnouncement, Received
<1>1. /\ UNCHANGED <<state, announcer, table, main>>
      /\ net' \subseteq net
      /\ receiver' = [receiver EXCEPT ![r] =
                        [at |-> "key", name |-> d.text.name, ip |-> d.src]]
      /\ Running(r) /\ receiver[r].at = "recvfrom"
  OBVIOUS
<1>2. Known(d.text.name, d.src) /\ d.text.name \in Names /\ d.src \in Hosts
  BY KnownIsHost DEF DatagramsHold, DatagramHolds
<1>3. TypeOK'
  BY <1>1, <1>2 DEF TypeOK
<1>4. ReceiverHolds' /\ MainHolds' /\ DatagramsHold'
  <2>1. \A name, host : Known(name, host)' <=> Known(name, host)
    BY <1>1 DEF Known
  <2>2. \A q \in Runs : receiver'[q] = receiver[q] \/
                        (q = r /\ receiver'[q].name = d.text.name /\ receiver'[q].ip = d.src)
    BY <1>1 DEF TypeOK
  <2>3. ReceiverHolds'
    BY <1>2, <2>1, <2>2 DEF ReceiverHolds
  <2>4. MainHolds' /\ DatagramsHold'
    BY <1>1, <2>1, DatagramsStay DEF MainHolds
  <2> QED BY <2>3, <2>4
<1>5. EntriesHold'
  BY <1>1, EntriesStay DEF TypeOK
<1> QED BY <1>3, <1>4, <1>5

(* addr_table[name] makes an entry that is empty, or leaves a whole one.   *)
LEMMA EntryFacts ==
    ASSUME ChatInv, NEW r \in Runs, receiver[r].at \in {"key", "ip", "port"}
    PROVE  /\ receiver[r].name \in Names
           /\ Known(receiver[r].name, receiver[r].ip)
           /\ Entry(r, receiver[r].name) \in Seq(Element)
           /\ \A i \in 1 .. Len(Entry(r, receiver[r].name)) :
                 IF i % 2 = 1 THEN Known(receiver[r].name, Entry(r, receiver[r].name)[i])
                              ELSE Entry(r, receiver[r].name)[i] = PortText(r)
           /\ Len(Entry(r, receiver[r].name)) % 2 = 1 <=> receiver[r].at = "port"
           /\ receiver[r].at = "ip" => table[r][receiver[r].name] # Absent
<1>1. receiver[r].name \in Names /\ Known(receiver[r].name, receiver[r].ip)
  BY DEF ChatInv, ReceiverHolds
<1>2. CASE table[r][receiver[r].name] = Absent
  BY <1>1, <1>2 DEF ChatInv, EntriesHold, Entry
<1>3. CASE table[r][receiver[r].name] # Absent
  <2>1. EntryIsOf(r, receiver[r].name) /\ EntryIsCompleted(r, receiver[r].name)
    BY <1>1, <1>3 DEF ChatInv, EntriesHold
  <2>2. Entry(r, receiver[r].name) = table[r][receiver[r].name]
    BY <1>3 DEF Entry
  <2>3. table[r][receiver[r].name] \in Seq(Element)
    BY <1>1, <1>3 DEF ChatInv, TypeOK
  <2> QED BY <1>1, <1>3, <2>1, <2>2, <2>3 DEF EntryIsOf, EntryIsCompleted
<1> QED BY <1>1, <1>2, <1>3

(* What the three steps of recording have in common: the entry they leave  *)
(* behind must be as far as the receiver says it is.                       *)
LEMMA RecordingKeeps ==
    ASSUME ChatAssumption, ChatInv, NEW r \in Runs, NEW n, n = receiver[r].name,
           NEW at \in {"key", "ip", "port"}, NEW next, NEW entry,
           Recording(r, at, next, entry),
           next = [at |-> next.at, name |-> next.name, ip |-> next.ip],
           \/ next = Waiting
           \/ /\ next.at \in {"ip", "port"}
              /\ next.name = n /\ next.ip = receiver[r].ip,
           entry \in Seq(Element),
           \A i \in 1 .. Len(entry) :
              IF i % 2 = 1 THEN Known(n, entry[i]) ELSE entry[i] = PortText(r),
           Len(entry) = 0 => next.at = "ip",
           Len(entry) % 2 = 1 <=> next.at = "port"
    PROVE  ChatInv'
<1>1. /\ UNCHANGED <<state, announcer, main, net>>
      /\ table' = [table EXCEPT ![r] = [table[r] EXCEPT ![n] = entry]]
      /\ receiver' = [receiver EXCEPT ![r] = next]
      /\ Running(r) /\ receiver[r].at = at
  BY DEF Recording, ChatInv, TypeOK
<1>2. n \in Names /\ Known(n, receiver[r].ip) /\ receiver[r].ip \in Hosts
  BY <1>1, KnownIsHost DEF ChatInv, ReceiverHolds
<1>3. entry # Absent
  BY DEF ChatAssumption
<1>4. /\ table'[r][n] = entry /\ receiver'[r] = next
      /\ \A q \in Runs \ {r} : table'[q] = table[q] /\ receiver'[q] = receiver[q]
      /\ \A k \in Names \ {n} : table'[r][k] = table[r][k]
  BY <1>1, <1>2 DEF ChatInv, TypeOK
<1>5. TypeOK'
  <2>1. next \in [at : {"start", "recvfrom", "key", "ip", "port", "ended"},
                  name : Names \cup {Nothing}, ip : Hosts \cup {Nothing}]
    BY <1>2 DEF Waiting
  <2>2. table' \in [Runs -> [Names -> Seq(Element) \cup {Absent}]]
    BY <1>1, <1>2 DEF ChatInv, TypeOK
  <2> QED BY <1>1, <2>1, <2>2 DEF ChatInv, TypeOK
<1>6. ReceiverHolds'
  <2>1. \A name, host : Known(name, host)' <=> Known(name, host)
    BY <1>1 DEF Known
  <2>2. next.at \in {"key", "ip", "port"} => next.name = n /\ next.ip = receiver[r].ip
    BY DEF Waiting
  <2>3. \A q \in Runs \ {r} : receiver'[q].at \in {"key", "ip", "port"} =>
            receiver'[q].name \in Names /\ Known(receiver'[q].name, receiver'[q].ip)
    BY <1>4 DEF ChatInv, ReceiverHolds
  <2>4. receiver'[r].at \in {"key", "ip", "port"} =>
            receiver'[r].name \in Names /\ Known(receiver'[r].name, receiver'[r].ip)
    BY <1>2, <1>4, <2>2
  <2> QED BY <2>1, <2>3, <2>4 DEF ReceiverHolds
<1>7. MainHolds'
  BY <1>1, <1>2, <1>3, <1>4 DEF ChatInv, MainHolds, Known
<1>8. EntriesHold'
  <2>1. ASSUME NEW q \in Runs, NEW k \in Names, table'[q][k] # Absent, q # r \/ k # n
        PROVE  EntryIsOf(q, k)' /\ EntryIsCompleted(q, k)'
    <3>1. table'[q][k] = table[q][k]
      BY <1>4, <2>1
    <3>2. EntryIsOf(q, k) /\ EntryIsCompleted(q, k)
      BY <2>1, <3>1 DEF ChatInv, EntriesHold
    <3>3. EntryIsOf(q, k)'
      BY <1>1, <3>1, <3>2, EntryStays
    <3>4. CASE q # r
      BY <1>4, <3>1, <3>2, <3>3, <3>4 DEF EntryIsCompleted
    <3>5. CASE q = r
      <4>1. k # n
        BY <2>1, <3>5
      <4>2. Len(table[q][k]) # 0 /\ Len(table[q][k]) % 2 # 1
        BY <3>2, <3>5, <4>1 DEF EntryIsCompleted
      <4>3. ~ (next.at = "port" /\ next.name = k)
        BY <4>1 DEF Waiting
      <4> QED BY <1>4, <3>1, <3>3, <3>5, <4>2, <4>3 DEF EntryIsCompleted
    <3> QED BY <3>4, <3>5
  <2>2. EntryIsOf(r, n)' /\ EntryIsCompleted(r, n)'
    <3>1. \A i \in 1 .. Len(entry) :
            IF i % 2 = 1 THEN Known(n, entry[i])' ELSE entry[i] = PortText(r)
      BY <1>1 DEF Known
    <3>2. EntryIsOf(r, n)'
      BY <1>4, <3>1 DEF EntryIsOf, Known
    <3>3. next.at \in {"ip", "port"} => next.name = n
      BY DEF Waiting
    <3>4. /\ Len(table'[r][n]) = Len(entry)
          /\ receiver'[r].at = next.at /\ receiver'[r].name = next.name
      BY <1>4
    <3>5. EntryIsCompleted(r, n)'
      BY <3>3, <3>4 DEF EntryIsCompleted
    <3> QED BY <3>2, <3>5
  <2>3. ASSUME NEW q \in Runs, NEW k \in Names, receiver'[q].at \in {"ip", "port"},
               receiver'[q].name = k
        PROVE  table'[q][k] # Absent
    BY <1>3, <1>4, <2>3 DEF ChatInv, EntriesHold, Waiting
  <2>4. ASSUME NEW q \in Runs, NEW k \in Names, table'[q][k] # Absent
        PROVE  EntryIsOf(q, k)' /\ EntryIsCompleted(q, k)'
    <3>1. CASE q = r /\ k = n
      BY <2>2, <3>1
    <3>2. CASE q # r \/ k # n
      BY <2>1, <2>4, <3>2
    <3> QED BY <3>1, <3>2
  <2> QED BY <2>3, <2>4 DEF EntriesHold
<1>9. DatagramsHold'
  BY <1>1, DatagramsStay DEF ChatInv
<1> QED BY <1>5, <1>6, <1>7, <1>8, <1>9 DEF ChatInv

LEMMA RecordSteps ==
    ASSUME ChatAssumption, ChatInv, NEW r \in Runs, Record(r)
    PROVE  ChatInv'
<1> DEFINE e == Entry(r, receiver[r].name)
<1>0. receiver[r] = [at |-> receiver[r].at, name |-> receiver[r].name, ip |-> receiver[r].ip]
  BY DEF ChatInv, TypeOK
<1>1. CASE MakeKey(r)
  <2>1. receiver[r].at = "key"
    BY <1>1 DEF MakeKey, Recording
  <2>2. [receiver[r] EXCEPT !.at = "ip"]
          = [at |-> "ip", name |-> receiver[r].name, ip |-> receiver[r].ip]
    BY <1>0
  <2> QED BY <1>1, <2>1, <2>2, EntryFacts, RecordingKeeps DEF MakeKey
<1>2. CASE PushIp(r)
  <2>1. receiver[r].at = "ip"
    BY <1>2 DEF PushIp, Recording
  <2>2. [receiver[r] EXCEPT !.at = "port"]
          = [at |-> "port", name |-> receiver[r].name, ip |-> receiver[r].ip]
    BY <1>0
  <2>3. /\ receiver[r].ip \in Hosts
        /\ receiver[r].ip \in Element
        /\ e \in Seq(Element) /\ Len(e) % 2 # 1
    BY <2>1, EntryFacts, KnownIsHost, Ports
  <2>4. /\ Append(e, receiver[r].ip) \in Seq(Element)
        /\ Len(Append(e, receiver[r].ip)) = Len(e) + 1
        /\ Len(Append(e, receiver[r].ip)) % 2 = 1 /\ Len(Append(e, receiver[r].ip)) # 0
    BY <2>3
  <2>5. ASSUME NEW i \in 1 .. Len(Append(e, receiver[r].ip))
        PROVE  IF i % 2 = 1 THEN Known(receiver[r].name, Append(e, receiver[r].ip)[i])
                            ELSE Append(e, receiver[r].ip)[i] = PortText(r)
    <3>1. CASE i = Len(e) + 1
      BY <2>1, <2>3, <2>4, <3>1, EntryFacts
    <3>2. CASE i \in 1 .. Len(e)
      BY <2>1, <2>3, <2>4, <3>2, EntryFacts
    <3> QED BY <2>3, <2>4, <3>1, <3>2
  <2>6. Recording(r, "ip", [at |-> "port", name |-> receiver[r].name, ip |-> receiver[r].ip],
                  Append(e, receiver[r].ip))
    BY <1>2, <2>2 DEF PushIp
  <2> QED BY <2>4, <2>5, <2>6, RecordingKeeps
<1>3. CASE PushPort(r)
  <2>1. receiver[r].at = "port"
    BY <1>3 DEF PushPort, Recording
  <2>3. e \in Seq(Element) /\ Len(e) % 2 = 1 /\ PortText(r) \in Element
    BY <2>1, EntryFacts, Ports
  <2>4. /\ Append(e, PortText(r)) \in Seq(Element)
        /\ Len(Append(e, PortText(r))) = Len(e) + 1
        /\ Len(Append(e, PortText(r))) % 2 # 1 /\ Len(Append(e, PortText(r))) # 0
    BY <2>3
  <2>5. ASSUME NEW i \in 1 .. Len(Append(e, PortText(r)))
        PROVE  IF i % 2 = 1 THEN Known(receiver[r].name, Append(e, PortText(r))[i])
                            ELSE Append(e, PortText(r))[i] = PortText(r)
    <3>1. CASE i = Len(e) + 1
      BY <2>3, <2>4, <3>1
    <3>2. CASE i \in 1 .. Len(e)
      <4>1. Append(e, PortText(r))[i] = e[i]
        BY <2>3, <3>2
      <4>2. IF i % 2 = 1 THEN Known(receiver[r].name, e[i]) ELSE e[i] = PortText(r)
        BY <2>1, <3>2, EntryFacts
      <4> QED BY <4>1, <4>2
    <3> QED BY <2>3, <2>4, <3>1, <3>2
  <2>6. Recording(r, "port", Waiting, Append(e, PortText(r)))
    BY <1>3 DEF PushPort
  <2>7. Waiting = [at |-> Waiting.at, name |-> Waiting.name, ip |-> Waiting.ip]
        /\ Waiting.at = "recvfrom"
    BY DEF Waiting
  <2> QED BY <2>4, <2>5, <2>6, <2>7, RecordingKeeps
<1> QED BY <1>1, <1>2, <1>3 DEF Record

-----------------------------------------------------------------------------
(* The steps of main that send to one person, up to what it reads.         *)
LEMMA ReadingSteps ==
    ASSUME ChatAssumption, ChatInv, NEW r \in Runs,
           FindPerson(r) \/ ReadIp(r) \/ ReadPort(r)
    PROVE  ChatInv'
<1>1. /\ UNCHANGED <<state, announcer, receiver, table, net>>
      /\ Running(r)
      /\ \A q \in Runs \ {r} : main'[q] = main[q]
  BY DEF ChatInv, TypeOK, FindPerson, ReadIp, ReadPort
<1>2. \A name, host : Known(name, host)' <=> Known(name, host)
  BY <1>1 DEF Known
<1>3. /\ main' \in [Runs -> [at : {"cin", "ip", "port", "send"},
                             name : Names \cup {Nothing}, ip : Hosts \cup {Nothing},
                             text : Text]]
      /\ main'[r].at # "cin" /\ main'[r].name \in Names
      /\ table[r][main'[r].name] # Absent
      /\ \E t \in Talks : t.by = r /\ t.to = main'[r].name /\ t.text = main'[r].text
      /\ main'[r].at \in {"port", "send"} => Known(main'[r].name, main'[r].ip)
  <2>1. CASE FindPerson(r)
    <3>1. PICK t \in Talks :
             /\ t.by = r /\ t.to # Nothing /\ table[r][t.to] # Absent
             /\ main' = [main EXCEPT ![r] = [at |-> "ip", name |-> t.to, ip |-> Nothing,
                                             text |-> t.text]]
      BY <2>1 DEF FindPerson
    <3>2. t.to \in Names /\ t.text \in Text
      BY <3>1 DEF ChatAssumption
    <3> QED BY <3>1, <3>2 DEF ChatInv, TypeOK
  <2>2. CASE ReadIp(r)
    <3>1. /\ main[r].name \in Names /\ table[r][main[r].name] # Absent
          /\ \E t \in Talks : t.by = r /\ t.to = main[r].name /\ t.text = main[r].text
      BY <2>2 DEF ChatInv, MainHolds, ReadIp
    <3>2. /\ table[r][main[r].name] \in Seq(Element)
          /\ ElementAt(r, 1) = table[r][main[r].name][1]
          /\ 1 \in 1 .. Len(table[r][main[r].name])
      BY <2>2, <3>1 DEF ChatInv, TypeOK, ReadIp, ElementAt, HasElement, Entry
    <3>3. Known(main[r].name, ElementAt(r, 1))
      BY <3>1, <3>2 DEF ChatInv, EntriesHold, EntryIsOf
    <3>4. ElementAt(r, 1) \in Hosts
      BY <3>3, KnownIsHost
    <3>5. main[r].text \in Text
      BY DEF ChatInv, TypeOK
    <3>6. main' = [main EXCEPT ![r] = [at |-> "port", name |-> main[r].name,
                                       ip |-> ElementAt(r, 1), text |-> main[r].text]]
      BY <2>2 DEF ReadIp
    <3> QED BY <3>1, <3>3, <3>4, <3>5, <3>6 DEF ChatInv, TypeOK
  <2>3. CASE ReadPort(r)
    <3>1. /\ main[r].name \in Names /\ table[r][main[r].name] # Absent
          /\ \E t \in Talks : t.by = r /\ t.to = main[r].name /\ t.text = main[r].text
          /\ Known(main[r].name, main[r].ip)
      BY <2>3 DEF ChatInv, MainHolds, ReadPort
    <3>2. main' = [main EXCEPT ![r] = [at |-> "send", name |-> main[r].name,
                                       ip |-> main[r].ip, text |-> main[r].text]]
      <4>1. [main[r] EXCEPT !.at = "send"]
              = [at |-> "send", name |-> main[r].name, ip |-> main[r].ip,
                 text |-> main[r].text]
        BY DEF ChatInv, TypeOK
      <4>2. main' = [main EXCEPT ![r].at = "send"]
        BY <2>3 DEF ReadPort
      <4> QED BY <4>1, <4>2
    <3>3. main[r].ip \in Hosts /\ main[r].text \in Text
      BY <3>1, KnownIsHost DEF ChatInv, TypeOK
    <3> QED BY <3>1, <3>2, <3>3 DEF ChatInv, TypeOK
  <2> QED BY <2>1, <2>2, <2>3
<1>4. TypeOK'
  BY <1>1, <1>3 DEF ChatInv, TypeOK
<1>5. DatagramsHold'
  BY <1>1, DatagramsStay DEF ChatInv
<1>6. ReceiverHolds'
  BY <1>1, <1>2 DEF ChatInv, ReceiverHolds
<1>7. MainHolds'
  BY <1>1, <1>2, <1>3 DEF ChatInv, MainHolds
<1>8. EntriesHold'
  BY <1>1, EntriesStay DEF ChatInv
<1> QED BY <1>4, <1>5, <1>6, <1>7, <1>8 DEF ChatInv

(* main sends what was typed, and an announcement counts as the sender's.  *)
LEMMA PrivateStep ==
    ASSUME ChatAssumption, ChatInv, NEW r \in Runs, SendToPerson(r)
    PROVE  ChatInv'
<1>1. /\ UNCHANGED <<state, announcer, receiver, table>>
      /\ Running(r)
      /\ main' = [main EXCEPT ![r] = Typing]
  BY DEF SendToPerson
<1>2. \A name, host : Known(name, host)' <=> Known(name, host)
  BY <1>1 DEF Known
<1>3. /\ Known(main[r].name, main[r].ip)
      /\ \E t \in Talks : t.by = r /\ t.to = main[r].name /\ t.text = main[r].text
  BY DEF ChatInv, MainHolds, SendToPerson
<1>4. main[r].name \in Names /\ main[r].ip \in Hosts /\ main[r].text \in Text
  BY <1>3, KnownIsHost DEF ChatInv, TypeOK
<1> DEFINE new == [dst |-> main[r].ip, src |-> HostOf[r], text |-> main[r].text,
                   to |-> main[r].name]
<1>5. \A d \in net' : d \in net \/ d = new
  BY DEF SendToPerson
<1>6. net' \subseteq Datagram
  <2>1. new \in Datagram
    BY <1>4 DEF ChatAssumption, Datagram
  <2> QED BY <1>5, <2>1 DEF ChatInv, TypeOK
<1>7. DatagramHolds(new)
  <2>1. main[r].name # Nothing /\ state[r] # "new"
    BY <1>1, <1>4 DEF ChatAssumption, Running
  <2>2. ASSUME main[r].text.type = "ANNOUNCE"
        PROVE  Known(main[r].text.name, HostOf[r])
    <3>1. main[r].text = [type |-> "ANNOUNCE", name |-> main[r].text.name]
      BY <1>4, <2>2 DEF Text
    <3>2. Announces(r, main[r].text.name)
      BY <1>3, <2>1, <3>1 DEF Announces
    <3> QED BY <2>1, <3>2 DEF Known
  <2>3. ASSUME main[r].text.type = "short"
        PROVE  ShortSentTo(main[r].ip)
    <3>1. main[r].text = Short
      BY <1>4, <2>3 DEF Text, Short
    <3> QED BY <1>3, <2>1, <3>1 DEF ShortSentTo
  <2> QED BY <1>3, <2>2, <2>3 DEF DatagramHolds
<1>8. DatagramsHold'
  <2>1. \A d : DatagramHolds(d) => DatagramHolds(d)'
    BY <1>1, DatagramStays
  <2> HIDE DEF new
  <2> QED BY <1>5, <1>7, <2>1 DEF ChatInv, DatagramsHold
<1>9. TypeOK' /\ MainHolds' /\ ReceiverHolds'
  <2>1. Typing.at = "cin" /\ Typing \in [at : {"cin", "ip", "port", "send"},
                             name : Names \cup {Nothing}, ip : Hosts \cup {Nothing},
                             text : Text]
    BY Texts DEF Typing
  <2> QED BY <1>1, <1>2, <1>6, <2>1 DEF ChatInv, TypeOK, MainHolds, ReceiverHolds
<1>10. EntriesHold'
  BY <1>1, EntriesStay DEF ChatInv
<1> QED BY <1>8, <1>9, <1>10 DEF ChatInv

LEMMA StepKeepsChatInv == ChatAssumption /\ ChatInv /\ [Next]_vars => ChatInv'
<1> SUFFICES ASSUME ChatAssumption, ChatInv, [Next]_vars PROVE ChatInv'
  OBVIOUS
<1>1. ASSUME NEW r \in Runs,
             \/ Start(r) \/ Stop(r) \/ Subscribe(r)
             \/ SendMessage(r) \/ SendMessageFails(r)
             \/ Record(r) \/ SendMessageMult(r) \/ SendPrivate(r)
      PROVE  ChatInv'
  BY <1>1, LifeSteps, QuitStep, SendSteps, RecordSteps, ReadingSteps, PrivateStep
     DEF SendPrivate, Stop, ReadCrashes, StoiThrows
<1>2. ASSUME NEW r \in Runs, NEW d \in net, RecvAny(r, d)
      PROVE  ChatInv'
  BY <1>2, AnnouncementStep, QuitStep, SendSteps DEF RecvAny, RecvShort
<1>3. CASE Lose
  BY <1>3, SendSteps
<1>4. CASE UNCHANGED vars
  <2>1. \A name, host : Known(name, host)' <=> Known(name, host)
    BY <1>4 DEF Known
  <2>2. EntriesHold'
    BY <1>4, EntriesStay DEF ChatInv
  <2>3. DatagramsHold'
    BY <1>4, DatagramsStay DEF ChatInv
  <2> QED BY <1>4, <2>1, <2>2, <2>3 DEF ChatInv, TypeOK, ReceiverHolds, MainHolds
<1> QED BY <1>1, <1>2, <1>3, <1>4 DEF Next

LEMMA ChatInvAlways == ChatAssumption => (Spec => []ChatInv)
<1> SUFFICES ASSUME ChatAssumption PROVE Spec => []ChatInv
  OBVIOUS
<1> QED BY ChatAssumption, InitChatInv, StepKeepsChatInv, PTL DEF Spec

-----------------------------------------------------------------------------
(* The table, the threads and what is on its way keep their types: what    *)
(* main takes for an address never is a port (2/main.cpp:85).              *)
THEOREM ChatTypes == Spec => []TypeOK
BY ChatAssumption, ChatInvAlways, PTL DEF ChatInv

(* The actions by which a run dies.                                        *)
LEMMA Deaths ==
    ASSUME TypeOK, [Next]_vars, NEW r \in Runs, Dies(r)
    PROVE  (\E d \in net : RecvShort(r, d)) \/ ReadCrashes(r) \/ StoiThrows(r)
<1>1. ASSUME NEW q \in Runs, NEW how, Quit(q, how)
      PROVE  q = r /\ how = "crashed"
  BY <1>1 DEF Quit, Dies, TypeOK
<1>2. ~ UNCHANGED state
  BY DEF Dies
<1>3. ASSUME NEW q \in Runs PROVE ~ Start(q)
  BY DEF Start, Dies, TypeOK
<1>4. ASSUME NEW q \in Runs PROVE ~ Stop(q)
  BY <1>1 DEF Stop
<1>5. ASSUME NEW q \in Runs
      PROVE  /\ ~ Subscribe(q) /\ ~ SendMessage(q) /\ ~ SendMessageFails(q) /\ ~ Record(q)
             /\ ~ SendMessageMult(q) /\ ~ FindPerson(q) /\ ~ ReadIp(q) /\ ~ ReadPort(q)
             /\ ~ SendToPerson(q) /\ ~ Lose
             /\ \A d \in net : ~ RecvAnnouncement(q, d) /\ ~ RecvOther(q, d)
  BY <1>2 DEF Subscribe, SendMessage, SendMessageFails, Record, MakeKey, PushIp, PushPort,
              Recording, SendMessageMult, FindPerson, ReadIp, ReadPort, SendToPerson, Lose,
              RecvAnnouncement, RecvOther, Received
<1>6. ASSUME NEW q \in Runs, ReadCrashes(q) \/ StoiThrows(q) PROVE q = r
  BY <1>1, <1>6 DEF ReadCrashes, StoiThrows
<1>7. ASSUME NEW q \in Runs, NEW d \in net, RecvShort(q, d) PROVE q = r
  BY <1>1, <1>7 DEF RecvShort
<1> QED BY <1>2, <1>3, <1>4, <1>5, <1>6, <1>7 DEF Next, SendPrivate, RecvAny

(* An element is missing only while the receiver is filling the entry.     *)
LEMMA MissingIsRacing ==
    ASSUME ChatInv, NEW r \in Runs, ReadCrashes(r)
    PROVE  main[r].at \in {"ip", "port"} /\ Racing(r)
<1>1. /\ main[r].at \in {"ip", "port"}
      /\ main[r].name \in Names /\ table[r][main[r].name] # Absent
      /\ Racing(r) \/ ~HasElement(r, 1) \/ ~HasElement(r, 2)
  BY DEF ChatInv, MainHolds, ReadCrashes
<1>2. CASE ~Racing(r)
  <2>1. Len(table[r][main[r].name]) \in Nat /\ Len(table[r][main[r].name]) <= 1
    BY <1>1, <1>2 DEF ChatInv, TypeOK, HasElement, Entry
  <2>2. EntryIsCompleted(r, main[r].name)
    BY <1>1 DEF ChatInv, EntriesHold
  <2>3. Len(table[r][main[r].name]) = 0 \/ Len(table[r][main[r].name]) % 2 = 1
    <3>1. Len(table[r][main[r].name]) \in {0, 1}
      <4>1. \A k \in Nat : k <= 1 => k \in {0, 1}
        OBVIOUS
      <4> QED BY <2>1, <4>1
    <3>2. 1 % 2 = 1
      OBVIOUS
    <3> QED BY <3>1, <3>2
  <2> QED BY <1>1, <2>2, <2>3 DEF EntryIsCompleted, Racing
<1> QED BY <1>1, <1>2

(* A run dies of three causes only (2/main.cpp:82-90, 154-176): its        *)
(* receiver is in the middle of the entry main reads; it is sent a text    *)
(* that is ANNOUNCE and nothing else, by one who typed it to a name known  *)
(* there or whose announcement is spoiled; or its system has a name for    *)
(* the port of the entry it sends to.                                      *)
THEOREM DiesOfThreeCauses == Spec => CrashesAreKnown
<1>1. ASSUME ChatAssumption, ChatInv, [Next]_vars, NEW r \in Runs, Dies(r)
      PROVE  \/ main[r].at \in {"ip", "port"} /\ Racing(r)
             \/ receiver[r].at = "recvfrom" /\ ShortSentTo(HostOf[r])
             \/ main[r].at = "port" /\ HasElement(r, 2) /\ r \in Named
  <2>1. CASE ReadCrashes(r)
    BY <1>1, <2>1, MissingIsRacing
  <2>2. CASE \E d \in net : RecvShort(r, d)
    BY <1>1, <2>2 DEF RecvShort, ChatInv, DatagramsHold, DatagramHolds
  <2>3. CASE StoiThrows(r)
    <3>1. main[r].name \in Names /\ table[r][main[r].name] # Absent
      BY <1>1, <2>3 DEF StoiThrows, ChatInv, MainHolds
    <3>2. table[r][main[r].name] \in Seq(Element) /\ EntryIsOf(r, main[r].name)
      BY <1>1, <3>1 DEF ChatInv, TypeOK, EntriesHold
    <3>3. 2 \in 1 .. Len(table[r][main[r].name]) /\ 2 % 2 # 1
      BY <2>3, <3>1, <3>2 DEF StoiThrows, HasElement, Entry
    <3>4. ElementAt(r, 2) = PortText(r)
      BY <3>1, <3>2, <3>3 DEF EntryIsOf, ElementAt, Entry
    <3> QED BY <2>3, <3>4 DEF StoiThrows, PortText
  <2> QED BY <1>1, <2>1, <2>2, <2>3, Deaths DEF ChatInv
<1>2. ChatInv /\ [Next]_vars =>
        [\A r \in Runs : Dies(r) =>
           \/ main[r].at \in {"ip", "port"} /\ Racing(r)
           \/ receiver[r].at = "recvfrom" /\ ShortSentTo(HostOf[r])
           \/ main[r].at = "port" /\ HasElement(r, 2) /\ r \in Named]_vars
  BY <1>1, ChatAssumption
<1> QED BY <1>2, ChatAssumption, ChatInvAlways, PTL DEF Spec, CrashesAreKnown

(* When the receiver waits for a datagram, every entry is made of whole    *)
(* pairs of an address and a port (2/main.cpp:175-176).                    *)
THEOREM EntriesArePairs == Spec => []EntriesAreWhole
<1>1. ChatAssumption /\ ChatInv => EntriesAreWhole
  <2> SUFFICES ASSUME ChatAssumption, ChatInv, NEW r \in Runs, NEW n \in Names,
                      receiver[r].at = "recvfrom", table[r][n] # Absent
               PROVE  /\ Len(table[r][n]) >= 2 /\ Len(table[r][n]) % 2 = 0
                      /\ \A i \in 1 .. Len(table[r][n]) :
                            table[r][n][i] = PortText(r) <=> i % 2 = 0
    BY DEF EntriesAreWhole
  <2>1. EntryIsOf(r, n) /\ EntryIsCompleted(r, n)
    BY DEF ChatInv, EntriesHold
  <2>2. /\ Len(table[r][n]) \in Nat /\ Len(table[r][n]) # 0
        /\ Len(table[r][n]) % 2 # 1
    <3>1. Len(table[r][n]) \in Nat
      BY DEF ChatInv, TypeOK
    <3> QED BY <2>1, <3>1 DEF EntryIsCompleted
  <2>3. ASSUME NEW i \in 1 .. Len(table[r][n])
        PROVE  table[r][n][i] = PortText(r) <=> i % 2 = 0
    <3>1. CASE i % 2 = 1
      <4>1. Known(n, table[r][n][i])
        BY <2>1, <3>1 DEF EntryIsOf
      <4>2. table[r][n][i] # PortText(r)
        BY <4>1, KnownIsHost, Ports
      <4> QED BY <3>1, <4>2
    <3>2. CASE i % 2 # 1
      <4>1. table[r][n][i] = PortText(r)
        BY <2>1, <3>2 DEF EntryIsOf
      <4> QED BY <3>2, <4>1
    <3> QED BY <3>1, <3>2
  <2>4. Len(table[r][n]) >= 2 /\ Len(table[r][n]) % 2 = 0
    <3>1. \A k \in Nat : k # 0 /\ k % 2 # 1 => k >= 2 /\ k % 2 = 0
      OBVIOUS
    <3> QED BY <2>2, <3>1
  <2> QED BY <2>3, <2>4
<1> QED BY <1>1, ChatAssumption, ChatInvAlways, PTL

(* A private message goes to a machine on which somebody has run who       *)
(* announces that name, whoever announces what meanwhile                   *)
(* (2/main.cpp:85-103).                                                    *)
THEOREM PrivateArrives == Spec => []PrivateGoesToTheName
<1>1. ChatInv => PrivateGoesToTheName
  BY DEF ChatInv, DatagramsHold, DatagramHolds, PrivateGoesToTheName
<1> QED BY <1>1, ChatAssumption, ChatInvAlways, PTL

-----------------------------------------------------------------------------
(* MulticastChat implements AddressBook.  A run that has not begun has no  *)
(* book, and between main's look at the address and its sending, the entry *)
(* may grow, but the address is still the one main holds.                  *)
SenderHolds ==
    \A r \in Runs : (Running(r) /\ main[r].at \in {"port", "send"}) =>
        Address(r, main[r].name) = main[r].ip

NewIsBlank ==
    \A r \in Runs : state[r] = "new" =>
        main[r].at = "cin" /\ \A n \in Names : table[r][n] = Absent

BookInv == ChatInv /\ SenderHolds /\ NewIsBlank

(* What is appended does not take the first place from anybody.            *)
LEMMA FirstStays ==
    ASSUME NEW S, NEW e \in Seq(S), NEW x \in S
    PROVE  /\ Append(e, x) # << >>
           /\ e = << >> => Append(e, x)[1] = x
           /\ e # << >> => Append(e, x)[1] = e[1]
<1>1. Append(e, x) \in Seq(S) /\ Len(Append(e, x)) = Len(e) + 1 /\ Len(e) \in Nat
  OBVIOUS
<1>2. Append(e, x) # << >>
  BY <1>1
<1>3. e = << >> => Append(e, x)[1] = x
  OBVIOUS
<1>4. e # << >> => Append(e, x)[1] = e[1]
  <2>1. e # << >> => 1 \in 1 .. Len(e)
    OBVIOUS
  <2> QED BY <2>1
<1> QED BY <1>2, <1>3, <1>4

LEMMA InitBook == ChatAssumption /\ Init => BookInv /\ Book!Init
<1> SUFFICES ASSUME ChatAssumption, Init PROVE BookInv /\ Book!Init
  OBVIOUS
<1>1. BookInv
  BY InitChatInv DEF BookInv, SenderHolds, NewIsBlank, Init, Typing, NobodyKnown, Running
<1>2. \A r \in Runs : Life(r) = "new" /\ \A n \in Names : Address(r, n) = Nothing
  BY DEF Init, Life, Address, Running
<1>3. Mail = {}
  BY DEF Init, Mail
<1> QED BY <1>1, <1>2, <1>3 DEF Book!Init, Book!Blank

(* Steps that leave the lives and the entries as they are, and bring no    *)
(* private message.                                                        *)
LEMMA QuietStep ==
    ASSUME UNCHANGED <<state, table>>, Mail' \subseteq Mail
    PROVE  Book!Lose
<1>1. \A r \in Runs : Life(r)' = Life(r) /\ \A n \in Names : Address(r, n)' = Address(r, n)
  BY DEF Life, Address, Running, Entry
<1> QED BY <1>1 DEF Book!Lose

(* An announcement or a line for everybody is no private message, and what *)
(* is received or lost is only missing.                                    *)
LEMMA MailSteps ==
    ASSUME ChatAssumption, TypeOK,
           \/ net' \subseteq net
           \/ \E r \in Runs : \E text \in {Chat, Short, Announcement(r)} : ToGroup(r, text)
    PROVE  Mail' \subseteq Mail
<1>1. \A d \in net' : d.to # Nothing => d \in net
  <2>1. ASSUME NEW r \in Runs, NEW text \in {Chat, Short, Announcement(r)}, ToGroup(r, text)
        PROVE  \A d \in net' : d.to # Nothing => d \in net
    BY <2>1, GroupDatagrams, Texts
  <2> QED BY <2>1
<1> QED BY <1>1 DEF Mail

(* The other steps in which the entries stay.                              *)
LEMMA QuietSteps ==
    ASSUME ChatAssumption, BookInv,
           \/ \E r \in Runs : \/ Subscribe(r) \/ SendMessage(r) \/ SendMessageFails(r)
                              \/ SendMessageMult(r) \/ FindPerson(r) \/ ReadPort(r)
           \/ \E r \in Runs : ReadIp(r)
           \/ \E r \in Runs, d \in net : RecvAnnouncement(r, d) \/ RecvOther(r, d)
           \/ Lose
    PROVE  Book!Lose /\ SenderHolds' /\ NewIsBlank'
<1> USE DEF BookInv, ChatInv
<1>1. UNCHANGED <<state, table>>
  BY DEF Subscribe, SendMessage, SendMessageFails, SendMessageMult, FindPerson, ReadPort,
         ReadIp, RecvAnnouncement, RecvOther, Received, Lose
<1>2. Mail' \subseteq Mail
  <2>1. \/ net' \subseteq net
        \/ \E r \in Runs : \E text \in {Chat, Short, Announcement(r)} : ToGroup(r, text)
    BY DEF Subscribe, SendMessage, SendMessageFails, SendMessageMult, FindPerson, ReadPort,
           ReadIp, RecvAnnouncement, RecvOther, Received, Lose
  <2> QED BY <2>1, MailSteps
<1>3. \A r \in Runs : (Running(r))' = Running(r) /\ \A n : Address(r, n)' = Address(r, n)
  BY <1>1 DEF Address, Running, Entry
<1>4. SenderHolds'
  <2>1. CASE \E r \in Runs : FindPerson(r) \/ ReadPort(r)
    <3>1. PICK r \in Runs : FindPerson(r) \/ ReadPort(r)
      BY <2>1
    <3>2. \A q \in Runs \ {r} : main'[q] = main[q]
      BY <3>1 DEF FindPerson, ReadPort, TypeOK
    <3>3. \/ main'[r].at = "ip"
          \/ /\ main[r].at = "port" /\ main'[r].name = main[r].name
             /\ main'[r].ip = main[r].ip
      <4>1. FindPerson(r) => main'[r].at = "ip"
        BY DEF FindPerson, TypeOK
      <4>2. ReadPort(r) => /\ main[r].at = "port" /\ main'[r].name = main[r].name
                           /\ main'[r].ip = main[r].ip
        BY DEF ReadPort, TypeOK
      <4> QED BY <3>1, <4>1, <4>2
    <3>4. Running(r)
      BY <3>1 DEF FindPerson, ReadPort
    <3> QED BY <1>3, <3>2, <3>3, <3>4 DEF SenderHolds
  <2>2. CASE \E r \in Runs : ReadIp(r)
    <3>1. PICK r \in Runs : ReadIp(r)
      BY <2>2
    <3>2. /\ \A q \in Runs \ {r} : main'[q] = main[q]
          /\ main'[r].name = main[r].name /\ main'[r].ip = ElementAt(r, 1)
      BY <3>1 DEF ReadIp, TypeOK
    <3>3. main[r].name \in Names /\ table[r][main[r].name] # Absent
      BY <3>1 DEF ReadIp, MainHolds
    <3>4. Entry(r, main[r].name) \in Seq(Element)
      BY <3>3 DEF Entry, TypeOK
    <3>5. Address(r, main[r].name) = ElementAt(r, 1)
      BY <3>1, <3>4 DEF Address, ReadIp, HasElement, ElementAt
    <3> QED BY <1>3, <3>2, <3>5 DEF SenderHolds
  <2>3. CASE main' = main
    BY <1>3, <2>3 DEF SenderHolds
  <2> QED BY <2>1, <2>2, <2>3 DEF Subscribe, SendMessage, SendMessageFails,
             SendMessageMult, RecvAnnouncement, RecvOther, Received, Lose
<1>5. NewIsBlank'
  <2>1. \A r \in Runs : main'[r].at = main[r].at \/ state[r] # "new"
    BY DEF Subscribe, SendMessage, SendMessageFails, SendMessageMult, FindPerson, ReadPort,
           ReadIp, RecvAnnouncement, RecvOther, Received, Lose, Running, TypeOK
  <2> QED BY <1>1, <2>1 DEF NewIsBlank
<1> QED BY <1>1, <1>2, <1>4, <1>5, QuietStep

(* A step of one run's life.                                               *)
LEMMA HoldsElsewhere ==
    ASSUME BookInv, NEW r \in Runs,
           \A q \in Runs \ {r} : /\ state'[q] = state[q] /\ table'[q] = table[q]
                                 /\ main'[q] = main[q],
           state'[r] # "new",
           state'[r] # "running" \/ (state[r] = "new" /\ main' = main)
    PROVE  SenderHolds' /\ NewIsBlank'
<1>1. ASSUME NEW q \in Runs, state'[q] = "running", main'[q].at \in {"port", "send"}
      PROVE  Address(q, main[q].name)' = main'[q].ip
  <2>1. q # r
    BY <1>1 DEF BookInv, NewIsBlank
  <2>2. Address(q, main[q].name) = main[q].ip
    BY <1>1, <2>1 DEF BookInv, SenderHolds, Running
  <2> QED BY <2>1, <2>2 DEF Address, Entry, Running
<1>2. NewIsBlank'
  BY DEF BookInv, NewIsBlank
<1> QED BY <1>1, <1>2 DEF SenderHolds, Running

(* A run begins, is stopped, or dies.                                      *)
LEMMA LifeOnBook ==
    ASSUME ChatAssumption, BookInv, NEW r \in Runs,
           Start(r) \/ (Running(r) /\ \E how \in {"ended", "crashed"} : Quit(r, how))
    PROVE  (Book!Begin(r) \/ Book!Leave(r)) /\ SenderHolds' /\ NewIsBlank'
<1> USE DEF BookInv, ChatInv, TypeOK
<1>1. /\ \A q \in Runs \ {r} : /\ state'[q] = state[q] /\ table'[q] = table[q]
                               /\ main'[q] = main[q]
      /\ state'[r] # "new"
  BY DEF Start, Quit
<1>2. \A q \in Runs \ {r} : Life(q)' = Life(q) /\ \A n : Address(q, n)' = Address(q, n)
  BY <1>1 DEF Life, Address, Running, Entry
<1>3. CASE Start(r)
  <2>1. table' = table /\ main' = main /\ net' = net /\ state[r] = "new"
    BY <1>3 DEF Start
  <2>2. \A n \in Names : Address(r, n) = Nothing /\ Address(r, n)' = Nothing
    BY <2>1 DEF Address, Running, Entry, NewIsBlank
  <2>3. Life(r) = "new" /\ Life(r)' = IF Book!Taken(HostOf[r]) THEN "gone" ELSE "on"
    <3>1. Book!Taken(HostOf[r]) <=> \E q \in Runs : Running(q) /\ HostOf[q] = HostOf[r]
      BY DEF Book!Taken, Life, Running
    <3> QED BY <1>3, <2>1, <3>1 DEF Start, Life, Running
  <2>4. Book!Begin(r)
    <3>1. \A q \in Runs : \A n \in Names : Address(q, n)' = Address(q, n)
      BY <1>2, <2>2
    <3>2. Mail' = Mail
      BY <2>1 DEF Mail
    <3>3. [q \in Runs |-> Life(q)]'
            = [[q \in Runs |-> Life(q)] EXCEPT
                  ![r] = IF Book!Taken(HostOf[r]) THEN "gone" ELSE "on"]
      BY <1>2, <2>3
    <3> QED BY <2>3, <3>1, <3>2, <3>3 DEF Book!Begin
  <2>5. SenderHolds' /\ NewIsBlank'
    BY <1>1, <2>1, HoldsElsewhere
  <2> QED BY <2>4, <2>5
<1>4. CASE Running(r) /\ \E how \in {"ended", "crashed"} : Quit(r, how)
  <2>1. Life(r) = "on" /\ Life(r)' = "gone" /\ ~Running(r)'
    BY <1>4 DEF Quit, Life, Running
  <2>2. \A n \in Names : Address(r, n)' = Nothing
    BY <2>1 DEF Address
  <2>3. Mail' \subseteq Mail
    BY <1>4 DEF Quit, Mail
  <2>4. Book!Leave(r)
    <3>1. [q \in Runs |-> Life(q)]' = [[q \in Runs |-> Life(q)] EXCEPT ![r] = "gone"]
      BY <1>2, <2>1
    <3>2. [q \in Runs |-> [n \in Names |-> Address(q, n)]]'
            = [[q \in Runs |-> [n \in Names |-> Address(q, n)]] EXCEPT
                  ![r] = [n \in Names |-> Nothing]]
      <4>1. \A q \in Runs \ {r} :
              [n \in Names |-> Address(q, n)'] = [n \in Names |-> Address(q, n)]
        BY <1>2
      <4>2. [n \in Names |-> Address(r, n)'] = [n \in Names |-> Nothing]
        BY <2>2
      <4> QED BY <4>1, <4>2
    <3> QED BY <2>1, <2>3, <3>1, <3>2 DEF Book!Leave, Book!Blank
  <2>5. SenderHolds' /\ NewIsBlank'
    BY <1>1, <2>1, HoldsElsewhere DEF Running
  <2> QED BY <2>4, <2>5
<1> QED BY <1>3, <1>4

(* The receiver makes an entry or appends to one: it is the first address  *)
(* of the name, or changes nothing in the book.                            *)
LEMMA EntryOnBook ==
    ASSUME ChatAssumption, BookInv, NEW r \in Runs, Record(r)
    PROVE  /\ Book!Lose \/ \E n \in Names : Book!Note(r, n)
           /\ SenderHolds' /\ NewIsBlank'
<1> USE DEF BookInv, ChatInv
<1>1. receiver[r].at \in {"key", "ip", "port"} /\ Running(r)
  BY DEF Record, MakeKey, PushIp, PushPort, Recording
<1>2. PICK n \in Names :
         /\ n = receiver[r].name /\ Known(n, receiver[r].ip)
         /\ Entry(r, n) \in Seq(Element)
         /\ Len(Entry(r, n)) % 2 = 1 <=> receiver[r].at = "port"
  BY <1>1, EntryFacts
<1> DEFINE old == Entry(r, n)
           new == table'[r][n]
<1>3. receiver[r].ip \in Hosts
  BY <1>2, KnownIsHost
<1>4. /\ UNCHANGED <<state, main, net>>
      /\ \A q \in Runs \ {r} : table'[q] = table[q]
      /\ \A k \in Names \ {n} : table'[r][k] = table[r][k]
  BY <1>2 DEF Record, MakeKey, PushIp, PushPort, Recording, TypeOK
<1>5. \/ MakeKey(r) /\ new = old
      \/ PushIp(r) /\ new = Append(old, receiver[r].ip)
      \/ PushPort(r) /\ new = Append(old, PortText(r))
  BY <1>2 DEF Record, MakeKey, PushIp, PushPort, Recording, TypeOK
<1>6. new \in Seq(Element) /\ Entry(r, n)' = new
  <2>1. new \in Seq(Element)
    <3>1. receiver[r].ip \in Element /\ PortText(r) \in Element
      BY <1>3, Ports
    <3>2. ASSUME NEW x \in Element
          PROVE  Append(old, x) \in Seq(Element)
      BY <1>2
    <3> HIDE DEF new, old
    <3> QED BY <1>2, <1>5, <3>1, <3>2 DEF old
  <2> QED BY <1>1, <2>1 DEF ChatAssumption, Entry
<1>7. old # << >> => new # << >> /\ new[1] = old[1]
  <2>1. receiver[r].ip \in Element /\ PortText(r) \in Element
    BY <1>3, Ports
  <2>2. ASSUME NEW x \in Element, old # << >>
        PROVE  Append(old, x) # << >> /\ Append(old, x)[1] = old[1]
    BY <1>2, <2>2, FirstStays
  <2> HIDE DEF new, old
  <2>3. \/ new = old \/ new = Append(old, receiver[r].ip) \/ new = Append(old, PortText(r))
    BY <1>5
  <2> QED BY <2>1, <2>2, <2>3
<1>8. old = << >> /\ new # << >> => new[1] = receiver[r].ip
  <2>1. PushPort(r) => old # << >>
    BY <1>2 DEF PushPort, Recording
  <2> QED BY <1>2, <1>3, <1>5, <2>1, FirstStays
<1> HIDE DEF old, new
<1>9. /\ \A q \in Runs : Life(q)' = Life(q)
      /\ \A q \in Runs, k \in Names : q # r \/ k # n => Address(q, k)' = Address(q, k)
  BY <1>4 DEF Life, Address, Running, Entry
<1>10. Mail' = Mail
  BY <1>4 DEF Mail
<1>11. Address(r, n) # Nothing => Address(r, n)' = Address(r, n)
  BY <1>1, <1>4, <1>6, <1>7 DEF Address, Running, old
<1>12. SenderHolds'
  <2>1. ASSUME NEW q \in Runs, Running(q)', main'[q].at \in {"port", "send"}
        PROVE  Address(q, main[q].name)' = main'[q].ip
    <3>1. Running(q) /\ Address(q, main[q].name) = main[q].ip
      BY <1>4, <2>1 DEF SenderHolds, Running
    <3>2. main[q].ip \in Hosts
      BY <1>4, <2>1, KnownIsHost DEF MainHolds
    <3>3. PICK k \in Names : k = main[q].name
      BY <1>4, <2>1 DEF MainHolds
    <3>4. Address(q, k) # Nothing
      BY <3>1, <3>2, <3>3 DEF ChatAssumption
    <3>5. Address(q, k)' = Address(q, k)
      BY <1>9, <1>11, <3>4
    <3> QED BY <1>4, <3>1, <3>3, <3>5
  <2> QED BY <1>4, <2>1 DEF SenderHolds
<1>13. NewIsBlank'
  BY <1>1, <1>4 DEF NewIsBlank, Running
<1>14. CASE Address(r, n)' = Address(r, n)
  <2>1. \A q \in Runs, k \in Names : Address(q, k)' = Address(q, k)
    BY <1>9, <1>14
  <2> QED BY <1>9, <1>10, <1>12, <1>13, <2>1 DEF Book!Lose
<1>15. CASE Address(r, n)' # Address(r, n)
  <2>1. Address(r, n) = Nothing
    BY <1>11, <1>15
  <2>2. Address(r, n)' = receiver[r].ip
    BY <1>1, <1>4, <1>6, <1>7, <1>8, <1>15 DEF Address, Running, old
  <2>3. PICK q \in Runs : /\ state[q] # "new" /\ HostOf[q] = receiver[r].ip
                          /\ n \in {k \in Names : Announces(q, k)}
    BY <1>2 DEF Known
  <2>4. Life(r) = "on" /\ Life(q) # "new"
    BY <1>1, <2>3 DEF Life, Running
  <2>5. [p \in Runs |-> [k \in Names |-> Address(p, k)]]'
          = [[p \in Runs |-> [k \in Names |-> Address(p, k)]] EXCEPT ![r][n] = HostOf[q]]
    <3>1. \A p \in Runs \ {r} :
            [k \in Names |-> Address(p, k)'] = [k \in Names |-> Address(p, k)]
      BY <1>9
    <3>2. [k \in Names |-> Address(r, k)']
            = [[k \in Names |-> Address(r, k)] EXCEPT ![n] = HostOf[q]]
      BY <1>9, <2>2, <2>3
    <3> QED BY <3>1, <3>2
  <2>6. Book!Note(r, n)
    BY <1>9, <1>10, <2>1, <2>3, <2>4, <2>5 DEF Book!Note
  <2> QED BY <1>12, <1>13, <2>6
<1> QED BY <1>14, <1>15

(* main sends to the address it has read, which is still the book's, or    *)
(* the socket has no room for the message.                                 *)
LEMMA MessageOnBook ==
    ASSUME ChatAssumption, BookInv, NEW r \in Runs, SendToPerson(r)
    PROVE  /\ Book!Lose \/ \E n \in Names : Book!Send(r, n)
           /\ SenderHolds' /\ NewIsBlank'
<1> USE DEF BookInv, ChatInv
<1>1. /\ UNCHANGED <<state, table>> /\ Running(r) /\ main[r].at = "send"
      /\ main'[r].at = "cin" /\ \A q \in Runs \ {r} : main'[q] = main[q]
  BY DEF SendToPerson, TypeOK, Typing
<1>2. \A q \in Runs : Life(q)' = Life(q) /\ \A k : Address(q, k)' = Address(q, k)
  BY <1>1 DEF Life, Address, Running, Entry
<1>3. SenderHolds' /\ NewIsBlank'
  BY <1>1, <1>2 DEF SenderHolds, NewIsBlank, Running
<1>4. PICK n \in Names : n = main[r].name /\ main[r].ip \in Hosts
  BY <1>1, KnownIsHost DEF MainHolds
<1>5. Address(r, n) = main[r].ip /\ main[r].ip # Nothing
  BY <1>1, <1>4 DEF SenderHolds, ChatAssumption
<1>6. Life(r) = "on"
  BY <1>1 DEF Life, Running
<1> DEFINE d == [dst |-> main[r].ip, src |-> HostOf[r], text |-> main[r].text, to |-> n]
<1>7. CASE net' = net \cup {d}
  <2>1. Mail' = Mail \cup {[to |-> main[r].ip, name |-> n]}
    <3>1. d.to # Nothing /\ d.dst = main[r].ip /\ d.to = n
      BY DEF ChatAssumption
    <3> HIDE DEF d
    <3>2. {e \in net' : e.to # Nothing} = {e \in net : e.to # Nothing} \cup {d}
      BY <1>7, <3>1
    <3> QED BY <3>1, <3>2 DEF Mail
  <2>2. Book!Send(r, n)
    BY <1>2, <1>5, <1>6, <2>1 DEF Book!Send
  <2> QED BY <1>3, <2>2
<1>8. CASE net' = net
  <2>1. Mail' \subseteq Mail
    BY <1>8 DEF Mail
  <2> QED BY <1>1, <1>3, <2>1, QuietStep
<1>9. net' = net \cup {d} \/ net' = net
  BY <1>4 DEF SendToPerson
<1> QED BY <1>7, <1>8, <1>9

LEMMA StepOnBook ==
    ChatAssumption /\ BookInv /\ [Next]_vars => BookInv' /\ [Book!Next]_(Book!bookVars)
<1> SUFFICES ASSUME ChatAssumption, BookInv, [Next]_vars
             PROVE  BookInv' /\ [Book!Next]_(Book!bookVars)
  OBVIOUS
<1>1. ChatInv'
  BY StepKeepsChatInv DEF BookInv
<1>2. ASSUME NEW r \in Runs,
             \/ Start(r) \/ Stop(r) \/ ReadCrashes(r) \/ StoiThrows(r)
             \/ \E d \in net : RecvShort(r, d)
      PROVE  SenderHolds' /\ NewIsBlank' /\ Book!Next
  BY <1>2, LifeOnBook DEF Book!Next, Stop, ReadCrashes, StoiThrows, RecvShort
<1>3. ASSUME NEW r \in Runs, Record(r)
      PROVE  SenderHolds' /\ NewIsBlank' /\ Book!Next
  BY <1>3, EntryOnBook DEF Book!Next
<1>4. ASSUME NEW r \in Runs, SendToPerson(r)
      PROVE  SenderHolds' /\ NewIsBlank' /\ Book!Next
  BY <1>4, MessageOnBook DEF Book!Next
<1>5. CASE \/ \E r \in Runs : \/ Subscribe(r) \/ SendMessage(r) \/ SendMessageFails(r)
                              \/ SendMessageMult(r) \/ FindPerson(r) \/ ReadPort(r)
           \/ \E r \in Runs : ReadIp(r)
           \/ \E r \in Runs, d \in net : RecvAnnouncement(r, d) \/ RecvOther(r, d)
           \/ Lose
  BY <1>1, <1>5, QuietSteps DEF BookInv, Book!Next
<1>6. CASE UNCHANGED vars
  <2>1. \A q \in Runs : \A k : Address(q, k)' = Address(q, k)
    BY <1>6 DEF Address, Running, Entry
  <2>2. SenderHolds' /\ NewIsBlank'
    BY <1>6, <2>1 DEF BookInv, SenderHolds, NewIsBlank, Running
  <2>3. Book!Next
    BY <1>6, QuietStep DEF Mail, Book!Next
  <2> QED BY <1>1, <2>2, <2>3 DEF BookInv
<1> QED BY <1>1, <1>2, <1>3, <1>4, <1>5, <1>6 DEF BookInv, Next, SendPrivate, RecvAny

(* The chat implements the address book: as long as a run is on, the first *)
(* address it has recorded of a name stands, and the private messages for  *)
(* that name go there, whatever its receiver appends to the entry between  *)
(* main's look-up, its two reads and its sendto (2/main.cpp:76-103,        *)
(* 171-177).                                                               *)
THEOREM AddressBookImplemented == Spec => ImplementsAddressBook
<1>1. Init => BookInv /\ Book!Init
  BY ChatAssumption, InitBook
<1>2. BookInv /\ [Next]_vars => BookInv' /\ [Book!Next]_(Book!bookVars)
  BY ChatAssumption, StepOnBook
<1> QED BY <1>1, <1>2, PTL DEF Spec, ImplementsAddressBook, Book!Spec
=============================================================================
