--------------------------- MODULE MulticastChat ---------------------------
(***************************************************************************)
(* The multicast chat of HW2 (2/main.cpp).  A run of the program has three *)
(* threads: one announces its name to the group every 25 seconds, one      *)
(* receives and keeps a table of the people who announced themselves, and  *)
(* main sends what the user types, to the group or to one person.          *)
(*                                                                         *)
(* The receiver writes the table while main reads it, without a lock.      *)
(* What main sees of an entry that is just being filled, or of any while a *)
(* new key moves the tree, is undefined: what is there, or a crash.        *)
(*                                                                         *)
(* Every run is bound to the same port, so a host has at most one at a     *)
(* time, and stands for its address.                                       *)
(***************************************************************************)
EXTENDS Naturals, Sequences, FiniteSets

CONSTANTS Runs,          \* runs of the program
          Names,         \* the names people have
          NameOf,        \* argv[1] of each run
          Hosts,
          HostOf,        \* the machine of each run
          Surviving,     \* the runs whose announcement outlives its string
          Deaf,          \* the runs whose IP_ADD_MEMBERSHIP fails
          Named,         \* the runs whose system has a name for the port, then
          Talks,         \* what users may type, and to whom, Nothing being all
          MaxEntries,    \* bound: what the table keeps of one name
          QueueMax,      \* bound: what waits at one host; the rest is dropped
          Absent,        \* no key in the table
          Nothing        \* no name or address

Port == "23456"

(* getnameinfo() is not asked for a number: the port may have a name.      *)
PortText(r) == IF r \in Named THEN "aequus" ELSE Port

Element == Hosts \cup {Port, "aequus"}

(* A text, as the receiver takes it: what begins with ANNOUNCE announces   *)
(* the name behind it, or is too short to have one, if it is nothing else. *)
(* (It is shorter than buf, so that a zero follows it.)                    *)
Text == [type : {"ANNOUNCE"}, name : Names] \cup [type : {"short", "chat"}, name : {Nothing}]

ASSUME ChatAssumption ==
    /\ NameOf \in [Runs -> Names]
    /\ HostOf \in [Runs -> Hosts]
    /\ Surviving \subseteq Runs
    /\ Deaf \subseteq Runs
    /\ Named \subseteq Runs
    /\ Talks \subseteq [by : Runs, to : Names \cup {Nothing}, text : Text]
    /\ MaxEntries \in Nat /\ QueueMax \in Nat
    /\ Nothing \notin Hosts \cup Names
    /\ Port \notin Hosts /\ "aequus" \notin Hosts
    /\ Absent \notin Seq(Element)

VARIABLES state,         \* run -> "new", "running", "ended" or "crashed"
          announcer,     \* run -> is thread_send_message in its loop?
          receiver,      \* run -> where thread_recv_any is
          table,         \* run -> addr_table: name -> ip, port, ip, port, ...
          main,          \* run -> where main is
          net            \* datagrams in flight

vars == <<state, announcer, receiver, table, main, net>>

(* (Whom it was typed to is history: the datagram does not say.)           *)
Datagram == [dst : Hosts, src : Hosts, text : Text, to : Names \cup {Nothing}]

TypeOK ==
    /\ state \in [Runs -> {"new", "running", "ended", "crashed"}]
    /\ announcer \in [Runs -> BOOLEAN]
    /\ receiver \in [Runs -> [at : {"start", "recvfrom", "key", "ip", "port", "ended"},
                              name : Names \cup {Nothing}, ip : Hosts \cup {Nothing}]]
    /\ table \in [Runs -> [Names -> Seq(Element) \cup {Absent}]]
    /\ main \in [Runs -> [at : {"cin", "ip", "port", "send"},
                          name : Names \cup {Nothing}, ip : Hosts \cup {Nothing},
                          text : Text]]
    /\ net \subseteq Datagram

NobodyKnown == [n \in Names |-> Absent]
Waiting == [at |-> "recvfrom", name |-> Nothing, ip |-> Nothing]
Chat == [type |-> "chat", name |-> Nothing]
Short == [type |-> "short", name |-> Nothing]
Typing == [at |-> "cin", name |-> Nothing, ip |-> Nothing, text |-> Chat]

Init ==
    /\ state = [r \in Runs |-> "new"]
    /\ announcer = [r \in Runs |-> FALSE]
    /\ receiver = [r \in Runs |-> [Waiting EXCEPT !.at = "start"]]
    /\ table = [r \in Runs |-> NobodyKnown]
    /\ main = [r \in Runs |-> Typing]
    /\ net = {}

-----------------------------------------------------------------------------
Running(r) == state[r] = "running"

(* main: bind() fails if the host has a run already.                       *)
Start(r) ==
    /\ state[r] = "new"
    /\ IF \E q \in Runs : Running(q) /\ HostOf[q] = HostOf[r]
         THEN state' = [state EXCEPT ![r] = "ended"] /\ UNCHANGED announcer
         ELSE /\ state' = [state EXCEPT ![r] = "running"]
              /\ announcer' = [announcer EXCEPT ![r] = TRUE]
    /\ UNCHANGED <<receiver, table, main, net>>

(* The memory is gone, and what waits at the socket.                       *)
Quit(r, how) == /\ state' = [state EXCEPT ![r] = how]
                /\ announcer' = [announcer EXCEPT ![r] = FALSE]
                /\ receiver' = [receiver EXCEPT ![r] = [Waiting EXCEPT !.at = "ended"]]
                /\ table' = [table EXCEPT ![r] = NobodyKnown]
                /\ main' = [main EXCEPT ![r] = Typing]
                /\ net' = {d \in net : d.dst # HostOf[r]}

(* Control-C.                                                              *)
Stop(r) == Running(r) /\ Quit(r, "ended")

(* The thread ends if the host cannot join the group.                      *)
Subscribe(r) ==
    /\ Running(r)
    /\ receiver[r].at = "start"
    /\ receiver' = [receiver EXCEPT ![r].at = IF r \in Deaf THEN "ended" ELSE "recvfrom"]
    /\ UNCHANGED <<state, announcer, table, main, net>>

(* A datagram to the group reaches every member, its sender too, whose     *)
(* socket has room for it.                                                 *)
Members == {q \in Runs : Running(q) /\ receiver[q].at \notin {"start", "ended"}}

Room(host) == Cardinality({d \in net : d.dst = host}) < QueueMax

ToGroup(r, text) ==
    net' = net \cup {[dst |-> HostOf[q], src |-> HostOf[r], text |-> text, to |-> Nothing] :
                         q \in {p \in Members : Room(HostOf[p])}}

Announcement(r) == [type |-> "ANNOUNCE", name |-> NameOf[r]]

(* One pass of send_message.  The string the pointer points into is gone:  *)
(* if its bytes are not there any more, what is sent is no announcement,   *)
(* or only the beginning of one.                                           *)
SendMessage(r) ==
    /\ Running(r) /\ announcer[r]
    /\ \/ ToGroup(r, Announcement(r))
       \/ r \notin Surviving /\ \E text \in {Chat, Short} : ToGroup(r, text)
    /\ UNCHANGED <<state, announcer, receiver, table, main>>

(* sendto() fails once, and nothing is announced any more.                 *)
SendMessageFails(r) ==
    /\ Running(r) /\ announcer[r]
    /\ announcer' = [announcer EXCEPT ![r] = FALSE]
    /\ UNCHANGED <<state, receiver, table, main, net>>

Lose == /\ \E d \in net : net' = net \ {d}
        /\ UNCHANGED <<state, announcer, receiver, table, main>>

-----------------------------------------------------------------------------
(* recv_any: one datagram.                                                 *)
Received(r, d) ==
    /\ Running(r)
    /\ receiver[r].at = "recvfrom"
    /\ d \in net /\ d.dst = HostOf[r]
    /\ net' = net \ {d}
    /\ UNCHANGED <<state, announcer, table, main>>

(* Mutant of RecvAnnouncement: substr(8), so the name starts with a blank. *)
RecvAnnouncementBlank(r, d) ==
    /\ d.text.type = "ANNOUNCE"
    /\ Received(r, d)
    /\ UNCHANGED receiver

RecvAnnouncement(r, d) ==
    /\ d.text.type = "ANNOUNCE"
    /\ table[r][d.text.name] # Absent => Len(table[r][d.text.name]) < MaxEntries
    /\ Received(r, d)
    /\ receiver' = [receiver EXCEPT ![r] = [at |-> "key", name |-> d.text.name, ip |-> d.src]]

(* message.substr(9) of a text that is no longer than ANNOUNCE throws, and *)
(* nobody catches it.                                                      *)
RecvShort(r, d) ==
    /\ Running(r)
    /\ receiver[r].at = "recvfrom"
    /\ d.text.type = "short"
    /\ d \in net /\ d.dst = HostOf[r]
    /\ Quit(r, "crashed")

(* Printed; or an announcement that makes nobody known: getnameinfo()      *)
(* fails, or it is the first datagram, whose name goes on with what was in *)
(* the uncleared buf, so that the entry is for a name nobody types.        *)
RecvOther(r, d) == Received(r, d) /\ UNCHANGED receiver

Entry(r, name) == IF table[r][name] = Absent THEN << >> ELSE table[r][name]

(* addr_table[name] makes the entry, and the two push_back fill it.        *)
Recording(r, at, next, entry) ==
    /\ Running(r)
    /\ receiver[r].at = at
    /\ table' = [table EXCEPT ![r][receiver[r].name] = entry]
    /\ receiver' = [receiver EXCEPT ![r] = next]
    /\ UNCHANGED <<state, announcer, main, net>>

MakeKey(r) ==
    Recording(r, "key", [receiver[r] EXCEPT !.at = "ip"], Entry(r, receiver[r].name))

(* Mutant of PushIp: before what the entry has, so that the latest counts. *)
PushIpFirst(r) ==
    Recording(r, "ip", [receiver[r] EXCEPT !.at = "port"],
              <<receiver[r].ip>> \o Entry(r, receiver[r].name))

PushIp(r) ==
    Recording(r, "ip", [receiver[r] EXCEPT !.at = "port"],
              Append(Entry(r, receiver[r].name), receiver[r].ip))

(* Mutant of PushPort: forgotten.                                          *)
PushNoPort(r) == Recording(r, "port", Waiting, Entry(r, receiver[r].name))

PushPort(r) ==
    Recording(r, "port", Waiting, Append(Entry(r, receiver[r].name), PortText(r)))

-----------------------------------------------------------------------------
(* main: a line for everybody.  It begins with From:, whatever is typed.   *)
SendMessageMult(r) ==
    /\ Running(r)
    /\ main[r].at = "cin"
    /\ \E t \in Talks : t.by = r /\ t.to = Nothing
    /\ ToGroup(r, Chat)
    /\ UNCHANGED <<state, announcer, receiver, table, main>>

(* Mutant of FindPerson: without the look-up.                              *)
FindAnyone(r) ==
    /\ Running(r)
    /\ main[r].at = "cin"
    /\ \E t \in Talks :
          /\ t.by = r /\ t.to # Nothing
          /\ main' = [main EXCEPT ![r] = [at |-> "ip", name |-> t.to, ip |-> Nothing,
                                         text |-> t.text]]
    /\ UNCHANGED <<state, announcer, receiver, table, net>>

(* send_message_to_person: the name is looked up, and then used twice more *)
(* to take elements 0 and 1.  An unknown name is only reported.            *)
FindPerson(r) ==
    /\ Running(r)
    /\ main[r].at = "cin"
    /\ \E t \in Talks :
          /\ t.by = r /\ t.to # Nothing
          /\ table[r][t.to] # Absent
          /\ main' = [main EXCEPT ![r] = [at |-> "ip", name |-> t.to, ip |-> Nothing,
                                         text |-> t.text]]
    /\ UNCHANGED <<state, announcer, receiver, table, net>>

(* Is recv_any in the middle of the entry main reads, or making a new one? *)
Racing(r) == \/ receiver[r].at \in {"ip", "port"} /\ receiver[r].name = main[r].name
             \/ receiver[r].at = "key" /\ table[r][receiver[r].name] = Absent

ElementAt(r, i) == Entry(r, main[r].name)[i]
HasElement(r, i) == i <= Len(Entry(r, main[r].name))

ReadIp(r) ==
    /\ Running(r)
    /\ main[r].at = "ip"
    /\ HasElement(r, 1)
    /\ main' = [main EXCEPT ![r] = [at |-> "port", name |-> main[r].name,
                                    ip |-> ElementAt(r, 1), text |-> main[r].text]]
    /\ UNCHANGED <<state, announcer, receiver, table, net>>

ReadPort(r) ==
    /\ Running(r)
    /\ main[r].at = "port"
    /\ HasElement(r, 2) /\ ElementAt(r, 2) = Port
    /\ main' = [main EXCEPT ![r].at = "send"]
    /\ UNCHANGED <<state, announcer, receiver, table, net>>

(* stoi() throws if the port is no number, and nobody catches it.          *)
StoiThrows(r) ==
    /\ Running(r)
    /\ main[r].at = "port"
    /\ HasElement(r, 2) /\ ElementAt(r, 2) # Port
    /\ Quit(r, "crashed")

(* An element that is not there, or is being moved.                        *)
ReadCrashes(r) ==
    /\ Running(r)
    /\ \/ main[r].at = "ip" /\ (~HasElement(r, 1) \/ Racing(r))
       \/ main[r].at = "port" /\ (~HasElement(r, 2) \/ Racing(r))
    /\ Quit(r, "crashed")

(* Mutant of SendToPerson: the address is in a variable the threads share. *)
SendToPersonShared(r) ==
    /\ Running(r)
    /\ main[r].at = "send"
    /\ \E ip \in IF receiver[r].ip = Nothing THEN {main[r].ip} ELSE {receiver[r].ip} :
          net' = net \cup {[dst |-> ip, src |-> HostOf[r], text |-> main[r].text,
                           to |-> main[r].name]}
    /\ main' = [main EXCEPT ![r] = Typing]
    /\ UNCHANGED <<state, announcer, receiver, table>>

SendToPerson(r) ==
    /\ Running(r)
    /\ main[r].at = "send"
    /\ net' = net \cup {[dst |-> ip, src |-> HostOf[r], text |-> main[r].text,
                         to |-> main[r].name] : ip \in {h \in {main[r].ip} : Room(h)}}
    /\ main' = [main EXCEPT ![r] = Typing]
    /\ UNCHANGED <<state, announcer, receiver, table>>

Record(r) == MakeKey(r) \/ PushIp(r) \/ PushPort(r)
RecvAny(r, d) == RecvAnnouncement(r, d) \/ RecvShort(r, d) \/ RecvOther(r, d)
SendPrivate(r) == \/ FindPerson(r) \/ ReadIp(r) \/ ReadPort(r) \/ SendToPerson(r)
                  \/ ReadCrashes(r) \/ StoiThrows(r)

Next == \/ \E r \in Runs : \/ Start(r) \/ Stop(r) \/ Subscribe(r)
                           \/ SendMessage(r) \/ SendMessageFails(r)
                           \/ Record(r) \/ SendMessageMult(r) \/ SendPrivate(r)
        \/ \E r \in Runs, d \in net : RecvAny(r, d)
        \/ Lose

Spec == Init /\ [][Next]_vars

(* The threads run; the network and a full socket drop some of the         *)
(* announcements that are sent for ever, and not all; and not each that is *)
(* received fails to make its sender known.                                *)
Heard(r, q) ==
    [dst |-> HostOf[r], src |-> HostOf[q], text |-> Announcement(q), to |-> Nothing]
Arrives(r, q) == SendMessage(q) /\ Heard(r, q) \in net'
Hears(r, q) == RecvAnnouncement(r, Heard(r, q))

LiveSpec == /\ Spec
            /\ \A r \in Runs \ Deaf :
                  /\ WF_vars(Record(r) \/ \E d \in net : RecvAny(r, d))
                  /\ \A q \in Surviving :
                        HostOf[q] # HostOf[r] => SF_vars(Arrives(r, q)) /\ SF_vars(Hears(r, q))

-----------------------------------------------------------------------------
(* Somebody has run on that machine who announces that name, as his own or *)
(* by typing the announcement to one person.                               *)
Announces(q, name) ==
    \/ NameOf[q] = name
    \/ \E t \in Talks : /\ t.by = q /\ t.to # Nothing
                        /\ t.text = [type |-> "ANNOUNCE", name |-> name]

Known(name, host) ==
    \E q \in Runs : state[q] # "new" /\ HostOf[q] = host /\ Announces(q, name)

(* Somebody can have sent that machine a text that is ANNOUNCE only: he    *)
(* typed it to a name known there, or his own announcement was spoiled.    *)
ShortSentTo(host) ==
    \E q \in Runs :
        /\ state[q] # "new"
        /\ q \notin Surviving \/ \E t \in Talks : /\ t.by = q /\ t.to # Nothing
                                                 /\ t.text = Short /\ Known(t.to, host)

(* There are three ways a run dies, and no other: its receiver is in the   *)
(* middle of the entry main reads; it receives a text that is ANNOUNCE and *)
(* nothing else, which no line for everybody is; main reads the port of a  *)
(* whole entry and the system has a name for it.  An unknown name, or an   *)
(* entry that was left half made, is never fatal.                          *)
Dies(r) == state[r] # "crashed" /\ state'[r] = "crashed"

CrashesAreKnown ==
    [][\A r \in Runs : Dies(r) =>
          \/ main[r].at \in {"ip", "port"} /\ Racing(r)
          \/ receiver[r].at = "recvfrom" /\ ShortSentTo(HostOf[r])
          \/ main[r].at = "port" /\ HasElement(r, 2) /\ r \in Named]_vars

(* When the receiver waits, every entry is made of whole pairs.            *)
EntriesAreWhole ==
    \A r \in Runs, n \in Names :
        (receiver[r].at = "recvfrom" /\ table[r][n] # Absent) =>
            /\ Len(table[r][n]) >= 2 /\ Len(table[r][n]) % 2 = 0
            /\ \A i \in 1 .. Len(table[r][n]) : table[r][n][i] = PortText(r) <=> i % 2 = 0

(* A private message goes to a machine from which its name was announced,  *)
(* whatever is being announced, chatted or recorded meanwhile, and be it   *)
(* an announcement itself.                                                 *)
(* (Not to the machine of the latest announcement: the first is kept.)     *)
PrivateGoesToTheName == \A d \in net : d.to # Nothing => Known(d.to, d.dst)

(* An address book: of every name the first address stands as long as the  *)
(* run is on, and private messages go there, whatever is appended later    *)
(* and however the receiver and main take turns.                           *)
Life(r) == CASE state[r] = "new" -> "new" [] Running(r) -> "on" [] OTHER -> "gone"

Address(r, n) ==
    IF Running(r) /\ Entry(r, n) # << >> THEN Entry(r, n)[1] ELSE Nothing

Mail == {[to |-> d.dst, name |-> d.to] : d \in {e \in net : e.to # Nothing}}

Book == INSTANCE AddressBook WITH
            NamesOf <- [q \in Runs |-> {n \in Names : Announces(q, n)}],
            life <- [r \in Runs |-> Life(r)],
            book <- [r \in Runs |-> [n \in Names |-> Address(r, n)]],
            mail <- Mail

ImplementsAddressBook == Book!Spec

(* Two members of the group, one of which announces itself: the other gets *)
(* to know it, though announcements get lost and the first may be garbled. *)
MembersGetKnown ==
    \A r \in Runs \ Deaf, q \in Surviving : HostOf[r] # HostOf[q] =>
        (Running(q) /\ announcer[q] /\ r \in Members)
            ~> \/ table[r][NameOf[q]] # Absent
               \/ ~Running(q) \/ ~announcer[q] \/ r \notin Members
=============================================================================
