------------------------------- MODULE Router -------------------------------
(***************************************************************************)
(* The simulated router: route_and_report (Project1/main.cpp) with the     *)
(* address translation of Nattable (Project1/RoutesAnalyser.cpp).  The     *)
(* program is one thread that takes one packet after the other; it is cut  *)
(* at the only loop it has, the search for a free port.                    *)
(*                                                                         *)
(* Ports are kept as the texts they are in the program, because the search *)
(* for a free one works on texts.  The routing table is a constant: module *)
(* RouteTrie is about how it is searched.                                  *)
(***************************************************************************)
EXTENDS Naturals, Sequences, FiniteSets

CONSTANTS Hosts,         \* IP addresses
          Ports,         \* source and destination ports of packets, as texts
          Packets,       \* the lines of standard input
          Info,          \* host -> what report(search(host)) returns
          arp,           \* the hosts in arp.txt
          table,         \* nat.txt: interface -> the address given to it
          PointToPoint,  \* the interfaces called ppp...
          Direct,        \* the gateway 0.0.0.0
          NoSearch,      \* no call of translate_forward
          MaxMappings    \* bound: so many ports are given out

Endpoint == [host : Hosts, port : Ports]

(* Every host is in some network of the table; no port has leading zeros;  *)
(* what nat.txt gives to an interface is an address.                       *)
ASSUME RouterAssumption ==
    /\ Ports \subseteq {p \in Seq(0 .. 9) : p # << >> /\ (p[1] = 0 => Len(p) = 1)}
    /\ Packets \subseteq [source : Endpoint, destination : Endpoint, ttl : Nat]
    /\ DOMAIN Info = Hosts
    /\ \A interface \in DOMAIN table : table[interface] \in Hosts
    /\ MaxMappings \in Nat

VARIABLES transtable,    \* translated endpoint -> original endpoint
          portset,       \* the translated ports
          search,        \* translate_forward's loop, while it runs
          translated,    \* history: every translation made, [from, as]
          report         \* the last line put out, and what it is about

vars == <<transtable, portset, search, translated, report>>

Init == /\ transtable = [e \in {} |-> e]
        /\ portset = {}
        /\ search = NoSearch
        /\ translated = {}
        /\ report = NoSearch

-----------------------------------------------------------------------------
(* Texts.                                                                  *)

(* What << writes for a number, and what >> reads of a text of digits.     *)
Digits[n \in Nat] == IF n < 10 THEN <<n>> ELSE Append(Digits[n \div 10], n % 10)
Number(text) ==
    LET read[k \in Nat] == IF k = 0 THEN 0 ELSE 10 * read[k - 1] + text[k] IN read[Len(text)]

(* The ":" that substr() leaves at the head of a port.                     *)
Colon == 10

-----------------------------------------------------------------------------
(* The line route_and_report writes for packet p.  The only gateway        *)
(* without a MAC is one that is neither known to arp nor on a ppp link; a  *)
(* host on a local network need not have one.                              *)
Line(p, source, destination) ==
    LET info == Info[destination.host] IN
      [packet |-> p, source |-> source, destination |-> destination,
       how |-> CASE p.ttl <= 1 -> "expired"
                 [] p.ttl > 1 /\ info.gateway = Direct -> "direct"
                 [] /\ p.ttl > 1 /\ info.gateway # Direct
                    /\ info.interface \in PointToPoint \/ info.gateway \in arp -> "via"
                 [] OTHER -> "unreachable"]

Interface(p) == Info[p.destination.host].interface

(* No translation: out of an interface that has none.  Without NAT, when   *)
(* nat.txt is empty, every packet takes this way.                          *)
Forward(p) ==
    /\ search = NoSearch
    /\ p.destination \notin DOMAIN transtable
    /\ Interface(p) \notin DOMAIN table
    /\ report' = Line(p, p.source, p.destination)
    /\ UNCHANGED <<transtable, portset, search, translated>>

(* translate_forward, up to the loop.  text and get are the contents and   *)
(* the reading position of the stringstream, temp its int.                 *)
TranslateForward(p) ==
    /\ search = NoSearch
    /\ Cardinality(portset) < MaxMappings
    /\ p.destination \notin DOMAIN transtable
    /\ Interface(p) \in DOMAIN table
    /\ search' = [packet |-> p, port |-> p.source.port,
                  text |-> p.source.port, get |-> 0, temp |-> 0]
    /\ UNCHANGED <<transtable, portset, translated, report>>

(* One pass of the loop.  What is left to read is the number last written; *)
(* with nothing left >> leaves temp alone.  The first << starts at the     *)
(* beginning of the buffer, every later one where the one before ended.    *)
Unread == SubSeq(search.text, search.get + 1, Len(search.text))
Temp == (IF Unread = << >> THEN search.temp ELSE Number(Unread)) + 1
Buffer == IF search.get = 0 THEN Digits[Temp] ELSE search.text \o Digits[Temp]

(* Mutant of NextPort: the stream made inside the loop, from source_port.   *)
NextPortFromSource ==
    /\ search # NoSearch
    /\ search.port \in portset
    /\ search' = [search EXCEPT !.port = Digits[Number(search.packet.source.port) + 1]]
    /\ UNCHANGED <<transtable, portset, translated, report>>

NextPort ==
    /\ search # NoSearch
    /\ search.port \in portset
    /\ search' = [packet |-> search.packet, port |-> Buffer, text |-> Buffer,
                  get |-> Len(search.text), temp |-> Temp]
    /\ UNCHANGED <<transtable, portset, translated, report>>

(* The rest of translate_forward, and the report.                          *)
Public(p) == [host |-> table[Interface(p)], port |-> search.port]

(* Mutant of Map: the port not put into portset.                           *)
MapUnmarked(p) ==
    /\ transtable' = [e \in DOMAIN transtable \cup {Public(p)} |->
                         IF e = Public(p) THEN p.source ELSE transtable[e]]
    /\ portset' = portset

(* Mutant of Map: the destination recorded for the source.                 *)
MapToDestination(p) ==
    /\ transtable' = [e \in DOMAIN transtable \cup {Public(p)} |->
                         IF e = Public(p) THEN p.destination ELSE transtable[e]]
    /\ portset' = portset \cup {search.port}

Map(p) ==
    /\ transtable' = [e \in DOMAIN transtable \cup {Public(p)} |->
                         IF e = Public(p) THEN p.source ELSE transtable[e]]
    /\ portset' = portset \cup {search.port}

(* Mutant of FreePort: the port not looked up in portset.                  *)
FreePortUnchecked ==
    /\ search # NoSearch
    /\ LET p == search.packet IN
         /\ Map(p)
         /\ translated' = translated \cup {[from |-> p.source, as |-> Public(p)]}
         /\ report' = Line(p, Public(p), p.destination)
    /\ search' = NoSearch

FreePort ==
    /\ search # NoSearch
    /\ search.port \notin portset
    /\ LET p == search.packet IN
         /\ Map(p)
         /\ translated' = translated \cup {[from |-> p.source, as |-> Public(p)]}
         /\ report' = Line(p, Public(p), p.destination)
    /\ search' = NoSearch

(* translate_back: the destination is a translated endpoint.  The port is  *)
(* taken from the ":" on, not from behind it.                              *)
TranslateBack(p) ==
    /\ search = NoSearch
    /\ p.destination \in DOMAIN transtable
    /\ LET actual == transtable[p.destination] IN
         report' = Line(p, p.source, [host |-> actual.host, port |-> <<Colon>> \o actual.port])
    /\ UNCHANGED <<transtable, portset, search, translated>>

(* The other side of a connection, or anybody else, sends to an address    *)
(* the NAT gave out.                                                       *)
Answer(p, e) == [source |-> p.destination, destination |-> e, ttl |-> 64]

RouteAndReport(p) == Forward(p) \/ TranslateForward(p) \/ TranslateBack(p)

Next == \/ \E p \in Packets : RouteAndReport(p)
        \/ \E s \in translated, p \in Packets : TranslateBack(Answer(p, s.as))
        \/ NextPort
        \/ FreePort

Spec == Init /\ [][Next]_vars

(* The program goes on by itself once it has read a packet.                *)
LiveSpec == Spec /\ WF_vars(NextPort \/ FreePort)

-----------------------------------------------------------------------------
TypeOK ==
    /\ DOMAIN transtable \subseteq [host : Hosts, port : Seq(0 .. 9)]
    /\ \A e \in DOMAIN transtable : transtable[e] \in Endpoint
    /\ portset = {e.port : e \in DOMAIN transtable}
    /\ search # NoSearch =>
          /\ search \in [packet : Packets, port : Seq(0 .. 9), text : Seq(0 .. 9),
                         get : Nat, temp : Nat]
          /\ search.port = search.text
          /\ search.get <= Len(search.text)
          /\ Interface(search.packet) \in DOMAIN table

(* An endpoint once given out keeps standing for whom it was given to.     *)
MappingsAreKept ==
    [][\A e \in DOMAIN transtable :
          e \in DOMAIN transtable' /\ transtable'[e] = transtable[e]]_vars

(* No two hosts, and no two ports of one host, are ever sent out under the *)
(* same address and port, through whatever interfaces, however their ports *)
(* collide.                                                                *)
NoSharedEndpoint ==
    \A s, t \in translated : s.as = t.as => s.from = t.from

(* What may happen to a packet that has just been read.                    *)
TranslationBegins == search = NoSearch /\ search' # NoSearch
PassedOn == search = NoSearch /\ report' # report

(* Whatever is sent to an endpoint the NAT gave out is passed on to the    *)
(* host it was given to, however long ago, and is not itself translated.    *)
AnswersReachTheSender ==
    [][\A s \in translated :
          /\ TranslationBegins => search'.packet.destination # s.as
          /\ PassedOn /\ report'.packet.destination = s.as =>
                report'.destination.host = s.from.host]_vars

(* Why a search can end: the ports it tries get longer with every pass     *)
(* after the first, so each leaves fewer of the used ones in its way.      *)
InTheWay == {port \in portset : Len(port) >= Len(search.port)}

SearchRunsOut ==
    [][NextPort => /\ search'.port # search.port
                   /\ search'.get # 0
                   /\ search.get # 0 => Cardinality(InTheWay') < Cardinality(InTheWay)]_vars

(* The search for a free port ends.                                        *)
SearchEnds == (search # NoSearch) ~> (search = NoSearch)

(* RoutesAnalyser.cpp:228: the keys of the table are translated "ip:port". *)
EndpointsHavePorts ==
    \A e \in DOMAIN transtable : Number(e.port) <= 65535
=============================================================================
