----------------------------- MODULE MediaRelay -----------------------------
(***************************************************************************)
(* What one media port of the streaming proxy promises: at most one pair   *)
(* of different sockets, one on each caller's machine, is ever connected,  *)
(* and what one of the two has sent may be passed to the other.  Nothing   *)
(* else leaves the port.  MediaSession implements it.                      *)
(***************************************************************************)
EXTENDS Naturals, Sequences, FiniteSets

CONSTANTS Hosts,         \* host addresses
          Svcs,          \* UDP source port numbers
          HostUser,      \* the machine of the user who accepted the call
          HostPeer,      \* the machine of the user who made the call
          Sources,       \* the sockets that send to the media port
          Payloads       \* what they send: sequences of bytes

Source == [host : Hosts, svc : Svcs]

(* What the constants are; MediaSession assumes it.                       *)
RelayAssumption ==
    /\ HostUser \in Hosts
    /\ HostPeer \in Hosts
    /\ Sources \subseteq Source
    /\ Payloads \subseteq Seq(Nat)

(* The text a char buffer holds: strlen() stops at the first zero byte.    *)
CString(data) ==
    SubSeq(data, 1, Cardinality({i \in DOMAIN data : \A j \in 1 .. i : data[j] # 0}))

Packet == [src : Sources, data : Payloads]

VARIABLES sent,          \* every packet ever sent to the port
          ends,          \* {} or the two connected sockets
          relayed        \* everything the port has sent on

relayVars == <<sent, ends, relayed>>

Init == /\ sent = {}
        /\ ends = {}
        /\ relayed = {}

Send == /\ \E p \in Packet : sent' = sent \cup {p}
        /\ UNCHANGED <<ends, relayed>>

Connect == /\ ends = {}
           /\ \E a, b \in Source :
                /\ a # b
                /\ a.host = HostUser /\ b.host = HostPeer
                /\ {a, b} \subseteq {p.src : p \in sent}
                /\ ends' = {a, b}
           /\ UNCHANGED <<sent, relayed>>

Relay == /\ \E p \in sent : \E b \in ends :
              /\ p.src \in ends
              /\ b # p.src
              /\ relayed' = relayed \cup
                    {[from |-> p.src, to |-> b, data |-> CString(p.data)]}
         /\ UNCHANGED <<sent, ends>>

Next == Send \/ Connect \/ Relay

Spec == Init /\ [][Next]_relayVars
=============================================================================
