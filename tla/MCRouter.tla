------------------------------ MODULE MCRouter ------------------------------
(* Instances of Router for TLC: hosts a and b on the router's own network, *)
(* c and d behind gateways of which only c's has an ARP entry, r anywhere  *)
(* else, n the address nat.txt gives to ppp0.                              *)
EXTENDS Router

CONSTANTS a, b, c, d, r, n, gateway, lost, eth0, ppp0

P22 == <<2, 2>>
P9998 == <<9, 9, 9, 8>>
P9999 == <<9, 9, 9, 9>>
P10000 == <<1, 0, 0, 0, 0>>
P10001 == <<1, 0, 0, 0, 1>>
PortTexts == {P22, P9998, P9999, P10000, P10001}

Via(g, i) == [gateway |-> g, interface |-> i]
Routes == [h \in Hosts |-> CASE h \in {a, b} -> Via(Direct, eth0)
                             [] h = c -> Via(gateway, eth0)
                             [] h = d -> Via(lost, eth0)
                             [] OTHER -> Via(r, ppp0)]

NatTable == [i \in {ppp0} |-> n]

At(h, p) == [host |-> h, port |-> p]
Packet(from, to, time) == [source |-> from, destination |-> to, ttl |-> time]

(* Collisions of ports, also one that gets a digit longer; a packet whose  *)
(* time is over; packets to the public address that answer nothing, from   *)
(* outside and from inside; packets that are not translated.               *)
Traffic == {Packet(At(a, P9998), At(r, P22), 9), Packet(At(b, P9998), At(r, P22), 9),
            Packet(At(b, P9999), At(r, P22), 1), Packet(At(r, P22), At(n, P10000), 9),
            Packet(At(a, P9999), At(n, P9999), 9),
            Packet(At(a, P9998), At(c, P22), 9), Packet(At(a, P9998), At(d, P22), 9)}

(* The packets of Project1/pdus.txt that are translated.                   *)
SamePorts == {Packet(At(a, P10001), At(r, P22), 9), Packet(At(b, P10001), At(r, P22), 9)}
=============================================================================
