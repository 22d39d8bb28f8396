-------------------------- MODULE MCMulticastChat --------------------------
(* An instance of MulticastChat for TLC.                                   *)
EXTENDS MulticastChat, TLC

CONSTANTS ann, bob, r1, r2, r3, h1, h2

(* Ann, who joins no group; bob; and bob again on the same machine, where *)
(* he fails to start before he has left, and which by then has a name for  *)
(* the port.  He types announcements too.                                  *)
NameOfThree == r1 :> ann @@ r2 :> bob @@ r3 :> bob
HostOfThree == r1 :> h1 @@ r2 :> h2 @@ r3 :> h2
BobTalks == {[by |-> r2, to |-> bob, text |-> [type |-> "ANNOUNCE", name |-> ann]],
             [by |-> r2, to |-> bob, text |-> Short],
             [by |-> r3, to |-> Nothing, text |-> Chat],
             [by |-> r3, to |-> ann, text |-> Chat]}
=============================================================================
