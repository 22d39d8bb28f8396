---------------------------- MODULE MCCallSystem ----------------------------
(* Instances of CallSystem for TLC.                                        *)
EXTENDS CallSystem, TLC

CONSTANTS ann, bob, cat, dash, c1, c2, c3, h1, h2, h3

(* Bob's client is run twice, as Project2/README:17 advises.               *)
NameOfRerun == c1 :> ann @@ c2 :> bob @@ c3 :> bob
HostOfRerun == c1 :> h1 @@ c2 :> h2 @@ c3 :> h2
BobRerunCallsAnn == c1 :> Nobody @@ c2 :> ann @@ c3 :> ann

(* Three users; two of them call the third.                                *)
NameOfThree == c1 :> ann @@ c2 :> bob @@ c3 :> cat
HostOfThree == c1 :> h1 @@ c2 :> h2 @@ c3 :> h3
BothCallAnn == c1 :> Nobody @@ c2 :> ann @@ c3 :> ann

(* Bob calls ann; the third client's name is not alphanumeric.             *)
NameOfDash == c1 :> ann @@ c2 :> bob @@ c3 :> dash
OnlyBobCallsAnn == c1 :> Nobody @@ c2 :> ann @@ c3 :> Nobody

(* Bound: once a third client is up, nobody refuses a call, the proxy is   *)
(* not restarted, and nothing is explored after a second media socket of   *)
(* the same client; and the threads hear the media of two clients and of   *)
(* the proxy's first run only, with no hang-up on its way.                 *)
Bounded == /\ \/ Cardinality(started) < 3
              \/ /\ restarts = 0
                 /\ \A m \in toProxy : m.type # "CALL_FAILED"
                 /\ \A c \in Clients : Len(media[c]) < 2
           /\ \/ \A s \in sessions : Sources(s) = {}
              \/ /\ Cardinality(started) < 3 /\ restarts = 0
                 /\ \A m \in toProxy : m.type # "CALL_FAILED"
=============================================================================
