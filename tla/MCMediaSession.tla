--------------------------- MODULE MCMediaSession ---------------------------
(* Instances of MediaSession for TLC: which sockets send to the port.      *)
EXTENDS MediaSession

CONSTANTS h1, h2, s1, s2, s3

At(h, s) == [host |-> h, svc |-> s]

(* Both clients on one machine, as in Project2/README, and a third socket  *)
(* there, such as the one a repeated MEDIA_PORT makes.                     *)
OneMachine == {At(h1, s1), At(h1, s2), At(h1, s3)}
Third == {At(h1, s3)}

Text == <<1>>
Binary == <<1, 0, 2>>
TextAndBinary == {Text, Binary}
=============================================================================
