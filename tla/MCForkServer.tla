--------------------------- MODULE MCForkServer ---------------------------
(* An instance of ForkServer for TLC.                                      *)
EXTENDS ForkServer

(* Two lines with a port and a command, one without a command, and an      *)
(* empty one at the end, for which the port of the line before is tried    *)
(* again.                                                                  *)
SomeLines == << [port |-> 12345, cmd |-> "echo"], [port |-> 12346, cmd |-> "date"],
                [port |-> 12347, cmd |-> NoCommand], [port |-> NoPort, cmd |-> NoCommand] >>
=============================================================================
