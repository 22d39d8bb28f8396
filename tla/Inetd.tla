------------------------------- MODULE Inetd -------------------------------
(***************************************************************************)
(* What an inetd promises about each connection: it comes in by one line,  *)
(* is taken once, runs that line's command, once, and is closed when the   *)
(* command has ended and the server has let go of it, not before.          *)
(* A connection that nobody has taken may be reset away.  ForkServer       *)
(* implements it.                                                          *)
(***************************************************************************)
CONSTANTS Connections, Listeners,
          CommandOf,       \* listener -> the command it is for
          NoCommand

VARIABLES phase,           \* connection -> where it is in its life
          line,            \* connection -> the listener it came in by
          ran              \* connection -> the command run for it

inetdVars == <<phase, line, ran>>

Init == /\ phase = [c \in Connections |-> "absent"]
        /\ line = [c \in Connections |-> 0]
        /\ ran = [c \in Connections |-> NoCommand]

Move(c, from, to) == /\ phase[c] \in from
                     /\ \E p \in to : phase' = [phase EXCEPT ![c] = p]

Connect(c) == /\ Move(c, {"absent"}, {"waiting"})
              /\ \E l \in Listeners : line' = [line EXCEPT ![c] = l]
              /\ UNCHANGED ran

Take(c) == Move(c, {"waiting"}, {"open"}) /\ UNCHANGED <<line, ran>>

Run(c) == /\ Move(c, {"open"}, {"running"})
          /\ ran' = [ran EXCEPT ![c] = CommandOf[line[c]]]
          /\ UNCHANGED line

(* The command ends, or there is to be none; the server may still have the *)
(* connection in its hand.                                                 *)
End(c) == Move(c, {"open", "running"}, {"over", "closed"}) /\ UNCHANGED <<line, ran>>

Close(c) == Move(c, {"over", "waiting"}, {"closed"}) /\ UNCHANGED <<line, ran>>

Next == \E c \in Connections : Connect(c) \/ Take(c) \/ Run(c) \/ End(c) \/ Close(c)

Spec == Init /\ [][Next]_inetdVars
=============================================================================
