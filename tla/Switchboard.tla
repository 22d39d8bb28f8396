---------------------------- MODULE Switchboard ----------------------------
(***************************************************************************)
(* What call set-up through the streaming proxy promises: a media port is  *)
(* given out once by one run of the proxy, to exactly the two users of a   *)
(* call that was made and accepted, and both are told of it in one step.   *)
(* What a user was told of may be forgotten, by the network or by a client *)
(* that ends; nothing else adds to it.  CallSystem implements it.          *)
(***************************************************************************)
CONSTANTS Users,         \* names
          Ports          \* media ports

VARIABLES called,        \* <<caller, callee>> of every call made
          agreed,        \* <<callee, caller>> of every call accepted
          given,         \* the ports this run of the proxy has given out
          uses           \* who is to use which port for whom

switchVars == <<called, agreed, given, uses>>

Use(port, name, peer) == [port |-> port, name |-> name, peer |-> peer]

Init == /\ called = {}
        /\ agreed = {}
        /\ given = {}
        /\ uses = {}

Call == /\ UNCHANGED <<agreed, given, uses>>
        /\ \E caller, callee \in Users : called' = called \cup {<<caller, callee>>}

Agree == /\ UNCHANGED <<called, given, uses>>
         /\ \E caller, callee \in Users :
               /\ <<caller, callee>> \in called
               /\ agreed' = agreed \cup {<<callee, caller>>}

Connect == /\ UNCHANGED <<called, agreed>>
           /\ \E caller, callee \in Users, port \in Ports \ given :
                 /\ <<callee, caller>> \in agreed
                 /\ given' = given \cup {port}
                 /\ uses' = uses \cup {Use(port, caller, callee), Use(port, callee, caller)}

Forget == /\ UNCHANGED <<called, agreed, given>>
          /\ uses' \in SUBSET uses

(* A new run of the proxy begins with the first port again.                *)
Restart == /\ given' = {}
           /\ UNCHANGED <<called, agreed, uses>>

Next == Forget \/ Call \/ Agree \/ Connect \/ Restart

Spec == Init /\ [][Next]_switchVars
=============================================================================
