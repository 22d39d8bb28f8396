----------------------------- MODULE CallClient -----------------------------
(***************************************************************************)
(* The clients of the streaming proxy: Project2/p2_sample_client.js, one   *)
(* handler per action.  Node runs a client's handlers one at a time.       *)
(*                                                                         *)
(* The sample client answers every call with ACK_CALL (Math.random() < 1   *)
(* always holds); a client with another rule may hang up.  Answers says    *)
(* which answers the clients of an instance give.                          *)
(***************************************************************************)
EXTENDS CallNetwork

CONSTANTS Answers,       \* the answers a client may give to a call
          TheirName,     \* the user each client calls (argv[4]), or Nobody
          Nobody,        \* no fourth argument
          MaxMedia       \* bound: media sockets of one client

ASSUME ClientAssumption ==
    /\ Answers \subseteq {"ACK_CALL", "CALL_FAILED"}
    /\ Nobody \notin Users
    /\ TheirName \in [Clients -> Users \cup {Nobody}]
    /\ MaxMedia \in Nat

VARIABLES running,       \* the clients that are up
          started,       \* the clients that have been up
          media,         \* the media sockets each client has created
          heard,         \* the outcomes each client has printed
          accepted       \* history: <<callee, caller>> of every ACK_CALL sent

clientVars == <<running, started, media, heard, accepted>>

Outcome == {"ACK_REGISTER", "ACK_CALL", "CALL_FAILED"}

ClientTypeOK == /\ running \subseteq started
                /\ started \subseteq Clients
                /\ media \in [Clients -> Seq([peer : Users, port : Ports])]
                /\ heard \in [Clients -> SUBSET Outcome]
                /\ accepted \subseteq Users \X Users

ClientInit == /\ running = {}
              /\ started = {}
              /\ media = [c \in Clients |-> << >>]
              /\ heard = [c \in Clients |-> {}]
              /\ accepted = {}

-----------------------------------------------------------------------------
MyRegistration(c) == [type |-> "REGISTER", user |-> NameOf[c], src |-> c]

MyCall(c) == [type |-> "CALL", from |-> NameOf[c], to |-> TheirName[c]]

(* The main program: sendRegister(), then the CALL if a name was given.    *)
(* Nothing makes the CALL wait for the ACK_REGISTER.                       *)
Start(c) ==
    /\ c \notin started
    /\ started' = started \cup {c}
    /\ running' = running \cup {c}
    /\ toProxy' = toProxy \cup {MyRegistration(c)}
                          \cup (IF TheirName[c] = Nobody THEN {} ELSE {MyCall(c)})
    /\ UNCHANGED <<toClient, media, heard, accepted>>

(* Mutant of SendRegister: the timer is cleared by the first ACK_REGISTER. *)
SendRegisterUntilAcked(c) ==
    /\ c \in running
    /\ "ACK_REGISTER" \notin heard[c]
    /\ toProxy' = toProxy \cup {MyRegistration(c)}
    /\ UNCHANGED <<toClient, clientVars>>

(* setInterval(sendRegister, 10000) fires.                                 *)
SendRegister(c) ==
    /\ c \in running
    /\ toProxy' = toProxy \cup {MyRegistration(c)}
    /\ UNCHANGED <<toClient, clientVars>>

(* The user interrupts the program: its sockets are closed.                *)
Stop(c) ==
    /\ c \in running
    /\ running' = running \ {c}
    /\ media' = [media EXCEPT ![c] = << >>]
    /\ UNCHANGED <<started, heard, accepted, networkVars>>

-----------------------------------------------------------------------------
Receive(n) ==
    /\ n \in toClient
    /\ toClient' = AfterReceiving(toClient, n)

(* A datagram for a socket that is closed goes nowhere.                    *)
Unreachable(n) ==
    /\ n.dst \notin running
    /\ Receive(n)
    /\ UNCHANGED <<toProxy, clientVars>>

(* The cases that only print.                                              *)
HearOutcome(n) ==
    /\ n.dst \in running
    /\ n.body.type \in Outcome
    /\ Receive(n)
    /\ heard' = [heard EXCEPT ![n.dst] = @ \cup {n.body.type}]
    /\ UNCHANGED <<toProxy, running, started, media, accepted>>

(* handleCall.  Only a call to myName is answered.                         *)
HandleCall(n) ==
    /\ n.dst \in running
    /\ n.body.type = "CALL"
    /\ n.body.to = NameOf[n.dst]
    /\ Receive(n)
    /\ \E response \in Answers :
        /\ toProxy' = toProxy \cup
              {[type |-> response, from |-> NameOf[n.dst], to |-> n.body.from]}
        /\ accepted' = IF response = "ACK_CALL"
                         THEN accepted \cup {<<NameOf[n.dst], n.body.from>>}
                         ELSE accepted
    /\ UNCHANGED <<running, started, media, heard>>

(* handleMedia and createMediaSocket: every MEDIA_PORT for myName opens    *)
(* one more socket.                                                        *)
HandleMedia(n) ==
    /\ n.dst \in running
    /\ n.body.type = "MEDIA_PORT"
    /\ n.body.to = NameOf[n.dst]
    /\ Len(media[n.dst]) < MaxMedia
    /\ Receive(n)
    /\ media' = [media EXCEPT ![n.dst] =
                   Append(@, [peer |-> n.body.from, port |-> n.body.port])]
    /\ UNCHANGED <<toProxy, running, started, heard, accepted>>

ClientReceive(n) == \/ Unreachable(n)
                    \/ HearOutcome(n)
                    \/ HandleCall(n)
                    \/ HandleMedia(n)
=============================================================================
